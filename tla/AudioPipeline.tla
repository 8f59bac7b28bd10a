---------------------------- MODULE AudioPipeline ----------------------------
(***************************************************************************)
(* The audio pipeline of one recording (audio/pipeline.rs) with the two    *)
(* voice-activity lanes it drives (audio/vad.rs): chunks of the microphone *)
(* and of the system audio come in over one channel, previews and finals   *)
(* of speech go out to transcription, mixed windows to the saver.          *)
(*                                                                         *)
(* Time is counted in frames of the voice-activity detector (30 ms), audio *)
(* by its length.  The detector's session (Silero) is external: after any  *)
(* frame it may announce that speech has started or ended.                 *)
(***************************************************************************)
EXTENDS Naturals, Sequences, FiniteSets, FiniteSetsExt

CONSTANTS
    Window,       \* frames in a mixing window (600 ms)
    MinPreview,   \* MIN_PREVIEW_DURATION_MS (420 ms)
    MinInterval,  \* MIN_PREVIEW_INTERVAL_MS (480 ms)
    MinGrowth,    \* MIN_PREVIEW_GROWTH_SAMPLES (200 ms)
    MinFinal,     \* the 800 samples below which a segment is dropped (50 ms)
    Relative,     \* the session's start times count from the current frame, not from
                  \* the session's beginning (the library decides; either way is checked)
    Flushes,      \* flush signals sent by force_flush_and_stop (1 + 3)
    MaxChunks,    \* bound: audio chunks
    MaxLength     \* bound: frames in a chunk

ASSUME PipelineAssumption ==
    /\ Window \in Nat \ {0} /\ MinFinal \in Nat \ {0} /\ MinGrowth \in Nat \ {0}
    /\ MinPreview \in Nat /\ MinInterval \in Nat \ {0} /\ Flushes \in Nat \ {0}
    /\ Relative \in BOOLEAN /\ MaxChunks \in Nat
    \* A device's buffer is shorter than the shortest preview (and so than a window).
    /\ MaxLength \in Nat \ {0} /\ MaxLength <= MinPreview /\ MaxLength <= Window

Lanes == {"mic_in", "system_out"}

VARIABLES
    control,    \* where RecordingManager is in stopping the pipeline
    senders,    \* who holds a sender of the channel: the state, the manager
    flushes,    \* flush signals sent
    received,   \* audio chunks sent so far (bounds the run)
    channel,    \* the channel: chunks and flush signals
    pipe,       \* the pipeline task
    lane,       \* per lane: ContinuousVadProcessor and LaneStreamingState
    ring,       \* AudioMixerRingBuffer: frames buffered per lane
    windows,    \* mixed windows sent to the saver
    added,      \* frames added to the ring per lane (history)
    listening,  \* the transcription task still has its receiver
    emitted     \* TranscriptionInputs sent, in order; chunk_id is the position

ctl   == <<control, senders, flushes, received>>
mixer == <<ring, windows, added>>
pipelineVars == <<ctl, channel, pipe, lane, mixer, listening, emitted>>

-----------------------------------------------------------------------------
NoId == [lane |-> "none", start |-> 0]

Lane0 ==
    [speaking |-> FALSE,      \* the session has announced a start and no end
     speech |-> 0, begun |-> 0,  \* which speech it is, and its start time
     rest |-> FALSE,          \* buffer: less than a frame is left over
     inSpeech |-> FALSE,      \* in_speech
     current |-> 0,           \* current_speech: its length
     processed |-> 0,         \* processed_samples
     startSample |-> 0,       \* speech_start_sample
     done |-> <<>>,           \* speech_segments
     id |-> NoId,             \* active_segment_id
     lastEnd |-> 0,           \* last_preview_emitted_ms
     lastCount |-> 0]         \* last_preview_sample_count

PipelineInit ==
    /\ control = "recording" /\ senders = {"state", "manager"} /\ flushes = 0
    /\ received = 0 /\ channel = <<>> /\ pipe = "running"
    /\ lane = [l \in Lanes |-> Lane0]
    /\ ring = [l \in Lanes |-> 0] /\ windows = 0 /\ added = [l \in Lanes |-> 0]
    /\ listening = TRUE /\ emitted = <<>>

(***************************************************************************)
(* A lane's voice-activity detector.                                       *)
(***************************************************************************)

\* process_chunk: one frame, at which the session may change its mind.
SpeechStarts(L) ==
    [L EXCEPT !.speaking = TRUE, !.speech = @ + 1, !.begun = L.processed,
              !.inSpeech = TRUE, !.current = 0,
              !.startSample = L.processed + (IF Relative THEN 0 ELSE L.processed)]

\* The end carries the samples of the whole speech, never fewer than MinFinal.
SpeechEnds(L) ==
    [L EXCEPT !.speaking = FALSE, !.inSpeech = FALSE, !.current = 0,
              !.done = Append(@, [speech |-> L.speech, start |-> L.begun,
                                  end |-> L.processed, length |-> MinFinal])]

Frame(L, changes) ==
    LET M == IF ~changes THEN L ELSE IF L.speaking THEN SpeechEnds(L) ELSE SpeechStarts(L)
    IN  [M EXCEPT !.current = IF M.inSpeech THEN @ + 1 ELSE @, !.processed = @ + 1]

\* process_audio: the whole frames of a chunk.
ProcessAudio(L, frames, rest) ==
    LET heard[n \in 0..Len(frames)] == IF n = 0 THEN L ELSE Frame(heard[n - 1], frames[n])
    IN  [heard[Len(frames)] EXCEPT !.rest = rest]

\* Mutant: the speech that a flush has ended goes on.
FlushKeeps(L, changes) ==
    LET M == IF L.rest THEN Frame([L EXCEPT !.rest = FALSE], changes) ELSE L
    IN  IF M.inSpeech /\ M.current > 0
        THEN [M EXCEPT !.done = Append(@, [speech |-> M.speech, start |-> M.startSample,
                                           end |-> M.processed, length |-> M.current])]
        ELSE M

\* flush: a padded last frame, then the speech under way is ended; the session
\* itself is not told.
FlushLane(L, changes) ==
    LET M == IF L.rest THEN Frame([L EXCEPT !.rest = FALSE], changes) ELSE L
    IN  IF M.inSpeech /\ M.current > 0
        THEN [M EXCEPT !.done = Append(@, [speech |-> M.speech, start |-> M.startSample,
                                           end |-> M.processed, length |-> M.current]),
                       !.current = 0, !.inSpeech = FALSE]
        ELSE M

(***************************************************************************)
(* Previews and finals.                                                    *)
(***************************************************************************)
ClearSegment(L) == [L EXCEPT !.id = NoId, !.lastEnd = 0, !.lastCount = 0]

\* current_segment_id: named after the start it is first asked for.
SegmentId(l, L, start) == IF L.id # NoId THEN L.id ELSE [lane |-> l, start |-> start]

\* Mutant: a preview is sent for every chunk of a speech.
PreviewAlways(L) ==
    L.inSpeech /\ L.current > 0 /\ L.processed >= L.startSample + MinPreview

\* maybe_emit_live_preview: the speech is long enough, and time has passed or
\* audio has come in since the last preview.
PreviewDue(L) ==
    /\ L.inSpeech /\ L.current > 0
    /\ L.processed >= L.startSample + MinPreview
    /\ \/ L.lastCount = 0
       \/ L.processed >= L.lastEnd + MinInterval
       \/ L.current >= L.lastCount + MinGrowth

AfterPreview(l, L) ==
    IF ~(L.inSpeech /\ L.current > 0) THEN ClearSegment(L)
    ELSE IF PreviewDue(L)
         THEN [L EXCEPT !.id = SegmentId(l, L, L.startSample),
                        !.lastEnd = L.processed, !.lastCount = L.current]
         ELSE L

PreviewOf(l, L) ==
    IF PreviewDue(L)
    THEN <<[seg |-> SegmentId(l, L, L.startSample), speech |-> L.speech,
            end |-> L.processed, final |-> FALSE]>>
    ELSE <<>>

\* The segments that are long enough to be worth transcribing.
Finals(L) ==
    LET long[n \in 0..Len(L.done)] ==
            IF n = 0 THEN <<>>
            ELSE IF L.done[n].length < MinFinal THEN long[n - 1]
            ELSE Append(long[n - 1], L.done[n])
    IN  long[Len(L.done)]

\* emit_final_segments: the first final takes the lane's segment id if there is
\* one, the others are named after their own start.
FinalsOf(l, L) ==
    [i \in 1..Len(Finals(L)) |->
        LET s == Finals(L)[i] IN
        [seg |-> SegmentId(l, IF i = 1 THEN L ELSE ClearSegment(L), s.start),
         speech |-> s.speech, end |-> s.end, final |-> TRUE]]

AfterFinals(L) ==
    [(IF Finals(L) # <<>> THEN ClearSegment(L) ELSE L) EXCEPT !.done = <<>>]

\* emit_transcription_input: without a receiver the send fails and is logged.
Emit(out) == emitted' = IF listening THEN emitted \o out ELSE emitted

(***************************************************************************)
(* The mixer.                                                              *)
(***************************************************************************)

\* Mutant: mix only when both lanes have a window.
MixBoth(filled) == Min({filled[l] \div Window : l \in Lanes})

\* while can_mix: windows are taken as long as either lane has one, and the lane
\* that has less is padded with silence.
Mixable(filled) == Max({filled[l] \div Window : l \in Lanes})

\* add_samples (the oldest are dropped above eight windows), then the loop.
Mix(l, length) ==
    LET filled == [ring EXCEPT ![l] = Min({@ + length, 8 * Window})]
        taken  == Mixable(filled) * Window
    IN  /\ ring' = [k \in Lanes |-> IF filled[k] > taken THEN filled[k] - taken ELSE 0]
        /\ windows' = windows + Mixable(filled)
        /\ added' = [added EXCEPT ![l] = @ + length]

(***************************************************************************)
(* The pipeline task: one item of the channel at a time, without an await. *)
(***************************************************************************)

\* An audio chunk: detect, preview, finals, mix.
PipeChunk(frames, rest) ==
    /\ pipe = "running" /\ channel # <<>>
    /\ LET c == Head(channel)
           heard   == ProcessAudio(lane[c.lane], frames, rest)
           shown   == AfterPreview(c.lane, heard)
       IN /\ c.kind = "audio"
          /\ Len(frames) \in {c.length - 1, c.length}
          /\ Len(frames) < c.length => rest
          /\ Emit(PreviewOf(c.lane, heard) \o FinalsOf(c.lane, shown))
          /\ lane' = [lane EXCEPT ![c.lane] = AfterFinals(shown)]
          /\ Mix(c.lane, c.length)
    /\ channel' = Tail(channel)
    /\ UNCHANGED <<ctl, pipe, listening>>

\* flush_remaining_audio: both lanes, the microphone first.
FlushAll(changes) ==
    LET mic == FlushLane(lane["mic_in"], changes["mic_in"])
        sys == FlushLane(lane["system_out"], changes["system_out"])
    IN  /\ Emit(FinalsOf("mic_in", mic) \o FinalsOf("system_out", sys))
        /\ lane' = [l \in Lanes |-> AfterFinals(IF l = "mic_in" THEN mic ELSE sys)]

PipeFlush(changes) ==
    /\ pipe = "running" /\ channel # <<>> /\ Head(channel).kind = "flush"
    /\ FlushAll(changes)
    /\ channel' = Tail(channel)
    /\ UNCHANGED <<ctl, pipe, mixer, listening>>

\* The channel is closed and drained: flush once more and return.
PipeEnd(changes) ==
    /\ pipe = "running" /\ channel = <<>> /\ senders = {}
    /\ FlushAll(changes)
    /\ pipe' = "ended"
    /\ UNCHANGED <<ctl, channel, mixer, listening>>

(***************************************************************************)
(* Around it: the streams, the manager and the transcription task.         *)
(***************************************************************************)

\* AudioCapture sends a chunk of a stream.
Capture(l, length) ==
    /\ "state" \in senders /\ received < MaxChunks
    /\ received' = received + 1
    /\ channel' = Append(channel, [kind |-> "audio", lane |-> l, length |-> length])
    /\ UNCHANGED <<control, senders, flushes, pipe, lane, mixer, listening,
                   emitted>>

\* report_error gives up: the state's sender is dropped.
AudioFails ==
    /\ control = "recording" /\ "state" \in senders
    /\ senders' = senders \ {"state"}
    /\ UNCHANGED <<control, flushes, received, channel, pipe, lane, mixer,
                   listening, emitted>>

\* Mutant: the streams go on while the pipeline is flushed.
StopStreamsLater ==
    /\ control = "recording"
    /\ control' = "flushing"
    /\ UNCHANGED <<senders, flushes, received, channel, pipe, lane, mixer,
                   listening, emitted>>

\* stop_streams_and_force_flush: the state and the streams are stopped first.
StopStreams ==
    /\ control = "recording"
    /\ control' = "flushing"
    /\ senders' = senders \ {"state"}
    /\ UNCHANGED <<flushes, received, channel, pipe, lane, mixer, listening,
                   emitted>>

\* force_flush_and_stop: a flush signal, a pause, and three more.
FlushSignal ==
    /\ control = "flushing" /\ flushes < Flushes
    /\ flushes' = flushes + 1
    /\ channel' = Append(channel, [kind |-> "flush", lane |-> "mic_in", length |-> 0])
    /\ UNCHANGED <<control, senders, received, pipe, lane, mixer, listening,
                   emitted>>

\* Mutant: the manager waits while it still holds its sender.
StopKeepsSender ==
    /\ control = "flushing" /\ flushes = Flushes
    /\ control' = "joining"
    /\ UNCHANGED <<senders, flushes, received, channel, pipe, lane, mixer,
                   listening, emitted>>

\* stop: drop the manager's sender, then wait for the task.
StopPipeline ==
    /\ control = "flushing" /\ flushes = Flushes
    /\ senders' = {}
    /\ control' = "joining"
    /\ UNCHANGED <<flushes, received, channel, pipe, lane, mixer, listening,
                   emitted>>

\* The manager is dropped without a stop (a start that failed or was overtaken).
Abandon ==
    /\ control = "recording"
    /\ senders' = {}
    /\ control' = "abandoned"
    /\ UNCHANGED <<flushes, received, channel, pipe, lane, mixer, listening,
                   emitted>>

\* The transcription task has ended early: its engine could not be initialised.
TranscriptionGone ==
    /\ listening /\ pipe = "running"
    /\ listening' = FALSE
    /\ UNCHANGED <<ctl, channel, pipe, lane, mixer, emitted>>

Terminated ==
    /\ pipe = "ended"
    /\ UNCHANGED pipelineVars

-----------------------------------------------------------------------------
Changes == [Lanes -> BOOLEAN]

Pipe ==
    \/ \E n \in 0..MaxLength : \E frames \in [1..n -> BOOLEAN], rest \in BOOLEAN :
          PipeChunk(frames, rest)
    \/ \E changes \in Changes : PipeFlush(changes) \/ PipeEnd(changes)

Manager == StopStreams \/ FlushSignal \/ StopPipeline \/ Abandon

PipelineNext ==
    \/ Pipe \/ Manager \/ AudioFails \/ TranscriptionGone \/ Terminated
    \/ \E l \in Lanes, n \in 1..MaxLength : Capture(l, n)

PipelineSpec == PipelineInit /\ [][PipelineNext]_pipelineVars

\* The runtime polls the pipeline task; nobody has to speak or to stop.
FairSpec == PipelineSpec /\ WF_pipelineVars(Pipe)

-----------------------------------------------------------------------------
(***************************************************************************)
(* Properties.                                                             *)
(***************************************************************************)
Segment == [lane : Lanes \cup {"none"}, start : Nat]

LaneState ==
    [speaking : BOOLEAN, speech : Nat, begun : Nat, rest : BOOLEAN, inSpeech : BOOLEAN,
     current : Nat, processed : Nat, startSample : Nat, done : {<<>>}, id : Segment,
     lastEnd : Nat, lastCount : Nat]

\* Every variable stays in its type; between two items of the channel no finished
\* segment is left behind in a lane.
PipelineTypeOK ==
    /\ control \in {"recording", "flushing", "joining", "abandoned"}
    /\ senders \subseteq {"state", "manager"}
    /\ flushes \in 0..Flushes /\ received \in 0..MaxChunks
    /\ channel \in Seq([kind : {"audio", "flush"}, lane : Lanes, length : 0..MaxLength])
    /\ pipe \in {"running", "ended"}
    /\ listening \in BOOLEAN
    /\ lane \in [Lanes -> LaneState]
    /\ ring \in [Lanes -> Nat] /\ windows \in Nat /\ added \in [Lanes -> Nat]
    /\ emitted \in Seq([seg : Segment, speech : Nat, end : Nat, final : BOOLEAN])

FinalsFor(l, k) ==
    {i \in 1..Len(emitted) :
        emitted[i].final /\ emitted[i].seg.lane = l /\ emitted[i].speech = k}

\* Every speech the detector heard becomes one final, however it ends: by the
\* detector, by the first of the flush signals or by the close of the channel.
\* The exception is a speech cut off so early that it is below MinFinal.
SpeechOnce ==
    \A l \in Lanes : \A k \in 1..lane[l].speech :
        /\ Cardinality(FinalsFor(l, k)) <= 1
        /\ pipe = "ended" /\ listening /\ FinalsFor(l, k) = {} =>
               k = lane[l].speech /\ lane[l].processed < lane[l].begun + MinFinal

\* What the transcription task relies on: per segment id, the previews grow, and
\* nothing follows the final.
SegmentDiscipline ==
    \A i, j \in 1..Len(emitted) : i < j /\ emitted[i].seg = emitted[j].seg =>
        ~emitted[i].final /\ (~emitted[j].final => emitted[i].end < emitted[j].end)

\* The mixer never gets to drop samples: between two chunks less than a window of
\* either lane is waiting, which is also all that can be missing from the saved
\* audio at the end.  What has been saved is at least as long as what came out of
\* each lane, and no longer than the two lanes one after the other.
MixConserves ==
    /\ \A l \in Lanes : ring[l] < Window /\ added[l] <= windows * Window + ring[l]
    /\ windows * Window + ring["mic_in"] + ring["system_out"]
           <= added["mic_in"] + added["system_out"]

\* The stop waits for the pipeline without a timeout, and the pipeline ends.
PipelineEnds == control \in {"joining", "abandoned"} ~> pipe = "ended"

\* What indexedDBService.ts says of segment_id, "stable live segment identity": the
\* final of a speech carries the id of its previews.
StableIdentity ==
    \A i, j \in 1..Len(emitted) :
        emitted[i].seg.lane = emitted[j].seg.lane /\ emitted[i].speech = emitted[j].speech
            => emitted[i].seg = emitted[j].seg
=============================================================================
