--------------------------- MODULE RecordingSaver ---------------------------
(***************************************************************************)
(* How one recording reaches the disk, and how it is recovered after the   *)
(* process dies: RecordingSaver (audio/recording_saver.rs), the            *)
(* IncrementalAudioSaver it drives and the recovery commands               *)
(* (audio/incremental_saver.rs), and the order in which the frontend's     *)
(* recoverMeeting (hooks/useTranscriptRecovery.ts) calls them.             *)
(*                                                                         *)
(* Audio is abstracted to numbered chunks.  A checkpoint file holds a set  *)
(* of chunks; audio.mp4 is the sequence of checkpoints it was made from.   *)
(* ffmpeg is external: it creates its output first and then either         *)
(* completes it or leaves it unreadable.                                   *)
(***************************************************************************)
EXTENDS Naturals, Sequences, FiniteSets

CONSTANTS
    Interval,    \* chunks in a checkpoint (30 s of audio in the code)
    MaxChunks,   \* bound: audio chunks the pipeline sends
    MaxSegs,     \* bound: final transcript segments
    NameLimit,   \* checkpoints whose "{:03}" name has three digits (1000)
    Radix        \* digits are base Radix (10)

ASSUME SaverAssumption ==
    /\ Interval \in Nat \ {0} /\ MaxChunks \in Nat /\ MaxSegs \in Nat
    /\ NameLimit \in Nat \ {0} /\ Radix \in Nat \ {0}

VARIABLES
    \* the process
    up,            \* it is running
    chan,          \* the saver's channel: chunk numbers
    senderOpen,    \* the pipeline still holds the sender
    isSaving,      \* is_saving
    task,          \* the accumulation task
    taskChunk,     \* the chunk it has received and not yet looked at
    buffer,        \* checkpoint_buffer
    count,         \* checkpoint_count
    segments,      \* transcript_segments: how many are in memory
    phase,         \* where stop_and_save is
    hasSaver,      \* incremental_saver is Some
    hasFolder,     \* meeting_folder is Some
    \* the meeting folder on disk
    files,         \* .checkpoints/audio_chunk_NNN.mp4: "none", "partial", "good"
    contents,      \* the chunks encoded into checkpoint i
    audio,         \* audio.mp4: its state and the checkpoints in it, in order
    transcripts,   \* segments in transcripts.json
    status,        \* metadata.json "status"
    \* the recovery after a restart
    recovery,      \* where recoverMeeting is
    saved,         \* the meeting is marked saved in IndexedDB
    \* history
    sent,          \* chunks sent by the pipeline
    accepted,      \* chunks that add_chunk has taken
    added          \* transcript segments added

input   == <<chan, senderOpen, sent>>
taskV   == <<task, taskChunk, buffer, count, accepted>>
setup   == <<hasSaver, hasFolder>>
meeting == <<segments, transcripts, added>>
disk    == <<files, contents, audio>>
rec     == <<recovery, saved>>
vars == <<up, input, isSaving, taskV, phase, setup, meeting, disk, status, rec>>

-----------------------------------------------------------------------------
Index == 0..MaxChunks      \* a checkpoint holds at least one chunk

NoAudio      == [state |-> "none", parts |-> <<>>]
PartialAudio == [state |-> "partial", parts |-> <<>>]

GoodFiles    == {i \in Index : files[i] = "good"}
PresentFiles == {i \in Index : files[i] # "none"}

\* The chunks that can be played back from audio.mp4.
InAudio == UNION {contents[audio.parts[k]] : k \in 1..Len(audio.parts)}

\* The chunks on disk in some readable form.
OnDisk == InAudio \cup UNION {contents[i] : i \in GoodFiles}

\* `checkpoint_files.sort_by_key(|entry| entry.path())': four-digit names sort
\* right after the three-digit name they begin with.
NameKey(i) == IF i < NameLimit THEN i * (Radix + 1)
              ELSE (i \div Radix) * (Radix + 1) + 1 + (i % Radix)

SortedByName(S) ==
    [k \in 1..Cardinality(S) |->
        CHOOSE i \in S : Cardinality({j \in S : NameKey(j) < NameKey(i)}) = k - 1]

-----------------------------------------------------------------------------
\* start_accumulation.  With auto_save there is an incremental saver, unless
\* create_meeting_folder failed, and a meeting folder, unless that or
\* write_metadata failed; without auto_save there is at most the folder.
Init ==
    /\ hasSaver \in BOOLEAN /\ hasFolder \in BOOLEAN
    /\ status = IF hasFolder THEN "recording" ELSE "none"
    /\ up = TRUE /\ chan = <<>> /\ senderOpen = TRUE /\ isSaving = TRUE
    /\ task = "recv" /\ taskChunk = 0 /\ buffer = {} /\ count = 0
    /\ segments = 0 /\ phase = "recording"
    /\ files = [i \in Index |-> "none"] /\ contents = [i \in Index |-> {}]
    /\ audio = NoAudio /\ transcripts = 0
    /\ recovery = "idle" /\ saved = FALSE
    /\ sent = 0 /\ accepted = {} /\ added = 0

(***************************************************************************)
(* The pipeline and the transcript listener.                               *)
(***************************************************************************)
PipelineSend ==
    /\ up /\ senderOpen /\ sent < MaxChunks
    /\ sent' = sent + 1
    /\ chan' = Append(chan, sent + 1)
    /\ UNCHANGED <<up, senderOpen, isSaving, taskV, phase, setup, meeting, disk,
                   status, rec>>

\* The pipeline has ended (force_flush_and_stop) and its sender is gone.
PipelineEnd ==
    /\ up /\ senderOpen
    /\ senderOpen' = FALSE
    /\ UNCHANGED <<up, chan, sent, isSaving, taskV, phase, setup, meeting, disk,
                   status, rec>>

\* write_transcripts_json: every segment, into a temporary file that then takes
\* the place of transcripts.json.
WriteTranscriptsJson(written, many) ==
    transcripts' = IF hasFolder /\ written THEN many ELSE transcripts

\* add_transcript_segment: keep the segment, then rewrite transcripts.json
\* (temporary file and rename), which may fail with only a warning.
AddTranscriptSegment(written) ==
    /\ up /\ phase = "recording" /\ added < MaxSegs
    /\ added' = added + 1
    /\ segments' = segments + 1
    /\ WriteTranscriptsJson(written, segments + 1)
    /\ UNCHANGED <<up, input, isSaving, taskV, phase, setup, disk, status, rec>>

(***************************************************************************)
(* The accumulation task.                                                  *)
(***************************************************************************)
TaskRecv ==
    /\ up /\ task = "recv" /\ chan # <<>>
    /\ taskChunk' = Head(chan) /\ chan' = Tail(chan)
    /\ task' = "check"
    /\ UNCHANGED <<up, senderOpen, sent, isSaving, buffer, count, accepted, phase,
                   setup, meeting, disk, status, rec>>

\* The channel is closed, or the task finds that saving has stopped: it ends,
\* and what is still in its hand and in the channel goes with it.
TaskEnd ==
    /\ up
    /\ \/ task = "recv" /\ chan = <<>> /\ ~senderOpen
       \/ task = "check" /\ ~isSaving
    /\ task' = "ended" /\ chan' = <<>>
    /\ UNCHANGED <<up, senderOpen, sent, isSaving, taskChunk, buffer, count,
                   accepted, phase, setup, meeting, disk, status, rec>>

\* Auto-save is off, or there is no incremental saver: the chunk is discarded.
TaskDiscard ==
    /\ up /\ task = "check" /\ isSaving /\ ~hasSaver
    /\ task' = "recv"
    /\ UNCHANGED <<up, input, isSaving, taskChunk, buffer, count, accepted, phase,
                   setup, meeting, disk, status, rec>>

\* add_chunk under the saver's lock: buffer the chunk, and encode a checkpoint
\* when the buffer is long enough.  The 200 ms sleep of stop_and_save is taken to
\* cover the instant between the flag check and the lock.
TaskAddChunk ==
    /\ up /\ task = "check" /\ isSaving /\ hasSaver
    /\ buffer' = buffer \cup {taskChunk}
    /\ accepted' = accepted \cup {taskChunk}
    /\ task' = IF Cardinality(buffer') >= Interval THEN "encode" ELSE "recv"
    /\ UNCHANGED <<up, input, isSaving, taskChunk, count, phase, setup, meeting,
                   disk, status, rec>>

(***************************************************************************)
(* save_checkpoint, called by add_chunk and by finalize, lock held.        *)
(***************************************************************************)
InTask     == up /\ task \in {"encode", "encoding"}
InFinalize == up /\ phase \in {"flush", "flushing"}

\* ffmpeg creates the checkpoint; without -y it refuses an existing file.
EncodeStart ==
    /\ files[count] = "none"
    /\ files' = [files EXCEPT ![count] = "partial"]
    /\ contents' = [contents EXCEPT ![count] = buffer]
    /\ \/ InTask /\ task = "encode" /\ task' = "encoding" /\ UNCHANGED phase
       \/ InFinalize /\ phase = "flush" /\ phase' = "flushing" /\ UNCHANGED task
    /\ UNCHANGED <<up, input, isSaving, taskChunk, buffer, count, accepted, setup,
                   meeting, audio, status, rec>>

\* Mutant: the buffer is not cleared after a checkpoint.
EncodeOkKeepsBuffer ==
    /\ files' = [files EXCEPT ![count] = "good"]
    /\ count' = count + 1
    /\ \/ InTask /\ task = "encoding" /\ task' = "recv" /\ UNCHANGED phase
       \/ InFinalize /\ phase = "flushing" /\ phase' = "merge" /\ UNCHANGED task
    /\ UNCHANGED <<up, input, isSaving, taskChunk, buffer, accepted, setup, meeting,
                   contents, audio, status, rec>>

\* The file is complete: count it and clear the buffer.
EncodeOk ==
    /\ files' = [files EXCEPT ![count] = "good"]
    /\ count' = count + 1
    /\ buffer' = {}
    /\ \/ InTask /\ task = "encoding" /\ task' = "recv" /\ UNCHANGED phase
       \/ InFinalize /\ phase = "flushing" /\ phase' = "merge" /\ UNCHANGED task
    /\ UNCHANGED <<up, input, isSaving, taskChunk, accepted, setup, meeting,
                   contents, audio, status, rec>>

\* An error, before or after ffmpeg made the file: the buffer is kept, add_chunk
\* only logs, finalize gives up and stop_and_save returns Err.
EncodeFail ==
    /\ \/ InTask /\ task' = "recv" /\ UNCHANGED phase
       \/ InFinalize /\ phase' = "failed" /\ UNCHANGED task
    /\ UNCHANGED <<up, input, isSaving, taskChunk, buffer, count, accepted, setup,
                   meeting, disk, status, rec>>

(***************************************************************************)
(* stop_and_save.                                                          *)
(***************************************************************************)

\* Clear is_saving, then sleep 200 ms "to give time for final chunks".
StopSaving ==
    /\ up /\ phase = "recording"
    /\ isSaving' = FALSE
    /\ phase' = "stopping"
    /\ UNCHANGED <<up, input, taskV, setup, meeting, disk, status, rec>>

\* No incremental saver: return Ok(None), leaving the files as they are.
SkipAudio ==
    /\ up /\ phase = "stopping" /\ ~hasSaver
    /\ phase' = "skipped"
    /\ UNCHANGED <<up, input, isSaving, taskV, setup, meeting, disk, status, rec>>

\* finalize takes the lock, which a checkpoint being encoded still holds.
\* Nothing buffered and no checkpoint is an error.
Finalize ==
    /\ up /\ phase = "stopping" /\ hasSaver
    /\ task \notin {"encode", "encoding"}
    /\ phase' = IF buffer # {} THEN "flush"
                ELSE IF count = 0 THEN "failed" ELSE "merge"
    /\ UNCHANGED <<up, input, isSaving, taskV, setup, meeting, disk, status, rec>>

\* ffmpeg -y truncates audio.mp4 first; merge_checkpoints needs every file.
MergeStart ==
    /\ up /\ phase = "merge"
    /\ \A i \in 0..count-1 : files[i] # "none"
    /\ audio' = PartialAudio
    /\ phase' = "merging"
    /\ UNCHANGED <<up, input, isSaving, taskV, setup, meeting, files, contents,
                   status, rec>>

MergeOk ==
    /\ up /\ phase = "merging"
    /\ \A i \in 0..count-1 : files[i] = "good"
    /\ audio' = [state |-> "good", parts |-> [k \in 1..count |-> k - 1]]
    /\ phase' = "remove"
    /\ UNCHANGED <<up, input, isSaving, taskV, setup, meeting, files, contents,
                   status, rec>>

\* A missing file, no ffmpeg, or a failed ffmpeg: stop_and_save returns Err
\* before the final transcripts and metadata are written.
MergeFail ==
    /\ up /\ phase \in {"merge", "merging"}
    /\ phase' = "failed"
    /\ UNCHANGED <<up, input, isSaving, taskV, setup, meeting, disk, status, rec>>

\* Mutant: the checkpoints are removed while the merge is running.
RemoveEarly(i) ==
    /\ up /\ phase \in {"merging", "remove"} /\ files[i] # "none"
    /\ files' = [files EXCEPT ![i] = "none"]
    /\ UNCHANGED <<up, input, isSaving, taskV, phase, setup, meeting, contents,
                   audio, status, rec>>

\* remove_dir_all deletes file by file, in directory order.
RemoveCheckpoint(i) ==
    /\ up /\ phase = "remove" /\ files[i] # "none"
    /\ files' = [files EXCEPT ![i] = "none"]
    /\ UNCHANGED <<up, input, isSaving, taskV, phase, setup, meeting, contents,
                   audio, status, rec>>

\* The directory is gone, or removing it failed, which is not fatal.
RemoveDone ==
    /\ up /\ phase = "remove"
    /\ phase' = "write_transcripts"
    /\ UNCHANGED <<up, input, isSaving, taskV, setup, meeting, disk, status, rec>>

\* Mutant: an error of the final write is only logged.
WriteTranscriptsOrWarn(written) ==
    /\ up /\ phase = "write_transcripts"
    /\ transcripts' = IF hasFolder /\ written THEN segments ELSE transcripts
    /\ phase' = "write_metadata"
    /\ UNCHANGED <<up, input, isSaving, taskV, setup, segments, added, disk, status,
                   rec>>

\* The final transcripts.json; an error ends stop_and_save.
WriteTranscripts(written) ==
    /\ up /\ phase = "write_transcripts"
    /\ WriteTranscriptsJson(written, segments)
    /\ phase' = IF hasFolder /\ ~written THEN "failed" ELSE "write_metadata"
    /\ UNCHANGED <<up, input, isSaving, taskV, setup, segments, added, disk, status,
                   rec>>

\* metadata.json is marked completed, recording-saved is emitted and the
\* segments are cleared.
WriteMetadata(written) ==
    /\ up /\ phase = "write_metadata"
    /\ status' = IF hasFolder /\ written THEN "completed" ELSE status
    /\ phase' = IF hasFolder /\ ~written THEN "failed" ELSE "saved"
    /\ segments' = IF phase' = "saved" THEN 0 ELSE segments
    /\ UNCHANGED <<up, input, isSaving, taskV, setup, transcripts, added, disk,
                   rec>>

\* The frontend has saved the meeting after the stop (markMeetingSaved).
FrontendSaves ==
    /\ up /\ phase \in {"saved", "skipped", "failed"} /\ ~saved
    /\ saved' = TRUE
    /\ UNCHANGED <<up, input, isSaving, taskV, phase, setup, meeting, disk, status,
                   recovery>>

(***************************************************************************)
(* The process dies (or quits) and the user later recovers the meeting.    *)
(***************************************************************************)
Crash ==
    /\ up
    /\ up' = FALSE
    /\ UNCHANGED <<input, isSaving, taskV, phase, setup, meeting, disk, status, rec>>

MayRecover == ~up /\ hasFolder /\ ~saved /\ recovery \in {"idle", "retry"}

\* recover_audio_from_checkpoints: every .mp4 in .checkpoints, sorted by name,
\* is concatenated over audio.mp4; without any file the status is "none".
RecoverNothing ==
    /\ MayRecover
    /\ PresentFiles = {}
    /\ recovery' = "recovered"
    /\ UNCHANGED <<up, input, isSaving, taskV, phase, setup, meeting, disk, status,
                   saved>>

RecoverStart ==
    /\ MayRecover
    /\ PresentFiles # {}
    /\ audio' = PartialAudio
    /\ recovery' = "merging"
    /\ UNCHANGED <<up, input, isSaving, taskV, phase, setup, meeting, files,
                   contents, status, saved>>

RecoverOk ==
    /\ ~up /\ recovery = "merging"
    /\ PresentFiles = GoodFiles
    /\ audio' = [state |-> "good", parts |-> SortedByName(PresentFiles)]
    /\ recovery' = "recovered"
    /\ UNCHANGED <<up, input, isSaving, taskV, phase, setup, meeting, files,
                   contents, status, saved>>

\* Status "failed": an unreadable checkpoint, or ffmpeg itself.
RecoverFail ==
    /\ ~up
    /\ \/ recovery = "merging"
       \/ MayRecover /\ PresentFiles # {}
    /\ recovery' = "recover_failed"
    /\ UNCHANGED <<up, input, isSaving, taskV, phase, setup, meeting, disk, status,
                   saved>>

\* recoverMeeting saves the meeting whatever the audio status was, marks it saved
\* and then removes the checkpoints; when the save fails the user may try again.
RecoverSaveMeeting(ok) ==
    /\ ~up /\ recovery \in {"recovered", "recover_failed"}
    /\ saved' = ok
    /\ recovery' = IF ok THEN "cleanup" ELSE "retry"
    /\ UNCHANGED <<up, input, isSaving, taskV, phase, setup, meeting, disk, status>>

\* cleanup_checkpoints.
CleanupCheckpoints ==
    /\ ~up /\ recovery = "cleanup"
    /\ files' = [i \in Index |-> "none"]
    /\ recovery' = "done"
    /\ UNCHANGED <<up, input, isSaving, taskV, phase, setup, meeting, contents,
                   audio, status, saved>>

-----------------------------------------------------------------------------
Pipeline == PipelineSend \/ PipelineEnd \/ \E b \in BOOLEAN : AddTranscriptSegment(b)

Task == TaskRecv \/ TaskEnd \/ TaskDiscard \/ TaskAddChunk

Encode == EncodeStart \/ EncodeOk \/ EncodeFail

StopAndSave ==
    \/ SkipAudio \/ Finalize \/ MergeStart \/ MergeOk \/ MergeFail
    \/ (\E i \in Index : RemoveCheckpoint(i)) \/ RemoveDone
    \/ (\E b \in BOOLEAN : WriteTranscripts(b) \/ WriteMetadata(b))

Recover ==
    \/ RecoverNothing \/ RecoverStart \/ RecoverOk \/ RecoverFail
    \/ (\E b \in BOOLEAN : RecoverSaveMeeting(b)) \/ CleanupCheckpoints

Next ==
    \/ Pipeline \/ Task \/ Encode \/ StopSaving \/ StopAndSave \/ FrontendSaves
    \/ Crash \/ Recover

Spec == Init /\ [][Next]_vars

\* The runtime polls the task and stop_recording; ffmpeg and the file system
\* answer.
FairSpec == Spec /\ WF_vars(Task) /\ WF_vars(Encode) /\ WF_vars(StopAndSave)

-----------------------------------------------------------------------------
(***************************************************************************)
(* Properties.                                                             *)
(***************************************************************************)
FileStates  == {"none", "partial", "good"}
Phases == {"recording", "stopping", "skipped", "flush", "flushing", "merge",
           "merging", "remove", "write_transcripts", "write_metadata", "saved",
           "failed"}
Chunks == 1..MaxChunks

\* Every variable stays in its type, and there is room for one more checkpoint
\* whenever one is being written.
TypeOK ==
    /\ up \in BOOLEAN /\ senderOpen \in BOOLEAN /\ isSaving \in BOOLEAN
    /\ hasSaver \in BOOLEAN /\ hasFolder \in BOOLEAN /\ saved \in BOOLEAN
    /\ chan \in Seq(Chunks) /\ sent \in 0..MaxChunks
    /\ task \in {"recv", "check", "encode", "encoding", "ended"}
    /\ taskChunk \in 0..MaxChunks
    /\ buffer \subseteq Chunks /\ accepted \subseteq Chunks
    /\ count \in Index
    /\ added \in 0..MaxSegs /\ segments \in 0..MaxSegs /\ transcripts \in 0..MaxSegs
    /\ phase \in Phases
    /\ files \in [Index -> FileStates]
    /\ contents \in [Index -> SUBSET Chunks]
    /\ audio.state \in FileStates /\ audio.parts \in Seq(Index)
    /\ status \in {"none", "recording", "completed"}
    /\ recovery \in {"idle", "merging", "recovered", "recover_failed", "retry",
                     "cleanup", "done"}

Checkpointed == UNION {contents[i] : i \in 0..count-1}

\* Every chunk that add_chunk took is in the buffer or in exactly one finished
\* checkpoint, and no chunk is in two: a failed or repeated encode neither loses
\* audio nor plays it twice.
AcceptedExactlyOnce ==
    /\ buffer \cup Checkpointed = accepted
    /\ buffer \cap Checkpointed = {}
    /\ \A i, j \in 0..count-1 : i # j => contents[i] \cap contents[j] = {}

\* Incremental saving keeps its promise across a crash at any instant, the one
\* between the merge and the removal of the checkpoints included: until somebody
\* starts a recovery, every chunk of a finished checkpoint can be read from disk.
CheckpointedOnDisk == recovery = "idle" => Checkpointed \subseteq OnDisk

\* metadata.json says "completed" only over a readable audio.mp4 that holds
\* every accepted chunk, in order, and a transcripts.json with every segment.
CompletedMeansSaved ==
    status = "completed" /\ recovery = "idle" =>
        /\ audio.state = "good" /\ InAudio = accepted
        /\ \A k \in 1..Len(audio.parts) : audio.parts[k] = k - 1
        /\ transcripts = added

\* A merged or recovered audio.mp4 plays the checkpoints in the order they were
\* recorded: what the sort by "audio_chunk_000.mp4, audio_chunk_001.mp4, etc." is for.
RecoveredInOrder ==
    audio.state = "good" =>
        \A k, l \in 1..Len(audio.parts) : k < l => audio.parts[k] < audio.parts[l]

\* stop_and_save returns, even while the task is encoding under the same lock.
StopReturns == phase = "stopping" ~> (phase \in {"saved", "skipped", "failed"} \/ ~up)

\* What the comment on cleanup_checkpoints says, "clean up checkpoint files after
\* successful recording or recovery": when they are gone, audio.mp4 holds them.
CleanupKeepsAudio == recovery = "done" => Checkpointed \subseteq InAudio

\* What stop_and_save's sleep is there for, "give time for final chunks": the
\* audio sent before the stop is in the saved file.
FinalChunksSaved == phase = "saved" => InAudio = 1..sent
=============================================================================
