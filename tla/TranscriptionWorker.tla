------------------------ MODULE TranscriptionWorker ------------------------
(***************************************************************************)
(* The transcription task of one recording                                 *)
(* (frontend/src-tauri/src/audio/transcription/worker.rs): a dispatcher    *)
(* moves chunks from the pipeline's channel to a work channel, a pool of   *)
(* workers transcribes them, and after the channel closes the task waits   *)
(* for the workers and gives its verdict on lost chunks.                   *)
(*                                                                         *)
(* Counters are atomics shared by threads, so the dispatcher's three       *)
(* effects (publish the preview state, count, send) are three steps, and   *)
(* so are the worker's reads across each await.                            *)
(***************************************************************************)
EXTENDS Naturals, Sequences, FiniteSets

CONSTANTS
    Workers,      \* the pool; the code fixes NUM_WORKERS = 1
    Segs,         \* segment ids ("mic_in-1200", ...)
    Texts,        \* non-empty transcripts the engine may return
    NoText,       \* no preview emitted yet for a segment
    NoChunk,      \* a worker that holds no chunk
    MaxEnd,       \* bound: audio end times are 1..MaxEnd
    MaxChunks,    \* bound: chunks the pipeline sends
    MaxAttempts   \* MAX_VERIFICATION_ATTEMPTS (10 in the code)

ASSUME WorkersAssumption == IsFiniteSet(Workers) /\ Workers # {}
ASSUME BoundsAssumption ==
    /\ MaxEnd \in Nat /\ MaxChunks \in Nat /\ MaxAttempts \in Nat
ASSUME SentinelAssumption == NoText \notin Texts

VARIABLES
    sent,          \* the chunks the pipeline has sent (history)
    inputOpen,     \* a sender of the pipeline's channel is still alive
    inbox,         \* the pipeline's channel (transcription_receiver)
    dispatcher,    \* where the task is
    held,          \* the chunk the dispatcher has received and not sent on
    work,          \* work_sender / work_receiver
    workOpen,      \* work_sender not dropped
    inputFinished, \* input_finished
    queued,        \* chunks_queued
    completed,     \* chunks_completed
    previewState,  \* preview_state: latest preview and final end per segment
    worker,        \* per worker: program counter and the chunk it holds
    live,          \* per worker: live_segment_state
    modelLoaded,   \* engine.is_model_loaded()
    seqCounter,    \* SEQUENCE_COUNTER
    emitted,       \* the transcript-update events, in emission order
    fate,          \* what became of each chunk (history)
    attempts,      \* verification_attempts
    verdict        \* what the final verification announced

env     == <<sent, inputOpen>>
counts  == <<queued, completed>>
outputs == <<seqCounter, emitted, fate>>
ending  == <<attempts, verdict>>
vars == <<env, inbox, dispatcher, held, work, workOpen, inputFinished, counts,
          previewState, worker, live, modelLoaded, outputs, ending>>

-----------------------------------------------------------------------------
\* TranscriptionInput, without the samples.  `id' is chunk_id.
Chunk == [id : Nat \ {0}, seg : Segs, end : 1..MaxEnd, final : BOOLEAN]

\* TranscriptUpdate, the fields consumers order and match by.
Update == [id : Nat \ {0}, seg : Segs, end : 1..MaxEnd, final : BOOLEAN, seq : Nat]

\* Why a chunk needs no further work.
Fates == {"pending", "emitted", "duplicate", "stale", "unloaded", "quiet",
          "failed", "panic"}

\* A worker between two chunks, holding one, or gone.
Holding == {"check_model", "check_stale", "transcribe", "panicked"}
Gone    == {"exited", "panicked"}

\* An empty SegmentPreviewState.
NoPreview == [preview |-> 0, final |-> 0]

MaxOf(a, b) == IF a >= b THEN a ELSE b

\* should_skip_stale_preview: a final is never skipped, a preview is when a
\* newer chunk of its segment has already been queued.
ShouldSkipStalePreview(c) ==
    /\ ~c.final
    /\ \/ previewState[c.seg].final >= c.end
       \/ previewState[c.seg].preview > c.end

\* should_emit_segment_update: a preview that repeats the last one is not sent.
ShouldEmitSegmentUpdate(w, c, text) ==
    c.final \/ live[w][c.seg] # text

-----------------------------------------------------------------------------
Init ==
    /\ sent = <<>> /\ inputOpen = TRUE /\ inbox = <<>>
    /\ dispatcher = "init" /\ held = NoChunk
    /\ work = <<>> /\ workOpen = TRUE /\ inputFinished = FALSE
    /\ queued = 0 /\ completed = 0
    /\ previewState = [s \in Segs |-> NoPreview]
    /\ worker = [w \in Workers |-> [pc |-> "unborn", chunk |-> NoChunk]]
    /\ live = [w \in Workers |-> [s \in Segs |-> NoText]]
    /\ modelLoaded = TRUE
    /\ seqCounter = 0 /\ emitted = <<>>
    /\ fate = [i \in 1..MaxChunks |-> "pending"]
    /\ attempts = 0 /\ verdict = "none"

(***************************************************************************)
(* The environment: the audio pipeline and the model's owner.              *)
(***************************************************************************)

\* The pipeline's discipline per segment: previews grow, the final comes last.
SentOf(s) == {sent[i] : i \in {j \in 1..Len(sent) : sent[j].seg = s}}

\* emit_transcription_input: live previews of a growing segment, then its
\* final, are sent by the one pipeline task.
PipelineSend(c) ==
    /\ inputOpen /\ Len(sent) < MaxChunks /\ dispatcher # "failed"
    /\ \A d \in SentOf(c.seg) : ~d.final /\ (~c.final => c.end > d.end)
    /\ sent' = Append(sent, c)
    /\ inbox' = Append(inbox, c)
    /\ UNCHANGED <<inputOpen, dispatcher, held, work, workOpen, inputFinished,
                   counts, previewState, worker, live, modelLoaded, outputs, ending>>

\* The last sender (pipeline, recording state) is dropped when recording stops.
PipelineClose ==
    /\ inputOpen
    /\ inputOpen' = FALSE
    /\ UNCHANGED <<sent, inbox, dispatcher, held, work, workOpen, inputFinished,
                   counts, previewState, worker, live, modelLoaded, outputs, ending>>

\* Another command unloads the model or loads one while the task runs.
ModelChange ==
    /\ modelLoaded' = ~modelLoaded
    /\ dispatcher # "done"
    /\ UNCHANGED <<env, inbox, dispatcher, held, work, workOpen, inputFinished,
                   counts, previewState, worker, live, outputs, ending>>

(***************************************************************************)
(* The dispatcher, which is the task itself.                               *)
(***************************************************************************)

\* The engine cannot be initialised: the task returns and its receiver with it.
EngineInitFails ==
    /\ dispatcher = "init"
    /\ dispatcher' = "failed"
    /\ inbox' = <<>>
    /\ UNCHANGED <<env, held, work, workOpen, inputFinished, counts,
                   previewState, worker, live, modelLoaded, outputs, ending>>

\* The engine is ready: spawn the workers and start to dispatch.
EngineInitOk ==
    /\ dispatcher = "init"
    /\ dispatcher' = "recv"
    /\ worker' = [w \in Workers |-> [pc |-> "idle", chunk |-> NoChunk]]
    /\ UNCHANGED <<env, inbox, held, work, workOpen, inputFinished, counts,
                   previewState, live, modelLoaded, outputs, ending>>

\* Receive a chunk and publish its end time for the stale-preview rule.
DispatchRecv ==
    /\ dispatcher = "recv" /\ inbox # <<>>
    /\ LET c == Head(inbox)
           old == previewState[c.seg]
       IN /\ held' = c
          /\ previewState' = [previewState EXCEPT ![c.seg] =
                IF c.final
                THEN [preview |-> MaxOf(old.preview, c.end), final |-> c.end]
                ELSE [preview |-> c.end, final |-> old.final]]
    /\ inbox' = Tail(inbox)
    /\ dispatcher' = "count"
    /\ UNCHANGED <<env, work, workOpen, inputFinished, counts, worker, live,
                   modelLoaded, outputs, ending>>

\* chunks_queued is raised before the chunk can reach a worker.
DispatchCount ==
    /\ dispatcher = "count"
    /\ queued' = queued + 1
    /\ dispatcher' = "send"
    /\ UNCHANGED <<env, inbox, held, work, workOpen, inputFinished, completed,
                   previewState, worker, live, modelLoaded, outputs, ending>>

\* work_sender.send: the task owns the receiver too, so it cannot fail.
DispatchSend ==
    /\ dispatcher = "send"
    /\ work' = Append(work, held)
    /\ held' = NoChunk
    /\ dispatcher' = "recv"
    /\ UNCHANGED <<env, inbox, workOpen, inputFinished, counts, previewState,
                   worker, live, modelLoaded, outputs, ending>>

\* The pipeline's channel is closed and drained: input_finished, then drop.
DispatchFinish ==
    /\ dispatcher = "recv" /\ inbox = <<>> /\ ~inputOpen
    /\ inputFinished' = TRUE
    /\ dispatcher' = "drop"
    /\ UNCHANGED <<env, inbox, held, work, workOpen, counts, previewState,
                   worker, live, modelLoaded, outputs, ending>>

\* Mutant: work_sender is not dropped before the workers are awaited.
DispatchKeep ==
    /\ dispatcher = "drop"
    /\ dispatcher' = "join"
    /\ UNCHANGED <<env, inbox, held, work, workOpen, inputFinished, counts,
                   previewState, worker, live, modelLoaded, outputs, ending>>

DispatchDrop ==
    /\ dispatcher = "drop"
    /\ workOpen' = FALSE
    /\ dispatcher' = "join"
    /\ UNCHANGED <<env, inbox, held, work, inputFinished, counts, previewState,
                   worker, live, modelLoaded, outputs, ending>>

\* Mutant: the handles are dropped, not awaited.
JoinNobody ==
    /\ dispatcher = "join"
    /\ dispatcher' = "verify"
    /\ UNCHANGED <<env, inbox, held, work, workOpen, inputFinished, counts,
                   previewState, worker, live, modelLoaded, outputs, ending>>

\* Every worker handle has been awaited; a panic is only logged.
JoinWorkers ==
    /\ dispatcher = "join"
    /\ \A w \in Workers : worker[w].pc \in Gone
    /\ dispatcher' = "verify"
    /\ UNCHANGED <<env, inbox, held, work, workOpen, inputFinished, counts,
                   previewState, worker, live, modelLoaded, outputs, ending>>

\* The final verification: all counted, try again, or report the loss.
VerifyComplete ==
    /\ dispatcher = "verify" /\ queued = completed
    /\ verdict' = "zero_lost"
    /\ dispatcher' = "done"
    /\ UNCHANGED <<env, inbox, held, work, workOpen, inputFinished, counts,
                   previewState, worker, live, modelLoaded, outputs, attempts>>

VerifyRetry ==
    /\ dispatcher = "verify" /\ queued # completed
    /\ attempts < MaxAttempts
    /\ attempts' = attempts + 1
    /\ UNCHANGED <<env, inbox, dispatcher, held, work, workOpen, inputFinished,
                   counts, previewState, worker, live, modelLoaded, outputs, verdict>>

VerifyLoss ==
    /\ dispatcher = "verify" /\ queued # completed
    /\ attempts >= MaxAttempts
    /\ verdict' = "loss_reported"
    /\ dispatcher' = "done"
    /\ UNCHANGED <<env, inbox, held, work, workOpen, inputFinished, counts,
                   previewState, worker, live, modelLoaded, outputs, attempts>>

(***************************************************************************)
(* A worker.                                                               *)
(***************************************************************************)

\* Mutant: the newest chunk is taken first.
WorkerRecvNewest(w) ==
    /\ worker[w].pc = "idle" /\ work # <<>>
    /\ worker' = [worker EXCEPT ![w] = [pc |-> "check_model", chunk |-> work[Len(work)]]]
    /\ work' = SubSeq(work, 1, Len(work) - 1)
    /\ UNCHANGED <<env, inbox, dispatcher, held, workOpen, inputFinished, counts,
                   previewState, live, modelLoaded, outputs, ending>>

WorkerRecv(w) ==
    /\ worker[w].pc = "idle" /\ work # <<>>
    /\ worker' = [worker EXCEPT ![w] = [pc |-> "check_model", chunk |-> Head(work)]]
    /\ work' = Tail(work)
    /\ UNCHANGED <<env, inbox, dispatcher, held, workOpen, inputFinished, counts,
                   previewState, live, modelLoaded, outputs, ending>>

\* is_model_loaded().await comes back true.
WorkerModelReady(w) ==
    /\ worker[w].pc = "check_model" /\ modelLoaded
    /\ worker' = [worker EXCEPT ![w].pc = "check_stale"]
    /\ UNCHANGED <<env, inbox, dispatcher, held, work, workOpen, inputFinished,
                   counts, previewState, live, modelLoaded, outputs, ending>>

\* One chunk is over: it is counted and the worker turns to the next.
Complete(w, why) ==
    /\ completed' = completed + 1
    /\ fate' = [fate EXCEPT ![worker[w].chunk.id] = why]
    /\ worker' = [worker EXCEPT ![w] = [pc |-> "idle", chunk |-> NoChunk]]
    /\ UNCHANGED <<env, inbox, dispatcher, held, work, workOpen, inputFinished,
                   queued, previewState, modelLoaded, ending>>

\* The model is gone: "still count as completed even if we can't process".
WorkerModelUnloaded(w) ==
    /\ worker[w].pc = "check_model" /\ ~modelLoaded
    /\ Complete(w, "unloaded")
    /\ UNCHANGED <<live, seqCounter, emitted>>

\* Mutant: the early `continue' of a stale preview forgets chunks_completed.
WorkerSkipUncounted(w) ==
    /\ worker[w].pc = "check_stale" /\ ShouldSkipStalePreview(worker[w].chunk)
    /\ fate' = [fate EXCEPT ![worker[w].chunk.id] = "stale"]
    /\ worker' = [worker EXCEPT ![w] = [pc |-> "idle", chunk |-> NoChunk]]
    /\ UNCHANGED <<env, inbox, dispatcher, held, work, workOpen, inputFinished,
                   counts, previewState, live, modelLoaded, seqCounter, emitted,
                   ending>>

WorkerSkipStale(w) ==
    /\ worker[w].pc = "check_stale" /\ ShouldSkipStalePreview(worker[w].chunk)
    /\ Complete(w, "stale")
    /\ UNCHANGED <<live, seqCounter, emitted>>

WorkerKeep(w) ==
    /\ worker[w].pc = "check_stale" /\ ~ShouldSkipStalePreview(worker[w].chunk)
    /\ worker' = [worker EXCEPT ![w].pc = "transcribe"]
    /\ UNCHANGED <<env, inbox, dispatcher, held, work, workOpen, inputFinished,
                   counts, previewState, live, modelLoaded, outputs, ending>>

\* The engine answers with text above the threshold.  The sequence id is taken
\* before the duplicate check, so a suppressed preview leaves a gap.
WorkerEmit(w, text) ==
    LET c == worker[w].chunk IN
    /\ worker[w].pc = "transcribe"
    /\ ShouldEmitSegmentUpdate(w, c, text)
    /\ seqCounter' = seqCounter + 1
    /\ emitted' = Append(emitted, [id |-> c.id, seg |-> c.seg, end |-> c.end,
                                   final |-> c.final, seq |-> seqCounter])
    /\ live' = [live EXCEPT ![w][c.seg] = IF c.final THEN NoText ELSE text]
    /\ Complete(w, "emitted")

WorkerSkipDuplicate(w, text) ==
    /\ worker[w].pc = "transcribe"
    /\ ~ShouldEmitSegmentUpdate(w, worker[w].chunk, text)
    /\ seqCounter' = seqCounter + 1
    /\ Complete(w, "duplicate")
    /\ UNCHANGED <<live, emitted>>

\* No usable text (empty, low confidence, audio too short); the model went away
\* during the call; any other engine error (only a warning event).
WorkerNothing(w, why) ==
    /\ worker[w].pc = "transcribe"
    /\ why \in {"quiet", "unloaded", "failed"}
    /\ Complete(w, why)
    /\ UNCHANGED <<live, seqCounter, emitted>>

\* The engine panics: the worker's task is over and its chunk is not counted.
WorkerPanic(w) ==
    /\ worker[w].pc = "transcribe"
    /\ worker' = [worker EXCEPT ![w].pc = "panicked"]
    /\ fate' = [fate EXCEPT ![worker[w].chunk.id] = "panic"]
    /\ UNCHANGED <<env, inbox, dispatcher, held, work, workOpen, inputFinished,
                   counts, previewState, live, modelLoaded, seqCounter, emitted,
                   ending>>

\* recv returned None and every queued chunk is counted; until then the worker
\* sleeps and polls again, which is a stuttering step.
WorkerExit(w) ==
    /\ worker[w].pc = "idle" /\ work = <<>> /\ ~workOpen
    /\ inputFinished /\ completed >= queued
    /\ worker' = [worker EXCEPT ![w].pc = "exited"]
    /\ UNCHANGED <<env, inbox, dispatcher, held, work, workOpen, inputFinished,
                   counts, previewState, live, modelLoaded, outputs, ending>>

\* The task has returned.
Terminated ==
    /\ dispatcher \in {"done", "failed"} /\ ~inputOpen
    /\ UNCHANGED vars

-----------------------------------------------------------------------------
Dispatcher ==
    \/ EngineInitFails \/ EngineInitOk
    \/ DispatchRecv \/ DispatchCount \/ DispatchSend \/ DispatchFinish \/ DispatchDrop
    \/ JoinWorkers \/ VerifyComplete \/ VerifyRetry \/ VerifyLoss

Worker(w) ==
    \/ WorkerRecv(w) \/ WorkerModelReady(w) \/ WorkerModelUnloaded(w)
    \/ WorkerSkipStale(w) \/ WorkerKeep(w)
    \/ \E text \in Texts : WorkerEmit(w, text) \/ WorkerSkipDuplicate(w, text)
    \/ \E why \in Fates : WorkerNothing(w, why)
    \/ WorkerPanic(w) \/ WorkerExit(w)

Environment ==
    \/ \E seg \in Segs, end \in 1..MaxEnd, final \in BOOLEAN :
          PipelineSend([id |-> Len(sent) + 1, seg |-> seg, end |-> end, final |-> final])
    \/ PipelineClose \/ ModelChange

Next ==
    \/ Environment \/ Dispatcher \/ (\E w \in Workers : Worker(w)) \/ Terminated

Spec == Init /\ [][Next]_vars

\* The runtime polls every task, and every engine call returns: nothing is
\* assumed of the pipeline or of the model's owner.
FairSpec == Spec /\ WF_vars(Dispatcher) /\ \A w \in Workers : WF_vars(Worker(w))

-----------------------------------------------------------------------------
(***************************************************************************)
(* Properties.                                                             *)
(***************************************************************************)

DispatcherStates == {"init", "failed", "recv", "count", "send", "drop", "join",
                     "verify", "done"}
WorkerStates == {"unborn", "idle", "exited"} \cup Holding

\* Every variable stays in its type; a dispatcher or a worker holds a chunk
\* exactly in the program points where the code has one in a local variable.
TypeOK ==
    /\ sent \in Seq(Chunk) /\ inbox \in Seq(Chunk) /\ work \in Seq(Chunk)
    /\ inputOpen \in BOOLEAN /\ workOpen \in BOOLEAN /\ inputFinished \in BOOLEAN
    /\ dispatcher \in DispatcherStates
    /\ held \in Chunk \cup {NoChunk}
    /\ dispatcher \in {"count", "send"} => held \in Chunk
    /\ queued \in Nat /\ completed \in Nat
    /\ previewState \in [Segs -> [preview : 0..MaxEnd, final : 0..MaxEnd]]
    /\ worker \in [Workers -> [pc : WorkerStates, chunk : Chunk \cup {NoChunk}]]
    /\ \A w \in Workers : worker[w].pc \in Holding => worker[w].chunk \in Chunk
    /\ live \in [Workers -> [Segs -> Texts \cup {NoText}]]
    /\ modelLoaded \in BOOLEAN
    /\ seqCounter \in Nat /\ emitted \in Seq(Update)
    /\ fate \in [1..MaxChunks -> Fates]
    /\ attempts \in Nat
    /\ verdict \in {"none", "zero_lost", "loss_reported"}

\* The workers that hold a chunk not counted as completed.
Busy == {w \in Workers : worker[w].pc \in Holding}

\* Every chunk counted as queued is in the dispatcher's hand on its way out, in
\* the work channel, with a worker, or counted as completed, at every instant
\* of the two threads; so "completed" never overtakes "queued" and the u64
\* subtraction of the loss report cannot wrap.
Accounting ==
    queued = completed + Len(work) + Cardinality(Busy)
             + (IF dispatcher = "send" THEN 1 ELSE 0)

\* The final verification tells the truth: it announces "zero chunks lost" only
\* when every chunk the pipeline sent has been dealt with, and reports a loss
\* only when a worker has died over a chunk.
VerdictTruthful ==
    /\ verdict = "zero_lost" =>
          \A i \in 1..Len(sent) : fate[i] \notin {"pending", "panic"}
    /\ verdict = "loss_reported" => \E w \in Workers : worker[w].pc = "panicked"

\* "Serial processing ensures transcripts emit in chronological order": updates
\* leave in the order the pipeline sent their chunks, with growing sequence ids,
\* and a segment's final update is its last one.
EmissionInOrder ==
    \A i, j \in 1..Len(emitted) : i < j =>
        /\ emitted[i].id < emitted[j].id
        /\ emitted[i].seq < emitted[j].seq
        /\ emitted[i].seg = emitted[j].seg => ~emitted[i].final

\* A preview is dropped as stale only when a later chunk of the same segment
\* exists that is not itself dropped: the newest one always reaches the engine.
StaleIsSuperseded ==
    \A i \in 1..Len(sent) : fate[i] = "stale" =>
        \E j \in i+1..Len(sent) : sent[j].seg = sent[i].seg /\ fate[j] # "stale"

\* What the task says when the counts agree ("ALL chunks processed successfully
\* - ZERO chunks lost!"), taken at its word: no chunk went without transcription
\* because the model was not there.
ZeroLost ==
    verdict = "zero_lost" => \A i \in 1..Len(sent) : fate[i] # "unloaded"

\* Once recording stops the task ends, whatever the workers met.
Terminates == ~inputOpen ~> dispatcher \in {"done", "failed"}
=============================================================================
