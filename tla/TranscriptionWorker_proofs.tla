--------------------- MODULE TranscriptionWorker_proofs ---------------------
(***************************************************************************)
(* Theorems about TranscriptionWorker, for every pool of workers and every *)
(* number of chunks.                                                       *)
(***************************************************************************)
EXTENDS TranscriptionWorker, FiniteSetTheorems, WellFoundedInduction, TLAPS

\* Finishing a chunk, whatever became of it, keeps the types.
LEMMA CompleteType ==
    ASSUME TypeOK, NEW w \in Workers, NEW why \in Fates, Complete(w, why),
           live' \in [Workers -> [Segs -> Texts \cup {NoText}]],
           seqCounter' \in Nat, emitted' \in Seq(Update)
    PROVE  TypeOK'
<1> USE DEF Complete, TypeOK, env
<1>1. worker' \in [Workers -> [pc : WorkerStates, chunk : Chunk \cup {NoChunk}]]
  BY DEF WorkerStates, Holding
<1>2. \A v \in Workers : worker'[v].pc \in Holding => worker'[v].chunk \in Chunk
  BY DEF Holding
<1>3. fate' \in [1..MaxChunks -> Fates]
  OBVIOUS
<1>4. completed' \in Nat
  OBVIOUS
<1> QED BY <1>1, <1>2, <1>3, <1>4 DEF ending

\* The type invariant is preserved by every step of the pipeline, the dispatcher
\* and the workers.
LEMMA TypeStep == TypeOK /\ [Next]_vars => TypeOK'
<1> SUFFICES ASSUME TypeOK, [Next]_vars PROVE TypeOK'
  OBVIOUS
<1> USE DEF TypeOK, Fates, DispatcherStates,
        WorkerStates, Holding, env, counts, outputs, ending
<1>1. ASSUME NEW seg \in Segs, NEW end \in 1..MaxEnd, NEW final \in BOOLEAN,
             PipelineSend([id |-> Len(sent) + 1, seg |-> seg, end |-> end,
                           final |-> final])
      PROVE  TypeOK'
  BY <1>1, BoundsAssumption DEF PipelineSend, Chunk
<1>2. CASE PipelineClose  BY <1>2 DEF PipelineClose
<1>3. CASE ModelChange  BY <1>3 DEF ModelChange
<1>4. CASE EngineInitFails  BY <1>4 DEF EngineInitFails
<1>5. CASE EngineInitOk  BY <1>5 DEF EngineInitOk
<1>6. CASE DispatchRecv
  <2>1. Head(inbox) \in Chunk /\ Tail(inbox) \in Seq(Chunk)
    BY <1>6 DEF DispatchRecv
  <2> DEFINE c == Head(inbox)
             old == previewState[c.seg]
             new == IF c.final
                    THEN [preview |-> MaxOf(old.preview, c.end), final |-> c.end]
                    ELSE [preview |-> c.end, final |-> old.final]
  <2>2. c.seg \in Segs /\ c.end \in 0..MaxEnd
    BY <2>1, BoundsAssumption DEF Chunk
  <2>3. old.preview \in 0..MaxEnd /\ old.final \in 0..MaxEnd
    BY <2>2
  <2>4. MaxOf(old.preview, c.end) \in 0..MaxEnd
    BY <2>2, <2>3 DEF MaxOf
  <2>5. new \in [preview : 0..MaxEnd, final : 0..MaxEnd]
    BY <2>2, <2>3, <2>4
  <2>6. previewState' = [previewState EXCEPT ![c.seg] = new]
    BY <1>6 DEF DispatchRecv
  <2>7. previewState' \in [Segs -> [preview : 0..MaxEnd, final : 0..MaxEnd]]
    BY <2>5, <2>6
  <2> QED BY <1>6, <2>1, <2>7 DEF DispatchRecv
<1>7. CASE DispatchCount  BY <1>7 DEF DispatchCount
<1>8. CASE DispatchSend  BY <1>8 DEF DispatchSend
<1>9. CASE DispatchFinish  BY <1>9 DEF DispatchFinish
<1>10. CASE DispatchDrop  BY <1>10 DEF DispatchDrop
<1>11. CASE JoinWorkers  BY <1>11 DEF JoinWorkers
<1>12. CASE VerifyComplete  BY <1>12 DEF VerifyComplete
<1>13. CASE VerifyRetry  BY <1>13 DEF VerifyRetry
<1>14. CASE VerifyLoss  BY <1>14 DEF VerifyLoss
<1>15. ASSUME NEW w \in Workers, WorkerRecv(w) PROVE TypeOK'
  BY <1>15 DEF WorkerRecv
<1>16. ASSUME NEW w \in Workers, WorkerModelReady(w) PROVE TypeOK'
  BY ZenonT(30), <1>16 DEF WorkerModelReady
<1>17. ASSUME NEW w \in Workers, WorkerModelUnloaded(w) PROVE TypeOK'
  BY <1>17, CompleteType DEF WorkerModelUnloaded
<1>18. ASSUME NEW w \in Workers, WorkerSkipStale(w) PROVE TypeOK'
  BY <1>18, CompleteType DEF WorkerSkipStale
<1>19. ASSUME NEW w \in Workers, WorkerKeep(w) PROVE TypeOK'
  BY ZenonT(30), <1>19 DEF WorkerKeep
<1>20. ASSUME NEW w \in Workers, NEW text \in Texts, WorkerEmit(w, text)
       PROVE  TypeOK'
  <2>1. worker[w].chunk \in Chunk
    BY <1>20 DEF WorkerEmit
  <2>2. emitted' \in Seq(Update) /\ seqCounter' \in Nat
    BY <1>20, <2>1 DEF WorkerEmit, Chunk, Update
  <2>3. live' \in [Workers -> [Segs -> Texts \cup {NoText}]]
    BY <1>20 DEF WorkerEmit
  <2>4. Complete(w, "emitted")
    BY <1>20 DEF WorkerEmit
  <2> QED BY <2>2, <2>3, <2>4, CompleteType
<1>21. ASSUME NEW w \in Workers, NEW text \in Texts, WorkerSkipDuplicate(w, text)
       PROVE  TypeOK'
  BY <1>21, CompleteType DEF WorkerSkipDuplicate
<1>22. ASSUME NEW w \in Workers, NEW why \in Fates, WorkerNothing(w, why)
       PROVE  TypeOK'
  BY <1>22, CompleteType DEF WorkerNothing
<1>23. ASSUME NEW w \in Workers, WorkerPanic(w) PROVE TypeOK'
  BY ZenonT(30), <1>23 DEF WorkerPanic
<1>24. ASSUME NEW w \in Workers, WorkerExit(w) PROVE TypeOK'
  BY <1>24 DEF WorkerExit
<1>25. CASE UNCHANGED vars  BY <1>25 DEF vars
<1> HIDE DEF TypeOK, Fates, env, counts, outputs, ending
<1>26. CASE Environment
  BY <1>26, <1>1, <1>2, <1>3 DEF Environment
<1>27. CASE Dispatcher
  BY <1>27, <1>4, <1>5, <1>6, <1>7, <1>8, <1>9, <1>10, <1>11, <1>12, <1>13, <1>14
     DEF Dispatcher
<1>28. ASSUME NEW w \in Workers, Worker(w) PROVE TypeOK'
  BY <1>28, <1>15, <1>16, <1>17, <1>18, <1>19, <1>20, <1>21, <1>22, <1>23, <1>24
     DEF Worker
<1> QED
  BY <1>25, <1>26, <1>27, <1>28 DEF Next, Terminated

\* The initial state is well typed.
LEMMA InitType == Init => TypeOK
<1> SUFFICES ASSUME Init PROVE TypeOK
  OBVIOUS
<1> USE DEF Init
<1>1. sent \in Seq(Chunk) /\ inbox \in Seq(Chunk) /\ work \in Seq(Chunk)
      /\ emitted \in Seq(Update)
  OBVIOUS
<1>2. previewState \in [Segs -> [preview : 0..MaxEnd, final : 0..MaxEnd]]
  BY BoundsAssumption DEF NoPreview
<1>3. /\ worker \in [Workers -> [pc : WorkerStates, chunk : Chunk \cup {NoChunk}]]
      /\ \A w \in Workers : worker[w].pc \notin Holding
  BY DEF WorkerStates, Holding
<1>4. live \in [Workers -> [Segs -> Texts \cup {NoText}]]
  OBVIOUS
<1>5. fate \in [1..MaxChunks -> Fates]
  BY DEF Fates
<1> QED BY <1>1, <1>2, <1>3, <1>4, <1>5 DEF TypeOK, DispatcherStates

\* Every variable of the transcription task stays in its type.
THEOREM TypeCorrect == Spec => []TypeOK
BY InitType, TypeStep, PTL DEF Spec

-----------------------------------------------------------------------------
(***************************************************************************)
(* The accounting of chunks.  Accounting alone is not inductive: spawning   *)
(* the workers resets them, so one must know that none holds a chunk before *)
(* the engine is ready.                                                    *)
(***************************************************************************)
NotStarted == dispatcher = "init" => \A w \in Workers : worker[w].pc = "unborn"

AInv == TypeOK /\ NotStarted /\ Accounting

\* The set of busy workers is finite, so its cardinality is a number.
LEMMA BusyFinite == IsFiniteSet(Busy)
<1>1. Busy \subseteq Workers
  BY DEF Busy
<1> QED BY <1>1, WorkersAssumption, FS_Subset

LEMMA BusyCount == Cardinality(Busy) \in Nat
BY BusyFinite, FS_CardinalityType

\* A step that leaves every worker on the same side of "holds a chunk" leaves the
\* busy set alone.
LEMMA BusySame ==
    ASSUME \A w \in Workers : worker'[w].pc \in Holding <=> worker[w].pc \in Holding
    PROVE  Busy' = Busy
BY DEF Busy

\* A worker that takes a chunk adds one to the busy count.
LEMMA BusyAdd ==
    ASSUME NEW w \in Workers, worker[w].pc \notin Holding, worker'[w].pc \in Holding,
           \A v \in Workers \ {w} : worker'[v] = worker[v]
    PROVE  Cardinality(Busy') = Cardinality(Busy) + 1
<1>1. Busy' = Busy \cup {w} /\ w \notin Busy
  BY DEF Busy
<1> QED BY <1>1, BusyFinite, FS_AddElement

\* A worker that finishes a chunk takes one from it.
LEMMA BusyRemove ==
    ASSUME NEW w \in Workers, worker[w].pc \in Holding, worker'[w].pc \notin Holding,
           \A v \in Workers \ {w} : worker'[v] = worker[v]
    PROVE  Cardinality(Busy') = Cardinality(Busy) - 1
<1>1. Busy' = Busy \ {w} /\ w \in Busy
  BY DEF Busy
<1> QED BY <1>1, BusyFinite, FS_RemoveElement

\* A step that touches none of the counted places preserves the accounting.
LEMMA AccountingSame ==
    ASSUME Accounting, UNCHANGED <<queued, completed, work>>,
           (dispatcher' = "send") <=> (dispatcher = "send"),
           \A w \in Workers : worker'[w].pc \in Holding <=> worker[w].pc \in Holding
    PROVE  Accounting'
BY BusySame DEF Accounting

\* Counting a finished chunk moves it from the busy workers to "completed".
LEMMA CompleteAccounting ==
    ASSUME TypeOK, Accounting, NEW w \in Workers, NEW why, Complete(w, why),
           worker[w].pc \in Holding
    PROVE  Accounting'
<1>1. Cardinality(Busy') = Cardinality(Busy) - 1
  <2>1. worker'[w].pc = "idle" /\ \A v \in Workers \ {w} : worker'[v] = worker[v]
    BY DEF Complete, TypeOK
  <2>2. worker'[w].pc \notin Holding
    BY <2>1 DEF Holding
  <2> QED BY <2>1, <2>2, BusyRemove
<1>2. /\ completed' = completed + 1 /\ queued' = queued /\ work' = work
      /\ dispatcher' = dispatcher
  BY DEF Complete
<1>3. completed \in Nat /\ queued \in Nat /\ Len(work) \in Nat
  BY DEF TypeOK
<1> QED BY <1>1, <1>2, <1>3, BusyCount DEF Accounting

\* Every step preserves the accounting.
LEMMA AccountingStep == AInv /\ [Next]_vars => AInv'
<1> SUFFICES ASSUME AInv, [Next]_vars PROVE NotStarted' /\ Accounting'
  BY TypeStep DEF AInv
<1>0. TypeOK /\ NotStarted /\ Accounting
  BY DEF AInv
<1>1. CASE Environment
  <2>1. UNCHANGED <<dispatcher, worker, queued, completed, work>>
    BY <1>1 DEF Environment, PipelineSend, PipelineClose, ModelChange, counts
  <2> QED BY <1>0, <2>1, AccountingSame DEF NotStarted
<1>2. CASE EngineInitFails
  <2>1. /\ UNCHANGED <<worker, queued, completed, work>>
        /\ dispatcher = "init" /\ dispatcher' = "failed"
    BY <1>2 DEF EngineInitFails, counts
  <2> QED BY <1>0, <2>1, AccountingSame DEF NotStarted
<1>3. CASE EngineInitOk
  <2>1. /\ UNCHANGED <<queued, completed, work>>
        /\ dispatcher = "init" /\ dispatcher' = "recv"
        /\ \A w \in Workers : worker[w].pc = "unborn" /\ worker'[w].pc = "idle"
    BY <1>0, <1>3 DEF EngineInitOk, counts, NotStarted
  <2> QED BY <1>0, <2>1, AccountingSame DEF NotStarted, Holding
<1>4. CASE DispatchCount
  <2>1. /\ UNCHANGED <<worker, completed, work>> /\ queued' = queued + 1
        /\ dispatcher = "count" /\ dispatcher' = "send"
    BY <1>4 DEF DispatchCount
  <2>2. Busy' = Busy
    BY <2>1, BusySame
  <2>3. completed \in Nat /\ queued \in Nat /\ Len(work) \in Nat
    BY <1>0 DEF TypeOK
  <2> QED BY <1>0, <2>1, <2>2, <2>3, BusyCount DEF NotStarted, Accounting
<1>5. CASE DispatchSend
  <2>1. /\ UNCHANGED <<worker, completed, queued>> /\ work' = Append(work, held)
        /\ dispatcher = "send" /\ dispatcher' = "recv"
    BY <1>5 DEF DispatchSend, counts
  <2>2. Busy' = Busy
    BY <2>1, BusySame
  <2>3. completed \in Nat /\ queued \in Nat /\ work \in Seq(Chunk) /\ held \in Chunk
    BY <1>0, <2>1 DEF TypeOK
  <2>4. Len(work') = Len(work) + 1 /\ Len(work) \in Nat
    BY <2>1, <2>3
  <2> QED BY <1>0, <2>1, <2>2, <2>3, <2>4, BusyCount DEF NotStarted, Accounting
<1>6. CASE \/ DispatchRecv \/ DispatchFinish \/ DispatchDrop \/ JoinWorkers
           \/ VerifyComplete \/ VerifyRetry \/ VerifyLoss
  <2>1. /\ UNCHANGED <<worker, queued, completed, work>>
        /\ dispatcher # "send" /\ dispatcher' \notin {"send", "init"}
    BY <1>6 DEF DispatchRecv, DispatchFinish, DispatchDrop, JoinWorkers,
       VerifyComplete, VerifyRetry, VerifyLoss, counts
  <2> QED BY <1>0, <2>1, AccountingSame DEF NotStarted
<1>7. ASSUME NEW w \in Workers, Worker(w) PROVE NotStarted' /\ Accounting'
  <2>0. NotStarted'
    <3>1. worker[w].pc # "unborn" /\ dispatcher' = dispatcher
      BY <1>7 DEF Worker, WorkerRecv, WorkerModelReady, WorkerModelUnloaded,
         WorkerSkipStale, WorkerKeep, WorkerEmit, WorkerSkipDuplicate,
         WorkerNothing, WorkerPanic, WorkerExit, Complete
    <3> QED BY <1>0, <3>1 DEF NotStarted
  <2>1. CASE WorkerRecv(w)
    <3>1. /\ UNCHANGED <<queued, completed, dispatcher>> /\ work # <<>>
          /\ work' = Tail(work) /\ worker[w].pc = "idle"
          /\ worker'[w].pc = "check_model"
          /\ \A v \in Workers \ {w} : worker'[v] = worker[v]
      BY <1>0, <2>1 DEF WorkerRecv, counts, TypeOK
    <3>2. Cardinality(Busy') = Cardinality(Busy) + 1
      BY <3>1, BusyAdd DEF Holding
    <3>3. Len(work') = Len(work) - 1 /\ Len(work) \in Nat
      BY <1>0, <3>1 DEF TypeOK
    <3> QED BY <1>0, <2>0, <3>1, <3>2, <3>3, BusyCount DEF Accounting, TypeOK
  <2>2. CASE \/ WorkerModelReady(w) \/ WorkerKeep(w) \/ WorkerPanic(w)
             \/ WorkerExit(w)
    <3>1. /\ UNCHANGED <<queued, completed, work, dispatcher>>
          /\ \A v \in Workers : worker'[v].pc \in Holding <=> worker[v].pc \in Holding
      BY ZenonT(30), <1>0, <2>2 DEF WorkerModelReady, WorkerKeep, WorkerPanic, WorkerExit,
         counts, TypeOK, Holding
    <3> QED BY <1>0, <2>0, <3>1, AccountingSame
  <2>3. CASE \/ WorkerModelUnloaded(w) \/ WorkerSkipStale(w)
             \/ (\E text \in Texts : WorkerEmit(w, text) \/ WorkerSkipDuplicate(w, text))
             \/ (\E why \in Fates : WorkerNothing(w, why))
    <3>1. (\E why \in Fates : Complete(w, why)) /\ worker[w].pc \in Holding
      BY <2>3 DEF WorkerModelUnloaded, WorkerSkipStale, WorkerEmit,
         WorkerSkipDuplicate, WorkerNothing, Holding, Fates
    <3> QED BY <1>0, <2>0, <3>1, CompleteAccounting
  <2> QED BY <1>7, <2>1, <2>2, <2>3 DEF Worker
<1>8. CASE UNCHANGED vars
  <2>1. UNCHANGED <<dispatcher, worker, queued, completed, work>>
    BY <1>8 DEF vars, counts
  <2> QED BY <1>0, <2>1, AccountingSame DEF NotStarted
<1> QED
  BY <1>1, <1>2, <1>3, <1>4, <1>5, <1>6, <1>7, <1>8 DEF Next, Dispatcher, Terminated

\* Nothing is counted before the task starts.
LEMMA InitAInv == Init => AInv
<1> SUFFICES ASSUME Init PROVE NotStarted /\ Accounting
  BY InitType DEF AInv
<1>1. NotStarted
  BY DEF Init, NotStarted
<1>2. Busy = {}
  BY DEF Init, Busy, Holding
<1>3. queued = 0 /\ completed = 0 /\ Len(work) = 0 /\ dispatcher # "send"
  BY DEF Init
<1> QED BY <1>1, <1>2, <1>3, FS_EmptySet DEF Accounting

\* At every instant each counted chunk is in exactly one of the places the code
\* keeps it in.
THEOREM AccountingHolds == Spec => []Accounting
<1>1. AInv => Accounting
  BY DEF AInv
<1> QED BY <1>1, InitAInv, AccountingStep, PTL DEF Spec

\* The worker's progress never exceeds 100% and the count of lost chunks,
\* "chunks_queued - chunks_completed", never wraps below zero.
THEOREM CompletedNeverAhead == Spec => [](completed <= queued)
<1>1. TypeOK /\ Accounting => completed <= queued
  <2> SUFFICES ASSUME TypeOK, Accounting PROVE completed <= queued
    OBVIOUS
  <2>1. completed \in Nat /\ queued \in Nat /\ Len(work) \in Nat
    BY DEF TypeOK
  <2> QED BY <2>1, BusyCount DEF Accounting
<1> QED BY <1>1, TypeCorrect, AccountingHolds, PTL

-----------------------------------------------------------------------------
(***************************************************************************)
(* The final verdict.  The counters only speak of numbers of chunks; to say *)
(* something of each chunk one must know where a chunk that has no fate is. *)
(***************************************************************************)
InHand == dispatcher \in {"count", "send"}

\* Chunks are known to the history by their id, wherever they are.
Sent(c) == c.id \in 1..Len(sent)

KnownIds ==
    /\ Len(sent) <= MaxChunks
    /\ \A k \in 1..Len(inbox) : Sent(inbox[k])
    /\ \A k \in 1..Len(work) : Sent(work[k])
    /\ InHand => Sent(held)
    /\ \A w \in Workers : worker[w].pc \in Holding => Sent(worker[w].chunk)

\* Where a chunk can be before it has a fate.
Located(i) ==
    \/ \E k \in 1..Len(inbox) : inbox[k].id = i
    \/ \E k \in 1..Len(work) : work[k].id = i
    \/ InHand /\ held.id = i
    \/ \E w \in Workers : worker[w].pc \in Holding /\ worker[w].chunk.id = i

PendingLocated ==
    dispatcher # "failed" =>
        \A i \in 1..Len(sent) : fate[i] = "pending" => Located(i)

PanicHeld ==
    \A i \in 1..MaxChunks : fate[i] = "panic" =>
        \E w \in Workers : worker[w].pc = "panicked" /\ worker[w].chunk.id = i

\* What the dispatcher's position and an exited worker imply.
Phases ==
    /\ dispatcher \in {"drop", "join", "verify", "done"} =>
          inbox = <<>> /\ ~inputOpen
    /\ dispatcher \in {"verify", "done"} => \A w \in Workers : worker[w].pc \in Gone
    /\ ~workOpen => dispatcher \in {"join", "verify", "done"}
    /\ \A w \in Workers : worker[w].pc = "exited" => work = <<>> /\ ~workOpen
    /\ verdict # "none" => dispatcher = "done"
    /\ verdict = "zero_lost" => queued = completed
    /\ verdict = "loss_reported" => queued # completed

VInv == AInv /\ KnownIds /\ PendingLocated /\ PanicHeld /\ Phases

\* The steps that move no chunk between the places above.
Bystander ==
    /\ UNCHANGED <<sent, inbox, work, held, fate>>
    /\ InHand' <=> InHand
    /\ dispatcher = "failed" => dispatcher' = "failed"
    /\ \A w \in Workers : /\ worker'[w].pc \in Holding <=> worker[w].pc \in Holding
                          /\ worker[w].pc \in Holding =>
                                worker'[w].chunk = worker[w].chunk
                          /\ worker[w].pc = "panicked" => worker'[w].pc = "panicked"

\* The steps that finish chunk c of worker w.
Finish(w, why) ==
    /\ UNCHANGED <<sent, inbox, work, held, dispatcher>>
    /\ worker[w].pc \in Holding /\ worker[w].pc # "panicked"
    /\ fate' = [fate EXCEPT ![worker[w].chunk.id] = why]
    /\ \/ worker'[w].pc = "idle" /\ why # "panic"
       \/ worker'[w].pc = "panicked" /\ worker'[w].chunk = worker[w].chunk
    /\ \A v \in Workers \ {w} : worker'[v] = worker[v]

\* Every step is of one of these kinds.
LEMMA StepKinds ==
    ASSUME AInv, [Next]_vars
    PROVE  \/ \E seg \in Segs, end \in 1..MaxEnd, final \in BOOLEAN :
                 PipelineSend([id |-> Len(sent) + 1, seg |-> seg, end |-> end,
                               final |-> final])
           \/ EngineInitFails \/ DispatchRecv \/ DispatchSend
           \/ \E w \in Workers : WorkerRecv(w)
           \/ \E w \in Workers : \E why \in Fates \ {"pending"} : Finish(w, why)
           \/ Bystander
<1>0. TypeOK /\ NotStarted
  BY DEF AInv
<1>1. CASE PipelineClose \/ ModelChange \/ UNCHANGED vars
  <2>1. UNCHANGED <<sent, inbox, work, held, fate, dispatcher, worker>>
    BY <1>1 DEF PipelineClose, ModelChange, outputs, vars, env
  <2> QED BY <2>1 DEF Bystander, InHand
<1>2. CASE EngineInitOk
  <2>1. /\ UNCHANGED <<sent, inbox, work, held, fate>>
        /\ dispatcher = "init" /\ dispatcher' = "recv"
        /\ \A w \in Workers : worker[w].pc = "unborn" /\ worker'[w].pc = "idle"
    BY <1>0, <1>2 DEF EngineInitOk, NotStarted, outputs, env
  <2> QED BY <2>1 DEF Bystander, InHand, Holding
<1>3. CASE \/ DispatchCount \/ DispatchFinish \/ DispatchDrop \/ JoinWorkers
           \/ VerifyComplete \/ VerifyRetry \/ VerifyLoss
  <2>1. /\ UNCHANGED <<sent, inbox, work, held, fate, worker>>
        /\ dispatcher # "failed" /\ (InHand' <=> InHand)
    BY <1>3 DEF DispatchCount, DispatchFinish, DispatchDrop, JoinWorkers,
       VerifyComplete, VerifyRetry, VerifyLoss, outputs, env, InHand
  <2> QED BY <2>1 DEF Bystander
<1>4. ASSUME NEW w \in Workers,
             WorkerModelReady(w) \/ WorkerKeep(w) \/ WorkerExit(w)
      PROVE  Bystander
  <2>1. UNCHANGED <<sent, inbox, work, held, fate, dispatcher>>
    BY <1>4 DEF WorkerModelReady, WorkerKeep, WorkerExit, outputs, env
  <2>2. \A v \in Workers :
           /\ worker'[v].chunk = worker[v].chunk
           /\ worker'[v].pc \in Holding <=> worker[v].pc \in Holding
           /\ worker[v].pc = "panicked" => worker'[v].pc = "panicked"
    <3>1. PICK label \in {"check_stale", "transcribe", "exited"} :
             /\ worker' = [worker EXCEPT ![w].pc = label]
             /\ worker[w].pc \in {"check_model", "check_stale", "idle"}
             /\ label = "exited" <=> worker[w].pc = "idle"
      BY <1>4 DEF WorkerModelReady, WorkerKeep, WorkerExit
    <3>2. worker'[w].pc = label /\ worker'[w].chunk = worker[w].chunk
      BY <1>0, <3>1 DEF TypeOK
    <3>3. \A v \in Workers \ {w} : worker'[v] = worker[v]
      BY <1>0, <3>1 DEF TypeOK
    <3> QED BY <3>1, <3>2, <3>3 DEF Holding
  <2> QED BY <2>1, <2>2 DEF Bystander, InHand
<1>5. ASSUME NEW w \in Workers, NEW why \in Fates \ {"pending", "panic"},
             Complete(w, why), worker[w].pc \in Holding \ {"panicked"}
      PROVE  Finish(w, why)
  <2>1. UNCHANGED <<sent, inbox, work, held, dispatcher>>
    BY <1>5 DEF Complete, env
  <2>2. /\ worker'[w].pc = "idle"
        /\ \A v \in Workers \ {w} : worker'[v] = worker[v]
    BY <1>0, <1>5 DEF Complete, TypeOK
  <2> QED BY <1>5, <2>1, <2>2 DEF Finish, Complete
<1>6. ASSUME NEW w \in Workers, WorkerPanic(w) PROVE Finish(w, "panic")
  <2>1. UNCHANGED <<sent, inbox, work, held, dispatcher>>
    BY <1>6 DEF WorkerPanic, env
  <2>2. /\ worker[w].pc = "transcribe" /\ worker'[w].pc = "panicked"
        /\ worker'[w].chunk = worker[w].chunk
        /\ \A v \in Workers \ {w} : worker'[v] = worker[v]
    BY <1>0, <1>6 DEF WorkerPanic, TypeOK
  <2> QED BY <1>6, <2>1, <2>2 DEF Finish, WorkerPanic, Holding
<1>7. ASSUME NEW w \in Workers,
             \/ WorkerModelUnloaded(w) \/ WorkerSkipStale(w)
             \/ \E text \in Texts : WorkerEmit(w, text) \/ WorkerSkipDuplicate(w, text)
             \/ \E why \in Fates : WorkerNothing(w, why)
      PROVE  \E why \in Fates \ {"pending"} : Finish(w, why)
  <2>1. \E why \in Fates \ {"pending", "panic"} :
           Complete(w, why) /\ worker[w].pc \in Holding \ {"panicked"}
    BY <1>7 DEF WorkerModelUnloaded, WorkerSkipStale, WorkerEmit,
       WorkerSkipDuplicate, WorkerNothing, Holding, Fates
  <2> QED BY <1>5, <2>1
<1>8. "panic" \in Fates \ {"pending"}
  BY DEF Fates
<1> QED
  BY <1>1, <1>2, <1>3, <1>4, <1>6, <1>7, <1>8
     DEF Next, Environment, Dispatcher, Worker, Terminated

\* No step brings in a chunk that was not sent.
LEMMA KnownIdsStep == ASSUME VInv, [Next]_vars PROVE KnownIds'
<1>0. AInv /\ TypeOK /\ KnownIds
  BY DEF VInv, AInv
<1> USE DEF KnownIds, Sent
<1>1. ASSUME NEW seg \in Segs, NEW end \in 1..MaxEnd, NEW final \in BOOLEAN,
             PipelineSend([id |-> Len(sent) + 1, seg |-> seg, end |-> end,
                           final |-> final])
      PROVE  KnownIds'
  <2> DEFINE c == [id |-> Len(sent) + 1, seg |-> seg, end |-> end, final |-> final]
  <2>1. /\ UNCHANGED <<work, held, dispatcher, worker>> /\ inbox' = Append(inbox, c)
        /\ sent' = Append(sent, c) /\ Len(sent) < MaxChunks
    BY <1>1 DEF PipelineSend
  <2>2. Len(sent') = Len(sent) + 1 /\ Len(sent) \in Nat /\ c.id = Len(sent')
    BY <1>0, <2>1 DEF TypeOK
  <2>3. \A k \in 1..Len(inbox') : inbox'[k].id \in 1..Len(sent')
    BY <1>0, <2>1, <2>2 DEF TypeOK
  <2> QED BY <1>0, <2>1, <2>2, <2>3, BoundsAssumption DEF InHand
<1>2. CASE EngineInitFails
  BY <1>0, <1>2 DEF EngineInitFails, InHand, env
<1>3. CASE DispatchRecv
  <2>1. /\ UNCHANGED <<sent, work, worker>> /\ inbox' = Tail(inbox)
        /\ held' = Head(inbox) /\ inbox # <<>>
    BY <1>3 DEF DispatchRecv, env
  <2>2. Sent(held') /\ \A k \in 1..Len(inbox') : Sent(inbox'[k])
    BY <1>0, <2>1 DEF TypeOK
  <2> QED BY <1>0, <2>1, <2>2
<1>4. CASE DispatchSend
  <2>1. /\ UNCHANGED <<sent, inbox, worker>> /\ work' = Append(work, held)
        /\ dispatcher = "send" /\ dispatcher' = "recv"
    BY <1>4 DEF DispatchSend, env
  <2>2. \A k \in 1..Len(work') : Sent(work'[k])
    BY <1>0, <2>1 DEF TypeOK, InHand
  <2> QED BY <1>0, <2>1, <2>2 DEF InHand
<1>5. ASSUME NEW w \in Workers, WorkerRecv(w) PROVE KnownIds'
  <2>1. /\ UNCHANGED <<sent, inbox, held, dispatcher>> /\ work' = Tail(work)
        /\ work # <<>> /\ worker'[w].chunk = Head(work)
        /\ \A v \in Workers \ {w} : worker'[v] = worker[v]
    BY <1>0, <1>5 DEF WorkerRecv, env, TypeOK
  <2>2. Sent(Head(work)) /\ \A k \in 1..Len(work') : Sent(work'[k])
    BY <1>0, <2>1 DEF TypeOK
  <2> QED BY <1>0, <2>1, <2>2 DEF InHand
<1>6. ASSUME NEW w \in Workers, NEW why \in Fates \ {"pending"}, Finish(w, why)
      PROVE  KnownIds'
  BY <1>0, <1>6 DEF Finish, InHand, Holding
<1>7. CASE Bystander
  BY <1>0, <1>7 DEF Bystander, InHand
<1> HIDE DEF KnownIds
<1> QED BY <1>0, <1>1, <1>2, <1>3, <1>4, <1>5, <1>6, <1>7, StepKinds

\* A chunk leaves its place only for the next one, or with a fate.
LEMMA PendingStep == ASSUME VInv, [Next]_vars PROVE PendingLocated'
<1>0. AInv /\ TypeOK /\ KnownIds /\ PendingLocated
  BY DEF VInv, AInv
<1>1. ASSUME NEW seg \in Segs, NEW end \in 1..MaxEnd, NEW final \in BOOLEAN,
             PipelineSend([id |-> Len(sent) + 1, seg |-> seg, end |-> end,
                           final |-> final])
      PROVE  PendingLocated'
  <2> DEFINE c == [id |-> Len(sent) + 1, seg |-> seg, end |-> end, final |-> final]
  <2>1. /\ UNCHANGED <<work, held, dispatcher, worker, fate>>
        /\ inbox' = Append(inbox, c) /\ sent' = Append(sent, c)
    BY <1>1 DEF PipelineSend, outputs
  <2>2. Len(sent') = Len(sent) + 1 /\ Len(sent) \in Nat /\ c.id = Len(sent')
    BY <1>0, <2>1 DEF TypeOK
  <2>3. /\ Len(inbox') = Len(inbox) + 1 /\ Len(inbox) \in Nat
        /\ inbox'[Len(inbox')] = c
        /\ \A k \in 1..Len(inbox) : inbox'[k] = inbox[k]
    BY <1>0, <2>1 DEF TypeOK
  <2>4. ASSUME NEW i, Located(i) PROVE Located(i)'
    BY <2>1, <2>3, <2>4 DEF Located, InHand
  <2>5. ASSUME NEW i, i = c.id PROVE Located(i)'
    <3>1. Len(inbox') \in 1..Len(inbox') /\ inbox'[Len(inbox')].id = i
      BY <2>3, <2>5
    <3> QED BY <3>1 DEF Located
  <2>6. ASSUME NEW i \in 1..Len(sent), fate[i] = "pending", dispatcher # "failed"
        PROVE  Located(i)'
    BY <1>0, <2>4, <2>6 DEF PendingLocated
  <2> SUFFICES ASSUME dispatcher' # "failed", NEW i \in 1..Len(sent'),
                      fate'[i] = "pending"
               PROVE  Located(i)'
    BY DEF PendingLocated
  <2>7. i = c.id \/ i \in 1..Len(sent)
    BY <2>2
  <2> HIDE DEF c
  <2> QED BY <2>1, <2>5, <2>6, <2>7
<1>2. CASE EngineInitFails
  BY <1>2 DEF EngineInitFails, PendingLocated
<1>3. CASE DispatchRecv
  <2>1. /\ UNCHANGED <<sent, work, worker, fate>> /\ inbox' = Tail(inbox)
        /\ held' = Head(inbox) /\ inbox # <<>>
        /\ dispatcher = "recv" /\ dispatcher' = "count"
    BY <1>3 DEF DispatchRecv, env, outputs
  <2>2. ASSUME NEW i, Located(i) PROVE Located(i)'
    <3>1. CASE \E k \in 1..Len(inbox) : inbox[k].id = i
      <4>1. PICK k \in 1..Len(inbox) : inbox[k].id = i
        BY <3>1
      <4>2. CASE k = 1
        BY <1>0, <2>1, <4>1, <4>2 DEF Located, InHand, TypeOK
      <4>3. CASE k # 1
        <5>1. k - 1 \in 1..Len(inbox') /\ inbox'[k - 1] = inbox[k]
          BY <1>0, <2>1, <4>3 DEF TypeOK
        <5> QED BY <4>1, <5>1 DEF Located
      <4> QED BY <4>2, <4>3
    <3>2. CASE ~(\E k \in 1..Len(inbox) : inbox[k].id = i)
      BY <2>1, <2>2, <3>2 DEF Located, InHand
    <3> QED BY <3>1, <3>2
  <2> QED BY <1>0, <2>1, <2>2 DEF PendingLocated
<1>4. CASE DispatchSend
  <2>1. /\ UNCHANGED <<sent, inbox, worker, fate>> /\ work' = Append(work, held)
        /\ dispatcher = "send" /\ dispatcher' = "recv"
    BY <1>4 DEF DispatchSend, env, outputs
  <2>2. /\ Len(work') = Len(work) + 1 /\ Len(work) \in Nat
        /\ work'[Len(work')] = held
        /\ \A k \in 1..Len(work) : work'[k] = work[k]
    BY <1>0, <2>1 DEF TypeOK
  <2>3. ASSUME NEW i, Located(i) PROVE Located(i)'
    BY <2>1, <2>2, <2>3 DEF Located
  <2> QED BY <1>0, <2>1, <2>3 DEF PendingLocated
<1>5. ASSUME NEW w \in Workers, WorkerRecv(w) PROVE PendingLocated'
  <2>1. /\ UNCHANGED <<sent, inbox, held, dispatcher, fate>> /\ work' = Tail(work)
        /\ work # <<>> /\ worker[w].pc = "idle" /\ worker'[w].pc = "check_model"
        /\ worker'[w].chunk = Head(work)
        /\ \A v \in Workers \ {w} : worker'[v] = worker[v]
    BY <1>0, <1>5 DEF WorkerRecv, env, outputs, TypeOK
  <2>2. ASSUME NEW i, Located(i) PROVE Located(i)'
    <3>1. CASE \E k \in 1..Len(work) : work[k].id = i
      <4>1. PICK k \in 1..Len(work) : work[k].id = i
        BY <3>1
      <4>2. CASE k = 1
        <5>1. worker'[w].chunk.id = i
          BY <1>0, <2>1, <4>1, <4>2 DEF TypeOK
        <5> QED BY <2>1, <5>1 DEF Located, Holding
      <4>3. CASE k # 1
        <5>1. k - 1 \in 1..Len(work') /\ work'[k - 1] = work[k]
          BY <1>0, <2>1, <4>3 DEF TypeOK
        <5> QED BY <4>1, <5>1 DEF Located
      <4> QED BY <4>2, <4>3
    <3>2. CASE \E v \in Workers : worker[v].pc \in Holding /\ worker[v].chunk.id = i
      <4>1. PICK v \in Workers : worker[v].pc \in Holding /\ worker[v].chunk.id = i
        BY <3>2
      <4>2. v # w
        BY <2>1, <4>1 DEF Holding
      <4> QED BY <2>1, <4>1, <4>2 DEF Located
    <3>3. CASE \/ \E k \in 1..Len(inbox) : inbox[k].id = i
               \/ InHand /\ held.id = i
      BY <2>1, <3>3 DEF Located, InHand
    <3> QED BY <2>2, <3>1, <3>2, <3>3 DEF Located
  <2> QED BY <1>0, <2>1, <2>2 DEF PendingLocated
<1>6. ASSUME NEW w \in Workers, NEW why \in Fates \ {"pending"}, Finish(w, why)
      PROVE  PendingLocated'
  <2>1. ASSUME NEW i, Located(i), i # worker[w].chunk.id PROVE Located(i)'
    BY <1>6, <2>1 DEF Finish, Located, InHand
  <2>2. ASSUME NEW i \in 1..Len(sent), fate'[i] = "pending"
        PROVE  fate[i] = "pending" /\ i # worker[w].chunk.id
    <3>1. i \in 1..MaxChunks
      BY <1>0, BoundsAssumption DEF KnownIds, TypeOK
    <3> QED BY <1>0, <1>6, <2>2, <3>1 DEF Finish, TypeOK
  <2>3. UNCHANGED <<sent, dispatcher>>
    BY <1>6 DEF Finish
  <2> QED BY <1>0, <2>1, <2>2, <2>3 DEF PendingLocated
<1>7. CASE Bystander
  <2>1. ASSUME NEW i, Located(i) PROVE Located(i)'
    BY <1>7, <2>1 DEF Bystander, Located
  <2>2. UNCHANGED <<sent, fate>> /\ (dispatcher' # "failed" => dispatcher # "failed")
    BY <1>7 DEF Bystander
  <2> QED BY <1>0, <2>1, <2>2 DEF PendingLocated
<1> QED BY <1>0, <1>1, <1>2, <1>3, <1>4, <1>5, <1>6, <1>7, StepKinds

\* A worker that has panicked keeps its chunk for ever.
LEMMA PanicStep == ASSUME VInv, [Next]_vars PROVE PanicHeld'
<1>0. AInv /\ TypeOK /\ KnownIds /\ PanicHeld
  BY DEF VInv, AInv
<1>1. CASE \/ \E seg \in Segs, end \in 1..MaxEnd, final \in BOOLEAN :
                 PipelineSend([id |-> Len(sent) + 1, seg |-> seg, end |-> end,
                               final |-> final])
           \/ EngineInitFails \/ DispatchRecv \/ DispatchSend
  <2>1. UNCHANGED <<worker, fate>>
    BY <1>1 DEF PipelineSend, EngineInitFails, DispatchRecv, DispatchSend, outputs
  <2> QED BY <1>0, <2>1 DEF PanicHeld
<1>2. ASSUME NEW w \in Workers, WorkerRecv(w) PROVE PanicHeld'
  <2>1. /\ worker[w].pc = "idle" /\ UNCHANGED fate
        /\ \A v \in Workers \ {w} : worker'[v] = worker[v]
    BY <1>0, <1>2 DEF WorkerRecv, outputs, TypeOK
  <2> QED BY <1>0, <2>1 DEF PanicHeld
<1>3. ASSUME NEW w \in Workers, NEW why \in Fates \ {"pending"}, Finish(w, why)
      PROVE  PanicHeld'
  <2> SUFFICES ASSUME NEW i \in 1..MaxChunks, fate'[i] = "panic"
               PROVE  \E v \in Workers : worker'[v].pc = "panicked"
                                         /\ worker'[v].chunk.id = i
    BY DEF PanicHeld
  <2>1. CASE i = worker[w].chunk.id
    <3>1. why = "panic"
      BY <1>0, <1>3, <2>1 DEF Finish, TypeOK
    <3> QED BY <1>3, <2>1, <3>1 DEF Finish
  <2>2. CASE i # worker[w].chunk.id
    <3>1. fate[i] = "panic"
      BY <1>0, <1>3, <2>2 DEF Finish, TypeOK
    <3>2. PICK v \in Workers : worker[v].pc = "panicked" /\ worker[v].chunk.id = i
      BY <1>0, <3>1 DEF PanicHeld
    <3> QED BY <1>3, <3>2 DEF Finish
  <2> QED BY <2>1, <2>2
<1>4. CASE Bystander
  BY <1>0, <1>4 DEF Bystander, PanicHeld, Holding
<1> QED BY <1>0, <1>1, <1>2, <1>3, <1>4, StepKinds

\* The order of the dispatcher's last steps.
LEMMA PhasesStep == ASSUME VInv, [Next]_vars PROVE Phases'
<1>0. TypeOK /\ NotStarted /\ Phases
  BY DEF VInv, AInv
<1> USE DEF Phases
<1>1. CASE Environment
  <2>1. /\ UNCHANGED <<dispatcher, work, workOpen, worker, queued, completed, verdict>>
        /\ ~inputOpen => UNCHANGED <<inputOpen, inbox>>
    <3>1. CASE PipelineClose \/ ModelChange
      BY <3>1 DEF PipelineClose, ModelChange, counts, ending, env
    <3>2. ASSUME NEW m, PipelineSend(m)
          PROVE  /\ UNCHANGED <<dispatcher, work, workOpen, worker, queued, completed,
                                 verdict>>
                 /\ inputOpen
      BY <3>2 DEF PipelineSend, counts, ending
    <3> QED BY <1>1, <3>1, <3>2 DEF Environment
  <2> QED BY <1>0, <2>1
<1>2. CASE EngineInitFails \/ EngineInitOk
  BY <1>0, <1>2 DEF EngineInitFails, EngineInitOk, NotStarted, counts, ending, env
<1>3. CASE DispatchRecv \/ DispatchCount \/ DispatchSend
  BY <1>0, <1>3 DEF DispatchRecv, DispatchCount, DispatchSend, counts, ending, env
<1>4. CASE DispatchFinish \/ DispatchDrop
  BY <1>0, <1>4 DEF DispatchFinish, DispatchDrop, counts, ending, env
<1>5. CASE JoinWorkers
  BY <1>0, <1>5 DEF JoinWorkers, counts, ending, env
<1>6. CASE VerifyComplete \/ VerifyRetry \/ VerifyLoss
  BY <1>0, <1>6 DEF VerifyComplete, VerifyRetry, VerifyLoss, counts, ending, env
<1>7. ASSUME NEW w \in Workers, Worker(w) PROVE Phases'
  <2>1. /\ UNCHANGED <<inbox, inputOpen, dispatcher, workOpen, verdict, queued>>
        /\ worker[w].pc \notin Gone
    BY <1>7 DEF Worker, WorkerRecv, WorkerModelReady, WorkerModelUnloaded,
       WorkerSkipStale, WorkerKeep, WorkerEmit, WorkerSkipDuplicate, WorkerNothing,
       WorkerPanic, WorkerExit, Complete, counts, ending, env, Gone
  <2>2. dispatcher \notin {"verify", "done"} /\ verdict = "none"
    BY <1>0, <2>1 DEF TypeOK
  <2>3. \A v \in Workers \ {w} : worker'[v] = worker[v]
    BY <1>0, <1>7 DEF Worker, WorkerRecv, WorkerModelReady, WorkerModelUnloaded,
       WorkerSkipStale, WorkerKeep, WorkerEmit, WorkerSkipDuplicate, WorkerNothing,
       WorkerPanic, WorkerExit, Complete, TypeOK
  <2>4. work = <<>> => work' = <<>>
    BY <1>7 DEF Worker, WorkerRecv, WorkerModelReady, WorkerModelUnloaded,
       WorkerSkipStale, WorkerKeep, WorkerEmit, WorkerSkipDuplicate, WorkerNothing,
       WorkerPanic, WorkerExit, Complete
  <2>5. worker'[w].pc = "exited" => work = <<>> /\ ~workOpen
    BY <1>0, <1>7 DEF Worker, WorkerRecv, WorkerModelReady, WorkerModelUnloaded,
       WorkerSkipStale, WorkerKeep, WorkerEmit, WorkerSkipDuplicate, WorkerNothing,
       WorkerPanic, WorkerExit, Complete, TypeOK
  <2> QED BY <1>0, <2>1, <2>2, <2>3, <2>4, <2>5
<1>8. CASE UNCHANGED vars
  BY <1>0, <1>8 DEF vars, counts, ending, env
<1> HIDE DEF Phases
<1> QED
  BY <1>1, <1>2, <1>3, <1>4, <1>5, <1>6, <1>7, <1>8 DEF Next, Dispatcher, Terminated

\* When the task announces "zero chunks lost" every chunk it was sent has a fate,
\* and it reports a loss only if a worker died over a chunk.
LEMMA VInvTruthful == ASSUME VInv PROVE VerdictTruthful
<1>0. TypeOK /\ Accounting /\ KnownIds /\ PendingLocated /\ PanicHeld /\ Phases
  BY DEF VInv, AInv
<1>1. Len(work) \in Nat /\ completed \in Nat /\ queued \in Nat
  BY <1>0 DEF TypeOK
<1>2. ASSUME verdict = "zero_lost", NEW i \in 1..Len(sent)
      PROVE  fate[i] \notin {"pending", "panic"}
  <2>1. /\ dispatcher = "done" /\ inbox = <<>> /\ queued = completed
    BY <1>0, <1>2 DEF Phases
  <2>2. Len(work) = 0 /\ Cardinality(Busy) = 0
    BY <1>0, <1>1, <2>1, BusyCount DEF Accounting
  <2>3. \A w \in Workers : worker[w].pc \notin Holding
    BY <2>2, BusyFinite, FS_EmptySet DEF Busy
  <2>4. ~Located(i)
    BY <2>1, <2>2, <2>3 DEF Located, InHand
  <2>5. i \in 1..MaxChunks
    BY <1>0, BoundsAssumption DEF KnownIds, TypeOK
  <2> QED BY <1>0, <2>1, <2>3, <2>4, <2>5 DEF PendingLocated, PanicHeld, Holding
<1>3. ASSUME verdict = "loss_reported", \A w \in Workers : worker[w].pc # "panicked"
      PROVE  FALSE
  <2>1. /\ dispatcher = "done" /\ queued # completed
        /\ \A w \in Workers : worker[w].pc \in Gone
    BY <1>0, <1>3 DEF Phases
  <2>2. \A w \in Workers : worker[w].pc = "exited"
    BY <1>3, <2>1 DEF Gone
  <2>3. work = <<>>
    BY <1>0, <2>2, WorkersAssumption DEF Phases
  <2>4. Busy = {}
    BY <2>2 DEF Busy, Holding
  <2>5. Cardinality(Busy) = 0 /\ Len(work) = 0
    BY <2>3, <2>4, FS_EmptySet
  <2> QED BY <1>0, <1>1, <2>1, <2>5 DEF Accounting
<1> QED BY <1>2, <1>3 DEF VerdictTruthful

\* Every chunk is where the invariant says when the task starts ...
LEMMA InitVInv == Init => VInv
<1> SUFFICES ASSUME Init PROVE VInv
  OBVIOUS
<1>1. AInv
  BY InitAInv
<1>2. KnownIds /\ PendingLocated
  BY BoundsAssumption DEF Init, KnownIds, PendingLocated, InHand, Holding
<1>3. PanicHeld /\ Phases
  BY DEF Init, PanicHeld, Phases
<1> QED BY <1>1, <1>2, <1>3 DEF VInv

\* ... and after every step.
LEMMA VInvStep == ASSUME VInv, [Next]_vars PROVE VInv'
<1>1. AInv'
  BY AccountingStep DEF VInv
<1> QED BY <1>1, KnownIdsStep, PendingStep, PanicStep, PhasesStep DEF VInv

\* The verdict of the final verification (worker.rs, the loop after the join) can
\* be believed for every pool size and every load: "zero chunks lost" only when
\* no chunk is left pending or died with a worker, a loss only after a panic.
THEOREM VerdictIsTruthful == Spec => []VerdictTruthful
<1>1. VInv => VerdictTruthful
  BY VInvTruthful
<1>2. VInv /\ [Next]_vars => VInv'
  BY VInvStep
<1> QED BY <1>1, <1>2, InitVInv, PTL DEF Spec

-----------------------------------------------------------------------------
(***************************************************************************)
(* The order of the updates.  With one worker, which is what NUM_WORKERS   *)
(* fixes, a chunk is passed from the pipeline's channel to the dispatcher, *)
(* from there to the work channel and to the worker, and never overtakes   *)
(* another on the way; a chunk is nowhere altered, so that the final the   *)
(* pipeline sends last for its segment is also the last one emitted.       *)
(***************************************************************************)

\* A chunk as the pipeline sent it.
Genuine(c) == c.id \in 1..Len(sent) /\ c = sent[c.id]

\* What PipelineSend makes of the chunks: ids count, a final ends its segment.
SentInOrder ==
    \A i \in 1..Len(sent) :
        /\ sent[i].id = i
        /\ \A j \in 1..Len(sent) : i < j /\ sent[i].seg = sent[j].seg => ~sent[i].final

AllGenuine ==
    /\ \A k \in 1..Len(inbox) : Genuine(inbox[k])
    /\ \A k \in 1..Len(work) : Genuine(work[k])
    /\ InHand => Genuine(held)
    /\ \A w \in Workers : worker[w].pc \in Holding => Genuine(worker[w].chunk)

\* Number n comes before every chunk that no worker has taken yet.
Ahead(n) ==
    /\ n <= Len(sent)
    /\ \A k \in 1..Len(inbox) : n < inbox[k].id
    /\ InHand => n < held.id
    /\ \A k \in 1..Len(work) : n < work[k].id

QueuesInOrder ==
    /\ \A i, j \in 1..Len(inbox) : i < j => inbox[i].id < inbox[j].id
    /\ \A i, j \in 1..Len(work) : i < j => work[i].id < work[j].id
    /\ InHand => \A k \in 1..Len(inbox) : held.id < inbox[k].id
    /\ InHand => \A k \in 1..Len(work) : work[k].id < held.id
    /\ \A k \in 1..Len(work), j \in 1..Len(inbox) : work[k].id < inbox[j].id

WorkerAhead ==
    \A w \in Workers : worker[w].pc \in Holding => Ahead(worker[w].chunk.id)

\* An emitted update names a sent chunk, and is before whatever is still to come.
EmittedAhead ==
    \A i \in 1..Len(emitted) :
        /\ emitted[i].id \in 1..Len(sent)
        /\ emitted[i].seg = sent[emitted[i].id].seg
        /\ emitted[i].final = sent[emitted[i].id].final
        /\ emitted[i].seq < seqCounter
        /\ Ahead(emitted[i].id)
        /\ \A w \in Workers : worker[w].pc \in Holding =>
                                  emitted[i].id < worker[w].chunk.id

EmittedAscends ==
    \A i, j \in 1..Len(emitted) : i < j =>
        emitted[i].id < emitted[j].id /\ emitted[i].seq < emitted[j].seq

OInv == /\ VInv /\ SentInOrder /\ AllGenuine /\ QueuesInOrder
        /\ WorkerAhead /\ EmittedAhead /\ EmittedAscends

\* The history only grows, and so ...
LEMMA HistoryGrows ==
    ASSUME VInv, [Next]_vars
    PROVE  /\ Len(sent) <= Len(sent') /\ Len(sent) \in Nat /\ Len(sent') \in Nat
           /\ \A i \in 1..Len(sent) : sent'[i] = sent[i]
<1>0. AInv /\ TypeOK /\ sent \in Seq(Chunk)
  BY DEF VInv, AInv, TypeOK
<1>1. ASSUME NEW seg \in Segs, NEW end \in 1..MaxEnd, NEW final \in BOOLEAN,
             PipelineSend([id |-> Len(sent) + 1, seg |-> seg, end |-> end,
                           final |-> final])
      PROVE  \E d : sent' = Append(sent, d)
  BY <1>1 DEF PipelineSend
<1>2. sent' = sent \/ \E d : sent' = Append(sent, d)
  BY <1>0, <1>1, StepKinds
     DEF EngineInitFails, DispatchRecv, DispatchSend, WorkerRecv, Finish, Bystander, env
<1>3. ASSUME NEW d, sent' = Append(sent, d)
      PROVE  /\ Len(sent') = Len(sent) + 1 /\ Len(sent) \in Nat
             /\ \A i \in 1..Len(sent) : sent'[i] = sent[i]
  BY <1>0, <1>3
<1> QED BY <1>0, <1>2, <1>3

\* ... a chunk that is genuine stays it.
LEMMA GenuineStays ==
    ASSUME VInv, [Next]_vars, NEW c, Genuine(c)
    PROVE  Genuine(c)'
BY HistoryGrows DEF Genuine

\* The pipeline numbers its chunks and sends nothing of a segment after its final.
LEMMA SentInOrderStep ==
    ASSUME VInv, SentInOrder, [Next]_vars
    PROVE  SentInOrder'
<1>0. AInv /\ sent \in Seq(Chunk)
  BY DEF VInv, AInv, TypeOK
<1>1. ASSUME NEW seg \in Segs, NEW end \in 1..MaxEnd, NEW final \in BOOLEAN,
             PipelineSend([id |-> Len(sent) + 1, seg |-> seg, end |-> end,
                           final |-> final])
      PROVE  SentInOrder'
  <2> DEFINE c == [id |-> Len(sent) + 1, seg |-> seg, end |-> end, final |-> final]
  <2>1. sent' = Append(sent, c) /\ \A d \in SentOf(c.seg) : ~d.final
    BY <1>1 DEF PipelineSend
  <2>2. c.id = Len(sent) + 1 /\ \A i \in 1..Len(sent) : sent[i].seg = c.seg => ~sent[i].final
    BY <2>1 DEF SentOf
  <2> HIDE DEF c
  <2>3. /\ Len(sent') = Len(sent) + 1 /\ sent'[Len(sent) + 1] = c
        /\ \A i \in 1..Len(sent) : sent'[i] = sent[i]
    BY <1>0, <2>1
  <2>4. Len(sent) \in Nat
    BY <1>0
  <2> QED BY <2>2, <2>3, <2>4 DEF SentInOrder
<1>2. sent' = sent => SentInOrder'
  BY DEF SentInOrder
<1> QED
  BY <1>0, <1>1, <1>2, StepKinds
     DEF EngineInitFails, DispatchRecv, DispatchSend, WorkerRecv, Finish, Bystander, env

\* Nobody alters a chunk on its way.
LEMMA AllGenuineStep ==
    ASSUME VInv, AllGenuine, [Next]_vars
    PROVE  AllGenuine'
<1>0. AInv /\ TypeOK /\ sent \in Seq(Chunk) /\ inbox \in Seq(Chunk) /\ work \in Seq(Chunk)
  BY DEF VInv, AInv, TypeOK
<1>1. \A c : Genuine(c) => Genuine(c)'
  BY GenuineStays
<1>2. ASSUME NEW seg \in Segs, NEW end \in 1..MaxEnd, NEW final \in BOOLEAN,
             PipelineSend([id |-> Len(sent) + 1, seg |-> seg, end |-> end,
                           final |-> final])
      PROVE  AllGenuine'
  <2>1. PICK d : /\ d.id = Len(sent) + 1
                 /\ inbox' = Append(inbox, d) /\ sent' = Append(sent, d)
                 /\ UNCHANGED <<work, held, dispatcher, worker>>
    BY <1>2 DEF PipelineSend
  <2>2. Genuine(d)'
    BY <1>0, <2>1 DEF Genuine
  <2>3. \A k \in 1..Len(inbox') :
            (k \in 1..Len(inbox) /\ inbox'[k] = inbox[k]) \/ inbox'[k] = d
    BY <1>0, <2>1
  <2>4. \A e : Genuine(e) \/ e = d => e.id \in 1..Len(sent') /\ e = sent'[e.id]
    BY <1>1, <2>2 DEF Genuine
  <2>5. \A k \in 1..Len(inbox') : Genuine(inbox'[k]) \/ inbox'[k] = d
    BY <2>3 DEF AllGenuine
  <2>6. /\ \A k \in 1..Len(work') : Genuine(work'[k])
        /\ InHand' => Genuine(held')
        /\ \A w \in Workers : worker'[w].pc \in Holding => Genuine(worker'[w].chunk)
    BY <2>1 DEF AllGenuine, InHand
  <2>7. AllGenuine' = (/\ \A k \in 1..Len(inbox') :
                             inbox'[k].id \in 1..Len(sent') /\ inbox'[k] = sent'[inbox'[k].id]
                       /\ \A k \in 1..Len(work') :
                             work'[k].id \in 1..Len(sent') /\ work'[k] = sent'[work'[k].id]
                       /\ InHand' => held'.id \in 1..Len(sent') /\ held' = sent'[held'.id]
                       /\ \A w \in Workers : worker'[w].pc \in Holding =>
                             worker'[w].chunk.id \in 1..Len(sent')
                             /\ worker'[w].chunk = sent'[worker'[w].chunk.id])
    BY DEF AllGenuine, Genuine
  <2> QED BY <2>4, <2>5, <2>6, <2>7
<1>3. CASE EngineInitFails
  BY <1>1, <1>3 DEF EngineInitFails, AllGenuine, InHand, Genuine, env
<1>4. CASE DispatchRecv
  <2>1. /\ UNCHANGED <<sent, work, worker>> /\ inbox' = Tail(inbox)
        /\ held' = Head(inbox) /\ inbox # <<>>
    BY <1>4 DEF DispatchRecv, env
  <2>2. Genuine(held') /\ \A k \in 1..Len(inbox') : Genuine(inbox'[k])
    BY <1>0, <2>1 DEF AllGenuine
  <2> QED BY <2>1, <2>2 DEF AllGenuine, Genuine
<1>5. CASE DispatchSend
  <2>1. /\ UNCHANGED <<sent, inbox, worker>> /\ work' = Append(work, held)
        /\ dispatcher = "send" /\ dispatcher' = "recv"
    BY <1>5 DEF DispatchSend, env
  <2>2. \A k \in 1..Len(work') : Genuine(work'[k])
    BY <1>0, <2>1 DEF AllGenuine, InHand, TypeOK
  <2> QED BY <2>1, <2>2 DEF AllGenuine, Genuine, InHand
<1>6. ASSUME NEW w \in Workers, WorkerRecv(w) PROVE AllGenuine'
  <2>1. /\ UNCHANGED <<sent, inbox, held, dispatcher>> /\ work' = Tail(work)
        /\ work # <<>> /\ worker'[w].chunk = Head(work)
        /\ \A v \in Workers \ {w} : worker'[v] = worker[v]
    BY <1>0, <1>6 DEF WorkerRecv, env, TypeOK
  <2>2. Genuine(Head(work)) /\ \A k \in 1..Len(work') : Genuine(work'[k])
    BY <1>0, <2>1 DEF AllGenuine
  <2> QED BY <2>1, <2>2 DEF AllGenuine, Genuine, InHand
<1>7. ASSUME NEW w \in Workers, NEW why \in Fates \ {"pending"}, Finish(w, why)
      PROVE  AllGenuine'
  BY <1>7 DEF Finish, AllGenuine, Genuine, InHand, Holding
<1>8. CASE Bystander
  BY <1>8 DEF Bystander, AllGenuine, Genuine, InHand
<1> QED BY <1>0, <1>2, <1>3, <1>4, <1>5, <1>6, <1>7, <1>8, StepKinds

\* What is before the queues stays before them: they only take up newer chunks.
LEMMA AheadStays ==
    ASSUME VInv, [Next]_vars, NEW n \in Nat, Ahead(n)
    PROVE  Ahead(n)'
<1>0. AInv /\ TypeOK /\ sent \in Seq(Chunk) /\ inbox \in Seq(Chunk) /\ work \in Seq(Chunk)
  BY DEF VInv, AInv, TypeOK
<1>1. ASSUME NEW seg \in Segs, NEW end \in 1..MaxEnd, NEW final \in BOOLEAN,
             PipelineSend([id |-> Len(sent) + 1, seg |-> seg, end |-> end,
                           final |-> final])
      PROVE  Ahead(n)'
  <2> DEFINE c == [id |-> Len(sent) + 1, seg |-> seg, end |-> end, final |-> final]
  <2>1. /\ UNCHANGED <<work, held, dispatcher>> /\ inbox' = Append(inbox, c)
        /\ sent' = Append(sent, c)
    BY <1>1 DEF PipelineSend
  <2>2. Len(sent') = Len(sent) + 1 /\ Len(sent) \in Nat /\ c.id = Len(sent) + 1
    BY <1>0, <2>1
  <2>3. \A k \in 1..Len(inbox') :
            (k \in 1..Len(inbox) /\ inbox'[k] = inbox[k]) \/ inbox'[k] = c
    BY <1>0, <2>1
  <2> HIDE DEF c
  <2> QED BY <2>1, <2>2, <2>3 DEF Ahead, InHand
<1>2. CASE EngineInitFails
  BY <1>0, <1>2 DEF EngineInitFails, Ahead, InHand, env
<1>3. CASE DispatchRecv
  <2>1. /\ UNCHANGED <<sent, work>> /\ inbox' = Tail(inbox)
        /\ held' = Head(inbox) /\ inbox # <<>>
    BY <1>3 DEF DispatchRecv, env
  <2>2. n < held'.id /\ \A k \in 1..Len(inbox') : n < inbox'[k].id
    BY <1>0, <2>1 DEF Ahead
  <2> QED BY <2>1, <2>2 DEF Ahead
<1>4. CASE DispatchSend
  <2>1. /\ UNCHANGED <<sent, inbox>> /\ work' = Append(work, held)
        /\ dispatcher = "send" /\ dispatcher' = "recv"
    BY <1>4 DEF DispatchSend, env
  <2>2. \A k \in 1..Len(work') : n < work'[k].id
    BY <1>0, <2>1 DEF Ahead, InHand, TypeOK
  <2> QED BY <2>1, <2>2 DEF Ahead, InHand
<1>5. ASSUME NEW w \in Workers, WorkerRecv(w) PROVE Ahead(n)'
  <2>1. /\ UNCHANGED <<sent, inbox, held, dispatcher>> /\ work' = Tail(work)
        /\ work # <<>>
    BY <1>5 DEF WorkerRecv, env
  <2>2. \A k \in 1..Len(work') : n < work'[k].id
    BY <1>0, <2>1 DEF Ahead
  <2> QED BY <2>1, <2>2 DEF Ahead, InHand
<1>6. ASSUME NEW w \in Workers, NEW why \in Fates \ {"pending"}, Finish(w, why)
      PROVE  Ahead(n)'
  BY <1>6 DEF Finish, Ahead, InHand
<1>7. CASE Bystander
  BY <1>7 DEF Bystander, Ahead
<1> QED BY <1>0, <1>1, <1>2, <1>3, <1>4, <1>5, <1>6, <1>7, StepKinds

\* Both channels are first in, first out.
LEMMA QueuesStep ==
    ASSUME VInv, AllGenuine, QueuesInOrder, [Next]_vars
    PROVE  QueuesInOrder'
<1>0. AInv /\ TypeOK /\ sent \in Seq(Chunk) /\ inbox \in Seq(Chunk) /\ work \in Seq(Chunk)
  BY DEF VInv, AInv, TypeOK
<1>1. ASSUME NEW seg \in Segs, NEW end \in 1..MaxEnd, NEW final \in BOOLEAN,
             PipelineSend([id |-> Len(sent) + 1, seg |-> seg, end |-> end,
                           final |-> final])
      PROVE  QueuesInOrder'
  <2> DEFINE c == [id |-> Len(sent) + 1, seg |-> seg, end |-> end, final |-> final]
  <2>1. /\ UNCHANGED <<work, held, dispatcher>> /\ inbox' = Append(inbox, c)
    BY <1>1 DEF PipelineSend
  <2>2. /\ \A k \in 1..Len(inbox) : inbox[k].id < c.id
        /\ \A k \in 1..Len(work) : work[k].id < c.id
        /\ InHand => held.id < c.id
    BY <1>0 DEF AllGenuine, Genuine
  <2>3. /\ Len(inbox') = Len(inbox) + 1 /\ Len(inbox) \in Nat
        /\ inbox'[Len(inbox')] = c
        /\ \A k \in 1..Len(inbox) : inbox'[k] = inbox[k]
    BY <1>0, <2>1
  <2> HIDE DEF c
  <2> QED BY <2>1, <2>2, <2>3 DEF QueuesInOrder, InHand
<1>2. CASE EngineInitFails
  BY <1>0, <1>2 DEF EngineInitFails, QueuesInOrder, InHand, env
<1>3. CASE DispatchRecv
  <2>1. /\ UNCHANGED <<sent, work>> /\ inbox' = Tail(inbox)
        /\ held' = Head(inbox) /\ inbox # <<>>
    BY <1>3 DEF DispatchRecv, env
  <2>2. /\ Len(inbox') = Len(inbox) - 1 /\ Len(inbox) \in Nat \ {0} /\ held' = inbox[1]
        /\ \A k \in 1..Len(inbox') : k + 1 \in 1..Len(inbox) /\ inbox'[k] = inbox[k + 1]
    BY <1>0, <2>1
  <2> QED BY <2>1, <2>2 DEF QueuesInOrder
<1>4. CASE DispatchSend
  <2>1. /\ UNCHANGED <<sent, inbox>> /\ work' = Append(work, held)
        /\ dispatcher = "send" /\ dispatcher' = "recv"
    BY <1>4 DEF DispatchSend, env
  <2>2. /\ Len(work') = Len(work) + 1 /\ Len(work) \in Nat /\ work'[Len(work')] = held
        /\ \A k \in 1..Len(work) : work'[k] = work[k]
    BY <1>0, <2>1 DEF TypeOK
  <2> QED BY <2>1, <2>2 DEF QueuesInOrder, InHand
<1>5. ASSUME NEW w \in Workers, WorkerRecv(w) PROVE QueuesInOrder'
  <2>1. /\ UNCHANGED <<sent, inbox, held, dispatcher>> /\ work' = Tail(work)
        /\ work # <<>>
    BY <1>5 DEF WorkerRecv, env
  <2>2. /\ Len(work') = Len(work) - 1 /\ Len(work) \in Nat \ {0}
        /\ \A k \in 1..Len(work') : k + 1 \in 1..Len(work) /\ work'[k] = work[k + 1]
    BY <1>0, <2>1
  <2> QED BY <2>1, <2>2 DEF QueuesInOrder, InHand
<1>6. ASSUME NEW w \in Workers, NEW why \in Fates \ {"pending"}, Finish(w, why)
      PROVE  QueuesInOrder'
  BY <1>6 DEF Finish, QueuesInOrder, InHand
<1>7. CASE Bystander
  BY <1>7 DEF Bystander, QueuesInOrder
<1> QED BY <1>0, <1>1, <1>2, <1>3, <1>4, <1>5, <1>6, <1>7, StepKinds
\* The worker takes the oldest chunk, so the one it holds is before all others.
LEMMA WorkerAheadStep ==
    ASSUME VInv, AllGenuine, QueuesInOrder, WorkerAhead, [Next]_vars
    PROVE  WorkerAhead'
<1>0. /\ AInv /\ TypeOK /\ KnownIds /\ sent \in Seq(Chunk) /\ inbox \in Seq(Chunk)
      /\ work \in Seq(Chunk)
  BY DEF VInv, AInv, TypeOK
<1>1. \A n \in Nat : Ahead(n) => Ahead(n)'
  BY AheadStays
<1>2. \A w \in Workers : worker[w].pc \in Holding =>
          worker[w].chunk.id \in Nat /\ Ahead(worker[w].chunk.id)
  BY <1>0 DEF TypeOK, Chunk, WorkerAhead
<1>3. ASSUME NEW w \in Workers, worker[w].pc \in Holding,
             worker'[w].chunk = worker[w].chunk
      PROVE  Ahead(worker[w].chunk.id)'
  <2>1. PICK n \in Nat : n = worker[w].chunk.id /\ Ahead(n)'
    BY <1>1, <1>2, <1>3
  <2> QED BY <1>3, <2>1 DEF Ahead
<1>4. ASSUME NEW w \in Workers, WorkerRecv(w)
      PROVE  WorkerAhead'
  <2>1. /\ UNCHANGED <<sent, inbox, held, dispatcher>> /\ work' = Tail(work)
        /\ work # <<>> /\ worker'[w].chunk = Head(work)
        /\ \A v \in Workers \ {w} : worker'[v] = worker[v]
    BY <1>0, <1>4 DEF WorkerRecv, env, TypeOK
  <2>2. /\ Len(work') = Len(work) - 1 /\ Len(work) \in Nat \ {0} /\ Head(work) = work[1]
        /\ \A k \in 1..Len(work') : k + 1 \in 1..Len(work) /\ work'[k] = work[k + 1]
    BY <1>0, <2>1
  <2>3. work[1] \in Chunk
    BY <1>0, <2>2
  <2>4. PICK n \in Nat : n = work[1].id
    BY <2>3 DEF Chunk
  <2>5. n <= Len(sent)
    BY <1>0, <2>2, <2>4 DEF KnownIds, Sent
  <2>6. Ahead(n)'
    BY <2>1, <2>2, <2>4, <2>5 DEF QueuesInOrder, Ahead, InHand
  <2>7. Ahead(worker[w].chunk.id)'
    BY <2>1, <2>2, <2>4, <2>6 DEF Ahead
  <2>8. \A v \in Workers \ {w} : worker'[v].pc \in Holding => Ahead(worker[v].chunk.id)'
    BY <1>3, <2>1
  <2> QED BY <2>7, <2>8 DEF WorkerAhead
<1>5. ASSUME NEW w \in Workers, NEW why \in Fates \ {"pending"}, Finish(w, why)
      PROVE  WorkerAhead'
  <2>1. \A v \in Workers : worker'[v].pc \in Holding =>
            worker[v].pc \in Holding /\ worker'[v].chunk = worker[v].chunk
    BY <1>5 DEF Finish, Holding
  <2> QED BY <1>3, <2>1 DEF WorkerAhead
<1>6. CASE Bystander
  BY <1>3, <1>6 DEF Bystander, WorkerAhead
<1>7. ASSUME UNCHANGED worker PROVE WorkerAhead'
  BY <1>3, <1>7 DEF WorkerAhead
<1>8. ASSUME NEW m, PipelineSend(m) PROVE UNCHANGED worker
  BY <1>8 DEF PipelineSend
<1>9. EngineInitFails \/ DispatchRecv \/ DispatchSend => UNCHANGED worker
  BY DEF EngineInitFails, DispatchRecv, DispatchSend
<1> QED BY <1>0, <1>4, <1>5, <1>6, <1>7, <1>8, <1>9, StepKinds

\* An update is sent by a worker that gets a text, and the sequence counter never
\* goes back.
LEMMA EmitKinds ==
    ASSUME AInv, [Next]_vars
    PROVE  \/ emitted' = emitted /\ seqCounter' \in Nat /\ seqCounter <= seqCounter'
           \/ \E w \in Workers, text \in Texts : WorkerEmit(w, text)
<1>0. TypeOK /\ seqCounter \in Nat
  BY DEF AInv, TypeOK
<1>1. CASE Environment \/ Dispatcher \/ Terminated \/ UNCHANGED vars
  <2>1. UNCHANGED outputs
    BY <1>1 DEF Environment, PipelineSend, PipelineClose, ModelChange, Dispatcher,
       EngineInitFails, EngineInitOk, DispatchRecv, DispatchCount, DispatchSend,
       DispatchFinish, DispatchDrop, JoinWorkers, VerifyComplete, VerifyRetry,
       VerifyLoss, Terminated, vars
  <2> QED BY <1>0, <2>1 DEF outputs
<1>2. ASSUME NEW w \in Workers, Worker(w),
             ~(\E text \in Texts : WorkerEmit(w, text))
      PROVE  emitted' = emitted /\ (seqCounter' = seqCounter \/ seqCounter' = seqCounter + 1)
  BY <1>2 DEF Worker, WorkerRecv, WorkerModelReady, WorkerModelUnloaded,
     WorkerSkipStale, WorkerKeep, WorkerSkipDuplicate, WorkerNothing,
     WorkerPanic, WorkerExit, outputs
<1> QED BY <1>0, <1>1, <1>2 DEF Next

\* An update that is out stays before everything that is still to come.
LEMMA EmittedAheadStep ==
    ASSUME NEW one, Workers = {one}, VInv, AllGenuine, QueuesInOrder, WorkerAhead,
           EmittedAhead, [Next]_vars
    PROVE  EmittedAhead'
<1>0. /\ AInv /\ TypeOK /\ KnownIds /\ sent \in Seq(Chunk) /\ work \in Seq(Chunk)
      /\ emitted \in Seq(Update) /\ seqCounter \in Nat
  BY DEF VInv, AInv, TypeOK
<1> DEFINE Out(i) == /\ emitted[i].id \in 1..Len(sent)
                     /\ emitted[i].seg = sent[emitted[i].id].seg
                     /\ emitted[i].final = sent[emitted[i].id].final
                     /\ emitted[i].seq < seqCounter
                     /\ Ahead(emitted[i].id)
                     /\ \A w \in Workers : worker[w].pc \in Holding =>
                                               emitted[i].id < worker[w].chunk.id
<1>1. \A n \in Nat : Ahead(n) => Ahead(n)'
  BY AheadStays
<1>2. /\ Len(sent) <= Len(sent') /\ Len(sent) \in Nat /\ Len(sent') \in Nat
      /\ \A n \in 1..Len(sent) : sent'[n] = sent[n]
  BY HistoryGrows
<1>3. ASSUME NEW w \in Workers, NEW n \in Nat, worker'[w].pc \in Holding, Ahead(n),
             worker[w].pc \in Holding => n < worker[w].chunk.id
      PROVE  n < worker'[w].chunk.id
  <2>1. CASE \E v \in Workers : WorkerRecv(v)
    <3>1. worker'[w].chunk = Head(work) /\ work # <<>>
      BY <1>0, <2>1 DEF WorkerRecv, TypeOK
    <3> QED BY <1>0, <1>3, <3>1 DEF Ahead
  <2>2. CASE \E v \in Workers : \E why \in Fates \ {"pending"} : Finish(v, why)
    BY <1>3, <2>2 DEF Finish, Holding
  <2>3. CASE Bystander
    BY <1>3, <2>3 DEF Bystander
  <2>4. ASSUME UNCHANGED worker PROVE n < worker'[w].chunk.id
    BY <1>3, <2>4
  <2>5. ASSUME NEW m, PipelineSend(m) PROVE UNCHANGED worker
    BY <2>5 DEF PipelineSend
  <2>6. EngineInitFails \/ DispatchRecv \/ DispatchSend => UNCHANGED worker
    BY DEF EngineInitFails, DispatchRecv, DispatchSend
  <2> QED BY <1>0, <2>1, <2>2, <2>3, <2>4, <2>5, <2>6, StepKinds
<1>4. ASSUME NEW i \in 1..Len(emitted), emitted'[i] = emitted[i],
             seqCounter' \in Nat, seqCounter <= seqCounter'
      PROVE  Out(i)'
  <2>1. PICK n \in 1..Len(sent) : n = emitted[i].id
    BY DEF EmittedAhead
  <2>2. Ahead(n)' /\ n \in Nat
    BY <1>1, <2>1 DEF EmittedAhead
  <2>3. \A w \in Workers : worker'[w].pc \in Holding => n < worker'[w].chunk.id
    BY <1>3, <2>1, <2>2 DEF EmittedAhead
  <2>4. Ahead(emitted[i].id)'
    BY <1>4, <2>1, <2>2 DEF Ahead
  <2>5. emitted[i].seq \in Nat /\ emitted[i].seq < seqCounter
    <3>1. emitted[i] \in Update
      BY <1>0
    <3> QED BY <3>1 DEF EmittedAhead, Update
  <2>6. /\ emitted'[i].id \in 1..Len(sent') /\ emitted'[i].seg = sent'[emitted'[i].id].seg
        /\ emitted'[i].final = sent'[emitted'[i].id].final
    BY <1>2, <1>4, <2>1 DEF EmittedAhead
  <2> QED BY <1>0, <1>4, <2>1, <2>3, <2>4, <2>5, <2>6
<1>5. CASE emitted' = emitted /\ seqCounter' \in Nat /\ seqCounter <= seqCounter'
  BY <1>4, <1>5 DEF EmittedAhead
<1>6. ASSUME NEW w \in Workers, NEW text \in Texts, WorkerEmit(w, text)
      PROVE  EmittedAhead'
  <2> DEFINE c == worker[w].chunk
  <2>1. /\ worker[w].pc = "transcribe" /\ UNCHANGED <<sent, inbox, work, held, dispatcher>>
        /\ seqCounter' = seqCounter + 1 /\ worker'[w].pc = "idle"
    BY <1>0, <1>6 DEF WorkerEmit, Complete, env, TypeOK
  <2>2. PICK u : /\ emitted' = Append(emitted, u) /\ u.id = c.id /\ u.seg = c.seg
                 /\ u.final = c.final /\ u.seq = seqCounter
    BY <1>6 DEF WorkerEmit
  <2>3. /\ Len(emitted') = Len(emitted) + 1 /\ Len(emitted) \in Nat
        /\ emitted'[Len(emitted')] = u
        /\ \A i \in 1..Len(emitted) : emitted'[i] = emitted[i]
    BY <1>0, <2>2
  <2>4. c.id \in 1..Len(sent) /\ c = sent[c.id] /\ c.id \in Nat /\ Ahead(c.id)
    BY <1>0, <2>1 DEF AllGenuine, Genuine, WorkerAhead, Holding
  <2>5. PICK n \in Nat : n = c.id /\ Ahead(n)'
    BY <1>1, <2>4
  <2>6. \A v \in Workers : worker'[v].pc \notin Holding
    BY <2>1 DEF Holding
  <2>7. Ahead(emitted[Len(emitted)].id)'
    BY <2>2, <2>3, <2>5 DEF Ahead
  <2>8. Out(Len(emitted))'
    BY <1>0, <2>1, <2>2, <2>3, <2>4, <2>6, <2>7
  <2>9. \A i \in 1..Len(emitted) : Out(i)'
    BY <1>0, <1>4, <2>1, <2>3
  <2> QED BY <2>3, <2>8, <2>9 DEF EmittedAhead
<1> QED BY <1>0, <1>5, <1>6, EmitKinds
\* With one worker the updates come out in the order of their chunks.
LEMMA EmittedAscendsStep ==
    ASSUME VInv, AllGenuine, WorkerAhead, EmittedAhead, EmittedAscends, [Next]_vars
    PROVE  EmittedAscends'
<1>0. AInv /\ TypeOK /\ emitted \in Seq(Update) /\ seqCounter \in Nat
  BY DEF VInv, AInv, TypeOK
<1>1. CASE emitted' = emitted
  BY <1>1 DEF EmittedAscends
<1>2. ASSUME NEW w \in Workers, NEW text \in Texts, WorkerEmit(w, text)
      PROVE  EmittedAscends'
  <2>1. worker[w].pc \in Holding
    BY <1>2 DEF WorkerEmit, Holding
  <2>2. PICK u : emitted' = Append(emitted, u) /\ u.id = worker[w].chunk.id /\ u.seq = seqCounter
    BY <1>2 DEF WorkerEmit
  <2>3. /\ Len(emitted') = Len(emitted) + 1 /\ Len(emitted) \in Nat
        /\ emitted'[Len(emitted')] = u
        /\ \A i \in 1..Len(emitted) : emitted'[i] = emitted[i]
    BY <1>0, <2>2
  <2>4. \A i \in 1..Len(emitted) : emitted[i].id < u.id /\ emitted[i].seq < u.seq
    BY <2>1, <2>2 DEF EmittedAhead
  <2> QED BY <2>3, <2>4 DEF EmittedAscends
<1> QED BY <1>0, <1>1, <1>2, EmitKinds

\* The queue, the worker and the events of one worker are in order from the start ...
LEMMA InitOInv == Init => OInv
<1> SUFFICES ASSUME Init PROVE OInv
  OBVIOUS
<1>1. VInv
  BY InitVInv
<1>2. SentInOrder /\ AllGenuine /\ QueuesInOrder /\ WorkerAhead /\ EmittedAhead /\ EmittedAscends
  BY DEF Init, SentInOrder, AllGenuine, QueuesInOrder, WorkerAhead, EmittedAhead,
     EmittedAscends, InHand, Holding
<1> QED BY <1>1, <1>2 DEF OInv

\* ... and stay so.
LEMMA OInvStep ==
    ASSUME NEW one, Workers = {one}, OInv, [Next]_vars
    PROVE  OInv'
<1>1. VInv'
  BY VInvStep DEF OInv
<1> QED
  BY <1>1, SentInOrderStep, AllGenuineStep, QueuesStep, WorkerAheadStep, EmittedAheadStep,
     EmittedAscendsStep DEF OInv

\* "Serial processing ensures transcripts emit in chronological order" (worker.rs,
\* at NUM_WORKERS): with one worker, whatever the engine answers and however the
\* dispatcher and the worker interleave, updates leave in the order in which the
\* pipeline sent their chunks, and nothing of a segment comes after its final.
THEOREM OneWorkerEmitsInOrder ==
    Cardinality(Workers) = 1 => (Spec => []EmissionInOrder)
<1> SUFFICES ASSUME Cardinality(Workers) = 1 PROVE Spec => []EmissionInOrder
  OBVIOUS
<1>1. OInv /\ [Next]_vars => OInv'
  <2>1. PICK one : Workers = {one}
    BY FS_Singleton, WorkersAssumption
  <2> QED BY <2>1, OInvStep
<1>2. OInv => EmissionInOrder
  <2> SUFFICES ASSUME OInv, NEW i \in 1..Len(emitted), NEW j \in 1..Len(emitted), i < j
               PROVE  /\ emitted[i].id < emitted[j].id /\ emitted[i].seq < emitted[j].seq
                      /\ emitted[i].seg = emitted[j].seg => ~emitted[i].final
    BY DEF EmissionInOrder
  <2> QED BY DEF OInv, EmittedAscends, EmittedAhead, SentInOrder
<1> QED BY <1>1, <1>2, InitOInv, PTL DEF Spec

-----------------------------------------------------------------------------
(***************************************************************************)
(* Stale previews, for a pool of any size.  A preview is skipped on what   *)
(* previewState says of its segment, which the dispatcher overwrites with  *)
(* each chunk it receives: what it holds is always the end of a chunk that *)
(* was sent.                                                               *)
(***************************************************************************)

\* Within a segment the previews grow (PipelineSend's guard).
PreviewsGrow ==
    \A i, j \in 1..Len(sent) :
        i < j /\ sent[i].seg = sent[j].seg /\ ~sent[j].final => sent[i].end < sent[j].end

\* Whatever end is published for a segment, a chunk of it has that end, and a
\* published final comes from a final.
Published ==
    \A s \in Segs :
        /\ previewState[s].preview # 0 =>
              \E k \in 1..Len(sent) : sent[k].seg = s /\ sent[k].end = previewState[s].preview
        /\ previewState[s].final # 0 => \E k \in 1..Len(sent) : sent[k].seg = s /\ sent[k].final

\* A stale chunk is a preview, and the pipeline has sent a later one of its segment.
StaleOvertaken ==
    \A i \in 1..Len(sent) : fate[i] = "stale" =>
        /\ ~sent[i].final
        /\ \E j \in i+1..Len(sent) : sent[j].seg = sent[i].seg

\* No number is stale before its chunk is sent.
Unsent == \A i \in 1..MaxChunks : fate[i] = "stale" => i \in 1..Len(sent)

SInv == /\ VInv /\ SentInOrder /\ AllGenuine
        /\ PreviewsGrow /\ Published /\ StaleOvertaken /\ Unsent
\* Every non-empty set of numbers has a least one: what the induction theorems of the
\* library say, without their operator parameter.
LEMMA LeastNumber ==
    ASSUME NEW S, S \subseteq Nat, S # {}
    PROVE  \E n \in S : \A m \in S : n <= m
<1> DEFINE R == OpToRel(<, Nat)
<1>1. IsWellFoundedOn(R, Nat)
  BY NatLessThanWellFounded
<1>2. PICK n \in S : \A m \in S : <<m, n>> \notin R
  BY <1>1, WFMin
<1>3. ASSUME NEW m \in S PROVE n <= m
  <2>1. <<m, n>> \notin R /\ <<m, n>> \in Nat \X Nat
    BY <1>2
  <2>2. ~(m < n)
    BY <2>1 DEF OpToRel
  <2> QED BY <2>2
<1> QED BY <1>2, <1>3

\* A bounded one has a greatest.
LEMMA GreatestNumber ==
    ASSUME NEW S, S \subseteq Nat, S # {}, NEW b \in Nat, \A m \in S : m <= b
    PROVE  \E n \in S : \A m \in S : m <= n
<1> DEFINE T == {k \in Nat : b - k \in S}
<1>1. ASSUME NEW m \in S PROVE b - m \in T /\ b - (b - m) = m
  OBVIOUS
<1>2. T # {} /\ T \subseteq Nat
  BY <1>1
<1>3. PICK k \in T : \A j \in T : k <= j
  <2> HIDE DEF T
  <2> QED BY <1>2, LeastNumber
<1>4. ASSUME NEW m \in S PROVE m <= b - k
  <2>1. k <= b - m /\ b - m \in Nat
    BY <1>1, <1>3
  <2> QED BY <2>1
<1> QED BY <1>3, <1>4

\* What the pipeline sends keeps the previews of a segment growing.
LEMMA PreviewsGrowStep ==
    ASSUME VInv, PreviewsGrow, [Next]_vars
    PROVE  PreviewsGrow'
<1>0. AInv /\ sent \in Seq(Chunk)
  BY DEF VInv, AInv, TypeOK
<1>1. ASSUME NEW seg \in Segs, NEW end \in 1..MaxEnd, NEW final \in BOOLEAN,
             PipelineSend([id |-> Len(sent) + 1, seg |-> seg, end |-> end,
                           final |-> final])
      PROVE  PreviewsGrow'
  <2>1. PICK c : /\ sent' = Append(sent, c) /\ c.seg = seg /\ c.end = end
                 /\ \A d \in SentOf(c.seg) : ~c.final => c.end > d.end
    BY <1>1 DEF PipelineSend
  <2>2. \A i \in 1..Len(sent) : sent[i] \in Chunk
    BY <1>0
  <2>3. \A i \in 1..Len(sent) : sent[i].seg = c.seg /\ ~c.final => sent[i].end < c.end
    BY <2>1, <2>2, BoundsAssumption DEF SentOf, Chunk
  <2>4. /\ Len(sent') = Len(sent) + 1 /\ sent'[Len(sent) + 1] = c /\ Len(sent) \in Nat
        /\ \A i \in 1..Len(sent) : sent'[i] = sent[i]
    BY <1>0, <2>1
  <2> QED BY <2>3, <2>4 DEF PreviewsGrow
<1>2. sent' = sent => PreviewsGrow'
  BY DEF PreviewsGrow
<1> QED
  BY <1>0, <1>1, <1>2, StepKinds
     DEF EngineInitFails, DispatchRecv, DispatchSend, WorkerRecv, Finish, Bystander, env

\* The dispatcher publishes nothing but ends of chunks.
LEMMA PublishedStep ==
    ASSUME VInv, AllGenuine, Published, [Next]_vars
    PROVE  Published'
<1>0. AInv /\ TypeOK /\ sent \in Seq(Chunk) /\ inbox \in Seq(Chunk)
  BY DEF VInv, AInv, TypeOK
<1>1. /\ Len(sent) <= Len(sent') /\ Len(sent) \in Nat /\ Len(sent') \in Nat
      /\ \A i \in 1..Len(sent) : sent'[i] = sent[i]
  BY <1>0, HistoryGrows
<1>2. ASSUME UNCHANGED previewState PROVE Published'
  <2> SUFFICES ASSUME NEW s \in Segs
               PROVE  /\ previewState[s].preview # 0 =>
                            \E k \in 1..Len(sent') : sent'[k].seg = s
                                                      /\ sent'[k].end = previewState[s].preview
                      /\ previewState[s].final # 0 =>
                            \E k \in 1..Len(sent') : sent'[k].seg = s /\ sent'[k].final
    BY <1>2 DEF Published
  <2>1. \A k \in 1..Len(sent) : k \in 1..Len(sent') /\ sent'[k] = sent[k]
    BY <1>1
  <2> QED BY <2>1 DEF Published
<1>3. CASE DispatchRecv
  <2> DEFINE c == Head(inbox)
             old == previewState[c.seg]
  <2>1. /\ UNCHANGED sent /\ inbox # <<>>
        /\ previewState' = [previewState EXCEPT ![c.seg] =
               IF c.final THEN [preview |-> MaxOf(old.preview, c.end), final |-> c.end]
               ELSE [preview |-> c.end, final |-> old.final]]
    BY <1>3 DEF DispatchRecv, env
  <2>2. Genuine(c) /\ c.seg \in Segs
    <3>1. c = inbox[1] /\ 1 \in 1..Len(inbox) /\ c \in Chunk
      BY <1>0, <2>1
    <3> QED BY <3>1 DEF AllGenuine, Chunk
  <2>3. /\ previewState'[c.seg].preview \in {old.preview, c.end}
        /\ previewState'[c.seg].final # old.final => c.final
        /\ \A s \in Segs \ {c.seg} : previewState'[s] = previewState[s]
    BY <1>0, <2>1, <2>2 DEF TypeOK, MaxOf
  <2> QED BY <2>1, <2>2, <2>3 DEF Published, Genuine
<1>4. ASSUME ~DispatchRecv PROVE UNCHANGED previewState
  BY <1>4 DEF Next, Environment, PipelineSend, PipelineClose, ModelChange, Dispatcher,
     EngineInitFails, EngineInitOk, DispatchCount, DispatchSend, DispatchFinish,
     DispatchDrop, JoinWorkers, VerifyComplete, VerifyRetry, VerifyLoss, Terminated,
     Worker, WorkerRecv, WorkerModelReady, WorkerModelUnloaded, WorkerSkipStale,
     WorkerKeep, WorkerEmit, WorkerSkipDuplicate, WorkerNothing, WorkerPanic, WorkerExit,
     Complete, vars
<1> QED BY <1>2, <1>3, <1>4

\* A chunk becomes stale where a worker skips it.
LEMMA StaleKinds ==
    ASSUME AInv, [Next]_vars, NEW i \in 1..MaxChunks, fate'[i] = "stale"
    PROVE  \/ fate[i] = "stale"
           \/ \E w \in Workers : WorkerSkipStale(w) /\ worker[w].chunk.id = i
<1>0. TypeOK
  BY DEF AInv
<1>1. CASE Environment \/ Dispatcher \/ Terminated \/ UNCHANGED vars
  <2>1. UNCHANGED fate
    BY <1>1 DEF Environment, PipelineSend, PipelineClose, ModelChange, Dispatcher,
       EngineInitFails, EngineInitOk, DispatchRecv, DispatchCount, DispatchSend,
       DispatchFinish, DispatchDrop, JoinWorkers, VerifyComplete, VerifyRetry,
       VerifyLoss, Terminated, vars, outputs
  <2> QED BY <2>1
<1>2. ASSUME NEW w \in Workers, Worker(w), ~WorkerSkipStale(w)
      PROVE  \/ fate' = fate
             \/ \E why \in Fates \ {"stale"} :
                   fate' = [fate EXCEPT ![worker[w].chunk.id] = why]
  <2>1. CASE WorkerRecv(w) \/ WorkerModelReady(w) \/ WorkerKeep(w) \/ WorkerExit(w)
    BY <2>1 DEF WorkerRecv, WorkerModelReady, WorkerKeep, WorkerExit, outputs
  <2>2. CASE WorkerPanic(w)
    BY <2>2 DEF WorkerPanic, Fates
  <2>3. CASE \E why \in {"unloaded", "emitted", "duplicate", "quiet", "failed"} : Complete(w, why)
    BY <2>3 DEF Complete, Fates
  <2> QED BY <1>2, <2>1, <2>2, <2>3
          DEF Worker, WorkerModelUnloaded, WorkerEmit, WorkerSkipDuplicate, WorkerNothing
<1>3. ASSUME NEW w \in Workers, WorkerSkipStale(w), worker[w].chunk.id # i
      PROVE  fate[i] = "stale"
  BY <1>0, <1>3 DEF WorkerSkipStale, Complete, TypeOK
<1>4. ASSUME NEW w \in Workers, NEW why \in Fates \ {"stale"},
             fate' = [fate EXCEPT ![worker[w].chunk.id] = why]
      PROVE  fate[i] = "stale"
  BY <1>0, <1>4 DEF TypeOK
<1> QED BY <1>1, <1>2, <1>3, <1>4 DEF Next

\* What makes a preview stale is a later chunk of its segment.
LEMMA SkippedIsOvertaken ==
    ASSUME SInv, NEW c, Genuine(c), ShouldSkipStalePreview(c)
    PROVE  ~c.final /\ \E j \in c.id+1..Len(sent) : sent[j].seg = c.seg
<1>0. TypeOK /\ sent \in Seq(Chunk) /\ c.id \in 1..Len(sent) /\ c = sent[c.id] /\ c \in Chunk
  BY DEF SInv, VInv, AInv, TypeOK, Genuine
<1>1. /\ c.seg \in Segs /\ c.end \in Nat \ {0} /\ ~c.final
      /\ previewState[c.seg].final \in Nat /\ previewState[c.seg].preview \in Nat
  <2>1. c.seg \in Segs /\ c.end \in 1..MaxEnd
    BY <1>0 DEF Chunk
  <2>2. /\ previewState[c.seg].final \in 0..MaxEnd
        /\ previewState[c.seg].preview \in 0..MaxEnd
    BY <1>0, <2>1 DEF TypeOK
  <2> QED BY <2>1, <2>2, BoundsAssumption DEF ShouldSkipStalePreview
<1>2. CASE previewState[c.seg].final >= c.end
  <2>1. PICK f \in 1..Len(sent) : sent[f].seg = c.seg /\ sent[f].final
    BY <1>1, <1>2 DEF SInv, Published
  <2>2. ~(f < c.id) /\ f # c.id
    BY <1>0, <1>1, <2>1 DEF SInv, SentInOrder
  <2> QED BY <1>0, <1>1, <2>1, <2>2
<1>3. CASE previewState[c.seg].preview > c.end
  <2>1. PICK k \in 1..Len(sent) : /\ sent[k].seg = c.seg
                                  /\ sent[k].end = previewState[c.seg].preview
    BY <1>1, <1>3 DEF SInv, Published
  <2>2. ~(k < c.id) /\ k # c.id
    BY <1>0, <1>1, <1>3, <2>1 DEF SInv, PreviewsGrow
  <2> QED BY <1>0, <1>1, <2>1, <2>2
<1> QED BY <1>2, <1>3 DEF ShouldSkipStalePreview
\* Every preview that is dropped was overtaken, and that stays so.
LEMMA StaleOvertakenStep ==
    ASSUME SInv, [Next]_vars
    PROVE  StaleOvertaken'
<1>0. VInv /\ AInv /\ KnownIds /\ AllGenuine /\ StaleOvertaken
  BY DEF SInv, VInv
<1>1. /\ Len(sent) <= Len(sent') /\ Len(sent) \in Nat /\ Len(sent') \in Nat
      /\ \A i \in 1..Len(sent) : sent'[i] = sent[i]
  BY <1>0, HistoryGrows
<1>2. KnownIds' /\ MaxChunks \in Nat
  BY <1>0, KnownIdsStep, BoundsAssumption
<1> SUFFICES ASSUME NEW i \in 1..Len(sent'), fate'[i] = "stale"
             PROVE  ~sent'[i].final /\ \E j \in i+1..Len(sent') : sent'[j].seg = sent'[i].seg
  BY DEF StaleOvertaken
<1>3. i \in 1..MaxChunks
  BY <1>1, <1>2 DEF KnownIds
<1>4. ASSUME i \in 1..Len(sent), ~sent[i].final,
             \E j \in i+1..Len(sent) : sent[j].seg = sent[i].seg
      PROVE  ~sent'[i].final /\ \E j \in i+1..Len(sent') : sent'[j].seg = sent'[i].seg
  <2>1. PICK j \in i+1..Len(sent) : sent[j].seg = sent[i].seg
    BY <1>4
  <2>2. j \in i+1..Len(sent') /\ j \in 1..Len(sent)
    BY <1>1, <1>4
  <2> QED BY <1>1, <1>4, <2>1, <2>2
<1>5. CASE fate[i] = "stale" /\ i \in 1..Len(sent)
  BY <1>0, <1>4, <1>5 DEF StaleOvertaken
<1>6. CASE fate[i] = "stale" /\ i \notin 1..Len(sent)
  BY <1>0, <1>3, <1>6 DEF SInv, Unsent
<1>7. CASE \E w \in Workers : WorkerSkipStale(w) /\ worker[w].chunk.id = i
  <2>1. PICK w \in Workers : WorkerSkipStale(w) /\ worker[w].chunk.id = i
    BY <1>7
  <2>2. Genuine(worker[w].chunk) /\ ShouldSkipStalePreview(worker[w].chunk)
    BY <1>0, <2>1 DEF WorkerSkipStale, AllGenuine, Holding
  <2> QED BY <1>4, <2>1, <2>2, SkippedIsOvertaken DEF Genuine
<1> QED BY <1>0, <1>3, <1>5, <1>6, <1>7, StaleKinds

\* A chunk that has not been sent has no fate.
LEMMA UnsentStep ==
    ASSUME SInv, [Next]_vars
    PROVE  Unsent'
<1>0. VInv /\ AInv /\ AllGenuine /\ Unsent
  BY DEF SInv, VInv
<1>1. /\ Len(sent) <= Len(sent') /\ Len(sent) \in Nat /\ Len(sent') \in Nat
  BY <1>0, HistoryGrows
<1> SUFFICES ASSUME NEW i \in 1..MaxChunks, fate'[i] = "stale", i \notin 1..Len(sent')
             PROVE  FALSE
  BY DEF Unsent
<1>2. i \notin 1..Len(sent)
  BY <1>1
<1>3. \A w \in Workers : WorkerSkipStale(w) => worker[w].chunk.id \in 1..Len(sent)
  BY <1>0 DEF WorkerSkipStale, AllGenuine, Genuine, Holding
<1> QED BY <1>0, <1>2, <1>3, StaleKinds DEF Unsent

\* The transcript never stops at an outdated preview because of the stale rule
\* (should_skip_stale_preview, worker.rs): whatever the size of the pool, when a
\* preview is skipped there is a later chunk of its segment that no worker skips.
THEOREM StaleIsSupersededHolds == Spec => []StaleIsSuperseded
<1>1. Init => SInv
  <2> SUFFICES ASSUME Init PROVE SInv
    OBVIOUS
  <2>1. OInv
    BY InitOInv
  <2>2. PreviewsGrow /\ StaleOvertaken /\ Unsent
    BY DEF Init, PreviewsGrow, StaleOvertaken, Unsent
  <2>3. Published
    BY DEF Init, Published, NoPreview
  <2> QED BY <2>1, <2>2, <2>3 DEF SInv, OInv
<1>2. SInv /\ [Next]_vars => SInv'
  <2> SUFFICES ASSUME SInv, [Next]_vars PROVE SInv'
    OBVIOUS
  <2>1. VInv /\ SentInOrder /\ AllGenuine /\ PreviewsGrow /\ Published
    BY DEF SInv
  <2>2. VInv' /\ SentInOrder' /\ AllGenuine' /\ PreviewsGrow' /\ Published'
    BY <2>1, VInvStep, SentInOrderStep, AllGenuineStep, PreviewsGrowStep, PublishedStep
  <2> QED BY <2>2, StaleOvertakenStep, UnsentStep DEF SInv
<1>3. SInv => StaleIsSuperseded
  <2> SUFFICES ASSUME SInv, NEW i \in 1..Len(sent), fate[i] = "stale"
               PROVE  \E j \in i+1..Len(sent) : sent[j].seg = sent[i].seg
                                                 /\ fate[j] # "stale"
    BY DEF StaleIsSuperseded
  <2> DEFINE S == {j \in 1..Len(sent) : sent[j].seg = sent[i].seg}
  <2>1. StaleOvertaken /\ Len(sent) \in Nat
    BY DEF SInv, VInv, AInv, TypeOK
  <2>2. S \subseteq Nat /\ i \in S /\ \A j \in S : j <= Len(sent)
    BY <2>1
  <2>3. PICK last \in S : \A j \in S : j <= last
    <3> HIDE DEF S
    <3> QED BY <2>1, <2>2, GreatestNumber
  <2>4. fate[last] # "stale"
    <3> SUFFICES ASSUME fate[last] = "stale" PROVE FALSE
      OBVIOUS
    <3>1. PICK j \in last+1..Len(sent) : sent[j].seg = sent[last].seg
      BY <2>1 DEF StaleOvertaken
    <3>2. j \in S
      BY <2>1, <3>1
    <3> QED BY <2>1, <2>3, <3>1, <3>2
  <2>5. last # i /\ i <= last
    BY <2>2, <2>3, <2>4
  <2> QED BY <2>1, <2>3, <2>4, <2>5
<1> QED BY <1>1, <1>2, <1>3, PTL DEF Spec
=============================================================================
