----------------------------- MODULE BatchJobs -----------------------------
(* Imports of an audio file and retranscriptions of a meeting: background   *)
(* jobs, one of each kind at a time, that share one transcription engine    *)
(* with each other, with a recording and with the settings' load command.   *)
(* A batch passes its stages, each followed by a look at its cancellation   *)
(* flag; it loads a model, transcribes segment by segment, saves, unloads   *)
(* the model and reports.  A recording has a model validated, transcribes   *)
(* while it lasts, and unloads whatever is loaded.  The engine keeps the    *)
(* model itself and the model's name behind two locks; load_model,          *)
(* unload_model and transcribe_audio are cut where they wait for one.       *)
EXTENDS Integers, FiniteSets, SpeechPieces

CONSTANTS Jobs,         \* numbered in the order in which they are asked for
          Models,       \* the models a job may ask for
          MaxSegments,  \* pieces of speech at most, after the splitting of SpeechPieces
          Exclusive,    \* Parakeet transcribes one segment at a time, Whisper many
          None

ASSUME JobsAssumption == Jobs \subseteq Nat \ {0} /\ None \notin Models
ASSUME SegmentsAssumption == MaxSegments \in Nat \ {0}
ASSUME ExclusiveAssumption == Exclusive \in BOOLEAN

Batches == {"import", "retranscription"}
Kinds == Batches \cup {"recording", "settings"}

VARIABLES inProgress,   \* IMPORT_IN_PROGRESS, RETRANSCRIPTION_IN_PROGRESS, IS_RECORDING
          cancelled,    \* IMPORT_CANCELLED, RETRANSCRIPTION_CANCELLED
          canceller,    \* the cancel command of a kind, between test and store
          job,
          place,        \* the meeting folder of an import
          folders,      \* meeting folders on disk
          committed,    \* jobs whose transaction was committed
          rows,         \* whose transcripts the retranscribed meeting has: 0 at first,
                        \* -j where job j heard no text and left none
          json,         \* whose transcripts are in its transcripts.json
          ctx, name,    \* the engine: current_context and current_model
          told,         \* history: jobs cancelled before their last look at the flag
          jsonFailed,   \* history: a transcripts.json could not be written
          stuck,        \* history: imports whose folder could not be removed
          clashed,      \* history: a load or an unload came between the two writes of a load
          raced         \* history: a recording began while a batch was unloading

flags == <<inProgress, cancelled, canceller, raced>>
store == <<place, folders, stuck, committed, rows, json, jsonFailed>>
engine == <<ctx, name, clashed>>
jobsVars == <<flags, job, store, engine, told>>

Stages == {"copy", "decode", "resample", "detect"}
Pcs == {"idle", "acquire", "reset", "source", "engine", "load", "swapCtx", "swapName",
        "setCtx", "setName", "loop", "transcribe", "hearing", "save", "files",
        "validate", "begin", "check", "mute", "unload", "dropCtx", "dropName", "release", "done"} \cup Stages
Nowhere == 0
(* want: the model that was chosen, None where it is not downloaded;        *)
(* goal: the model that load_model was called with.                         *)
Idle == [kind |-> "import", want |-> None, goal |-> None, pc |-> "idle", left |-> 0,
         heard |-> FALSE, outcome |-> "none"]

JobsInit ==
    /\ inProgress = [k \in Kinds |-> FALSE]
    /\ cancelled = [k \in Batches |-> FALSE]
    /\ canceller = [k \in Batches |-> "idle"]
    /\ job = [j \in Jobs |-> Idle]
    /\ place = [j \in Jobs |-> Nowhere] /\ folders = {} /\ stuck = {}
    /\ committed = {} /\ rows = 0 /\ json = 0
    /\ ctx \in Models \cup {None} /\ name = ctx
    /\ told = {} /\ jsonFailed = FALSE /\ clashed = FALSE /\ raced = FALSE

-----------------------------------------------------------------------------
At(j, pc) == job[j].pc = pc
Goto(j, pc) == job' = [job EXCEPT ![j].pc = pc]
Kind(j) == job[j].kind
(* run_import and run_retranscription return: the batch is over and the     *)
(* caller goes on to the unloading, whatever the result.                    *)
Leave(j, outcome) == job' = [job EXCEPT ![j].pc = "unload", ![j].outcome = outcome, ![j].left = 0]
Cancelled(j) == Kind(j) \in Batches /\ cancelled[Kind(j)]
(* A recording is live from the moment IS_RECORDING is set.                 *)
Live(j) == Kind(j) = "recording" /\ inProgress["recording"]

(* Who holds or waits for which lock follows from where the jobs are.       *)
(* Tokio's locks are fair: a reader queues behind a writer that waits.      *)
Transcribing == {j \in Jobs : At(j, "hearing")}
CtxHeld(j) == \E i \in Jobs \ {j} : At(i, "swapName") \/ At(i, "dropName")
CtxFree(j) == Transcribing = {} /\ ~CtxHeld(j)
NameRead == {j \in Jobs : At(j, "swapCtx") \/ At(j, "swapName")}
NameReadable == ~\E j \in Jobs : At(j, "dropName") \/ At(j, "swapName")
Listed == {j \in Jobs : job[j].pc \in {"load", "swapCtx", "swapName", "setCtx", "setName"}}

(* start_import_audio_command, start_retranscription_command: the flag is   *)
(* read here and taken by the spawned task; a task that comes second ends   *)
(* with an error that is only logged.                                       *)
Start(j, k, m) ==
    /\ At(j, "idle") /\ k \in Batches /\ ~inProgress[k]
    /\ \A i \in Jobs : i < j => ~At(i, "idle")
    /\ job' = [job EXCEPT ![j].pc = "acquire", ![j].kind = k, ![j].want = m]
    /\ UNCHANGED <<flags, store, engine, told>>
(* start_recording_with_meeting_name with the configured model m.  Bound:   *)
(* one recording at a time; two that start together are RecordingSession's. *)
StartRecording(j, m) ==
    /\ At(j, "idle")
    /\ \A i \in Jobs : i < j => ~At(i, "idle")
    /\ \A i \in Jobs : Kind(i) = "recording" => At(i, "done")
    /\ job' = [job EXCEPT ![j].pc = "validate", ![j].kind = "recording", ![j].want = m]
    /\ UNCHANGED <<flags, store, engine, told>>
(* whisper_load_model, parakeet_load_model, called from the settings.       *)
LoadCommand(j, m) ==
    /\ At(j, "idle")
    /\ \A i \in Jobs : i < j => ~At(i, "idle")
    /\ job' = [job EXCEPT ![j].pc = "load", ![j].kind = "settings", ![j].want = m, ![j].goal = m]
    /\ UNCHANGED <<flags, store, engine, told>>
Acquire(j) ==
    LET k == Kind(j) IN
    /\ At(j, "acquire")
    /\ inProgress' = [inProgress EXCEPT ![k] = TRUE]
    /\ Goto(j, IF inProgress[k] THEN "done" ELSE "reset")
    /\ UNCHANGED <<cancelled, canceller, raced, store, engine, told>>
ResetCancel(j) ==
    /\ At(j, "reset")
    /\ cancelled' = [cancelled EXCEPT ![Kind(j)] = FALSE]
    /\ Goto(j, IF Kind(j) = "import" THEN "source" ELSE "decode")
    /\ UNCHANGED <<inProgress, canceller, raced, store, engine, told>>

(* cancel_import_command, cancel_retranscription_command.                   *)
Deaf == {"idle", "acquire", "reset", "save", "files", "unload", "dropCtx", "dropName",
         "release", "done"}
CancelTest(k) ==
    /\ inProgress[k]
    /\ \A c \in Batches : canceller[c] = "idle"            \* bound: one cancel command
    /\ canceller' = [canceller EXCEPT ![k] = "sure"]
    /\ UNCHANGED <<inProgress, cancelled, raced, job, store, engine, told>>
CancelStore(k) ==
    /\ canceller[k] = "sure"
    /\ canceller' = [canceller EXCEPT ![k] = "over"]
    /\ cancelled' = [cancelled EXCEPT ![k] = TRUE]
    /\ told' = told \cup {j \in Jobs : Kind(j) = k /\ job[j].pc \notin Deaf}
    /\ UNCHANGED <<inProgress, raced, job, store, engine>>

-----------------------------------------------------------------------------
(* run_import: the source, the first look at the flag, the meeting folder.  *)
(* It is named by the title and the minute, and made unless it is there:    *)
(* its own, numbered by the job, or that of an earlier import of the title. *)
Prepare(j) ==
    /\ At(j, "source") /\ ~Cancelled(j)
    /\ \E p \in ({j} \cup {place[i] : i \in Jobs}) \ {Nowhere} :
           place' = [place EXCEPT ![j] = p] /\ folders' = folders \cup {p}
    /\ Goto(j, "copy")
    /\ UNCHANGED <<flags, stuck, committed, rows, json, jsonFailed, engine, told>>
SourceFails(j) ==
    /\ At(j, "source")
    /\ Leave(j, "error")
    /\ UNCHANGED <<flags, store, engine, told>>

(* A stage is done and the flag is not set.  The detector finds the         *)
(* segments; without any, an import goes on to a meeting with no transcript *)
(* and a retranscription is an error.                                       *)
NextStage == [copy |-> "decode", decode |-> "resample", resample |-> "detect"]
StageDone(j) ==
    /\ job[j].pc \in Stages \ {"detect"} /\ ~Cancelled(j)
    /\ Goto(j, NextStage[job[j].pc])
    /\ UNCHANGED <<flags, store, engine, told>>
Detected(j, n) ==
    /\ At(j, "detect") /\ ~Cancelled(j) /\ Kind(j) = "import"
    /\ IF n > 0 THEN job' = [job EXCEPT ![j].pc = "engine", ![j].left = n]
                ELSE Goto(j, "loop")
    /\ UNCHANGED <<flags, store, engine, told>>
Redetected(j, n) ==
    /\ At(j, "detect") /\ ~Cancelled(j) /\ Kind(j) = "retranscription"
    /\ IF n > 0 THEN job' = [job EXCEPT ![j].pc = "engine", ![j].left = n]
                ELSE Leave(j, "error")
    /\ UNCHANGED <<flags, store, engine, told>>
(* get_speech_chunks_with_progress asks between two chunks whether to go    *)
(* on: a cancel it sees is an error of the stage ...                        *)
DetectorCancelled(j) ==
    /\ At(j, "detect") /\ Cancelled(j)
    /\ Leave(j, "error")
    /\ UNCHANGED <<flags, store, engine, told>>
(* ... and leaves the import's folder where it is, as any error does.       *)
StageFails(j) ==
    /\ job[j].pc \in Stages
    /\ Leave(j, "error")
    /\ UNCHANGED <<flags, store, engine, told>>

(* Looks at the flag that find it set: an import that has a folder removes  *)
(* it, whoever's it is besides, and is over even if it cannot be removed.   *)
Looks == Stages \cup {"source", "loop"}
(* Mutant: as a retranscription does, without removing anything.            *)
StopLeavingFolder(j) ==
    /\ job[j].pc \in Looks /\ Cancelled(j)
    /\ Leave(j, "cancelled")
    /\ UNCHANGED <<flags, store, engine, told>>
StopAtLook(j) ==
    /\ job[j].pc \in Looks /\ Cancelled(j)
    /\ \/ folders' = folders \ {place[j]} /\ UNCHANGED stuck
       \/ place[j] # Nowhere /\ stuck' = stuck \cup {j} /\ UNCHANGED folders
    /\ Leave(j, "cancelled")
    /\ UNCHANGED <<flags, place, committed, rows, json, jsonFailed, engine, told>>

-----------------------------------------------------------------------------
(* get_or_init_whisper, get_or_init_parakeet: the model is loaded already,  *)
(* or the list is rediscovered, which waits for every load, and then read   *)
(* by load_model until it returns.                                          *)
EngineReady(j) ==
    /\ At(j, "engine") /\ NameReadable /\ Kind(j) \in Batches
    /\ \/ name = job[j].want /\ Goto(j, "loop")
       \/ /\ name # job[j].want /\ Listed = {}
          /\ job' = [job EXCEPT ![j].pc = "load", ![j].goal = job[j].want]
    /\ UNCHANGED <<flags, store, engine, told>>
(* Where a load that succeeds, and one that fails, takes its caller.        *)
Loaded(j) ==
    CASE Kind(j) = "settings" -> "done"
      [] Kind(j) = "recording" /\ ~Live(j) -> "begin"
      [] OTHER -> "loop"
EngineFails(j) ==
    /\ job[j].pc \in {"engine", "load", "setCtx"}
    /\ \/ Kind(j) \in Batches /\ Leave(j, "error")
       \/ Live(j) /\ Goto(j, "mute")
       \/ Kind(j) \notin Batches /\ ~Live(j) /\ Goto(j, "done")
    /\ UNCHANGED <<flags, store, engine, told>>
(* Nothing keeps the writers of the model apart but the lock on it, which a *)
(* load has given back before it writes the name.                           *)
WritesCtx(j) == clashed' = (clashed \/ \E i \in Jobs \ {j} : At(i, "setName"))
(* load_model: "if let Some(current) = self.current_model.read()" keeps the *)
(* read guard for the whole body of the if.                                 *)
Load(j) ==
    /\ At(j, "load") /\ NameReadable
    /\ Goto(j, CASE name = job[j].goal -> Loaded(j)
                 [] name = None -> "setCtx"
                 [] OTHER -> "swapCtx")
    /\ UNCHANGED <<flags, store, engine, told>>
(* unload_model, called in that body: it takes the model and then waits for *)
(* the write lock on the name, which its own caller holds for reading.  No  *)
(* step leads out of "swapName".                                            *)
SwapCtx(j) ==
    /\ At(j, "swapCtx") /\ CtxFree(j)
    /\ ctx' = None
    /\ WritesCtx(j)
    /\ Goto(j, "swapName")
    /\ UNCHANGED <<flags, store, name, told>>
SetCtx(j) ==
    /\ At(j, "setCtx") /\ CtxFree(j)
    /\ ctx' = job[j].goal
    /\ WritesCtx(j)
    /\ Goto(j, "setName")
    /\ UNCHANGED <<flags, store, name, told>>
SetName(j) ==
    /\ At(j, "setName") /\ NameRead = {}
    /\ name' = job[j].goal
    /\ Goto(j, Loaded(j))
    /\ UNCHANGED <<flags, store, ctx, clashed, told>>

-----------------------------------------------------------------------------
(* validate_transcription_model_ready: any model that is loaded will do.    *)
(* Otherwise the configured one is loaded, or, when that one is not         *)
(* downloaded, the first that is.                                           *)
ValidationChoice(j) == {m \in Models : job[j].want \in {m, None}}
Validate(j) ==
    /\ At(j, "validate") /\ ~CtxHeld(j) /\ NameReadable
    /\ \/ ctx # None /\ name # None /\ Goto(j, "begin")
       \/ /\ ctx = None \/ name = None
          /\ Listed = {}
          /\ \E m \in ValidationChoice(j) : job' = [job EXCEPT ![j].pc = "load", ![j].goal = m]
    /\ UNCHANGED <<flags, store, engine, told>>
ValidationFails(j) ==
    /\ At(j, "validate")
    /\ Goto(j, "done")
    /\ UNCHANGED <<flags, store, engine, told>>
(* The recording is live; its transcription task is spawned.                *)
Begin(j) ==
    /\ At(j, "begin")
    /\ inProgress' = [inProgress EXCEPT !["recording"] = TRUE]
    /\ raced' = (raced \/ \E i \in Jobs : At(i, "dropCtx") \/ At(i, "dropName"))
    /\ job' = [job EXCEPT ![j].pc = "check", ![j].left = MaxSegments]
    /\ UNCHANGED <<cancelled, canceller, store, engine, told>>
(* get_or_init_transcription_engine.  Parakeet takes the model that is      *)
(* loaded.  Whisper wants the configured one: another is unloaded first,    *)
(* then the configured one is loaded if it is downloaded.                   *)
Check(j) ==
    /\ At(j, "check") /\ ~CtxHeld(j) /\ NameReadable
    /\ Goto(j, CASE ctx # None /\ (Exclusive \/ name = job[j].want) -> "loop"
                 [] ctx = None /\ Exclusive -> "mute"
                 [] ctx # None /\ ~Exclusive /\ name # job[j].want -> "dropCtx"
                 [] OTHER -> "engine")
    /\ UNCHANGED <<flags, store, engine, told>>
Reload(j) ==
    /\ At(j, "engine") /\ Live(j) /\ Listed = {}
    /\ job' = IF job[j].want = None THEN [job EXCEPT ![j].pc = "mute"]
              ELSE [job EXCEPT ![j].pc = "load", ![j].goal = job[j].want]
    /\ UNCHANGED <<flags, store, engine, told>>
(* The user stops; what is queued is worked off or given up, and the model  *)
(* is unloaded whoever uses it.                                             *)
StopRecording(j) ==
    /\ Live(j) /\ (At(j, "mute") \/ (At(j, "loop") /\ job[j].left = 0))
    /\ job' = [job EXCEPT ![j].pc = "dropCtx", ![j].left = 0, ![j].outcome = "complete"]
    /\ UNCHANGED <<flags, store, engine, told>>
(* A chunk that finds no model is dropped.                                  *)
ChunkDropped(j) ==
    /\ At(j, "transcribe") /\ Live(j) /\ ~CtxHeld(j) /\ ctx = None
    /\ job' = [job EXCEPT ![j].pc = "loop", ![j].left = @ - 1]
    /\ UNCHANGED <<flags, store, engine, told>>

(* The loop over the segments: short ones are skipped, a text may be empty. *)
SkipShort(j) ==
    /\ At(j, "loop") /\ job[j].left > 0 /\ ~Cancelled(j)
    /\ job' = [job EXCEPT ![j].left = @ - 1]
    /\ UNCHANGED <<flags, store, engine, told>>
NextSegment(j) ==
    /\ At(j, "loop") /\ job[j].left > 0 /\ ~Cancelled(j)
    /\ Goto(j, "transcribe")
    /\ UNCHANGED <<flags, store, engine, told>>
(* transcribe_audio: Whisper shares the model, Parakeet takes it alone.     *)
Transcribe(j) ==
    /\ At(j, "transcribe") /\ ~CtxHeld(j)
    /\ Exclusive => Transcribing = {}
    /\ \/ ctx = None /\ ~Live(j) /\ Leave(j, "error")
       \/ ctx # None /\ Goto(j, "hearing")
    /\ UNCHANGED <<flags, store, engine, told>>
HeardText(j) ==
    /\ At(j, "hearing")
    /\ job' = [job EXCEPT ![j].pc = "loop", ![j].left = @ - 1,
                          ![j].heard = Kind(j) = "retranscription"]
    /\ UNCHANGED <<flags, store, engine, told>>
HeardNothing(j) ==
    /\ At(j, "hearing")
    /\ job' = [job EXCEPT ![j].pc = "loop", ![j].left = @ - 1]
    /\ UNCHANGED <<flags, store, engine, told>>
HearingFails(j) ==
    /\ At(j, "hearing") /\ ~Live(j)
    /\ Leave(j, "error")
    /\ UNCHANGED <<flags, store, engine, told>>
(* The last look at the flag.                                               *)
(* Mutant: there is none after the last segment.                            *)
LoopDoneAnyhow(j) ==
    /\ At(j, "loop") /\ job[j].left = 0 /\ ~Live(j)
    /\ Goto(j, "save")
    /\ UNCHANGED <<flags, store, engine, told>>
LoopDone(j) ==
    /\ At(j, "loop") /\ job[j].left = 0 /\ ~Cancelled(j) /\ ~Live(j)
    /\ Goto(j, "save")
    /\ UNCHANGED <<flags, store, engine, told>>

-----------------------------------------------------------------------------
(* One transaction: the meeting and its transcripts, or the transcripts of  *)
(* a meeting deleted and inserted anew, were it none.                       *)
Transcripts(j) == IF job[j].heard THEN j ELSE -j
Save(j) ==
    /\ At(j, "save")
    /\ committed' = committed \cup {j}
    /\ rows' = IF Kind(j) = "import" THEN rows ELSE Transcripts(j)
    /\ Goto(j, "files")
    /\ UNCHANGED <<flags, place, folders, stuck, json, jsonFailed, engine, told>>
SaveFails(j) ==
    /\ At(j, "save")
    /\ Leave(j, "error")
    /\ UNCHANGED <<flags, store, engine, told>>
(* transcripts.json and metadata.json: a failure is only logged.            *)
WriteFiles(j) ==
    /\ At(j, "files")
    /\ json' = IF Kind(j) = "import" THEN json ELSE Transcripts(j)
    /\ Leave(j, "complete")
    /\ UNCHANGED <<flags, place, folders, stuck, committed, rows, jsonFailed, engine, told>>
WriteFilesFails(j) ==
    /\ At(j, "files")
    /\ jsonFailed' = (jsonFailed \/ Kind(j) = "retranscription")
    /\ Leave(j, "complete")
    /\ UNCHANGED <<flags, place, folders, stuck, committed, rows, json, engine, told>>

(* unload_engine_after_batch, then the event, then the guard is dropped.    *)
(* Mutant: the recording is forgotten.                                      *)
UnloadRegardless(j) ==
    /\ At(j, "unload")
    /\ Goto(j, "dropCtx")
    /\ UNCHANGED <<flags, store, engine, told>>
UnloadTest(j) ==
    /\ At(j, "unload")
    /\ Goto(j, IF inProgress["recording"] THEN "release" ELSE "dropCtx")
    /\ UNCHANGED <<flags, store, engine, told>>
DropCtx(j) ==
    /\ At(j, "dropCtx") /\ CtxFree(j)
    /\ ctx' = None
    /\ WritesCtx(j)
    /\ Goto(j, "dropName")
    /\ UNCHANGED <<flags, store, name, told>>
(* A recording that unloaded another model goes on to load its own.         *)
Unloaded(j) == IF Kind(j) = "recording" /\ job[j].outcome = "none" THEN "engine" ELSE "release"
(* Mutant: the name is left as it was.                                      *)
DropNothing(j) ==
    /\ At(j, "dropName")
    /\ Goto(j, Unloaded(j))
    /\ UNCHANGED <<flags, store, engine, told>>
DropName(j) ==
    /\ At(j, "dropName") /\ NameRead = {}
    /\ name' = None
    /\ Goto(j, Unloaded(j))
    /\ UNCHANGED <<flags, store, ctx, clashed, told>>
(* Mutant: the guard is dropped by hand, on success only.                   *)
ReleaseOnSuccess(j) ==
    /\ At(j, "release")
    /\ inProgress' = [inProgress EXCEPT ![Kind(j)] = job[j].outcome # "complete"]
    /\ Goto(j, "done")
    /\ UNCHANGED <<cancelled, canceller, raced, store, engine, told>>
Release(j) ==
    /\ At(j, "release")
    /\ inProgress' = [inProgress EXCEPT ![Kind(j)] = FALSE]
    /\ Goto(j, "done")
    /\ UNCHANGED <<cancelled, canceller, raced, store, engine, told>>

-----------------------------------------------------------------------------
Run(j) ==
    \/ Acquire(j) \/ ResetCancel(j) \/ Prepare(j) \/ SourceFails(j)
    \/ StageDone(j) \/ (\E n \in 0..MaxSegments : Detected(j, n) \/ Redetected(j, n))
    \/ DetectorCancelled(j) \/ StageFails(j) \/ StopAtLook(j)
    \/ EngineReady(j) \/ EngineFails(j) \/ Load(j) \/ SwapCtx(j)
    \/ SetCtx(j) \/ SetName(j)
    \/ Validate(j) \/ ValidationFails(j) \/ Begin(j) \/ Check(j) \/ Reload(j) \/ ChunkDropped(j)
    \/ SkipShort(j) \/ NextSegment(j) \/ Transcribe(j) \/ HeardText(j) \/ HeardNothing(j)
    \/ HearingFails(j)
    \/ LoopDone(j) \/ Save(j) \/ SaveFails(j) \/ WriteFiles(j) \/ WriteFilesFails(j)
    \/ UnloadTest(j) \/ DropCtx(j) \/ DropName(j) \/ Release(j)
User ==
    \/ \E j \in Jobs, k \in Batches, m \in Models : Start(j, k, m)
    \/ \E j \in Jobs, m \in Models \cup {None} : StartRecording(j, m)
    \/ \E j \in Jobs, m \in Models : LoadCommand(j, m)
    \/ \E k \in Batches : CancelTest(k) \/ CancelStore(k)
    \/ \E j \in Jobs : StopRecording(j)
JobsNext == User \/ \E j \in Jobs : Run(j)
(* A spawned job is scheduled; the user does what he likes.                 *)
JobsSpec == JobsInit /\ [][JobsNext]_jobsVars /\ \A j \in Jobs : WF_jobsVars(Run(j))

-----------------------------------------------------------------------------
Maybe == Models \cup {None}
Counts == 0..MaxSegments
Outcomes == {"none", "error", "cancelled", "complete"}
JobRecord == [kind : Kinds, want : Maybe, goal : Maybe, pc : Pcs, left : Counts,
              heard : BOOLEAN, outcome : Outcomes]
JobsTypeOK ==
    /\ inProgress \in [Kinds -> BOOLEAN] /\ cancelled \in [Batches -> BOOLEAN]
    /\ canceller \in [Batches -> {"idle", "sure", "over"}]
    /\ job \in [Jobs -> JobRecord]
    /\ place \in [Jobs -> Jobs \cup {Nowhere}]
    /\ folders \subseteq Jobs /\ stuck \subseteq Jobs /\ committed \subseteq Jobs
    /\ rows \in Int /\ json \in Int
    /\ ctx \in Maybe /\ name \in Maybe
    /\ told \subseteq Jobs
    /\ jsonFailed \in BOOLEAN /\ clashed \in BOOLEAN /\ raced \in BOOLEAN

(* A job that was cancelled before its last look at the flag saves nothing: *)
(* no meeting of an import, and the transcripts of the meeting as they were.*)
CancelHonoured == told \cap committed = {}

(* Whatever an import does, its meeting has its folder, unless another      *)
(* import of the same title and minute, hence of the same folder, was       *)
(* cancelled; and an import that reports a cancellation has left none,      *)
(* unless it could not be removed or another import has the same one.       *)
Sharing(j) == {i \in Jobs \ {j} : place[i] = place[j]}
FolderFollowsOutcome ==
    \A j \in Jobs : Kind(j) = "import" =>
        /\ j \in committed =>
               place[j] \in folders \/ \E i \in Sharing(j) : job[i].outcome = "cancelled"
        /\ job[j].outcome = "cancelled" =>
               \/ place[j] \notin folders \/ j \in stuck
               \/ \E i \in Sharing(j) : job[i].outcome # "cancelled" \/ i \in stuck

(* When no retranscription is under way, transcripts.json holds the         *)
(* transcripts that the database holds, unless it could not be written.     *)
FilesFollowDatabase ==
    ~inProgress["retranscription"] /\ ~jsonFailed => json = rows

(* When nobody is loading or unloading, a model that is loaded has a name,  *)
(* whatever loads and unloads have met, so that it can be found and         *)
(* unloaded; and the name is its own, unless another load or an unload came *)
(* between the two writes of a load.                                        *)
Moving == {"setName", "swapName", "dropName"}
AtRest == \A j \in Jobs : job[j].pc \notin Moving
EngineAgrees ==
    AtRest => /\ ctx # None => name # None
              /\ ~clashed => ctx = name

(* A recording that found its model keeps it to the end: a batch that ends  *)
(* meanwhile leaves it loaded, unless it was unloading when the recording   *)
(* began, or a job asked for another model than the one that is loaded.     *)
RecordingKeepsModel ==
    \A j \in Jobs :
        Live(j) /\ job[j].pc \in {"loop", "transcribe", "hearing"}
            => ctx # None \/ raced \/ clashed \/ NameRead # {}

(* Again and again no batch is in progress: each becomes free again, unless *)
(* a job asked for another model than the one that is loaded (LoadReturns). *)
JobsEnd == []<>(NameRead # {} \/ \A k \in Batches : ~inProgress[k])

(* "Unload current model before loading new one": a load returns.           *)
LoadReturns == \A j \in Jobs : At(j, "load") ~> job[j].pc \in {"loop", "unload"}

(* "Cleanup: remove the meeting folder": the folder of a cancelled import,  *)
(* and not of a meeting that was imported.                                  *)
MeetingsKeepFolder ==
    \A j \in Jobs : Kind(j) = "import" /\ j \in committed => place[j] \in folders

(* "Check if this model is already loaded": the name that is compared is    *)
(* that of the model.                                                       *)
NameTruthful == AtRest => name = ctx

(* "Wrap delete+insert+update in a transaction to prevent data loss": a     *)
(* retranscription leaves the meeting with transcripts.                     *)
NothingErased == rows >= 0
=============================================================================
