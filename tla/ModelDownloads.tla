--------------------------- MODULE ModelDownloads ---------------------------
(* The three managers that download models: WhisperEngine and              *)
(* ParakeetEngine (transcription) and ModelManager (the built-in summary   *)
(* model).  Each keeps a list of active downloads, one cancellation slot, a *)
(* cached status per model and files on disk, every one behind a lock of    *)
(* its own, so that commands running at the same time interleave between    *)
(* any two of them.  A task is one command; "flavour" says which manager    *)
(* the behaviour is about.                                                  *)
EXTENDS Integers, FiniteSets

CONSTANTS Models,      \* numbered in the order in which commands name them
          Tasks,       \* commands, numbered in the order in which they begin
          Flavours,
          Full,     \* chunks of a complete model file
          None

ASSUME OrderAssumption == Tasks \subseteq Nat /\ Models \subseteq Nat
ASSUME FlavourAssumption == Flavours \subseteq {"whisper", "parakeet", "summary"}
ASSUME FullAssumption == Full \in Nat /\ Full > 1
ASSUME NoneAssumption == None \notin Models \cup Tasks /\ Models \cap Tasks = {}

VARIABLES flavour,
          active,      \* active_downloads
          cancelFlag,  \* cancel_download_flag: one slot for all models
          status,      \* available_models, the cached status
          file,        \* the file under the model's path
          size,        \* chunks in a file, also in one that was unlinked
          task,
          overlapped   \* history: models whose entry did not keep others out

vars == <<flavour, active, cancelFlag, status, file, size, task, overlapped>>

Status == {"missing", "downloading", "available", "corrupted", "error"}
Files == Tasks \cup Models     \* the file of an earlier session, or a task's own
Ops == {"download", "cancel", "scan", "delete", "retry"}
Pcs == {"idle", "scan", "publish", "check", "admit", "clear", "mark", "prepare",
        "request", "loop", "recv", "got", "blame", "finish", "validate",
        "delist", "unflag", "flag", "unlist", "forget", "sweep", "pick", "remove", "done"}
Idle == [op |-> "scan", m |-> None, pc |-> "idle", f |-> None, off |-> 0,
         append |-> FALSE, snap |-> [m \in Models |-> "missing"], res |-> "none"]

Exists(m) == file[m] # None
Held(m) == IF Exists(m) THEN size[file[m]] ELSE 0
(* Whisper and ModelManager accept 90% of the catalogue's size, Parakeet    *)
(* a little less than that: a chunk may be missing.                         *)
Enough(n) == n >= Full - 1

(* Only the downloads between the admission and the removal of the entry.   *)
Working == {"clear", "mark", "prepare", "request", "loop", "recv", "got",
            "finish", "validate", "delist"}
Running(t, m) == task[t].m = m /\ task[t].pc \in Working

(* What each manager says of a model when it looks at the disk.             *)
FoundByWhisper(m) ==
    CASE Held(m) = 0 -> "missing"
      [] Enough(Held(m)) -> "available"
      [] OTHER -> IF status[m] = "downloading" THEN "downloading" ELSE "corrupted"
(* Mutant: an existing directory is enough.                                 *)
FoundByName(m) == IF m \in active THEN "downloading" ELSE IF Exists(m) THEN "available" ELSE "missing"
FoundByParakeet(m) ==
    CASE m \in active -> "downloading"
      [] m \notin active /\ ~Exists(m) -> "missing"
      [] OTHER -> IF Enough(Held(m)) THEN "available" ELSE "corrupted"
FoundBySummary(m) ==
    CASE m \in active -> status[m]
      [] m \notin active /\ ~Exists(m) -> "missing"
      [] OTHER -> IF Enough(Held(m)) /\ Held(m) <= Full THEN "available" ELSE "corrupted"
Found(m) == CASE flavour = "whisper" -> FoundByWhisper(m)
              [] flavour = "parakeet" -> FoundByParakeet(m)
              [] OTHER -> FoundBySummary(m)

(* A session starts with whatever earlier ones left and a first scan.       *)
Init ==
    /\ flavour \in Flavours
    /\ active = {}
    /\ cancelFlag = None
    /\ \E left \in [Models -> {None, Full}] :
         /\ file = [m \in Models |-> IF left[m] = None THEN None ELSE m]
         /\ size = [f \in Files |-> IF f \in Models /\ left[f] # None THEN left[f] ELSE 0]
         /\ status = [m \in Models |-> IF left[m] = None THEN "missing" ELSE "available"]
    /\ task = [t \in Tasks |-> Idle]
    /\ overlapped = {}

-----------------------------------------------------------------------------
At(t, pc) == task[t].pc = pc
Goto(t, pc) == task' = [task EXCEPT ![t].pc = pc]
End(t, res) == task' = [task EXCEPT ![t] = [Idle EXCEPT !.op = task[t].op, !.m = task[t].m,
                                                        !.pc = "done", !.res = res]]
Begin(t, m, op, pc) ==
    /\ At(t, "idle")
    /\ \A u \in Tasks : u < t => ~At(u, "idle")
    /\ \A n \in Models : n < m => \E u \in Tasks : task[u].m = n
    /\ task' = [task EXCEPT ![t].pc = pc, ![t].op = op, ![t].m = m]
    /\ UNCHANGED <<flavour, active, cancelFlag, status, file, size, overlapped>>

(* A Parakeet scan holds the read lock of the list from its first look to   *)
(* the publication of what it saw: nobody changes the list in between.      *)
ListFree == flavour = "parakeet" => \A t \in Tasks : ~At(t, "publish")
Unlist(m) == ListFree /\ active' = active \ {m}
Set(m, s) == status' = [status EXCEPT ![m] = s]

(* The commands.  Parakeet scans before it downloads, and has a retry that  *)
(* first removes the entry of a download that may still be running.         *)
WhisperCommand(t, m) ==
    /\ flavour = "whisper"
    /\ \/ Begin(t, m, "download", "check") \/ Begin(t, m, "cancel", "flag")
       \/ Begin(t, m, "scan", "scan") \/ Begin(t, m, "delete", "pick")
ParakeetCommand(t, m) ==
    /\ flavour = "parakeet"
    /\ \/ Begin(t, m, "download", "scan") \/ Begin(t, m, "cancel", "flag")
       \/ Begin(t, m, "scan", "scan") \/ Begin(t, m, "delete", "pick")
ParakeetRetry(t, m) == flavour = "parakeet" /\ Begin(t, m, "retry", "unlist")
SummaryCommand(t, m) ==
    /\ flavour = "summary"
    /\ \/ Begin(t, m, "download", "check") \/ Begin(t, m, "cancel", "flag")
       \/ Begin(t, m, "scan", "scan") \/ Begin(t, m, "delete", "pick")

(* A scan looks at every model and then replaces the whole cache.           *)
Look(t) ==
    /\ At(t, "scan")
    /\ task' = [task EXCEPT ![t].pc = "publish", ![t].snap = [m \in Models |-> Found(m)]]
    /\ UNCHANGED <<flavour, active, cancelFlag, status, file, size, overlapped>>
Publish(t) ==
    /\ At(t, "publish")
    /\ status' = task[t].snap
    /\ task' = [task EXCEPT ![t].pc = IF task[t].op = "scan" THEN "done" ELSE "check",
                            ![t].snap = Idle.snap]
    /\ UNCHANGED <<flavour, active, cancelFlag, file, size, overlapped>>

-----------------------------------------------------------------------------
(* Mutant: the list is not consulted.                                       *)
CheckNothing(t) ==
    /\ At(t, "check")
    /\ Goto(t, "admit")
    /\ UNCHANGED <<flavour, active, cancelFlag, status, file, size, overlapped>>
(* download_model: the entry is looked up under the read lock and inserted  *)
(* under the write lock, two steps.                                         *)
Check(t) ==
    /\ At(t, "check")
    /\ IF task[t].m \in active THEN End(t, "refused") ELSE Goto(t, "admit")
    /\ UNCHANGED <<flavour, active, cancelFlag, status, file, size, overlapped>>
Admit(t) ==
    /\ At(t, "admit") /\ ListFree
    /\ active' = active \cup {task[t].m}
    /\ overlapped' = overlapped \cup
           {m \in {task[t].m} : \E u \in Tasks \ {t} : At(u, "admit") /\ task[u].m = m}
    /\ Goto(t, "clear")
    /\ UNCHANGED <<flavour, cancelFlag, status, file, size>>
ClearFlag(t) ==
    /\ At(t, "clear")
    /\ cancelFlag' = None
    /\ Goto(t, "mark")
    /\ UNCHANGED <<flavour, active, status, file, size, overlapped>>
MarkDownloading(t) ==
    /\ At(t, "mark")
    /\ Set(task[t].m, "downloading")
    /\ Goto(t, "prepare")
    /\ UNCHANGED <<flavour, active, cancelFlag, file, size, overlapped>>

(* What is on disk already.  Parakeet empties an invalid directory and      *)
(* skips complete files; ModelManager keeps a valid file, removes one that  *)
(* is too large and resumes a smaller one; Whisper does not look.           *)
PrepareWhisper(t) ==
    /\ At(t, "prepare") /\ flavour = "whisper"
    /\ Goto(t, "request")
    /\ UNCHANGED <<flavour, active, cancelFlag, status, file, size, overlapped>>
PrepareParakeet(t) ==
    LET m == task[t].m IN
    /\ At(t, "prepare") /\ flavour = "parakeet"
    /\ file' = IF Enough(Held(m)) THEN file ELSE [file EXCEPT ![m] = None]
    /\ Goto(t, IF Held(m) >= Full THEN "finish" ELSE "request")
    /\ UNCHANGED <<flavour, active, cancelFlag, status, size, overlapped>>
PrepareSummary(t) ==
    LET m == task[t].m
        valid == Exists(m) /\ Enough(Held(m)) /\ Held(m) <= Full
    IN
    /\ At(t, "prepare") /\ flavour = "summary"
    /\ file' = IF Held(m) > Full THEN [file EXCEPT ![m] = None] ELSE file
    /\ IF valid THEN Set(m, "available") ELSE UNCHANGED status
    /\ Goto(t, IF valid THEN "delist" ELSE "request")
    /\ UNCHANGED <<flavour, active, cancelFlag, size, overlapped>>

(* The request.  A connection that fails, or a file that cannot be opened,  *)
(* returns with "?" and leaves the entry in the list; a status that is not  *)
(* a success removes it.                                                    *)
RequestFails(t) ==
    /\ At(t, "request")
    /\ End(t, "leaked")
    /\ UNCHANGED <<flavour, active, cancelFlag, status, file, size, overlapped>>
BadStatus(t) ==
    /\ At(t, "request")
    /\ Unlist(task[t].m)
    /\ End(t, "failed")
    /\ UNCHANGED <<flavour, cancelFlag, status, file, size, overlapped>>
Stream(t, f, from, append) ==
    task' = [task EXCEPT ![t].pc = IF flavour = "whisper" THEN "recv" ELSE "loop",
                         ![t].f = f, ![t].off = from, ![t].append = append]
(* A range was asked for and granted: the rest is appended.                 *)
Resume(t) ==
    LET m == task[t].m IN
    /\ At(t, "request") /\ flavour # "whisper" /\ Held(m) > 0 /\ Held(m) < Full
    /\ Stream(t, file[m], Held(m), TRUE)
    /\ UNCHANGED <<flavour, active, cancelFlag, status, file, size, overlapped>>
(* A whole body: the file is created, or truncated where it is.             *)
Fresh(t) ==
    LET m == task[t].m
        f == IF Exists(m) THEN file[m] ELSE t
    IN
    /\ At(t, "request")
    /\ file' = [file EXCEPT ![m] = f]
    /\ size' = [size EXCEPT ![f] = 0]
    /\ Stream(t, f, 0, FALSE)
    /\ UNCHANGED <<flavour, active, cancelFlag, status, overlapped>>
(* 416: Parakeet removes the file it could not resume and asks again.       *)
RangeRefused(t) ==
    /\ At(t, "request") /\ flavour = "parakeet" /\ Held(task[t].m) > 0
    /\ file' = [file EXCEPT ![task[t].m] = None]
    /\ UNCHANGED <<flavour, active, cancelFlag, status, size, task, overlapped>>

-----------------------------------------------------------------------------
(* The streaming loop.  Whisper tests the cancellation when it has a chunk, *)
(* the others before they wait for one, for at most 30 seconds.             *)
Cancelled(t) == cancelFlag = task[t].m
CancelledWhisper(t) ==
    /\ At(t, "got") /\ Cancelled(t)
    /\ Unlist(task[t].m)
    /\ End(t, "cancelled")
    /\ UNCHANGED <<flavour, cancelFlag, status, file, size, overlapped>>
CancelledParakeet(t) ==
    /\ At(t, "loop") /\ Cancelled(t) /\ flavour = "parakeet"
    /\ Unlist(task[t].m)
    /\ End(t, "cancelled")
    /\ UNCHANGED <<flavour, cancelFlag, status, file, size, overlapped>>
CancelledSummary(t) ==
    /\ At(t, "loop") /\ Cancelled(t) /\ flavour = "summary"
    /\ Unlist(task[t].m)
    /\ Set(task[t].m, "missing")
    /\ End(t, "cancelled")
    /\ UNCHANGED <<flavour, cancelFlag, file, size, overlapped>>
Await(t) ==
    /\ At(t, "loop") /\ ~Cancelled(t)
    /\ Goto(t, "recv")
    /\ UNCHANGED <<flavour, active, cancelFlag, status, file, size, overlapped>>

(* A chunk goes to the end of the file, or where this writer stands in it,  *)
(* and the progress is reported.                                            *)
Write(t, pc) ==
    LET f == task[t].f
        off == task[t].off
    IN
    /\ off < Full
    /\ size' = [size EXCEPT ![f] = CASE task[t].append -> @ + 1
                                    [] ~task[t].append /\ off >= @ -> off + 1
                                    [] OTHER -> @]
    /\ task' = [task EXCEPT ![t].off = @ + 1, ![t].pc = pc]
    /\ Set(task[t].m, "downloading")
    /\ UNCHANGED <<flavour, active, cancelFlag, file, overlapped>>
ReceiveWhisper(t) ==
    /\ At(t, "recv") /\ flavour = "whisper" /\ task[t].off < Full
    /\ Goto(t, "got")
    /\ UNCHANGED <<flavour, active, cancelFlag, status, file, size, overlapped>>
WriteWhisper(t) == At(t, "got") /\ ~Cancelled(t) /\ Write(t, "recv")
Receive(t) == At(t, "recv") /\ flavour # "whisper" /\ Write(t, "loop")
(* Mutant: the end of the body is taken for a cut and asked for again.      *)
EndOfBodyRetried(t) ==
    /\ At(t, "recv") /\ task[t].off = Full
    /\ Goto(t, "request")
    /\ UNCHANGED <<flavour, active, cancelFlag, status, file, size, overlapped>>
EndOfBody(t) ==
    /\ At(t, "recv") /\ task[t].off = Full
    /\ Goto(t, "finish")
    /\ UNCHANGED <<flavour, active, cancelFlag, status, file, size, overlapped>>

(* The network or the disk fails.  Whisper has no clean-up and no timeout;  *)
(* Parakeet removes the entry and then resets the status; ModelManager does *)
(* both at once, but not when the write fails.                              *)
BrokenWhisper(t) ==
    /\ At(t, "got")
    /\ ~Cancelled(t)
    /\ End(t, "leaked")
    /\ UNCHANGED <<flavour, active, cancelFlag, status, file, size, overlapped>>
BrokenParakeet(t) ==
    /\ At(t, "recv") /\ flavour = "parakeet"
    /\ Unlist(task[t].m)
    /\ Goto(t, "blame")
    /\ UNCHANGED <<flavour, cancelFlag, status, file, size, overlapped>>
Blame(t) ==
    /\ At(t, "blame")
    /\ Set(task[t].m, "missing")
    /\ End(t, "failed")
    /\ UNCHANGED <<flavour, active, cancelFlag, file, size, overlapped>>
BrokenSummary(t) ==
    /\ At(t, "recv") /\ flavour = "summary"
    /\ Unlist(task[t].m)
    /\ Set(task[t].m, "error")
    /\ End(t, "failed")
    /\ UNCHANGED <<flavour, cancelFlag, file, size, overlapped>>
WriteFailsSummary(t) ==
    /\ At(t, "recv") /\ flavour = "summary"
    /\ End(t, "leaked")
    /\ UNCHANGED <<flavour, active, cancelFlag, status, file, size, overlapped>>

(* The end of the body.                                                     *)
FinishWhisper(t) ==
    /\ At(t, "finish") /\ flavour = "whisper"
    /\ Set(task[t].m, "available")
    /\ Goto(t, "delist")
    /\ UNCHANGED <<flavour, active, cancelFlag, file, size, overlapped>>
FinishParakeet(t) ==
    /\ At(t, "finish") /\ flavour = "parakeet"
    /\ Set(task[t].m, "available")
    /\ Goto(t, "delist")
    /\ UNCHANGED <<flavour, active, cancelFlag, file, size, overlapped>>
FinishSummary(t) ==
    /\ At(t, "finish") /\ flavour = "summary"
    /\ Set(task[t].m, "downloading")
    /\ Goto(t, "validate")
    /\ UNCHANGED <<flavour, active, cancelFlag, file, size, overlapped>>
(* The header is read through the path: a file that is gone fails.          *)
Validate(t) ==
    /\ At(t, "validate")
    /\ IF Held(task[t].m) > 0
       THEN Set(task[t].m, "available") /\ Goto(t, "delist") /\ UNCHANGED <<active, file>>
       ELSE /\ Unlist(task[t].m) /\ Set(task[t].m, "error") /\ End(t, "failed")
            /\ file' = [file EXCEPT ![task[t].m] = None]
    /\ UNCHANGED <<flavour, cancelFlag, size, overlapped>>
Delist(t) ==
    /\ At(t, "delist")
    /\ Unlist(task[t].m)
    /\ IF flavour = "parakeet" THEN Goto(t, "unflag") ELSE End(t, "completed")
    /\ UNCHANGED <<flavour, cancelFlag, status, file, size, overlapped>>
Unflag(t) ==
    /\ At(t, "unflag")
    /\ cancelFlag' = IF Cancelled(t) THEN None ELSE cancelFlag
    /\ End(t, "completed")
    /\ UNCHANGED <<flavour, active, status, file, size, overlapped>>

-----------------------------------------------------------------------------
(* cancel_download: the flag, the entry and the status, and for the two     *)
(* transcription engines, 100 ms later, the files.  ModelManager leaves the *)
(* entry to the loop.                                                       *)
RaiseFlag(t) ==
    /\ At(t, "flag")
    /\ cancelFlag' = task[t].m
    /\ Goto(t, IF flavour = "summary" THEN "forget" ELSE "unlist")
    /\ UNCHANGED <<flavour, active, status, file, size, overlapped>>
RemoveEntry(t) ==
    LET m == task[t].m IN
    /\ At(t, "unlist")
    /\ Unlist(m)
    /\ overlapped' = overlapped \cup {x \in {m} : \E u \in Tasks : Running(u, x)}
    /\ Goto(t, "forget")
    /\ UNCHANGED <<flavour, cancelFlag, status, file, size>>
Forget(t) ==
    /\ At(t, "forget")
    /\ Set(task[t].m, "missing")
    /\ CASE task[t].op = "retry" -> Goto(t, "scan")
         [] task[t].op = "cancel" /\ flavour # "summary" -> Goto(t, "sweep")
         [] OTHER -> End(t, "completed")
    /\ UNCHANGED <<flavour, active, cancelFlag, file, size, overlapped>>
Sweep(t) ==
    /\ At(t, "sweep")
    /\ file' = [file EXCEPT ![task[t].m] = None]
    /\ End(t, "completed")
    /\ UNCHANGED <<flavour, active, cancelFlag, status, size, overlapped>>

(* delete_model: the engines only delete what their cache says is there,    *)
(* and do so after they let go of it; ModelManager deletes what it finds.   *)
Pick(t) ==
    /\ At(t, "pick")
    /\ IF flavour = "summary" \/ status[task[t].m] \in {"available", "corrupted"}
       THEN Goto(t, "remove")
       ELSE End(t, "refused")
    /\ UNCHANGED <<flavour, active, cancelFlag, status, file, size, overlapped>>
Remove(t) ==
    /\ At(t, "remove")
    /\ file' = [file EXCEPT ![task[t].m] = None]
    /\ Goto(t, "forget")
    /\ UNCHANGED <<flavour, active, cancelFlag, status, size, overlapped>>

-----------------------------------------------------------------------------
Manage(t) ==
    \/ \E m \in Models : \/ WhisperCommand(t, m) \/ ParakeetCommand(t, m)
                         \/ ParakeetRetry(t, m) \/ SummaryCommand(t, m)
    \/ Look(t) \/ Publish(t)
    \/ RaiseFlag(t) \/ RemoveEntry(t) \/ Forget(t) \/ Sweep(t) \/ Pick(t) \/ Remove(t)
Download(t) ==
    \/ Check(t) \/ Admit(t) \/ ClearFlag(t) \/ MarkDownloading(t)
    \/ PrepareWhisper(t) \/ PrepareParakeet(t) \/ PrepareSummary(t)
    \/ RequestFails(t) \/ BadStatus(t) \/ Resume(t) \/ Fresh(t) \/ RangeRefused(t)
    \/ CancelledWhisper(t) \/ CancelledParakeet(t) \/ CancelledSummary(t) \/ Await(t)
    \/ ReceiveWhisper(t) \/ WriteWhisper(t) \/ Receive(t) \/ EndOfBody(t)
    \/ BrokenWhisper(t) \/ BrokenParakeet(t) \/ Blame(t) \/ BrokenSummary(t)
    \/ WriteFailsSummary(t)
    \/ FinishWhisper(t) \/ FinishParakeet(t) \/ FinishSummary(t) \/ Validate(t)
    \/ Delist(t) \/ Unflag(t)
Step(t) == Manage(t) \/ Download(t)
Next == \E t \in Tasks : Step(t)

(* A command that has begun goes on, except where Whisper waits for the     *)
(* network without a timeout.                                               *)
Fairness ==
    \A t \in Tasks :
        WF_vars(Step(t) /\ ~At(t, "idle") /\ ~(flavour = "whisper" /\ At(t, "recv")))
Spec == Init /\ [][Next]_vars /\ Fairness

-----------------------------------------------------------------------------
TypeOK ==
    /\ flavour \in Flavours /\ active \subseteq Models
    /\ cancelFlag \in Models \cup {None}
    /\ status \in [Models -> Status]
    /\ file \in [Models -> Files \cup {None}]
    /\ size \in [Files -> Nat]
    /\ overlapped \subseteq Models
    /\ task \in [Tasks -> [op : Ops, m : Models \cup {None}, pc : Pcs,
                          f : Files \cup {None}, off : 0..Full, append : BOOLEAN,
                          snap : [Models -> Status],
                          res : {"none", "refused", "failed", "leaked", "cancelled", "completed"}]]

(* An entry in the list of active downloads, which refuses every later     *)
(* download of the model, belongs to a download that is running or to one   *)
(* of the returns with "?" that forget it.                                  *)
EntriesAccountedFor ==
    \A m \in active : \E t \in Tasks :
        Running(t, m) \/ (task[t].m = m /\ task[t].res = "leaked")

(* Two downloads of one model run at the same time only through one of two  *)
(* windows: both looked at the list before either was in it, or a cancel or *)
(* a retry took the entry away from a download that was still running.      *)
OneDownloadPerModel ==
    \A t, u \in Tasks : \A m \in Models :
        t # u /\ Running(t, m) /\ Running(u, m) => m \in overlapped

(* What the cache calls available is a file that is large enough, whatever  *)
(* scans and downloads run.  Cancels, deletes and retries of the model take *)
(* files away under a download; and Whisper's scan, which does not look at  *)
(* the list of downloads, publishes what it saw before one began.           *)
Touched(m) == \E t \in Tasks :
    \/ task[t].m = m /\ task[t].op \in {"cancel", "delete", "retry"}
    \/ flavour = "whisper" /\ task[t].op = "scan" /\ ~At(t, "idle")
AvailableIsComplete ==
    \A m \in Models :
        status[m] = "available" /\ m \notin overlapped /\ ~Touched(m) => Enough(Held(m))

(* A download that a Parakeet or summary manager has admitted ends, however *)
(* the network behaves.                                                     *)
DownloadsEnd ==
    \A t \in Tasks : task[t].pc \in Working /\ flavour # "whisper" ~> task[t].pc \notin Working
=============================================================================
