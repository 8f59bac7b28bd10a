-------------------------- MODULE SummaryProcesses --------------------------
(* The summary of one meeting.  api_process_transcript resets the meeting's *)
(* row of summary_processes and spawns a run that asks a language model for *)
(* a summary of each chunk, of the summaries, and for the final report; the *)
(* user may stop it, edit the summary, start another run or delete the      *)
(* meeting meanwhile, and the program may be closed.  All of it is keyed by *)
(* the meeting, so one meeting is enough.                                   *)
EXTENDS TextChunks

CONSTANTS Runs,      \* calls of api_process_transcript
          MaxChunks, \* bound: chunks of a transcript
          MaxStops,  \* bound: calls of api_cancel_summary that find a run
          MaxEdits,  \* bound: calls of api_save_meeting_summary
          None

ASSUME RunsAssumption == Runs \subseteq Nat \ {0} /\ None \notin Nat
ASSUME BoundsAssumption == MaxChunks \in Nat \ {0} /\ MaxStops \in Nat /\ MaxEdits \in Nat

VARIABLES meeting,    \* the meeting exists
          row,        \* its row of summary_processes
          text,       \* whose text transcript_chunks holds
          registry,   \* CANCELLATION_REGISTRY: whose token it holds
          cancelled,  \* runs whose token is cancelled
          run,        \* the runs
          stopping,   \* an api_cancel_summary that has cancelled a token
          stops, edits,
          lone,       \* history: the latest run while it has had the row to itself
          before,     \* history: the summary that it found
          late,       \* history: its last answer came although it had been stopped
          keeper,     \* history: the run that reset the row last
          lost        \* history: runs that ended without an update of the row

vars == <<meeting, row, text, registry, cancelled, run, stopping, stops, edits,
          lone, before, late, keeper, lost>>
bounds == <<stops, edits>>

Null == 0
Edited == -1
Summaries == Runs \cup {Null, Edited}
Statuses == {"PENDING", "completed", "failed", "cancelled"}
Rows == [status : Statuses, result : Summaries, backup : Summaries]
Generating == {"setup", "ask", "call", "body"}
Pcs == {"idle", "text", "register", "completing", "failing", "cancelling", "over"}
       \cup Generating
Steps == {"chunk", "combine", "final"}
States == [pc : Pcs, step : Steps, left : 0..MaxChunks, made : 0..MaxChunks]
Fresh == [pc |-> "idle", step |-> "chunk", left |-> 0, made |-> 0]

ASSUME NoneAssumption == None \notin Rows

Init ==
    /\ meeting = TRUE /\ row = None /\ text = None
    /\ registry = None /\ cancelled = {} /\ run = [r \in Runs |-> Fresh]
    /\ stopping = FALSE /\ stops = 0 /\ edits = 0
    /\ lone = None /\ before = Null /\ late = FALSE /\ keeper = None /\ lost = {}

-----------------------------------------------------------------------------
At(r, pc) == run[r].pc = pc
Goto(r, pc) == run' = [run EXCEPT ![r].pc = pc]
history == <<lone, before, late, keeper, lost>>
(* The repository's updates of the row; an UPDATE of no row does nothing.   *)
Update(new) == row' = IF row = None THEN None ELSE new
Reset ==
    row' = IF row = None THEN [status |-> "PENDING", result |-> Null, backup |-> Null]
           ELSE [row EXCEPT !.status = "PENDING", !.backup = row.result]
RestoredBlindly == row.backup
Restored == IF row.backup # Null THEN row.backup ELSE row.result
Restore(status) == Update([status |-> status, result |-> Restored, backup |-> Null])
Store(r) == Update([status |-> "completed", result |-> r, backup |-> Null])

(* api_process_transcript: the row, the text, and the task.  Every query    *)
(* may fail, and both inserts refuse a meeting that is not there.           *)
Called(r) == At(r, "idle") /\ \A s \in Runs : s < r => ~At(s, "idle")
Process(r) ==
    /\ Called(r) /\ meeting
    /\ Reset
    /\ Goto(r, "text")
    /\ lone' = IF \A s \in Runs : run[s].pc \in {"idle", "over"} THEN r ELSE None
    /\ before' = IF row = None THEN Null ELSE row.result
    /\ late' = FALSE /\ keeper' = r
    /\ UNCHANGED <<meeting, text, registry, cancelled, stopping, bounds, lost>>
ProcessFails(r) ==
    /\ Called(r)
    /\ Goto(r, "over")
    /\ UNCHANGED <<meeting, row, text, registry, cancelled, stopping, bounds, history>>
SaveText(r) ==
    /\ At(r, "text") /\ meeting
    /\ text' = r
    /\ Goto(r, "register")
    /\ UNCHANGED <<meeting, row, registry, cancelled, stopping, bounds, history>>
(* A run that is over before it has updated the row, which stays PENDING.   *)
Lost(r) ==
    /\ Goto(r, "over")
    /\ lost' = lost \cup {r}
    /\ UNCHANGED <<meeting, row, text, registry, cancelled, stopping, bounds,
                   lone, before, late, keeper>>
(* The command fails, and starts no task.                                   *)
SaveTextFails(r) == At(r, "text") /\ Lost(r)

-----------------------------------------------------------------------------
(* process_transcript_background.                                           *)
RegisterIfAbsent(r) ==
    /\ At(r, "register")
    /\ registry' = IF registry = None THEN r ELSE registry
    /\ Goto(r, "setup")
    /\ UNCHANGED <<meeting, row, text, cancelled, stopping, bounds, history>>
Register(r) ==
    /\ At(r, "register")
    /\ registry' = r
    /\ Goto(r, "setup")
    /\ UNCHANGED <<meeting, row, text, cancelled, stopping, bounds, history>>
(* An unknown provider, no API key, no configuration: the token stays.      *)
SetupFails(r) ==
    /\ At(r, "setup")
    /\ Goto(r, "failing")
    /\ UNCHANGED <<meeting, row, text, registry, cancelled, stopping, bounds, history>>
(* generate_meeting_summary returns: the meeting's token is removed, and    *)
(* the row is updated next.                                                 *)
Ends(r, pc) == Goto(r, pc) /\ registry' = None
EndsCancelled(r) ==
    /\ r \in cancelled
    /\ Ends(r, "cancelling")
    /\ UNCHANGED <<meeting, row, text, cancelled, stopping, bounds, history>>
StartsCancelled(r) == At(r, "setup") /\ EndsCancelled(r)
(* One pass, or a number of chunks.                                         *)
Starts(r) ==
    /\ At(r, "setup") /\ r \notin cancelled
    /\ \/ run' = [run EXCEPT ![r].pc = "ask", ![r].step = "final"]
       \/ \E n \in 1..MaxChunks :
              run' = [run EXCEPT ![r] = [pc |-> "ask", step |-> "chunk", left |-> n, made |-> 0]]
    /\ UNCHANGED <<meeting, row, text, registry, cancelled, stopping, bounds, history>>
(* The token is looked at before every request, and the request races it    *)
(* until the response begins.  Nothing interrupts the body of a response,   *)
(* but the local engine looks at the token once more after it.              *)
AskCancelled(r) == At(r, "ask") /\ EndsCancelled(r)
Ask(r) ==
    /\ At(r, "ask") /\ r \notin cancelled
    /\ Goto(r, "call")
    /\ UNCHANGED <<meeting, row, text, registry, cancelled, stopping, bounds, history>>
CallCancelled(r) == run[r].pc \in {"call", "body"} /\ EndsCancelled(r)
Responds(r) ==
    /\ At(r, "call")
    /\ Goto(r, "body")
    /\ UNCHANGED <<meeting, row, text, registry, cancelled, stopping, bounds, history>>

(* What follows a chunk of which made summaries exist.                      *)
After(left, made) == IF left > 0 THEN "chunk" ELSE IF made > 1 THEN "combine" ELSE "final"
NextStep(r, made) ==
    LET left == IF run[r].step = "chunk" THEN run[r].left - 1 ELSE 0
        step == IF run[r].step = "combine" THEN "final" ELSE After(left, made) IN
    run' = [run EXCEPT ![r] = [pc |-> "ask", step |-> step, left |-> left, made |-> made]]
Answered(r) ==
    /\ At(r, "body") /\ run[r].step # "final"
    /\ NextStep(r, IF run[r].step = "chunk" THEN run[r].made + 1 ELSE run[r].made)
    /\ UNCHANGED <<meeting, row, text, registry, cancelled, stopping, bounds, history>>
Reported(r) ==
    /\ At(r, "body") /\ run[r].step = "final"
    /\ Ends(r, "completing")
    /\ late' = (late \/ stopping \/ r \in cancelled)
    /\ UNCHANGED <<meeting, row, text, cancelled, stopping, bounds, lone, before, keeper, lost>>
(* A chunk that fails is left out, unless none is left; any other failure   *)
(* ends the run, as cancelled when its message says so.                     *)
Hopeless(r) == run[r].step = "chunk" => run[r].left = 1 /\ run[r].made = 0
CallFailsSilently(r) ==
    /\ run[r].pc \in {"call", "body"}
    /\ \/ ~Hopeless(r) /\ NextStep(r, run[r].made) /\ UNCHANGED registry
       \/ Hopeless(r) /\ Ends(r, "over")
    /\ UNCHANGED <<meeting, row, text, cancelled, stopping, bounds, history>>
CallFails(r) ==
    /\ run[r].pc \in {"call", "body"}
    /\ \/ ~Hopeless(r) /\ NextStep(r, run[r].made) /\ UNCHANGED registry
       \/ Hopeless(r) /\ Ends(r, "failing")
       \/ Ends(r, "cancelling")
    /\ UNCHANGED <<meeting, row, text, cancelled, stopping, bounds, history>>
Finishes(r, pc) ==
    /\ At(r, pc)
    /\ Goto(r, "over")
    /\ UNCHANGED <<meeting, text, registry, cancelled, stopping, bounds, history>>
(* The last update fails; it is logged, and nobody tries again.             *)
LastUpdateFails(r) == run[r].pc \in {"completing", "failing", "cancelling"} /\ Lost(r)
Complete(r) == Finishes(r, "completing") /\ Store(r)
Fail(r) == Finishes(r, "failing") /\ Restore("failed")
MarkCancelled(r) == Finishes(r, "cancelling") /\ Restore("cancelled")

-----------------------------------------------------------------------------
(* api_cancel_summary.                                                      *)
Stop ==
    /\ ~stopping /\ registry # None /\ stops < MaxStops
    /\ cancelled' = cancelled \cup {registry}
    /\ stopping' = TRUE /\ stops' = stops + 1
    /\ UNCHANGED <<meeting, row, text, registry, run, edits, history>>
MarkStopped ==
    /\ stopping
    /\ stopping' = FALSE
    /\ Restore("cancelled")
    /\ UNCHANGED <<meeting, text, registry, cancelled, run, bounds, history>>
(* Its update fails: the token is cancelled all the same.                   *)
MarkStoppedFails ==
    /\ stopping
    /\ stopping' = FALSE
    /\ UNCHANGED <<meeting, row, text, registry, cancelled, run, bounds, history>>
(* api_save_meeting_summary: the result is replaced and the backup is not.  *)
Rewrite == row # None /\ row' = [row EXCEPT !.result = Edited]
SaveSummary ==
    /\ meeting /\ edits < MaxEdits
    /\ Rewrite
    /\ edits' = edits + 1 /\ lone' = None
    /\ UNCHANGED <<meeting, text, registry, cancelled, run, stopping, stops, before, late, keeper, lost>>
(* The meeting with everything that refers to it.                           *)
DeleteMeeting ==
    /\ meeting
    /\ meeting' = FALSE /\ row' = None /\ text' = None
    /\ lone' = None
    /\ UNCHANGED <<registry, cancelled, run, stopping, bounds, before, late, keeper, lost>>
UnderWay == {r \in Runs : run[r].pc \notin {"idle", "over"}}
(* The program ends; the database is what it was.                           *)
Crash ==
    /\ UnderWay # {}
    /\ run' = [r \in Runs |-> IF At(r, "idle") THEN Fresh ELSE [Fresh EXCEPT !.pc = "over"]]
    /\ registry' = None /\ cancelled' = {} /\ stopping' = FALSE
    /\ lone' = None /\ lost' = lost \cup UnderWay
    /\ UNCHANGED <<meeting, row, text, bounds, before, late, keeper>>

Background(r) ==
    \/ SaveText(r) \/ SaveTextFails(r) \/ Register(r) \/ SetupFails(r) \/ StartsCancelled(r)
    \/ Starts(r) \/ AskCancelled(r) \/ Ask(r) \/ CallCancelled(r) \/ Responds(r)
    \/ Answered(r) \/ Reported(r) \/ CallFails(r)
    \/ Complete(r) \/ Fail(r) \/ MarkCancelled(r) \/ LastUpdateFails(r)
Next ==
    \/ \E r \in Runs : Process(r) \/ ProcessFails(r) \/ Background(r)
    \/ Stop \/ MarkStopped \/ MarkStoppedFails \/ SaveSummary \/ DeleteMeeting \/ Crash
(* A run goes on, every request is answered or times out; nobody has to     *)
(* stop, edit, delete or crash.                                             *)
Spec ==
    /\ Init /\ [][Next]_vars
    /\ WF_vars(MarkStopped \/ MarkStoppedFails)
    /\ \A r \in Runs : WF_vars(Background(r))

-----------------------------------------------------------------------------
TypeOK ==
    /\ meeting \in BOOLEAN
    /\ row \in Rows \cup {None}
    /\ text \in Runs \cup {None} /\ registry \in Runs \cup {None} /\ cancelled \subseteq Runs
    /\ run \in [Runs -> States]
    /\ stopping \in BOOLEAN /\ stops \in 0..MaxStops /\ edits \in 0..MaxEdits
    /\ lone \in Runs \cup {None} /\ before \in Summaries
    /\ late \in BOOLEAN /\ keeper \in Runs \cup {None} /\ lost \subseteq Runs

(* The summary survives: a run that had the row to itself either completes  *)
(* with its own summary, or the summary it found is there again, however it *)
(* failed or was stopped, unless its last answer came after the stop or its *)
(* last update of the row failed.                                           *)
LoneOutcome ==
    lone # None /\ At(lone, "over") /\ row # None /\ ~late /\ lone \notin lost =>
        \/ row.status = "completed" /\ row.result = lone
        \/ row.status \in {"failed", "cancelled"} /\ row.result = before

(* A run that had the meeting to itself can be stopped at every moment of   *)
(* its generation, whatever earlier runs have left in the registry.         *)
StopFindsRun == lone # None /\ run[lone].pc \in Generating => registry = lone

(* The row with its backup keeps the promise of SummaryRecord, in whatever  *)
(* order resets, answers, failures, stops and edits come: a generation that *)
(* does not succeed leaves the summary that was there when it began.        *)
Record == INSTANCE SummaryRecord WITH
              Makers <- Runs \cup {Edited},
              state <- IF row = None THEN "none" ELSE row.status,
              shown <- IF row = None THEN Null ELSE row.result,
              kept <- IF row = None THEN Null
                      ELSE IF row.backup # Null THEN row.backup ELSE row.result
KeepsRecord == Record!Spec

(* A meeting that is said to be having its summary generated is: the run    *)
(* that reset its row is still under way.  The exception is a run that      *)
(* ended without updating the row, because the program was closed, the text *)
(* could not be saved, or the last update itself failed and was only        *)
(* logged; nothing takes such a row out of PENDING but another run.         *)
PendingHasRun ==
    row # None /\ row.status = "PENDING" => keeper \in UnderWay \cup lost

(* A meeting whose summary is being generated stops being so, with the same *)
(* exception.                                                               *)
PendingEnds ==
    (row # None /\ row.status = "PENDING") ~>
        (row = None \/ row.status # "PENDING" \/ keeper \in lost)
=============================================================================
