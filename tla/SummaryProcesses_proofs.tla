----------------------- MODULE SummaryProcesses_proofs -----------------------
(* Theorems about SummaryProcesses, for any number of generations and for   *)
(* every bound: its types, that a lone generation can be stopped, and that  *)
(* the row with its backup implements SummaryRecord.  Then those about      *)
(* Sidecar: its types, and that nothing of what went wrong before reaches a *)
(* generation that has the helper to itself.                                *)
EXTENDS SummaryProcesses, Sidecar, TLAPS

(* A run that is in a request has a chunk left, and has not made more       *)
(* summaries than there were chunks.                                        *)
Asking == {"ask", "call", "body"}
RunInv ==
    \A r \in Runs :
        /\ run[r].made + run[r].left <= MaxChunks
        /\ run[r].pc \in Asking /\ run[r].step = "chunk" => run[r].left > 0

(* While a run has the row to itself no other is past its beginning.        *)
LoneInv == \A r \in Runs : lone # None /\ r # lone => run[r].pc \in {"idle", "over"}

(* There is a backup only while a generation is under way; without one a    *)
(* generation under way has found nothing.  A row goes with its meeting.    *)
RowInv ==
    /\ row # None =>
           /\ row.backup # Null => row.status = "PENDING"
           /\ row.status = "PENDING" /\ row.backup = Null => row.result \in {Null, Edited}
    /\ ~meeting => row = None

TypeInv == TypeOK /\ RunInv
IInv == TypeInv /\ LoneInv /\ StopFindsRun /\ RowInv /\ PendingHasRun

-----------------------------------------------------------------------------
(* What the updates of one run and of the row do, once and for all.         *)
LEMMA RunMoves ==
    ASSUME run \in [Runs -> States], NEW r \in Runs, NEW pc \in Pcs, Goto(r, pc)
    PROVE  /\ run' \in [Runs -> States]
           /\ \A s \in Runs : /\ run'[s].pc = IF s = r THEN pc ELSE run[s].pc
                              /\ run'[s].step = run[s].step
                              /\ run'[s].left = run[s].left
                              /\ run'[s].made = run[s].made
BY DEF Goto, States

LEMMA RunBecomes ==
    ASSUME run \in [Runs -> States], NEW r \in Runs, NEW new \in States,
           run' = [run EXCEPT ![r] = new]
    PROVE  /\ run' \in [Runs -> States]
           /\ \A s \in Runs : run'[s] = IF s = r THEN new ELSE run[s]
OBVIOUS

LEMMA Given ==
    /\ Runs \subseteq Nat /\ 0 \notin Runs /\ None \notin Nat /\ None \notin Rows
    /\ None \notin Runs
    /\ MaxChunks \in Nat /\ MaxChunks > 0 /\ MaxStops \in Nat /\ MaxEdits \in Nat
<1>1. Runs \subseteq Nat /\ 0 \notin Runs /\ None \notin Nat /\ None \notin Runs
  BY RunsAssumption
<1>2. MaxChunks \in Nat /\ MaxChunks > 0 /\ MaxStops \in Nat /\ MaxEdits \in Nat
  BY BoundsAssumption
<1> QED BY <1>1, <1>2, NoneAssumption

(* The row after each of the updates, in the terms of the columns.          *)
LEMMA RowUpdates ==
    ASSUME row \in Rows \cup {None}
    PROVE  /\ Reset => /\ row' \in Rows /\ row'.status = "PENDING"
                       /\ row = None => row'.result = Null /\ row'.backup = Null
                       /\ row # None => row'.result = row.result /\ row'.backup = row.result
           /\ \A end \in Statuses : Restore(end) =>
                  /\ row = None => row' = None
                  /\ row # None => /\ row' \in Rows /\ row'.status = end /\ row'.backup = Null
                                   /\ row'.result = IF row.backup # Null THEN row.backup
                                                    ELSE row.result
           /\ \A r \in Runs : Store(r) =>
                  /\ row = None => row' = None
                  /\ row # None => /\ row' \in Rows /\ row'.status = "completed"
                                   /\ row'.backup = Null /\ row'.result = r
           /\ Rewrite => /\ row # None /\ row' \in Rows /\ row'.status = row.status
                         /\ row'.backup = row.backup /\ row'.result = Edited
<1> USE DEF Rows, Summaries, Statuses
<1>1. Null \in Summaries /\ Edited \in Summaries /\ "PENDING" \in Statuses
  OBVIOUS
<1>2. ASSUME Reset
      PROVE  /\ row' \in Rows /\ row'.status = "PENDING"
             /\ row = None => row'.result = Null /\ row'.backup = Null
             /\ row # None => row'.result = row.result /\ row'.backup = row.result
  <2>1. CASE row = None
    BY <1>2, <2>1 DEF Reset
  <2>2. CASE row # None
    BY <1>2, <2>2 DEF Reset
  <2> QED BY <2>1, <2>2
<1>3. ASSUME NEW end \in Statuses, Restore(end)
      PROVE  /\ row = None => row' = None
             /\ row # None => /\ row' \in Rows /\ row'.status = end /\ row'.backup = Null
                              /\ row'.result = IF row.backup # Null THEN row.backup
                                               ELSE row.result
  BY <1>3 DEF Restore, Restored, Update
<1>4. ASSUME NEW r \in Runs, Store(r)
      PROVE  /\ row = None => row' = None
             /\ row # None => /\ row' \in Rows /\ row'.status = "completed"
                              /\ row'.backup = Null /\ row'.result = r
  BY <1>4 DEF Store, Update
<1>5. ASSUME Rewrite
      PROVE  /\ row # None /\ row' \in Rows /\ row'.status = row.status
             /\ row'.backup = row.backup /\ row'.result = Edited
  BY <1>5 DEF Rewrite
<1> QED BY <1>2, <1>3, <1>4, <1>5

-----------------------------------------------------------------------------
(* The next step of a run: one chunk less, and at most one summary more.    *)
LEMMA NextStepMoves ==
    ASSUME run \in [Runs -> States], RunInv, NEW r \in Runs, run[r].pc \in Asking,
           NEW made \in {run[r].made, run[r].made + 1},
           run[r].step = "chunk" \/ made = run[r].made,
           NextStep(r, made)
    PROVE  /\ run' \in [Runs -> States] /\ RunInv'
           /\ run'[r].pc = "ask" /\ \A s \in Runs \ {r} : run'[s] = run[s]
<1> DEFINE left == IF run[r].step = "chunk" THEN run[r].left - 1 ELSE 0
           step == IF run[r].step = "combine" THEN "final" ELSE After(left, made)
           new == [pc |-> "ask", step |-> step, left |-> left, made |-> made]
<1>1. run[r] \in States
  OBVIOUS
<1>2. /\ left \in 0..MaxChunks /\ made \in 0..MaxChunks /\ made + left <= MaxChunks
      /\ step \in Steps /\ (step = "chunk" => left > 0)
  BY <1>1, Given DEF States, RunInv, Asking, After, Steps
<1>3. new \in States /\ run' = [run EXCEPT ![r] = new]
  <2>1. new \in States
    BY <1>2 DEF States, Pcs, Generating
  <2> QED BY <2>1 DEF NextStep
<1>4. /\ run' \in [Runs -> States]
      /\ \A s \in Runs : run'[s] = IF s = r THEN new ELSE run[s]
  BY <1>3, RunBecomes
<1>5. new.pc = "ask" /\ new.step = step /\ new.left = left /\ new.made = made
  OBVIOUS
<1> QED BY <1>2, <1>4, <1>5 DEF RunInv

(* Every step keeps the types.                                              *)
LEMMA TypeStep ==
    TypeInv /\ [Next]_vars => TypeInv'
<1> SUFFICES ASSUME TypeInv, [Next]_vars PROVE TypeInv'
  OBVIOUS
<1> USE Given DEF TypeInv, TypeOK, RunInv, Asking, At, bounds, history, Pcs, Generating
<1>1. ASSUME NEW r \in Runs, Process(r) PROVE TypeInv'
  <2>1. Goto(r, "text")
    BY <1>1 DEF Process
  <2>5. run' \in [Runs -> States] /\ RunInv'
    BY <2>1, RunMoves
  <2>2. row' \in Rows \cup {None}
    BY <1>1, RowUpdates DEF Process
  <2>3. before' \in Summaries
    BY <1>1 DEF Process, Rows, Summaries
  <2> QED BY <1>1, <2>2, <2>3, <2>5 DEF Process
<1>2. ASSUME NEW r \in Runs, SaveText(r) PROVE TypeInv'
  <2>1. Goto(r, "register")
    BY <1>2 DEF SaveText
  <2> QED BY <1>2, <2>1, RunMoves DEF SaveText
<1>3. ASSUME NEW r \in Runs, ProcessFails(r) \/ Lost(r) PROVE TypeInv'
  <2>1. Goto(r, "over")
    BY <1>3 DEF ProcessFails, Lost
  <2>2. run' \in [Runs -> States] /\ RunInv'
    BY <2>1, RunMoves
  <2>3. lost' \subseteq Runs
    BY <1>3 DEF ProcessFails, Lost
  <2> QED BY <1>3, <2>2, <2>3 DEF ProcessFails, Lost
<1>4. ASSUME NEW r \in Runs, Register(r) PROVE TypeInv'
  <2>1. Goto(r, "setup")
    BY <1>4 DEF Register
  <2> QED BY <1>4, <2>1, RunMoves DEF Register
<1>5. ASSUME NEW r \in Runs, SetupFails(r) PROVE TypeInv'
  <2>1. Goto(r, "failing")
    BY <1>5 DEF SetupFails
  <2> QED BY <1>5, <2>1, RunMoves DEF SetupFails
<1>6. ASSUME NEW r \in Runs, StartsCancelled(r) PROVE TypeInv'
  <2>1. Goto(r, "cancelling")
    BY <1>6 DEF StartsCancelled, EndsCancelled, Ends
  <2> QED BY <1>6, <2>1, RunMoves DEF StartsCancelled, EndsCancelled, Ends
<1>7. ASSUME NEW r \in Runs, Starts(r) PROVE TypeInv'
  <2> DEFINE once == [run[r] EXCEPT !.pc = "ask", !.step = "final"]
             many(n) == [pc |-> "ask", step |-> "chunk", left |-> n, made |-> 0]
  <2>1. run[r] \in States
    OBVIOUS
  <2>2. CASE run' = [run EXCEPT ![r].pc = "ask", ![r].step = "final"]
    <3>1. run' = [run EXCEPT ![r] = once] /\ once \in States
      BY <2>1, <2>2 DEF States, Steps
    <3> QED BY <1>7, <2>1, <3>1, RunBecomes DEF Starts, States
  <2>3. ASSUME NEW n \in 1..MaxChunks, run' = [run EXCEPT ![r] = many(n)] PROVE TypeInv'
    <3>1. many(n) \in States
      BY DEF States, Steps
    <3> QED BY <1>7, <2>3, <3>1, RunBecomes DEF Starts
  <2> QED BY <1>7, <2>2, <2>3 DEF Starts
<1>8. ASSUME NEW r \in Runs, AskCancelled(r) PROVE TypeInv'
  <2>1. Goto(r, "cancelling")
    BY <1>8 DEF AskCancelled, EndsCancelled, Ends
  <2> QED BY <1>8, <2>1, RunMoves DEF AskCancelled, EndsCancelled, Ends
<1>9. ASSUME NEW r \in Runs, Ask(r) PROVE TypeInv'
  <2>1. Goto(r, "call")
    BY <1>9 DEF Ask
  <2> QED BY <1>9, <2>1, RunMoves DEF Ask
<1>10. ASSUME NEW r \in Runs, CallCancelled(r) PROVE TypeInv'
  <2>1. Goto(r, "cancelling")
    BY <1>10 DEF CallCancelled, EndsCancelled, Ends
  <2> QED BY <1>10, <2>1, RunMoves DEF CallCancelled, EndsCancelled, Ends
<1>11. ASSUME NEW r \in Runs, Responds(r) PROVE TypeInv'
  <2>1. Goto(r, "body")
    BY <1>11 DEF Responds
  <2> QED BY <1>11, <2>1, RunMoves DEF Responds
<1>12. ASSUME NEW r \in Runs, Answered(r) PROVE TypeInv'
  <2>1. NextStep(r, IF run[r].step = "chunk" THEN run[r].made + 1 ELSE run[r].made)
    BY <1>12 DEF Answered
  <2>2. run[r].pc \in Asking
    BY <1>12 DEF Answered
  <2> DEFINE made == IF run[r].step = "chunk" THEN run[r].made + 1 ELSE run[r].made
  <2>3. made \in {run[r].made, run[r].made + 1} /\ (run[r].step = "chunk" \/ made = run[r].made)
    OBVIOUS
  <2> HIDE DEF made, RunInv, Asking
  <2>4. NextStep(r, made) /\ run[r].pc \in Asking
    BY <2>1, <2>2 DEF made
  <2>5. run' \in [Runs -> States] /\ RunInv'
    BY <2>3, <2>4, NextStepMoves
  <2> QED BY <1>12, <2>5 DEF Answered
<1>13. ASSUME NEW r \in Runs, Reported(r) PROVE TypeInv'
  <2>1. Goto(r, "completing")
    BY <1>13 DEF Reported, Ends
  <2> QED BY <1>13, <2>1, RunMoves DEF Reported, Ends
<1>14. ASSUME NEW r \in Runs, CallFails(r) PROVE TypeInv'
  <2>1. run[r].pc \in Asking
    BY <1>14 DEF CallFails
  <2>2. CASE NextStep(r, run[r].made) /\ UNCHANGED registry
    <3>1. run' \in [Runs -> States] /\ RunInv'
      <4> HIDE DEF RunInv, Asking
      <4> QED BY <2>1, <2>2, NextStepMoves
    <3> QED BY <1>14, <2>2, <3>1 DEF CallFails
  <2>3. ASSUME NEW pc \in {"failing", "cancelling"}, Ends(r, pc) PROVE TypeInv'
    <3>1. Goto(r, pc) /\ registry' = None
      BY <2>3 DEF Ends
    <3> QED BY <1>14, <3>1, RunMoves DEF CallFails
  <2> QED BY <1>14, <2>2, <2>3 DEF CallFails
<1>15. ASSUME NEW r \in Runs, Complete(r) PROVE TypeInv'
  <2>1. Goto(r, "over")
    BY <1>15 DEF Complete, Finishes
  <2>2. row' \in Rows \cup {None}
    BY <1>15, RowUpdates DEF Complete, Statuses
  <2> QED BY <1>15, <2>1, <2>2, RunMoves DEF Complete, Finishes
<1>16. ASSUME NEW r \in Runs, Fail(r) PROVE TypeInv'
  <2>1. Goto(r, "over")
    BY <1>16 DEF Fail, Finishes
  <2>2. row' \in Rows \cup {None}
    BY <1>16, RowUpdates DEF Fail, Statuses
  <2> QED BY <1>16, <2>1, <2>2, RunMoves DEF Fail, Finishes
<1>17. ASSUME NEW r \in Runs, MarkCancelled(r) PROVE TypeInv'
  <2>1. Goto(r, "over")
    BY <1>17 DEF MarkCancelled, Finishes
  <2>2. row' \in Rows \cup {None}
    BY <1>17, RowUpdates DEF MarkCancelled, Statuses
  <2> QED BY <1>17, <2>1, <2>2, RunMoves DEF MarkCancelled, Finishes
<1>18. CASE Stop
  BY <1>18 DEF Stop
<1>19. CASE MarkStopped \/ MarkStoppedFails
  <2>1. row' \in Rows \cup {None}
    BY <1>19, RowUpdates DEF MarkStopped, MarkStoppedFails, Statuses
  <2> QED BY <1>19, <2>1 DEF MarkStopped, MarkStoppedFails
<1>20. CASE SaveSummary
  <2>1. row' \in Rows \cup {None}
    BY <1>20, RowUpdates DEF SaveSummary
  <2> QED BY <1>20, <2>1 DEF SaveSummary
<1>21. CASE DeleteMeeting
  BY <1>21 DEF DeleteMeeting
<1>22. CASE Crash
  <2> DEFINE new(s) == IF At(s, "idle") THEN Fresh ELSE [Fresh EXCEPT !.pc = "over"]
  <2>1. \A s \in Runs : new(s) \in States /\ new(s).pc \in {"idle", "over"}
                         /\ new(s).made = 0 /\ new(s).left = 0
    BY DEF Fresh, States, Steps
  <2>2. run' = [s \in Runs |-> new(s)]
    BY <1>22 DEF Crash
  <2>3. run' \in [Runs -> States] /\ RunInv'
    <3>1. \A s \in Runs : run'[s] = new(s)
      BY <2>2
    <3> HIDE DEF new
    <3> QED BY <2>1, <2>2, <3>1
  <2> QED BY <1>22, <2>3 DEF Crash, UnderWay
<1>23. CASE UNCHANGED vars
  BY <1>23 DEF vars
<1> QED
  BY <1>1, <1>2, <1>3, <1>4, <1>5, <1>6, <1>7, <1>8, <1>9, <1>10, <1>11, <1>12, <1>13,
     <1>14, <1>15, <1>16, <1>17, <1>18, <1>19, <1>20, <1>21, <1>22, <1>23
  DEF Next, Background, SaveTextFails, LastUpdateFails

(* Every step keeps a lone run alone, and its token in the registry: a run   *)
(* registers only after it has begun, and begins alone or not.              *)
LEMMA LoneStep ==
    TypeInv /\ LoneInv /\ StopFindsRun /\ [Next]_vars => (LoneInv /\ StopFindsRun)'
<1> SUFFICES ASSUME TypeInv, LoneInv, StopFindsRun, [Next]_vars PROVE (LoneInv /\ StopFindsRun)'
  OBVIOUS
<1> USE Given DEF LoneInv, StopFindsRun, TypeInv, TypeOK, RunInv, At, bounds, history, Generating
<1>1. ASSUME NEW r \in Runs, Process(r) PROVE (LoneInv /\ StopFindsRun)'
  <2>1. Goto(r, "text")
    BY <1>1 DEF Process
  <2> QED BY <1>1, <2>1, RunMoves DEF Process, Pcs
<1>2. ASSUME NEW r \in Runs, SaveText(r) PROVE (LoneInv /\ StopFindsRun)'
  <2>1. Goto(r, "register")
    BY <1>2 DEF SaveText
  <2> QED BY <1>2, <2>1, RunMoves DEF SaveText, Pcs
<1>3. ASSUME NEW r \in Runs, ProcessFails(r) \/ Lost(r) PROVE (LoneInv /\ StopFindsRun)'
  <2>1. Goto(r, "over")
    BY <1>3 DEF ProcessFails, Lost
  <2> QED BY <1>3, <2>1, RunMoves DEF ProcessFails, Lost, Pcs
<1>4. ASSUME NEW r \in Runs, Register(r) PROVE (LoneInv /\ StopFindsRun)'
  <2>1. Goto(r, "setup")
    BY <1>4 DEF Register
  <2> QED BY <1>4, <2>1, RunMoves DEF Register, Pcs
<1>5. ASSUME NEW r \in Runs, SetupFails(r) PROVE (LoneInv /\ StopFindsRun)'
  <2>1. Goto(r, "failing")
    BY <1>5 DEF SetupFails
  <2> QED BY <1>5, <2>1, RunMoves DEF SetupFails, Pcs
<1>6. ASSUME NEW r \in Runs, StartsCancelled(r) PROVE (LoneInv /\ StopFindsRun)'
  <2>1. Goto(r, "cancelling")
    BY <1>6 DEF StartsCancelled, EndsCancelled, Ends
  <2> QED BY <1>6, <2>1, RunMoves DEF StartsCancelled, EndsCancelled, Ends, Pcs
<1>7. ASSUME NEW r \in Runs, Starts(r) PROVE (LoneInv /\ StopFindsRun)'
  <2>1. \A s \in Runs : run'[s].pc = IF s = r THEN "ask" ELSE run[s].pc
    <3>1. CASE run' = [run EXCEPT ![r].pc = "ask", ![r].step = "final"]
      BY <3>1 DEF States
    <3>2. ASSUME NEW n \in 1..MaxChunks,
                 run' = [run EXCEPT ![r] = [pc |-> "ask", step |-> "chunk", left |-> n, made |-> 0]]
          PROVE  \A s \in Runs : run'[s].pc = IF s = r THEN "ask" ELSE run[s].pc
      BY <3>2
    <3> QED BY <1>7, <3>1, <3>2 DEF Starts
  <2> QED BY <1>7, <2>1 DEF Starts
<1>8. ASSUME NEW r \in Runs, AskCancelled(r) PROVE (LoneInv /\ StopFindsRun)'
  <2>1. Goto(r, "cancelling")
    BY <1>8 DEF AskCancelled, EndsCancelled, Ends
  <2> QED BY <1>8, <2>1, RunMoves DEF AskCancelled, EndsCancelled, Ends, Pcs
<1>9. ASSUME NEW r \in Runs, Ask(r) PROVE (LoneInv /\ StopFindsRun)'
  <2>1. Goto(r, "call")
    BY <1>9 DEF Ask
  <2> QED BY <1>9, <2>1, RunMoves DEF Ask, Pcs
<1>10. ASSUME NEW r \in Runs, CallCancelled(r) PROVE (LoneInv /\ StopFindsRun)'
  <2>1. Goto(r, "cancelling")
    BY <1>10 DEF CallCancelled, EndsCancelled, Ends
  <2> QED BY <1>10, <2>1, RunMoves DEF CallCancelled, EndsCancelled, Ends, Pcs
<1>11. ASSUME NEW r \in Runs, Responds(r) PROVE (LoneInv /\ StopFindsRun)'
  <2>1. Goto(r, "body")
    BY <1>11 DEF Responds
  <2> QED BY <1>11, <2>1, RunMoves DEF Responds, Pcs
<1>12. ASSUME NEW r \in Runs, Answered(r) PROVE (LoneInv /\ StopFindsRun)'
  <2>1. run[r].pc \in Asking
    BY <1>12 DEF Answered, Asking
  <2> DEFINE made == IF run[r].step = "chunk" THEN run[r].made + 1 ELSE run[r].made
  <2>3. made \in {run[r].made, run[r].made + 1} /\ (run[r].step = "chunk" \/ made = run[r].made)
    OBVIOUS
  <2>4. NextStep(r, made)
    BY <1>12 DEF Answered
  <2>2. run'[r].pc = "ask" /\ \A s \in Runs \ {r} : run'[s] = run[s]
    <3> HIDE DEF made, RunInv
    <3> QED BY <2>1, <2>3, <2>4, NextStepMoves
  <2> QED BY <1>12, <2>1, <2>2 DEF Answered, Asking
<1>13. ASSUME NEW r \in Runs, Reported(r) PROVE (LoneInv /\ StopFindsRun)'
  <2>1. Goto(r, "completing")
    BY <1>13 DEF Reported, Ends
  <2> QED BY <1>13, <2>1, RunMoves DEF Reported, Ends, Pcs
<1>14. ASSUME NEW r \in Runs, CallFails(r) PROVE (LoneInv /\ StopFindsRun)'
  <2>1. run[r].pc \in Asking
    BY <1>14 DEF CallFails, Asking
  <2>2. CASE NextStep(r, run[r].made) /\ UNCHANGED registry
    <3>1. run'[r].pc = "ask" /\ \A s \in Runs \ {r} : run'[s] = run[s]
      <4> HIDE DEF RunInv
      <4> QED BY <2>1, <2>2, NextStepMoves
    <3> QED BY <1>14, <2>1, <2>2, <3>1 DEF CallFails, Asking
  <2>3. ASSUME NEW pc \in {"failing", "cancelling"}, Ends(r, pc)
        PROVE  (LoneInv /\ StopFindsRun)'
    <3>1. Goto(r, pc) /\ registry' = None
      BY <2>3 DEF Ends
    <3> QED BY <1>14, <2>1, <3>1, RunMoves DEF CallFails, Pcs, Asking
  <2> QED BY <1>14, <2>2, <2>3 DEF CallFails
<1>15. ASSUME NEW r \in Runs, Complete(r) PROVE (LoneInv /\ StopFindsRun)'
  <2>1. Goto(r, "over")
    BY <1>15 DEF Complete, Finishes
  <2> QED BY <1>15, <2>1, RunMoves DEF Complete, Finishes, Pcs
<1>16. ASSUME NEW r \in Runs, Fail(r) PROVE (LoneInv /\ StopFindsRun)'
  <2>1. Goto(r, "over")
    BY <1>16 DEF Fail, Finishes
  <2> QED BY <1>16, <2>1, RunMoves DEF Fail, Finishes, Pcs
<1>17. ASSUME NEW r \in Runs, MarkCancelled(r) PROVE (LoneInv /\ StopFindsRun)'
  <2>1. Goto(r, "over")
    BY <1>17 DEF MarkCancelled, Finishes
  <2> QED BY <1>17, <2>1, RunMoves DEF MarkCancelled, Finishes, Pcs
<1>18. CASE Stop
  BY <1>18 DEF Stop
<1>19. CASE MarkStopped \/ MarkStoppedFails
  BY <1>19 DEF MarkStopped, MarkStoppedFails
<1>20. CASE SaveSummary
  BY <1>20 DEF SaveSummary
<1>21. CASE DeleteMeeting
  BY <1>21 DEF DeleteMeeting
<1>22. CASE Crash
  BY <1>22 DEF Crash
<1>23. CASE UNCHANGED vars
  BY <1>23 DEF vars
<1> QED
  BY <1>1, <1>2, <1>3, <1>4, <1>5, <1>6, <1>7, <1>8, <1>9, <1>10, <1>11, <1>12, <1>13,
     <1>14, <1>15, <1>16, <1>17, <1>18, <1>19, <1>20, <1>21, <1>22, <1>23
  DEF Next, Background, SaveTextFails, LastUpdateFails

(* Every step keeps the row in order.                                       *)
LEMMA RowStep ==
    TypeInv /\ RowInv /\ [Next]_vars => RowInv'
<1> SUFFICES ASSUME TypeInv, RowInv, [Next]_vars PROVE RowInv'
  OBVIOUS
<1> USE Given DEF RowInv, TypeInv, TypeOK, RunInv, bounds, history
<1>1. ASSUME NEW r \in Runs, Process(r) PROVE RowInv'
  BY <1>1, RowUpdates DEF Process, Summaries, Rows
<1>2. ASSUME NEW r \in Runs, SaveText(r) PROVE RowInv'
  BY <1>2 DEF SaveText
<1>3. ASSUME NEW r \in Runs, ProcessFails(r) \/ Lost(r) PROVE RowInv'
  BY <1>3 DEF ProcessFails, Lost
<1>4. ASSUME NEW r \in Runs, Register(r) PROVE RowInv'
  BY <1>4 DEF Register
<1>5. ASSUME NEW r \in Runs, SetupFails(r) PROVE RowInv'
  BY <1>5 DEF SetupFails
<1>6. ASSUME NEW r \in Runs, StartsCancelled(r) PROVE RowInv'
  BY <1>6 DEF StartsCancelled, EndsCancelled, Ends
<1>7. ASSUME NEW r \in Runs, Starts(r) PROVE RowInv'
  BY <1>7 DEF Starts
<1>8. ASSUME NEW r \in Runs, AskCancelled(r) PROVE RowInv'
  BY <1>8 DEF AskCancelled, EndsCancelled, Ends
<1>9. ASSUME NEW r \in Runs, Ask(r) PROVE RowInv'
  BY <1>9 DEF Ask
<1>10. ASSUME NEW r \in Runs, CallCancelled(r) PROVE RowInv'
  BY <1>10 DEF CallCancelled, EndsCancelled, Ends
<1>11. ASSUME NEW r \in Runs, Responds(r) PROVE RowInv'
  BY <1>11 DEF Responds
<1>12. ASSUME NEW r \in Runs, Answered(r) PROVE RowInv'
  BY <1>12 DEF Answered
<1>13. ASSUME NEW r \in Runs, Reported(r) PROVE RowInv'
  BY <1>13 DEF Reported, Ends
<1>14. ASSUME NEW r \in Runs, CallFails(r) PROVE RowInv'
  BY <1>14 DEF CallFails, Ends
<1>15. ASSUME NEW r \in Runs, Complete(r) PROVE RowInv'
  BY <1>15, RowUpdates DEF Complete, Finishes, Statuses
<1>16. ASSUME NEW r \in Runs, Fail(r) PROVE RowInv'
  BY <1>16, RowUpdates DEF Fail, Finishes, Statuses
<1>17. ASSUME NEW r \in Runs, MarkCancelled(r) PROVE RowInv'
  BY <1>17, RowUpdates DEF MarkCancelled, Finishes, Statuses
<1>18. CASE Stop
  BY <1>18 DEF Stop
<1>19. CASE MarkStopped \/ MarkStoppedFails
  BY <1>19, RowUpdates DEF MarkStopped, MarkStoppedFails, Statuses
<1>20. CASE SaveSummary
  BY <1>20, RowUpdates DEF SaveSummary
<1>21. CASE DeleteMeeting
  BY <1>21 DEF DeleteMeeting
<1>22. CASE Crash
  BY <1>22 DEF Crash
<1>23. CASE UNCHANGED vars
  BY <1>23 DEF vars
<1> QED
  BY <1>1, <1>2, <1>3, <1>4, <1>5, <1>6, <1>7, <1>8, <1>9, <1>10, <1>11, <1>12, <1>13,
     <1>14, <1>15, <1>16, <1>17, <1>18, <1>19, <1>20, <1>21, <1>22, <1>23
  DEF Next, Background, SaveTextFails, LastUpdateFails

(* Every step keeps a row in PENDING only with the run that reset it: that   *)
(* run ends with an update of the row, which takes it out of PENDING, or is *)
(* counted among the lost.                                                  *)
LEMMA PendingStep ==
    TypeInv /\ RowInv /\ PendingHasRun /\ [Next]_vars => PendingHasRun'
<1> SUFFICES ASSUME TypeInv, RowInv, PendingHasRun, [Next]_vars PROVE PendingHasRun'
  OBVIOUS
<1> USE Given DEF TypeInv, TypeOK, At, bounds, history
<1> DEFINE Moves(r, pc) == \A s \in Runs : run'[s].pc = IF s = r THEN pc ELSE run[s].pc
           Kept == /\ row' = row /\ keeper' = keeper /\ lost \subseteq lost'
                   /\ UnderWay \subseteq UnderWay' \cup lost'
           Updated == row' = None \/ row'.status # "PENDING"
<1>1. Kept \/ Updated => PendingHasRun'
  BY DEF PendingHasRun
<1>2. ASSUME NEW r \in Runs, NEW pc \in Pcs \ {"idle", "over"}, Moves(r, pc), UNCHANGED <<row, keeper, lost>>
      PROVE  Kept
  BY <1>2 DEF UnderWay
<1>3. ASSUME NEW r \in Runs, Process(r) PROVE PendingHasRun'
  <2>1. Goto(r, "text")
    BY <1>3 DEF Process
  <2>2. run'[r].pc = "text"
    BY <2>1, RunMoves DEF Pcs
  <2> QED BY <1>3, <2>2 DEF Process, UnderWay, PendingHasRun
<1>4. ASSUME NEW r \in Runs, Lost(r) PROVE PendingHasRun'
  <2>1. Moves(r, "over")
    BY <1>4, RunMoves DEF Lost, Pcs
  <2>2. Kept
    BY <1>4, <2>1 DEF Lost, UnderWay
  <2> QED BY <1>1, <2>2
<1>5. ASSUME NEW r \in Runs, ProcessFails(r) PROVE PendingHasRun'
  <2>1. Moves(r, "over") /\ r \notin UnderWay
    BY <1>5, RunMoves DEF ProcessFails, Called, Pcs, UnderWay
  <2>2. Kept
    BY <1>5, <2>1 DEF ProcessFails, UnderWay
  <2> QED BY <1>1, <2>2
<1>6. ASSUME NEW r \in Runs, NEW pc \in Pcs \ {"idle", "over"}, Goto(r, pc), UNCHANGED <<row, keeper, lost>>
      PROVE  PendingHasRun'
  <2>1. Moves(r, pc)
    BY <1>6, RunMoves
  <2> QED BY <1>1, <1>2, <1>6, <2>1
<1>7. ASSUME NEW r \in Runs, SaveText(r) \/ Register(r) \/ SetupFails(r) \/ Ask(r) \/ Responds(r)
      PROVE  PendingHasRun'
  <2>1. \E pc \in {"register", "setup", "failing", "call", "body"} : Goto(r, pc)
    BY <1>7 DEF SaveText, Register, SetupFails, Ask, Responds
  <2>2. UNCHANGED <<row, keeper, lost>>
    BY <1>7 DEF SaveText, Register, SetupFails, Ask, Responds
  <2> QED BY <1>6, <2>1, <2>2 DEF Pcs, Generating
<1>8. ASSUME NEW r \in Runs, EndsCancelled(r) \/ Reported(r) PROVE PendingHasRun'
  <2>1. \E pc \in {"cancelling", "completing"} : Goto(r, pc)
    BY <1>8 DEF EndsCancelled, Reported, Ends
  <2>2. UNCHANGED <<row, keeper, lost>>
    BY <1>8 DEF EndsCancelled, Reported
  <2> QED BY <1>6, <2>1, <2>2 DEF Pcs, Generating
<1>9. ASSUME NEW r \in Runs, Starts(r) PROVE PendingHasRun'
  <2>1. Moves(r, "ask")
    <3>1. CASE run' = [run EXCEPT ![r].pc = "ask", ![r].step = "final"]
      BY <3>1 DEF States
    <3>2. ASSUME NEW n \in 1..MaxChunks,
                 run' = [run EXCEPT ![r] = [pc |-> "ask", step |-> "chunk", left |-> n, made |-> 0]]
          PROVE  Moves(r, "ask")
      BY <3>2
    <3> QED BY <1>9, <3>1, <3>2 DEF Starts
  <2>2. UNCHANGED <<row, keeper, lost>> /\ "ask" \in Pcs \ {"idle", "over"}
    BY <1>9 DEF Starts, Pcs, Generating
  <2> QED BY <1>1, <1>2, <2>1, <2>2
<1>10. ASSUME NEW r \in Runs, NEW made \in Nat, NextStep(r, made), UNCHANGED <<row, keeper, lost>>
       PROVE  PendingHasRun'
  <2>1. Moves(r, "ask")
    BY <1>10 DEF NextStep, States
  <2>2. "ask" \in Pcs \ {"idle", "over"}
    BY DEF Pcs, Generating
  <2> QED BY <1>1, <1>2, <1>10, <2>1, <2>2
<1>11. ASSUME NEW r \in Runs, Answered(r) PROVE PendingHasRun'
  <2>1. run[r].made \in Nat /\ run[r].made + 1 \in Nat
    BY DEF States
  <2>2. NextStep(r, run[r].made) \/ NextStep(r, run[r].made + 1)
    BY <1>11 DEF Answered
  <2>3. UNCHANGED <<row, keeper, lost>>
    BY <1>11 DEF Answered
  <2> QED BY <1>10, <2>1, <2>2, <2>3
<1>12. ASSUME NEW r \in Runs, CallFails(r) PROVE PendingHasRun'
  <2>1. run[r].made \in Nat
    BY DEF States
  <2>2. NextStep(r, run[r].made) \/ \E pc \in {"failing", "cancelling"} : Goto(r, pc)
    BY <1>12 DEF CallFails, Ends
  <2>3. UNCHANGED <<row, keeper, lost>>
    BY <1>12 DEF CallFails
  <2> QED BY <1>6, <1>10, <2>1, <2>2, <2>3 DEF Pcs, Generating
<1>13. ASSUME NEW end \in {"failed", "cancelled"}, Restore(end) PROVE Updated
  BY <1>13, RowUpdates DEF Statuses
<1>14. ASSUME NEW r \in Runs, Store(r) PROVE Updated
  BY <1>14, RowUpdates
<1>15. ASSUME NEW r \in Runs, Complete(r) \/ Fail(r) \/ MarkCancelled(r) PROVE PendingHasRun'
  BY <1>1, <1>13, <1>14, <1>15 DEF Complete, Fail, MarkCancelled
<1>16. CASE MarkStopped
  BY <1>1, <1>13, <1>16 DEF MarkStopped
<1>17. CASE Stop \/ MarkStoppedFails
  BY <1>1, <1>17 DEF Stop, MarkStoppedFails, UnderWay
<1>18. CASE SaveSummary
  BY <1>18, RowUpdates DEF SaveSummary, PendingHasRun, UnderWay
<1>19. CASE DeleteMeeting
  BY <1>1, <1>19 DEF DeleteMeeting
<1>20. CASE Crash
  BY <1>1, <1>20 DEF Crash
<1>21. CASE UNCHANGED vars
  BY <1>1, <1>21 DEF vars, UnderWay
<1> QED
  BY <1>3, <1>4, <1>5, <1>7, <1>8, <1>9, <1>11, <1>12, <1>15, <1>16, <1>17, <1>18, <1>19,
     <1>20, <1>21
  DEF Next, Background, SaveTextFails, LastUpdateFails, StartsCancelled, AskCancelled, CallCancelled

-----------------------------------------------------------------------------
LEMMA Invariance == Spec => []IInv
<1>1. Init => IInv
  <2> SUFFICES ASSUME Init PROVE IInv
    OBVIOUS
  <2>1. Fresh \in States /\ Fresh.pc = "idle" /\ Fresh.made = 0 /\ Fresh.left = 0
    BY Given DEF Fresh, States, Steps, Pcs
  <2>2. run \in [Runs -> States] /\ \A r \in Runs : run[r] = Fresh
    BY <2>1 DEF Init
  <2>3. TypeOK
    <3>1. stops \in 0..MaxStops /\ edits \in 0..MaxEdits
      BY Given DEF Init
    <3> QED BY <2>2, <3>1, Zenon DEF Init, TypeOK, Summaries
  <2>4. RunInv
    BY <2>1, <2>2, Given DEF RunInv, Asking
  <2>5. LoneInv /\ StopFindsRun /\ RowInv /\ PendingHasRun
    BY DEF Init, LoneInv, StopFindsRun, RowInv, PendingHasRun
  <2> QED BY <2>3, <2>4, <2>5 DEF IInv, TypeInv
<1>2. IInv /\ [Next]_vars => IInv'
  BY TypeStep, LoneStep, RowStep, PendingStep DEF IInv
<1> QED BY <1>1, <1>2, PTL DEF Spec

(* The row, the registry, the runs and the text of a meeting keep their     *)
(* types: a generation never goes back to a chunk that is not there.        *)
THEOREM TypeCorrect == Spec => []TypeOK
<1>1. IInv => TypeOK
  BY DEF IInv, TypeInv
<1> QED BY <1>1, Invariance, PTL

(* cancel_summary finds the run: for any number of earlier generations,     *)
(* whatever they have left in the registry.                                 *)
THEOREM StopFindsRunHolds == Spec => []StopFindsRun
<1>1. IInv => StopFindsRun
  BY DEF IInv
<1> QED BY <1>1, Invariance, PTL

(* A row in PENDING has its run: for any number of generations, stops and    *)
(* edits, only a run that was lost leaves its meeting PENDING.              *)
THEOREM PendingHasRunHolds == Spec => []PendingHasRun
<1>1. IInv => PendingHasRun
  BY DEF IInv
<1> QED BY <1>1, Invariance, PTL

(* The steps that the row can see.                                          *)
LEMMA RowSteps ==
    ASSUME [Next]_vars
    PROVE  \/ Reset \/ (\E end \in {"failed", "cancelled"} : Restore(end))
           \/ (\E r \in Runs : Store(r)) \/ Rewrite \/ DeleteMeeting \/ UNCHANGED row
BY DEF Next, Background, vars, bounds, history, Process, ProcessFails, SaveText, SaveTextFails,
   LastUpdateFails, Lost, Register,
   SetupFails, StartsCancelled, Starts, AskCancelled, Ask, CallCancelled, EndsCancelled,
   Responds, Answered, Reported, CallFails, Complete, Fail, MarkCancelled, Finishes,
   Stop, MarkStopped, MarkStoppedFails, SaveSummary, Crash

(* The columns status, result and result_backup, as the four updates of the *)
(* repository treat them, implement SummaryRecord.                          *)
THEOREM KeepsRecordHolds == Spec => KeepsRecord
<1>1. Init => Record!Init
  BY DEF Init, Record!Init
<1>2. IInv /\ [Next]_vars => [Record!Next]_(Record!vars)
  <2> SUFFICES ASSUME IInv, [Next]_vars PROVE [Record!Next]_(Record!vars)
    OBVIOUS
  <2> USE Given DEF IInv, TypeInv, TypeOK, RowInv
  <2>1. CASE Reset
    <3>1. Record!Begin
      BY <2>1, RowUpdates DEF Record!Begin
    <3> QED BY <3>1 DEF Record!Next
  <2>2. ASSUME NEW end \in {"failed", "cancelled"}, Restore(end)
        PROVE  [Record!Next]_(Record!vars)
    <3>1. CASE row = None
      BY <2>2, <3>1, RowUpdates DEF Record!vars, Statuses
    <3>2. CASE row # None
      <4>1. Record!GiveUp(end)
        BY <2>2, <3>2, RowUpdates DEF Record!GiveUp, Statuses, Rows
      <4> QED BY <4>1 DEF Record!Next
    <3> QED BY <3>1, <3>2
  <2>3. ASSUME NEW r \in Runs, Store(r) PROVE [Record!Next]_(Record!vars)
    <3>1. CASE row = None
      BY <2>3, <3>1, RowUpdates DEF Record!vars
    <3>2. CASE row # None
      <4>1. Record!Succeed(r)
        BY <2>3, <3>2, RowUpdates DEF Record!Succeed, Statuses, Rows
      <4> QED BY <4>1 DEF Record!Next
    <3> QED BY <3>1, <3>2
  <2>4. CASE Rewrite
    <3>1. Record!Edit(Edited)
      BY <2>4, RowUpdates DEF Record!Edit, Statuses, Rows
    <3> QED BY <3>1 DEF Record!Next
  <2>5. CASE DeleteMeeting
    <3>1. Record!Delete
      BY <2>5 DEF DeleteMeeting, Record!Delete
    <3> QED BY <3>1 DEF Record!Next
  <2>6. CASE UNCHANGED row
    BY <2>6 DEF Record!vars
  <2> QED BY <2>1, <2>2, <2>3, <2>4, <2>5, <2>6, RowSteps
<1> QED BY <1>1, <1>2, Invariance, PTL DEF Spec, KeepsRecord, Record!Spec

(* A summary is lost only with its meeting: no reset, failure, stop or edit *)
(* leaves a row that had one without any.                                   *)
THEOREM SummaryKept ==
    Spec => [][row # None /\ row.result # Null => row' = None \/ row'.result # Null]_vars
<1>1. IInv /\ [Next]_vars => [row # None /\ row.result # Null => row' = None \/ row'.result # Null]_vars
  <2> SUFFICES ASSUME IInv, [Next]_vars, row # None, row.result # Null
               PROVE  row' = None \/ row'.result # Null
    OBVIOUS
  <2>1. row \in Rows \cup {None}
    BY DEF IInv, TypeInv, TypeOK
  <2>2. Edited # Null /\ \A r \in Runs : r # Null
    BY Given DEF Edited, Null
  <2>3. CASE Reset \/ Rewrite \/ DeleteMeeting \/ UNCHANGED row
    BY <2>1, <2>2, <2>3, RowUpdates DEF DeleteMeeting
  <2>4. ASSUME NEW end \in {"failed", "cancelled"}, Restore(end)
        PROVE  row' = None \/ row'.result # Null
    BY <2>1, <2>4, RowUpdates DEF Statuses
  <2>5. ASSUME NEW r \in Runs, Store(r) PROVE row' = None \/ row'.result # Null
    BY <2>1, <2>2, <2>5, RowUpdates
  <2> QED BY <2>3, <2>4, <2>5, RowSteps
<1> QED BY <1>1, Invariance, PTL DEF Spec


-----------------------------------------------------------------------------
(* The other half of a summary is the helper process of Sidecar, which the  *)
(* generations reach when their provider is the built-in one.               *)
(* The sweeper only shuts down, the health check only talks to the helper.  *)
Roles ==
    /\ task[Sweeper].pc \in {"idle"} \cup Shutdown
    /\ task[Sweeper].pc \in Shutdown => task[Sweeper].next = "idle"
    /\ task[Health].pc \in {"idle"} \cup Flight

(* Who reads holds the lock, and what is locked cannot be unplugged.        *)
Locked ==
    /\ \A t \in Tasks : TaskAt(t, "read") => outLock = t
    /\ outLock # Nobody => stdout # Nobody

(* A dead process reads nothing more, one that was not started says nothing. *)
Pipes ==
    /\ \A p \in Procs \ alive : asked[p] = <<>>
    /\ \A p \in Procs : p > spawned => answers[p] = <<>>

(* A client has an answer when it is over.                                  *)
Unanswered == \A c \in Clients : task[c].got # Nobody => TaskAt(c, "over")

Empty(p) == asked[p] = <<>> /\ answers[p] = <<>>
(* Nothing is in the pipes of p but what t has asked.                       *)
Only(p, t) ==
    \/ Empty(p)
    \/ asked[p] = <<t>> /\ answers[p] = <<>>
    \/ asked[p] = <<>> /\ answers[p] = <<t>>
Linked == child \in Procs /\ stdin = child /\ stdout = child
(* The helper is wired and has nothing to say or to do.                     *)
Quiet == Linked /\ Empty(child)

(* What the only task at work has achieved where it is.                     *)
Stage(t) ==
    LET p == task[t].proc IN
    /\ task[t].pc \in {"wait", "unplugIn", "unplugOut", "forget", "spawn"} => child = Nobody
    /\ task[t].pc \in {"unplugOut", "forget", "spawn", "plugIn"} => stdin = Nobody
    /\ task[t].pc \in {"forget", "spawn", "plugIn", "plugOut"} => stdout = Nobody
    /\ task[t].pc = "spawn" => ~ready
    /\ task[t].pc \in {"plugIn", "plugOut", "announce"} => p \in Procs /\ child = p /\ Empty(p)
    /\ task[t].pc \in {"plugOut", "announce"} => stdin = p
    /\ task[t].pc = "announce" => stdout = p
    /\ task[t].pc = "write" => Quiet
    /\ task[t].pc \in {"lock", "read"} => Linked /\ Only(child, t)

(* Nobody disturbs the one task at work, and when none is the helper is     *)
(* wired and its pipes are empty, unless it is to be started anew.          *)
Peace ==
    ~shared =>
        /\ \A t, u \in Busy : t = u
        /\ \A t \in Busy : Stage(t)
        /\ Busy = {} /\ ready => Quiet

SInv == SidecarTypeOK /\ Roles /\ Locked /\ Pipes /\ Unanswered /\ Peace

-----------------------------------------------------------------------------
(* Every step is one of these.                                              *)
LEMMA StepCases ==
    ASSUME [SidecarNext]_sidecarVars
    PROVE  \/ \E c \in Clients :
                 \/ Generate(c) \/ Running(c) \/ NotRunning(c) \/ SpawnFails(c)
                 \/ Spawn(c) \/ PlugIn(c) \/ PlugOut(c) \/ Announce(c)
                 \/ RequestTimesOut(c) \/ RequestCancelled(c)
           \/ \E t \in Tasks :
                 \/ Command(t) \/ Take(t) \/ Reap(t) \/ UnplugIn(t) \/ UnplugOut(t)
                 \/ Forget(t) \/ Write(t) \/ WriteFails(t) \/ Lock(t) \/ LockFails(t)
                 \/ Read(t) \/ EndOfFile(t)
           \/ \E p \in Procs : Serve(p) \/ InputClosed(p) \/ HelperCrash(p)
           \/ HealthTick \/ PingTimesOut \/ IdleTick \/ UNCHANGED sidecarVars
BY DEF SidecarNext, Client, TaskSteps, Helper

(* What happens to the tasks: one of them goes on, the others stay.         *)
Turns(t, pc, next, proc, got) ==
    /\ task' \in [Tasks -> TaskRecord]
    /\ task'[t].pc = pc /\ task'[t].next = next /\ task'[t].proc = proc /\ task'[t].got = got
    /\ \A u \in Tasks \ {t} : task'[u] = task[u]

(* The five ways in which the model moves a task on.                        *)
LEMMA GotoTurns ==
    ASSUME SidecarTypeOK, NEW t \in Tasks, NEW pc \in TaskPcs, TaskTo(t, pc)
    PROVE  Turns(t, pc, task[t].next, task[t].proc, task[t].got)
<1>1. task \in [Tasks -> TaskRecord]
  BY DEF SidecarTypeOK
<1> QED BY <1>1 DEF TaskTo, Turns, TaskRecord

(* A task that ends is over or idle, with what it got.                      *)
LEMMA EndTurns ==
    ASSUME SidecarTypeOK, NEW t \in Tasks, NEW got \in Clients \cup {Health, Nobody}, End(t, got)
    PROVE  Turns(t, Rest(t), task[t].next, Nobody, got)
<1>1. task \in [Tasks -> TaskRecord] /\ Rest(t) \in TaskPcs /\ Nobody \in Slot
  BY DEF SidecarTypeOK, Rest, TaskPcs, Slot
<1> QED BY <1>1 DEF End, Turns, TaskRecord

(* A call of shutdown remembers where to go on.                             *)
LEMMA ShutdownTurns ==
    ASSUME SidecarTypeOK, NEW t \in Tasks, NEW next \in Nexts, CallShutdown(t, next)
    PROVE  Turns(t, "command", next, Nobody, task[t].got)
<1>1. task \in [Tasks -> TaskRecord] /\ "command" \in TaskPcs /\ Nobody \in Slot
  BY DEF SidecarTypeOK, TaskPcs, Shutdown, Slot
<1> QED BY <1>1 DEF CallShutdown, Turns, TaskRecord

(* The end of a shutdown goes on there.                                     *)
LEMMA ForgetTurns ==
    ASSUME SidecarTypeOK, NEW t \in Tasks, Forget(t)
    PROVE  Turns(t, task[t].next, "over", Nobody, task[t].got) /\ task[t].next \in Nexts
<1>1. task \in [Tasks -> TaskRecord] /\ Nobody \in Slot /\ Nexts \subseteq TaskPcs /\ "over" \in Nexts
  BY DEF SidecarTypeOK, TaskPcs, Slot, Nexts
<1> QED BY <1>1 DEF Forget, Turns, TaskRecord

(* A step may take a process along.                                         *)
LEMMA ProcTurns ==
    ASSUME SidecarTypeOK, NEW t \in Tasks, NEW pc \in TaskPcs, NEW proc \in Slot,
           task' = [task EXCEPT ![t].pc = pc, ![t].proc = proc]
    PROVE  Turns(t, pc, task[t].next, proc, task[t].got)
<1>1. task \in [Tasks -> TaskRecord]
  BY DEF SidecarTypeOK
<1> QED BY <1>1 DEF Turns, TaskRecord

(* Where each action leaves the task that takes it.                         *)
LEMMA ClientTurns ==
    ASSUME SidecarTypeOK, NEW c \in Clients
    PROVE  /\ Generate(c) => Turns(c, "ensure", task[c].next, task[c].proc, task[c].got)
           /\ Running(c) => Turns(c, "write", task[c].next, task[c].proc, task[c].got)
           /\ NotRunning(c) => Turns(c, "command", "spawn", Nobody, task[c].got)
           /\ SpawnFails(c) => Turns(c, Rest(c), task[c].next, Nobody, Nobody)
           /\ Spawn(c) => Turns(c, "plugIn", task[c].next, spawned + 1, task[c].got)
           /\ PlugIn(c) => Turns(c, "plugOut", task[c].next, task[c].proc, task[c].got)
           /\ PlugOut(c) => Turns(c, "announce", task[c].next, task[c].proc, task[c].got)
           /\ Announce(c) => Turns(c, "write", task[c].next, task[c].proc, task[c].got)
           /\ RequestTimesOut(c) => Turns(c, "command", "over", Nobody, task[c].got)
           /\ RequestCancelled(c) => Turns(c, "command", "over", Nobody, task[c].got)
<1>0. c \in Tasks
  BY DEF Tasks
<1>1. Generate(c) => Turns(c, "ensure", task[c].next, task[c].proc, task[c].got)
  BY <1>0, GotoTurns DEF Generate, TaskPcs
<1>2. Running(c) => Turns(c, "write", task[c].next, task[c].proc, task[c].got)
  BY <1>0, GotoTurns DEF Running, TaskPcs, Flight
<1>3. NotRunning(c) => Turns(c, "command", "spawn", Nobody, task[c].got)
  BY <1>0, ShutdownTurns DEF NotRunning, Nexts
<1>4. SpawnFails(c) => Turns(c, Rest(c), task[c].next, Nobody, Nobody)
  BY <1>0, EndTurns DEF SpawnFails
<1>5. Spawn(c) => Turns(c, "plugIn", task[c].next, spawned + 1, task[c].got)
  <2> SUFFICES ASSUME Spawn(c)
               PROVE  Turns(c, "plugIn", task[c].next, spawned + 1, task[c].got)
    OBVIOUS
  <2>1. spawned + 1 \in Slot
    BY SpawnsAssumption DEF Spawn, Slot, Procs, SidecarTypeOK
  <2>2. task' = [task EXCEPT ![c].pc = "plugIn", ![c].proc = spawned + 1]
    BY DEF Spawn
  <2>3. "plugIn" \in TaskPcs
    BY DEF TaskPcs
  <2> QED BY <1>0, <2>1, <2>2, <2>3, ProcTurns
<1>6. PlugIn(c) => Turns(c, "plugOut", task[c].next, task[c].proc, task[c].got)
  BY <1>0, GotoTurns DEF PlugIn, TaskPcs
<1>7. PlugOut(c) => Turns(c, "announce", task[c].next, task[c].proc, task[c].got)
  BY <1>0, GotoTurns DEF PlugOut, TaskPcs
<1>8. Announce(c) => Turns(c, "write", task[c].next, task[c].proc, task[c].got)
  BY <1>0, GotoTurns DEF Announce, TaskPcs, Flight
<1>9. RequestTimesOut(c) => Turns(c, "command", "over", Nobody, task[c].got)
  BY <1>0, ShutdownTurns DEF RequestTimesOut, Nexts
<1>10. RequestCancelled(c) => Turns(c, "command", "over", Nobody, task[c].got)
  BY <1>0, ShutdownTurns DEF RequestCancelled, Nexts
<1> QED BY <1>1, <1>2, <1>3, <1>4, <1>5, <1>6, <1>7, <1>8, <1>9, <1>10

(* The same for the steps that any task may take.                           *)
LEMMA TaskTurns ==
    ASSUME SidecarTypeOK, Locked, NEW t \in Tasks
    PROVE  /\ Command(t) => Turns(t, "take", task[t].next, task[t].proc, task[t].got)
           /\ Take(t) => Turns(t, IF child = Nobody THEN "unplugIn" ELSE "wait", task[t].next, child,
                              task[t].got)
           /\ Reap(t) => Turns(t, "unplugIn", task[t].next, task[t].proc, task[t].got)
           /\ UnplugIn(t) => Turns(t, "unplugOut", task[t].next, task[t].proc, task[t].got)
           /\ UnplugOut(t) => Turns(t, "forget", task[t].next, task[t].proc, task[t].got)
           /\ Forget(t) => /\ task[t].next \in Nexts
                        /\ Turns(t, task[t].next, "over", Nobody, task[t].got)
           /\ Write(t) => Turns(t, "lock", task[t].next, task[t].proc, task[t].got)
           /\ WriteFails(t) => Turns(t, Rest(t), task[t].next, Nobody, Nobody)
           /\ Lock(t) => Turns(t, "read", task[t].next, task[t].proc, task[t].got)
           /\ LockFails(t) => Turns(t, Rest(t), task[t].next, Nobody, Nobody)
           /\ Read(t) => LET line == Head(answers[stdout])
                         got == IF Expected(t, line) THEN line ELSE Nobody
                     IN  Turns(t, Rest(t), task[t].next, Nobody, got)
           /\ EndOfFile(t) => Turns(t, Rest(t), task[t].next, Nobody, Nobody)
<1>1. Command(t) => Turns(t, "take", task[t].next, task[t].proc, task[t].got)
  BY GotoTurns DEF Command, TaskPcs, Shutdown
<1>2. Take(t) => Turns(t, IF child = Nobody THEN "unplugIn" ELSE "wait", task[t].next, child,
                       task[t].got)
  BY ProcTurns DEF Take, TaskPcs, Shutdown, SidecarTypeOK
<1>3. Reap(t) => Turns(t, "unplugIn", task[t].next, task[t].proc, task[t].got)
  BY GotoTurns DEF Reap, TaskPcs, Shutdown
<1>4. UnplugIn(t) => Turns(t, "unplugOut", task[t].next, task[t].proc, task[t].got)
  BY GotoTurns DEF UnplugIn, TaskPcs, Shutdown
<1>5. UnplugOut(t) => Turns(t, "forget", task[t].next, task[t].proc, task[t].got)
  BY GotoTurns DEF UnplugOut, TaskPcs, Shutdown
<1>6. Forget(t) => /\ task[t].next \in Nexts
                 /\ Turns(t, task[t].next, "over", Nobody, task[t].got)
  BY ForgetTurns DEF Forget
<1>7. Write(t) => Turns(t, "lock", task[t].next, task[t].proc, task[t].got)
  BY GotoTurns DEF Write, TaskPcs, Flight
<1>8. WriteFails(t) => Turns(t, Rest(t), task[t].next, Nobody, Nobody)
  BY EndTurns DEF WriteFails, Fails
<1>9. Lock(t) => Turns(t, "read", task[t].next, task[t].proc, task[t].got)
  BY GotoTurns DEF Lock, TaskPcs, Flight
<1>10. LockFails(t) => Turns(t, Rest(t), task[t].next, Nobody, Nobody)
  BY EndTurns DEF LockFails, Fails
<1>11. ASSUME Read(t)
      PROVE  LET line == Head(answers[stdout])
                 got == IF Expected(t, line) THEN line ELSE Nobody
             IN  Turns(t, Rest(t), task[t].next, Nobody, got)
  <2> DEFINE line == Head(answers[stdout])
             got == IF Expected(t, line) THEN line ELSE Nobody
  <2>1. got \in Clients \cup {Health, Nobody}
    BY DEF Expected
  <2>2. End(t, got)
    BY <1>11 DEF Read, Fails
  <2>3. \A g \in Clients \cup {Health, Nobody} :
           End(t, g) => Turns(t, Rest(t), task[t].next, Nobody, g)
    BY EndTurns
  <2> HIDE DEF got
  <2>4. Turns(t, Rest(t), task[t].next, Nobody, got)
    BY <2>1, <2>2, <2>3
  <2> QED BY <2>4 DEF got
<1>12. EndOfFile(t) => Turns(t, Rest(t), task[t].next, Nobody, Nobody)
  BY EndTurns DEF EndOfFile, Fails
<1> QED BY <1>1, <1>2, <1>3, <1>4, <1>5, <1>6, <1>7, <1>8, <1>9, <1>10, <1>11, <1>12

(* The same for the two loops.                                              *)
LEMMA LoopTurns ==
    ASSUME SidecarTypeOK
    PROVE  /\ HealthTick =>
                 Turns(Health, "write", task[Health].next, task[Health].proc, task[Health].got)
           /\ PingTimesOut => Turns(Health, "idle", task[Health].next, Nobody, Nobody)
           /\ IdleTick => Turns(Sweeper, "command", "idle", Nobody, task[Sweeper].got)
<1>1. Health \in Tasks /\ Sweeper \in Tasks /\ Rest(Health) = "idle"
  BY ClientsAssumption DEF Tasks, Rest, Health
<1>2. "write" \in TaskPcs /\ "idle" \in Nexts
  BY DEF TaskPcs, Flight, Nexts
<1>3. HealthTick => TaskTo(Health, "write")
  BY DEF HealthTick
<1>4. PingTimesOut => End(Health, Nobody)
  BY DEF PingTimesOut, Fails
<1>5. IdleTick => CallShutdown(Sweeper, "idle")
  BY DEF IdleTick
<1> QED BY <1>1, <1>2, <1>3, <1>4, <1>5, GotoTurns, EndTurns, ShutdownTurns

-----------------------------------------------------------------------------
(* The slots, pipes and tasks keep their types.                             *)
Slots ==
    /\ child \in Slot /\ stdin \in Slot /\ stdout \in Slot
    /\ outLock \in Tasks \cup {Nobody}
    /\ ready \in BOOLEAN /\ shouldShutdown \in BOOLEAN
    /\ alive \subseteq 1..spawned /\ spawned \in 0..MaxSpawns
    /\ asked \in [Procs -> Seq(Lines)] /\ answers \in [Procs -> Seq(Lines)]
    /\ trouble \in 0..MaxTrouble /\ shared \in BOOLEAN

(* A pipe that takes up a line, loses its first or is emptied is still one. *)
LEMMA PipeTyped ==
    ASSUME NEW f \in [Procs -> Seq(Lines)]
    PROVE  /\ \A p \in Procs, x \in Lines : [f EXCEPT ![p] = Append(@, x)] \in [Procs -> Seq(Lines)]
           /\ \A p \in Procs : f[p] # <<>> => /\ [f EXCEPT ![p] = Tail(@)] \in [Procs -> Seq(Lines)]
                                            /\ Head(f[p]) \in Lines
           /\ \A p : [f EXCEPT ![p] = <<>>] \in [Procs -> Seq(Lines)]
           /\ \A p : [q \in Procs |-> IF q = p THEN <<>> ELSE f[q]] \in [Procs -> Seq(Lines)]
<1>1. <<>> \in Seq(Lines)
  OBVIOUS
<1>2. ASSUME NEW p \in Procs, f[p] # <<>>
      PROVE  Tail(f[p]) \in Seq(Lines) /\ Head(f[p]) \in Lines
  BY <1>2
<1>3. ASSUME NEW p \in Procs, NEW x \in Lines PROVE Append(f[p], x) \in Seq(Lines)
  OBVIOUS
<1> QED BY <1>1, <1>2, <1>3

(* Every step keeps TypeOK: the tasks by Turns, the slots one action at a   *)
(* time.                                                                    *)
LEMMA SlotsTypeStep == ASSUME SidecarTypeOK, Roles, Locked, [SidecarNext]_sidecarVars PROVE SidecarTypeOK'
<1> DEFINE Jobs == task \in [Tasks -> TaskRecord]
<1>0. Slots /\ Jobs /\ (Slots' /\ Jobs' => SidecarTypeOK')
  BY DEF SidecarTypeOK, Slots
<1>J. Jobs'
  <2>1. ASSUME NEW t \in Tasks, \E pc, next, proc, got : Turns(t, pc, next, proc, got)
        PROVE  Jobs'
    BY <2>1 DEF Turns
  <2>2. Clients \subseteq Tasks /\ Health \in Tasks /\ Sweeper \in Tasks
    BY DEF Tasks
  <2>3. ASSUME UNCHANGED task PROVE Jobs'
    BY <1>0, <2>3
  <2>4. \A p \in Procs : Serve(p) \/ InputClosed(p) \/ HelperCrash(p) => UNCHANGED task
    BY DEF Serve, InputClosed, HelperCrash
  <2>5. ASSUME NEW c \in Clients,
               \/ Generate(c) \/ Running(c) \/ NotRunning(c) \/ SpawnFails(c)
               \/ Spawn(c) \/ PlugIn(c) \/ PlugOut(c) \/ Announce(c)
               \/ RequestTimesOut(c) \/ RequestCancelled(c)
        PROVE  \E pc, next, proc, got : Turns(c, pc, next, proc, got)
    BY <2>5, ClientTurns
  <2>6. ASSUME NEW t \in Tasks,
               \/ Command(t) \/ Take(t) \/ Reap(t) \/ UnplugIn(t) \/ UnplugOut(t)
               \/ Forget(t) \/ Write(t) \/ WriteFails(t) \/ Lock(t) \/ LockFails(t)
               \/ Read(t) \/ EndOfFile(t)
        PROVE  \E pc, next, proc, got : Turns(t, pc, next, proc, got)
    BY <2>6, TaskTurns
  <2>7. HealthTick \/ PingTimesOut \/ IdleTick => Jobs'
    BY <2>1, <2>2, LoopTurns
  <2>8. UNCHANGED sidecarVars => UNCHANGED task
    BY DEF sidecarVars
  <2> QED BY <2>1, <2>2, <2>3, <2>4, <2>5, <2>6, <2>7, <2>8, StepCases
<1>A. alive \subseteq Procs
  BY SpawnsAssumption DEF SidecarTypeOK, Procs
<1>N. Nobody \notin Tasks
  <2>1. Clients \subseteq Int /\ Health \in Int /\ Sweeper \in Int
    BY ClientsAssumption DEF Health, Sweeper
  <2> QED BY <2>1, ClientsAssumption DEF Tasks
<1> HIDE DEF Jobs
<1> USE DEF wires, procs, Slots
<1>1. ASSUME NEW c \in Clients, Generate(c) PROVE Slots'
  BY <1>0, <1>1 DEF Generate
<1>2. ASSUME NEW c \in Clients, Running(c) PROVE Slots'
  BY <1>0, <1>2 DEF Running, Join
<1>3. ASSUME NEW c \in Clients, NotRunning(c) PROVE Slots'
  BY <1>0, <1>3 DEF NotRunning, Meets, CallShutdown
<1>4. ASSUME NEW c \in Clients, SpawnFails(c) PROVE Slots'
  BY <1>0, <1>4 DEF SpawnFails
<1>5. ASSUME NEW c \in Clients, Spawn(c) PROVE Slots'
  BY <1>0, <1>5, SpawnsAssumption DEF Spawn, Procs, Slot
<1>6. ASSUME NEW c \in Clients, PlugIn(c) PROVE Slots'
  <2>1. task[c].proc \in Slot
    BY <1>0 DEF SidecarTypeOK, TaskRecord, Tasks
  <2> QED BY <1>0, <1>6, <2>1 DEF PlugIn
<1>7. ASSUME NEW c \in Clients, PlugOut(c) PROVE Slots'
  <2>1. task[c].proc \in Slot
    BY <1>0 DEF SidecarTypeOK, TaskRecord, Tasks
  <2> QED BY <1>0, <1>7, <2>1, PipeTyped DEF PlugOut, Unread
<1>8. ASSUME NEW c \in Clients, Announce(c) PROVE Slots'
  BY <1>0, <1>8 DEF Announce
<1>9. ASSUME NEW c \in Clients, RequestTimesOut(c) PROVE Slots'
  BY <1>0, <1>9 DEF RequestTimesOut, Meets, Unlock, CallShutdown
<1>10. ASSUME NEW c \in Clients, RequestCancelled(c) PROVE Slots'
  BY <1>0, <1>10, TroubleAssumption DEF RequestCancelled, Meets, Unlock, CallShutdown
<1>11. ASSUME NEW t \in Tasks, Command(t) PROVE Slots'
  <2> HIDE DEF Slots
  <2>1. Bye \in Lines
    BY DEF Lines
  <2>2. stdin \in alive => stdin \in Procs
    BY <1>A
  <2>3. asked' \in [Procs -> Seq(Lines)]
    BY <1>0, <1>11, <2>1, <2>2, PipeTyped DEF Command, Slots
  <2> QED BY <1>0, <1>11, <2>3 DEF Command, Slots
<1>12. ASSUME NEW t \in Tasks, Take(t) PROVE Slots'
  BY <1>0, <1>12 DEF Take, Slot
<1>13. ASSUME NEW t \in Tasks, Reap(t) PROVE Slots'
  BY <1>0, <1>13, PipeTyped DEF Reap, Dies
<1>14. ASSUME NEW t \in Tasks, UnplugIn(t) PROVE Slots'
  BY <1>0, <1>14 DEF UnplugIn, Slot
<1>15. ASSUME NEW t \in Tasks, UnplugOut(t) PROVE Slots'
  BY <1>0, <1>15, PipeTyped DEF UnplugOut, Unread, Slot
<1>16. ASSUME NEW t \in Tasks, Forget(t) PROVE Slots'
  BY <1>0, <1>16 DEF Forget
<1>17. ASSUME NEW t \in Tasks, Write(t) PROVE Slots'
  <2> HIDE DEF Slots
  <2>1. t # Sweeper
    BY <1>17 DEF Write, Roles, TaskAt, Shutdown
  <2>2. t \in Lines
    BY <2>1 DEF Lines, Tasks
  <2>3. stdin \in Procs
    BY <1>A, <1>17 DEF Write
  <2>4. asked' \in [Procs -> Seq(Lines)]
    BY <1>0, <1>17, <2>2, <2>3, PipeTyped DEF Write, Slots
  <2> QED BY <1>0, <1>17, <2>4 DEF Write, Slots
<1>18. ASSUME NEW t \in Tasks, WriteFails(t) PROVE Slots'
  BY <1>0, <1>18 DEF WriteFails, Fails
<1>19. ASSUME NEW t \in Tasks, Lock(t) PROVE Slots'
  BY <1>0, <1>19 DEF Lock
<1>20. ASSUME NEW t \in Tasks, LockFails(t) PROVE Slots'
  BY <1>0, <1>20 DEF LockFails, Fails
<1>21. ASSUME NEW t \in Tasks, Read(t) PROVE Slots'
  <2> HIDE DEF Slots
  <2>1. stdout \in Procs
    BY <1>0, <1>21, <1>N DEF Read, Locked, Slot, Slots
  <2>2. ready' \in BOOLEAN
    BY <1>0, <1>21 DEF Read, Fails, Slots
  <2>3. answers' \in [Procs -> Seq(Lines)]
    BY <1>0, <1>21, <2>1, PipeTyped DEF Read, Slots
  <2> QED BY <1>0, <1>21, <2>2, <2>3 DEF Read, Slots
<1>22. ASSUME NEW t \in Tasks, EndOfFile(t) PROVE Slots'
  BY <1>0, <1>22 DEF EndOfFile, Fails
<1>23. ASSUME NEW p \in Procs, Serve(p) PROVE Slots'
  <2>1. Head(asked[p]) \in Lines
    BY <1>0, <1>23, PipeTyped DEF Serve
  <2> HIDE DEF Slots
  <2>2. asked' \in [Procs -> Seq(Lines)] /\ alive' \subseteq alive
    <3>1. asked \in [Procs -> Seq(Lines)] /\ asked[p] # <<>>
      BY <1>0, <1>23 DEF Serve, Slots
    <3>2. [asked EXCEPT ![p] = <<>>] \in [Procs -> Seq(Lines)]
      BY <3>1, PipeTyped
    <3>3. [asked EXCEPT ![p] = Tail(@)] \in [Procs -> Seq(Lines)]
      BY <3>1, PipeTyped
    <3> HIDE DEF Serve
    <3>4. \/ asked' = [asked EXCEPT ![p] = <<>>] /\ alive' = alive \ {p}
          \/ asked' = [asked EXCEPT ![p] = Tail(@)] /\ alive' = alive
      BY <1>23 DEF Serve, Dies
    <3> QED BY <3>2, <3>3, <3>4
  <2>3. answers' \in [Procs -> Seq(Lines)]
    BY <1>0, <1>23, <2>1, PipeTyped DEF Serve, Slots
  <2> QED BY <1>0, <1>23, <2>2, <2>3 DEF Serve, Slots
<1>24. ASSUME NEW p \in Procs, InputClosed(p) PROVE Slots'
  BY <1>0, <1>24, PipeTyped DEF InputClosed, Dies
<1>25. ASSUME NEW p \in Procs, HelperCrash(p) PROVE Slots'
  BY <1>0, <1>25, PipeTyped, TroubleAssumption DEF HelperCrash, Dies
<1>26. ASSUME HealthTick PROVE Slots'
  BY <1>0, <1>26, TroubleAssumption DEF HealthTick, CallShutdown, Join, Meets, Unlock, Fails
<1>27. ASSUME PingTimesOut PROVE Slots'
  BY <1>0, <1>27, TroubleAssumption DEF PingTimesOut, CallShutdown, Join, Meets, Unlock, Fails
<1>28. ASSUME IdleTick PROVE Slots'
  BY <1>0, <1>28, TroubleAssumption DEF IdleTick, CallShutdown, Join, Meets, Unlock, Fails
<1>29. ASSUME UNCHANGED sidecarVars PROVE Slots'
  BY <1>0, <1>29 DEF sidecarVars
<1> HIDE DEF Slots
<1> QED
  BY <1>0, <1>J, <1>1, <1>2, <1>3, <1>4, <1>5, <1>6, <1>7, <1>8, <1>9, <1>10, <1>11, <1>12,
     <1>13, <1>14, <1>15, <1>16, <1>17, <1>18, <1>19, <1>20, <1>21,
     <1>22, <1>23, <1>24, <1>25, <1>26, <1>27, <1>28, <1>29, StepCases

(* The invariant holds when nothing has been started.                       *)
LEMMA InitSInv == ASSUME SidecarInit PROVE SInv
<1> USE DEF SidecarInit
<1>1. Idle \in TaskRecord /\ <<>> \in Seq(Lines) /\ Nobody \in Slot /\ FALSE \in BOOLEAN
  BY DEF Idle, TaskRecord, TaskPcs, Nexts, Slot
<1>2. SidecarTypeOK
  <2>1. asked \in [Procs -> Seq(Lines)] /\ answers \in [Procs -> Seq(Lines)]
    BY <1>1
  <2>2. task \in [Tasks -> TaskRecord]
    BY <1>1
  <2>3. spawned \in 0..MaxSpawns /\ trouble \in 0..MaxTrouble /\ alive \subseteq 1..spawned
    BY SpawnsAssumption, TroubleAssumption
  <2> QED BY <1>1, <2>1, <2>2, <2>3 DEF SidecarTypeOK
<1>3. \A t \in Tasks : task[t].pc = "idle" /\ task[t].got = Nobody
  BY DEF Idle
<1>4. Health \in Tasks /\ Sweeper \in Tasks /\ Clients \subseteq Tasks
  BY DEF Tasks
<1>5. Roles
  BY <1>3, <1>4 DEF Roles, Shutdown
<1>6. Locked /\ Unanswered
  BY <1>3, <1>4 DEF Locked, Unanswered, TaskAt
<1>7. Pipes
  BY DEF Pipes
<1>8. Peace
  BY <1>3 DEF Peace, Busy
<1> QED BY <1>2, <1>5, <1>6, <1>7, <1>8 DEF SInv

(* The clients, the health check and the idle check are different tasks.    *)
LEMMA TasksDiffer ==
    /\ Health \in Tasks /\ Sweeper \in Tasks /\ Clients \subseteq Tasks
    /\ Health \notin Clients /\ Sweeper \notin Clients /\ Health # Sweeper
    /\ Nobody \notin Tasks /\ Nobody \notin Clients /\ Nobody # Health
<1>1. Clients \subseteq Int /\ Health \in Int /\ Sweeper \in Int
  BY ClientsAssumption DEF Health, Sweeper
<1>2. Nobody \notin Tasks
  BY <1>1, ClientsAssumption DEF Tasks
<1>3. \A c \in Clients : c > 0
  BY ClientsAssumption
<1>4. Health \notin Clients /\ Sweeper \notin Clients /\ Health # Sweeper
  BY <1>3 DEF Health, Sweeper
<1> QED BY <1>2, <1>4 DEF Tasks

(* No step gives a loop a part that is not its own.                         *)
LEMMA RolesStep == ASSUME SidecarTypeOK, Roles, Locked, [SidecarNext]_sidecarVars PROVE Roles'
<1> USE TasksDiffer DEF TaskAt
<1>1. ASSUME UNCHANGED task PROVE Roles'
  BY <1>1 DEF Roles
<1>2. ASSUME NEW c \in Clients, NEW pc, NEW next, NEW proc, NEW got,
             Turns(c, pc, next, proc, got)
      PROVE  Roles'
  BY <1>2 DEF Roles, Turns
<1>3. ASSUME NEW c \in Clients,
             \/ Generate(c) \/ Running(c) \/ NotRunning(c) \/ SpawnFails(c)
             \/ Spawn(c) \/ PlugIn(c) \/ PlugOut(c) \/ Announce(c)
             \/ RequestTimesOut(c) \/ RequestCancelled(c)
      PROVE  Roles'
  BY <1>2, <1>3, ClientTurns
<1>4. ASSUME NEW t \in Tasks, NEW pc \in Shutdown, task[t].pc \in Shutdown, NEW proc, NEW got,
             Turns(t, pc, task[t].next, proc, got)
      PROVE  Roles'
  <2>1. t # Health
    BY <1>4 DEF Roles, Flight, Shutdown
  <2> QED BY <1>4, <2>1 DEF Roles, Turns, Shutdown
<1>5. ASSUME NEW t \in Tasks, NEW pc \in Flight \cup {Rest(t)}, task[t].pc \in Flight,
             NEW proc, NEW got, Turns(t, pc, task[t].next, proc, got)
      PROVE  Roles'
  <2>1. t # Sweeper
    BY <1>5 DEF Roles, Flight, Shutdown
  <2>2. t = Health => Rest(t) = "idle"
    BY DEF Rest
  <2> QED BY <1>5, <2>1, <2>2 DEF Roles, Turns
<1>6. ASSUME NEW t \in Tasks, Forget(t) PROVE Roles'
  <2>1. t # Health /\ (t = Sweeper => task[t].next = "idle")
    BY <1>6 DEF Forget, Roles, Flight, Shutdown
  <2>2. Turns(t, task[t].next, "over", Nobody, task[t].got)
    BY <1>6, TaskTurns
  <2> QED BY <2>1, <2>2 DEF Roles, Turns, Shutdown
<1>7. ASSUME NEW t \in Tasks,
             Command(t) \/ Take(t) \/ Reap(t) \/ UnplugIn(t) \/ UnplugOut(t)
      PROVE  Roles'
  <2>1. task[t].pc \in Shutdown
    BY <1>7 DEF Command, Take, Reap, UnplugIn, UnplugOut, Shutdown
  <2>2. \E pc \in Shutdown : \E proc, got : Turns(t, pc, task[t].next, proc, got)
    BY <1>7, TaskTurns DEF Shutdown
  <2> QED BY <1>4, <2>1, <2>2
<1>8. ASSUME NEW t \in Tasks,
             \/ Write(t) \/ WriteFails(t) \/ Lock(t) \/ LockFails(t) \/ Read(t) \/ EndOfFile(t)
      PROVE  Roles'
  <2>1. task[t].pc \in Flight
    BY <1>8 DEF Write, WriteFails, Lock, LockFails, Read, EndOfFile, Flight
  <2>2. \E pc \in Flight \cup {Rest(t)} : \E proc, got : Turns(t, pc, task[t].next, proc, got)
    BY <1>8, TaskTurns DEF Flight
  <2> QED BY <1>5, <2>1, <2>2
<1>9. ASSUME HealthTick \/ PingTimesOut PROVE Roles'
  BY <1>9, LoopTurns DEF Roles, Turns, Flight
<1>10. ASSUME IdleTick PROVE Roles'
  BY <1>10, LoopTurns DEF Roles, Turns, Shutdown
<1>11. \A p \in Procs : Serve(p) \/ InputClosed(p) \/ HelperCrash(p) => UNCHANGED task
  BY DEF Serve, InputClosed, HelperCrash
<1>12. UNCHANGED sidecarVars => UNCHANGED task
  BY DEF sidecarVars
<1> QED BY <1>1, <1>3, <1>6, <1>7, <1>8, <1>9, <1>10, <1>11, <1>12, StepCases

(* How a task that goes on may treat the lock.                              *)
LEMMA LockedTurns ==
    ASSUME SidecarTypeOK, Locked, NEW t \in Tasks, NEW pc, NEW next, NEW proc, NEW got,
           Turns(t, pc, next, proc, got),
           \/ pc # "read" /\ outLock' = outLock /\ (stdout' = stdout \/ outLock = Nobody)
           \/ pc # "read" /\ outLock' = Nobody /\ outLock = t
           \/ pc # "read" /\ Unlock(t) /\ stdout' = stdout
           \/ outLock = Nobody /\ outLock' = t /\ stdout' = stdout /\ stdout # Nobody
    PROVE  Locked'
BY TasksDiffer DEF Locked, TaskAt, Turns, Unlock

(* No step unplugs the output under a reader, or lets two read.             *)
LEMMA LockedStep == ASSUME SidecarTypeOK, Locked, [SidecarNext]_sidecarVars PROVE Locked'
<1> USE TasksDiffer DEF wires, procs
<1>1. ASSUME UNCHANGED <<task, outLock, stdout>> PROVE Locked'
  BY <1>1 DEF Locked, TaskAt
<1>2. ASSUME NEW c \in Clients,
             \/ Generate(c) \/ Running(c) \/ NotRunning(c) \/ SpawnFails(c)
             \/ Spawn(c) \/ PlugIn(c) \/ Announce(c)
      PROVE  Locked'
  <2>1. outLock' = outLock /\ stdout' = stdout
    BY <1>2 DEF Generate, Running, NotRunning, SpawnFails, Spawn, PlugIn, Announce
  <2>2. \E pc, next, proc, got : pc # "read" /\ Turns(c, pc, next, proc, got)
    BY <1>2, ClientTurns DEF Rest
  <2> QED BY <2>1, <2>2, LockedTurns
<1>3. ASSUME NEW c \in Clients, PlugOut(c) PROVE Locked'
  <2>1. outLock' = outLock /\ outLock = Nobody
    BY <1>3 DEF PlugOut
  <2>2. \E pc, next, proc, got : pc # "read" /\ Turns(c, pc, next, proc, got)
    BY <1>3, ClientTurns
  <2> QED BY <2>1, <2>2, LockedTurns
<1>4. ASSUME NEW c \in Clients, RequestTimesOut(c) \/ RequestCancelled(c) PROVE Locked'
  <2>1. Unlock(c) /\ stdout' = stdout
    BY <1>4 DEF RequestTimesOut, RequestCancelled
  <2>2. \E pc, next, proc, got : pc # "read" /\ Turns(c, pc, next, proc, got)
    BY <1>4, ClientTurns
  <2> QED BY <2>1, <2>2, LockedTurns
<1>5. ASSUME NEW t \in Tasks,
             \/ Command(t) \/ Take(t) \/ Reap(t) \/ UnplugIn(t) \/ Forget(t)
             \/ Write(t) \/ WriteFails(t) \/ LockFails(t)
      PROVE  Locked'
  <2>1. outLock' = outLock /\ stdout' = stdout
    BY <1>5 DEF Command, Take, Reap, UnplugIn, Forget, Write, WriteFails, LockFails
  <2>2. \E pc, next, proc, got : pc # "read" /\ Turns(t, pc, next, proc, got)
    BY <1>5, TaskTurns DEF Rest, Nexts
  <2> QED BY <2>1, <2>2, LockedTurns
<1>6. ASSUME NEW t \in Tasks, UnplugOut(t) PROVE Locked'
  <2>1. outLock' = outLock /\ outLock = Nobody
    BY <1>6 DEF UnplugOut
  <2>2. \E pc, next, proc, got : pc # "read" /\ Turns(t, pc, next, proc, got)
    BY <1>6, TaskTurns
  <2> QED BY <2>1, <2>2, LockedTurns
<1>7. ASSUME NEW t \in Tasks, Lock(t) PROVE Locked'
  <2>1. outLock = Nobody /\ outLock' = t /\ stdout' = stdout /\ stdout # Nobody
    BY <1>7 DEF Lock
  <2>2. \E pc, next, proc, got : Turns(t, pc, next, proc, got)
    BY <1>7, TaskTurns
  <2> QED BY <2>1, <2>2, LockedTurns
<1>8. ASSUME NEW t \in Tasks, Read(t) \/ EndOfFile(t) PROVE Locked'
  <2>1. outLock = t /\ outLock' = Nobody
    BY <1>8 DEF Read, EndOfFile, Locked
  <2>2. \E pc, next, proc, got : pc # "read" /\ Turns(t, pc, next, proc, got)
    BY <1>8, TaskTurns DEF Rest
  <2> QED BY <2>1, <2>2, LockedTurns
<1>9. ASSUME HealthTick \/ IdleTick PROVE Locked'
  <2>1. outLock' = outLock /\ stdout' = stdout
    BY <1>9 DEF HealthTick, IdleTick
  <2>2. \E t \in Tasks : \E pc, next, proc, got : pc # "read" /\ Turns(t, pc, next, proc, got)
    BY <1>9, LoopTurns
  <2> QED BY <2>1, <2>2, LockedTurns
<1>10. ASSUME PingTimesOut PROVE Locked'
  <2>1. Unlock(Health) /\ stdout' = stdout
    BY <1>10 DEF PingTimesOut
  <2>2. \E pc, next, proc, got : pc # "read" /\ Turns(Health, pc, next, proc, got)
    BY <1>10, LoopTurns
  <2> QED BY <2>1, <2>2, LockedTurns
<1>11. \A p \in Procs : Serve(p) \/ InputClosed(p) \/ HelperCrash(p) => UNCHANGED <<task, outLock, stdout>>
  BY DEF Serve, InputClosed, HelperCrash
<1>12. UNCHANGED sidecarVars => UNCHANGED <<task, outLock, stdout>>
  BY DEF sidecarVars
<1> QED
  BY <1>1, <1>2, <1>3, <1>4, <1>5, <1>6, <1>7, <1>8, <1>9, <1>10, <1>11, <1>12, StepCases

(* A task has an answer, or the error, when it is through.                  *)
LEMMA UnansweredTurns ==
    ASSUME Unanswered, NEW t \in Tasks, NEW pc, NEW next, NEW proc, NEW got,
           Turns(t, pc, next, proc, got), task[t].pc # "over",
           got = Nobody \/ got = task[t].got \/ pc = Rest(t)
    PROVE  Unanswered'
BY TasksDiffer DEF Unanswered, TaskAt, Turns, Rest

(* No step gives an answer to a client that goes on.                        *)
LEMMA UnansweredStep == ASSUME SidecarTypeOK, Locked, Unanswered, [SidecarNext]_sidecarVars PROVE Unanswered'
<1> USE TasksDiffer DEF TaskAt
<1>1. ASSUME UNCHANGED task PROVE Unanswered'
  BY <1>1 DEF Unanswered
<1>2. ASSUME NEW c \in Clients,
             \/ Generate(c) \/ Running(c) \/ NotRunning(c) \/ SpawnFails(c)
             \/ Spawn(c) \/ PlugIn(c) \/ PlugOut(c) \/ Announce(c)
             \/ RequestTimesOut(c) \/ RequestCancelled(c)
      PROVE  Unanswered'
  <2>1. task[c].pc # "over"
    BY <1>2 DEF Generate, Running, NotRunning, SpawnFails, Spawn, PlugIn, PlugOut, Announce,
                RequestTimesOut, RequestCancelled, Flight
  <2>2. \E pc, next, proc, got : /\ Turns(c, pc, next, proc, got)
                                 /\ got = Nobody \/ got = task[c].got
    BY <1>2, ClientTurns
  <2> QED BY <2>1, <2>2, UnansweredTurns
<1>3. ASSUME NEW t \in Tasks,
             \/ Command(t) \/ Take(t) \/ Reap(t) \/ UnplugIn(t) \/ UnplugOut(t)
             \/ Forget(t) \/ Write(t) \/ WriteFails(t) \/ Lock(t) \/ LockFails(t)
             \/ Read(t) \/ EndOfFile(t)
      PROVE  Unanswered'
  <2>1. task[t].pc # "over"
    BY <1>3 DEF Command, Take, Reap, UnplugIn, UnplugOut, Forget, Write, WriteFails, Lock,
                LockFails, Read, EndOfFile
  <2>2. \E pc, next, proc, got : /\ Turns(t, pc, next, proc, got)
                                 /\ got = Nobody \/ got = task[t].got \/ pc = Rest(t)
    BY <1>3, TaskTurns
  <2> QED BY <2>1, <2>2, UnansweredTurns
<1>4. HealthTick \/ PingTimesOut \/ IdleTick => Unanswered'
  BY LoopTurns DEF Unanswered, Turns
<1>5. \A p \in Procs : Serve(p) \/ InputClosed(p) \/ HelperCrash(p) => UNCHANGED task
  BY DEF Serve, InputClosed, HelperCrash
<1>6. UNCHANGED sidecarVars => UNCHANGED task
  BY DEF sidecarVars
<1> QED BY <1>1, <1>2, <1>3, <1>4, <1>5, <1>6, StepCases

(* No step puts a line into the input of a dead process, or into the output *)
(* of one that was not started.                                             *)
LEMMA PipesStep == ASSUME SidecarTypeOK, Locked, Pipes, [SidecarNext]_sidecarVars PROVE Pipes'
<1> USE DEF wires, procs
<1>0. /\ asked \in [Procs -> Seq(Lines)] /\ answers \in [Procs -> Seq(Lines)]
      /\ \A p \in alive : p \in Procs /\ p <= spawned
      /\ spawned \in Nat
  BY SpawnsAssumption DEF SidecarTypeOK, Procs
<1>1. ASSUME UNCHANGED procs PROVE Pipes'
  BY <1>1 DEF Pipes
<1>2. ASSUME NEW p, Dies(p), UNCHANGED <<answers, spawned>> PROVE Pipes'
  BY <1>0, <1>2 DEF Pipes, Dies
<1>3. ASSUME answers' = Unread(stdout), UNCHANGED <<alive, asked, spawned>> PROVE Pipes'
  BY <1>3 DEF Pipes, Unread
<1>4. ASSUME NEW p \in alive, NEW x, asked' = [asked EXCEPT ![p] = Append(@, x)],
             UNCHANGED <<alive, answers, spawned>>
      PROVE  Pipes'
  BY <1>0, <1>4 DEF Pipes
<1>5. ASSUME NEW c \in Clients, Spawn(c) PROVE Pipes'
  <2>1. /\ spawned' = spawned + 1 /\ alive' = alive \cup {spawned'}
        /\ UNCHANGED <<asked, answers>>
    BY <1>5 DEF Spawn
  <2>2. \A p \in Procs : p \in Int /\ (p > spawned' => p > spawned)
    BY <1>0, <2>1, SpawnsAssumption DEF Procs
  <2> QED BY <2>1, <2>2 DEF Pipes
<1>6. ASSUME NEW p \in Procs, Serve(p) PROVE Pipes'
  <2>1. p \in alive /\ p <= spawned /\ UNCHANGED spawned /\ \A q \in Procs \ {p} : answers'[q] = answers[q]
    BY <1>0, <1>6 DEF Serve
  <2>2. /\ alive' \subseteq alive
        /\ \A q \in alive \ alive' : asked'[q] = <<>>
        /\ \A q \in Procs \ {p} : asked'[q] = asked[q]
    BY <1>0, <1>6 DEF Serve, Dies
  <2>3. p > spawned => FALSE
    BY <1>0, <2>1, SpawnsAssumption DEF Procs
  <2> QED BY <2>1, <2>2, <2>3 DEF Pipes
<1>7. ASSUME NEW t \in Tasks, Read(t) PROVE Pipes'
  <2>1. /\ UNCHANGED <<alive, asked, spawned>>
        /\ \A q \in Procs \ {stdout} : answers'[q] = answers[q]
        /\ answers[stdout] # <<>>
    BY <1>0, <1>7 DEF Read
  <2> QED BY <2>1 DEF Pipes
<1>8. ASSUME NEW c \in Clients,
             \/ Generate(c) \/ Running(c) \/ NotRunning(c) \/ SpawnFails(c)
             \/ PlugIn(c) \/ Announce(c) \/ RequestTimesOut(c) \/ RequestCancelled(c)
      PROVE  UNCHANGED procs
  BY <1>8 DEF Generate, Running, NotRunning, SpawnFails, PlugIn, Announce, RequestTimesOut,
              RequestCancelled
<1>9. ASSUME NEW t \in Tasks,
             \/ Take(t) \/ UnplugIn(t) \/ Forget(t) \/ WriteFails(t) \/ Lock(t) \/ LockFails(t)
             \/ EndOfFile(t)
      PROVE  UNCHANGED procs
  BY <1>9 DEF Take, UnplugIn, Forget, WriteFails, Lock, LockFails, EndOfFile
<1>10. ASSUME NEW t \in Tasks, Command(t) \/ Write(t) PROVE Pipes'
  BY <1>1, <1>4, <1>10 DEF Command, Write
<1>11. ASSUME NEW t \in Tasks, UnplugOut(t) \/ PlugOut(t) PROVE Pipes'
  BY <1>3, <1>11 DEF UnplugOut, PlugOut
<1>12. ASSUME NEW t \in Tasks, Reap(t) PROVE Pipes'
  BY <1>2, <1>12 DEF Reap
<1>13. ASSUME NEW p \in Procs, InputClosed(p) \/ HelperCrash(p) PROVE Pipes'
  BY <1>2, <1>13 DEF InputClosed, HelperCrash
<1>14. HealthTick \/ PingTimesOut \/ IdleTick => UNCHANGED procs
  BY DEF HealthTick, PingTimesOut, IdleTick
<1>15. UNCHANGED sidecarVars => UNCHANGED procs
  BY DEF sidecarVars
<1>16. Clients \subseteq Tasks
  BY DEF Tasks
<1> HIDE DEF wires, procs
<1> QED BY <1>1, <1>5, <1>6, <1>7, <1>8, <1>9, <1>10, <1>11, <1>12, <1>13, <1>14, <1>15, <1>16,
           StepCases

-----------------------------------------------------------------------------
(* The peace lasts from step to step.                                       *)
Resting == {"idle", "ensure", "over"}

(* The task at work goes on: it reaches its next stage, or rests and leaves *)
(* all quiet if the helper is ready.                                        *)
LEMMA AtWork ==
    ASSUME SidecarTypeOK, Peace, NEW t \in Tasks, NEW pc, NEW next, NEW proc, NEW got,
           Turns(t, pc, next, proc, got), t \in Busy, shared' = shared,
           ~shared /\ Busy = {t} /\ Stage(t) => IF pc \in Resting THEN ready' => Quiet'
                                               ELSE Stage(t)'
    PROVE  Peace'
<1>1. SUFFICES ASSUME ~shared PROVE Peace'
  BY DEF Peace
<1>2. Busy = {t} /\ Stage(t)
  BY <1>1 DEF Peace
<1>3. CASE pc \in Resting
  <2>1. Busy' = {}
    BY <1>2, <1>3 DEF Busy, Turns, Resting
  <2> QED BY <1>1, <1>2, <1>3, <2>1 DEF Peace
<1>4. CASE pc \notin Resting
  <2>1. Busy' = {t}
    BY <1>2, <1>4 DEF Busy, Turns, Resting
  <2> QED BY <1>1, <1>2, <1>4, <2>1 DEF Peace
<1> QED BY <1>3, <1>4

(* What a task that sets to work has to show.                               *)
LEMMA ToWork ==
    ASSUME SidecarTypeOK, NEW t \in Tasks, NEW pc, NEW next, NEW proc, NEW got,
           Turns(t, pc, next, proc, got), pc \notin Resting,
           ~shared' => ~Meets(t) /\ Stage(t)'
    PROVE  Peace'
<1>1. SUFFICES ASSUME ~shared' PROVE Peace'
  BY DEF Peace
<1>2. Busy' = {t}
  BY <1>1 DEF Meets, Busy, Turns, Resting
<1> QED BY <1>1, <1>2 DEF Peace

(* What the helper does leaves every stage as it was.                       *)
LEMMA HelperWork ==
    ASSUME SidecarTypeOK, Peace, UNCHANGED <<wires, task, shared>>,
           \A p \in Procs : Empty(p) => Empty(p)',
           \A p \in Procs, t \in Tasks : Only(p, t) => Only(p, t)'
    PROVE  Peace'
<1>1. Busy' = Busy /\ (Quiet => Quiet')
  BY DEF Busy, Quiet, Linked, wires, Empty
<1>2. ASSUME NEW t \in Busy, Stage(t) PROVE Stage(t)'
  BY <1>1, <1>2 DEF Stage, Busy, wires, Linked, Empty
<1> QED BY <1>1, <1>2 DEF Peace, wires

(* A pipe with one line in it.                                              *)
LEMMA Single ==
    ASSUME NEW x
    PROVE  Append(<<>>, x) = <<x>> /\ Head(<<x>>) = x /\ Tail(<<x>>) = <<>> /\ <<x>> # <<>>
OBVIOUS

(* No step breaks the peace: one case per action.                           *)
LEMMA PeaceStep ==
    ASSUME SidecarTypeOK, Roles, Locked, Pipes, Unanswered, Peace, [SidecarNext]_sidecarVars
    PROVE  Peace'
<1> USE TasksDiffer DEF TaskAt
<1>P. /\ asked \in [Procs -> Seq(Lines)] /\ answers \in [Procs -> Seq(Lines)]
      /\ alive \subseteq Procs
  BY SpawnsAssumption DEF SidecarTypeOK, Procs

<1>1. ASSUME NEW c \in Clients, SpawnFails(c) PROVE Peace'
  <2>1. PICK pc, next, proc, got : Turns(c, pc, next, proc, got) /\ pc = Rest(c)
    BY <1>1, ClientTurns
  <2>2. c \in Busy /\ shared' = shared
    BY <1>1 DEF SpawnFails, Busy, Flight
  <2>3. ASSUME ~shared, Busy = {c}, Stage(c)
        PROVE  IF pc \in Resting THEN ready' => Quiet' ELSE Stage(c)'
    BY <1>P, <1>1, <2>1, <2>3 DEF SpawnFails, Resting, Rest, Stage, wires
  <2> QED BY <2>1, <2>2, <2>3, AtWork
<1>2. ASSUME NEW c \in Clients, Spawn(c) PROVE Peace'
  <2>1. PICK pc, next, proc, got :
           Turns(c, pc, next, proc, got) /\ pc = "plugIn" /\ proc = spawned + 1
    BY <1>2, ClientTurns
  <2>2. c \in Busy /\ shared' = shared
    BY <1>2 DEF Spawn, Busy, Flight
  <2>3. ASSUME ~shared, Busy = {c}, Stage(c)
        PROVE  IF pc \in Resting THEN ready' => Quiet' ELSE Stage(c)'
    <3>1. PICK p : p = spawned + 1
      OBVIOUS
    <3>2. p \in Procs /\ p \notin alive /\ p > spawned
      BY <1>2, <3>1, SpawnsAssumption DEF Spawn, SidecarTypeOK, Procs
    <3>3. Empty(p) /\ UNCHANGED <<asked, answers>>
      BY <1>2, <3>2 DEF Pipes, Empty, Spawn
    <3>4. Empty(p)'
      BY <3>3 DEF Empty
    <3> QED BY <1>2, <2>1, <2>3, <3>1, <3>2, <3>4 DEF Spawn, Resting, Stage, Turns
  <2> QED BY <2>1, <2>2, <2>3, AtWork
<1>3. ASSUME NEW c \in Clients, PlugIn(c) PROVE Peace'
  <2>1. PICK pc, next, proc, got :
           Turns(c, pc, next, proc, got) /\ pc = "plugOut" /\ proc = task[c].proc
    BY <1>3, ClientTurns
  <2>2. c \in Busy /\ shared' = shared
    BY <1>3 DEF PlugIn, Busy, Flight
  <2>3. ASSUME ~shared, Busy = {c}, Stage(c)
        PROVE  IF pc \in Resting THEN ready' => Quiet' ELSE Stage(c)'
    BY <1>P, <1>3, <2>1, <2>3 DEF PlugIn, Resting, Stage, Turns, Empty, procs
  <2> QED BY <2>1, <2>2, <2>3, AtWork
<1>4. ASSUME NEW c \in Clients, PlugOut(c) PROVE Peace'
  <2>1. PICK pc, next, proc, got :
           Turns(c, pc, next, proc, got) /\ pc = "announce" /\ proc = task[c].proc
    BY <1>4, ClientTurns
  <2>2. c \in Busy /\ shared' = shared
    BY <1>4 DEF PlugOut, Busy, Flight
  <2>3. ASSUME ~shared, Busy = {c}, Stage(c)
        PROVE  IF pc \in Resting THEN ready' => Quiet' ELSE Stage(c)'
    <3>1. PICK p : p = task[c].proc
      OBVIOUS
    <3>2. p \in Procs /\ Empty(p) => Empty(p)'
      BY <1>4 DEF PlugOut, Empty, Unread
    <3> QED BY <1>4, <2>1, <2>3, <3>1, <3>2 DEF PlugOut, Resting, Stage, Turns
  <2> QED BY <2>1, <2>2, <2>3, AtWork
<1>5. ASSUME NEW c \in Clients, Announce(c) PROVE Peace'
  <2>1. PICK pc, next, proc, got : Turns(c, pc, next, proc, got) /\ pc = "write"
    BY <1>5, ClientTurns
  <2>2. c \in Busy /\ shared' = shared
    BY <1>5 DEF Announce, Busy, Flight
  <2>3. ASSUME ~shared, Busy = {c}, Stage(c)
        PROVE  IF pc \in Resting THEN ready' => Quiet' ELSE Stage(c)'
    BY <1>P, <1>5, <2>1, <2>3 DEF Announce, Resting, Stage, Turns, Quiet, Linked, Empty, procs
  <2> QED BY <2>1, <2>2, <2>3, AtWork
<1>6. ASSUME NEW t \in Tasks, Command(t) PROVE Peace'
  <2>1. PICK pc, next, proc, got : Turns(t, pc, next, proc, got) /\ pc = "take"
    BY <1>6, TaskTurns
  <2>2. t \in Busy /\ shared' = shared
    BY <1>6 DEF Command, Busy, Flight
  <2>3. ASSUME ~shared, Busy = {t}, Stage(t)
        PROVE  IF pc \in Resting THEN ready' => Quiet' ELSE Stage(t)'
    BY <1>P, <1>6, <2>1, <2>3 DEF Command, Resting, Stage, Turns, wires
  <2> QED BY <2>1, <2>2, <2>3, AtWork
<1>7. ASSUME NEW t \in Tasks, Take(t) PROVE Peace'
  <2>1. PICK pc, next, proc, got :
           Turns(t, pc, next, proc, got) /\ pc = IF child = Nobody THEN "unplugIn" ELSE "wait"
    BY <1>7, TaskTurns
  <2>2. t \in Busy /\ shared' = shared
    BY <1>7 DEF Take, Busy, Flight
  <2>3. ASSUME ~shared, Busy = {t}, Stage(t)
        PROVE  IF pc \in Resting THEN ready' => Quiet' ELSE Stage(t)'
    BY <1>P, <1>7, <2>1, <2>3 DEF Take, Resting, Stage, Turns, wires
  <2> QED BY <2>1, <2>2, <2>3, AtWork
<1>8. ASSUME NEW t \in Tasks, Reap(t) PROVE Peace'
  <2>1. PICK pc, next, proc, got : Turns(t, pc, next, proc, got) /\ pc = "unplugIn"
    BY <1>8, TaskTurns
  <2>2. t \in Busy /\ shared' = shared
    BY <1>8 DEF Reap, Busy, Flight
  <2>3. ASSUME ~shared, Busy = {t}, Stage(t)
        PROVE  IF pc \in Resting THEN ready' => Quiet' ELSE Stage(t)'
    BY <1>P, <1>8, <2>1, <2>3 DEF Reap, Resting, Stage, Turns, wires
  <2> QED BY <2>1, <2>2, <2>3, AtWork
<1>9. ASSUME NEW t \in Tasks, UnplugIn(t) PROVE Peace'
  <2>1. PICK pc, next, proc, got : Turns(t, pc, next, proc, got) /\ pc = "unplugOut"
    BY <1>9, TaskTurns
  <2>2. t \in Busy /\ shared' = shared
    BY <1>9 DEF UnplugIn, Busy, Flight
  <2>3. ASSUME ~shared, Busy = {t}, Stage(t)
        PROVE  IF pc \in Resting THEN ready' => Quiet' ELSE Stage(t)'
    BY <1>P, <1>9, <2>1, <2>3 DEF UnplugIn, Resting, Stage, Turns, wires
  <2> QED BY <2>1, <2>2, <2>3, AtWork
<1>10. ASSUME NEW t \in Tasks, UnplugOut(t) PROVE Peace'
  <2>1. PICK pc, next, proc, got : Turns(t, pc, next, proc, got) /\ pc = "forget"
    BY <1>10, TaskTurns
  <2>2. t \in Busy /\ shared' = shared
    BY <1>10 DEF UnplugOut, Busy, Flight
  <2>3. ASSUME ~shared, Busy = {t}, Stage(t)
        PROVE  IF pc \in Resting THEN ready' => Quiet' ELSE Stage(t)'
    BY <1>P, <1>10, <2>1, <2>3 DEF UnplugOut, Resting, Stage, Turns, wires
  <2> QED BY <2>1, <2>2, <2>3, AtWork
<1>11. ASSUME NEW t \in Tasks, Forget(t) PROVE Peace'
  <2>1. PICK pc, next, proc, got :
           Turns(t, pc, next, proc, got) /\ pc = task[t].next /\ pc \in Nexts
    BY <1>11, TaskTurns
  <2>2. t \in Busy /\ shared' = shared
    BY <1>11 DEF Forget, Busy, Flight
  <2>3. ASSUME ~shared, Busy = {t}, Stage(t)
        PROVE  IF pc \in Resting THEN ready' => Quiet' ELSE Stage(t)'
    BY <1>P, <1>11, <2>1, <2>3 DEF Forget, Resting, Nexts, Stage, Turns, wires
  <2> QED BY <2>1, <2>2, <2>3, AtWork
<1>12. ASSUME NEW t \in Tasks, Write(t) PROVE Peace'
  <2>1. PICK pc, next, proc, got : Turns(t, pc, next, proc, got) /\ pc = "lock"
    BY <1>12, TaskTurns
  <2>2. t \in Busy /\ shared' = shared
    BY <1>12 DEF Write, Busy, Flight
  <2>3. ASSUME ~shared, Busy = {t}, Stage(t)
        PROVE  IF pc \in Resting THEN ready' => Quiet' ELSE Stage(t)'
    <3>1. Linked /\ Empty(child) /\ UNCHANGED wires /\ answers' = answers
      BY <1>12, <2>3 DEF Write, Stage, Quiet
    <3>2. asked'[child] = Append(<<>>, t)
      BY <1>P, <1>12, <3>1 DEF Write, Linked, Empty
    <3>3. Linked' /\ Only(child, t)'
      BY <3>1, <3>2, Single DEF Linked, Only, Empty, wires
    <3> QED BY <2>1, <3>3 DEF Stage, Turns, Resting
  <2> QED BY <2>1, <2>2, <2>3, AtWork
<1>13. ASSUME NEW t \in Tasks, WriteFails(t) PROVE Peace'
  <2>1. PICK pc, next, proc, got : Turns(t, pc, next, proc, got) /\ pc = Rest(t)
    BY <1>13, TaskTurns
  <2>2. t \in Busy /\ shared' = shared
    BY <1>13 DEF WriteFails, Busy, Flight
  <2>3. ASSUME ~shared, Busy = {t}, Stage(t)
        PROVE  IF pc \in Resting THEN ready' => Quiet' ELSE Stage(t)'
    BY <1>P, <1>13, <2>1, <2>3 DEF WriteFails, Resting, Fails, Rest, Stage, Quiet, Linked,
                                   Empty, procs
  <2> QED BY <2>1, <2>2, <2>3, AtWork
<1>14. ASSUME NEW t \in Tasks, Lock(t) PROVE Peace'
  <2>1. PICK pc, next, proc, got : Turns(t, pc, next, proc, got) /\ pc = "read"
    BY <1>14, TaskTurns
  <2>2. t \in Busy /\ shared' = shared
    BY <1>14 DEF Lock, Busy, Flight
  <2>3. ASSUME ~shared, Busy = {t}, Stage(t)
        PROVE  IF pc \in Resting THEN ready' => Quiet' ELSE Stage(t)'
    BY <1>P, <1>14, <2>1, <2>3 DEF Lock, Resting, Stage, Turns, Linked, Only, Empty, procs
  <2> QED BY <2>1, <2>2, <2>3, AtWork
<1>15. ASSUME NEW t \in Tasks, LockFails(t) PROVE Peace'
  <2>1. PICK pc, next, proc, got : Turns(t, pc, next, proc, got) /\ pc = Rest(t)
    BY <1>15, TaskTurns
  <2>2. t \in Busy /\ shared' = shared
    BY <1>15 DEF LockFails, Busy, Flight
  <2>3. ASSUME ~shared, Busy = {t}, Stage(t)
        PROVE  IF pc \in Resting THEN ready' => Quiet' ELSE Stage(t)'
    BY <1>P, <1>15, <2>1, <2>3, ClientsAssumption DEF LockFails, Resting, Stage, Linked, Procs
  <2> QED BY <2>1, <2>2, <2>3, AtWork
<1>16. ASSUME NEW t \in Tasks, Read(t) PROVE Peace'
  <2>1. PICK pc, next, proc, got : Turns(t, pc, next, proc, got) /\ pc = Rest(t)
    BY <1>16, TaskTurns
  <2>2. t \in Busy /\ shared' = shared
    BY <1>16 DEF Read, Busy, Flight
  <2>3. ASSUME ~shared, Busy = {t}, Stage(t)
        PROVE  IF pc \in Resting THEN ready' => Quiet' ELSE Stage(t)'
    <3>1. Linked /\ Only(child, t) /\ answers[child] # <<>>
      BY <1>16, <2>3 DEF Read, Stage, Linked
    <3>2. asked[child] = <<>> /\ answers[child] = <<t>>
      BY <3>1 DEF Only, Empty
    <3>3. answers'[child] = Tail(<<t>>) /\ asked' = asked /\ UNCHANGED <<child, stdin, stdout>>
      BY <1>P, <1>16, <3>1, <3>2 DEF Read, Linked
    <3>4. Quiet'
      BY <3>1, <3>2, <3>3, Single DEF Quiet, Linked, Empty
    <3> QED BY <2>1, <3>4 DEF Rest, Resting
  <2> QED BY <2>1, <2>2, <2>3, AtWork
<1>17. ASSUME NEW t \in Tasks, EndOfFile(t) PROVE Peace'
  <2>1. PICK pc, next, proc, got : Turns(t, pc, next, proc, got) /\ pc = Rest(t)
    BY <1>17, TaskTurns
  <2>2. t \in Busy /\ shared' = shared
    BY <1>17 DEF EndOfFile, Busy, Flight
  <2>3. ASSUME ~shared, Busy = {t}, Stage(t)
        PROVE  IF pc \in Resting THEN ready' => Quiet' ELSE Stage(t)'
    <3>1. Linked /\ Only(child, t) /\ answers[child] = <<>> /\ asked[child] = <<>>
      BY <1>17, <2>3 DEF EndOfFile, Stage, Linked, Pipes
    <3>2. Quiet'
      BY <1>17, <3>1 DEF EndOfFile, Quiet, Linked, Empty, procs
    <3> QED BY <2>1, <3>2 DEF Rest, Resting
  <2> QED BY <2>1, <2>2, <2>3, AtWork
<1>18. ASSUME PingTimesOut PROVE Peace'
  <2>1. PICK pc, next, proc, got : Turns(Health, pc, next, proc, got) /\ pc = "idle"
    BY <1>18, LoopTurns
  <2>2. Health \in Busy /\ shared' = shared
    BY <1>18 DEF PingTimesOut, Busy, Flight
  <2>3. ASSUME ~shared, Busy = {Health}, Stage(Health)
        PROVE  IF pc \in Resting THEN ready' => Quiet' ELSE Stage(Health)'
    BY <1>P, <1>18, <2>1, <2>3 DEF PingTimesOut, Resting, Fails
  <2> QED BY <2>1, <2>2, <2>3, AtWork
<1>19. ASSUME NEW c \in Clients, NotRunning(c) PROVE Peace'
  <2>1. PICK next, proc, got : Turns(c, "command", next, proc, got)
    BY <1>19, ClientTurns
  <2>2. ~shared' => ~Meets(c) /\ Stage(c)'
    BY <1>19, <2>1 DEF NotRunning, CallShutdown, Stage, Turns
  <2> QED BY <2>1, <2>2, ToWork DEF Resting
<1>20. ASSUME NEW c \in Clients, RequestTimesOut(c) PROVE Peace'
  <2>1. PICK next, proc, got : Turns(c, "command", next, proc, got)
    BY <1>20, ClientTurns
  <2>2. ~shared' => ~Meets(c) /\ Stage(c)'
    BY <1>20, <2>1 DEF RequestTimesOut, CallShutdown, Stage, Turns
  <2> QED BY <2>1, <2>2, ToWork DEF Resting
<1>21. ASSUME NEW c \in Clients, RequestCancelled(c) PROVE Peace'
  <2>1. PICK next, proc, got : Turns(c, "command", next, proc, got)
    BY <1>21, ClientTurns
  <2>2. ~shared' => ~Meets(c) /\ Stage(c)'
    BY <1>21, <2>1 DEF RequestCancelled, CallShutdown, Stage, Turns
  <2> QED BY <2>1, <2>2, ToWork DEF Resting
<1>22. ASSUME IdleTick PROVE Peace'
  <2>1. PICK next, proc, got : Turns(Sweeper, "command", next, proc, got)
    BY <1>22, LoopTurns
  <2>2. ~shared' => ~Meets(Sweeper) /\ Stage(Sweeper)'
    BY <1>22, <2>1 DEF IdleTick, CallShutdown, Stage, Turns
  <2> QED BY <2>1, <2>2, ToWork DEF Resting
<1>23. ASSUME NEW c \in Clients, Running(c) PROVE Peace'
  <2>1. PICK next, proc, got : Turns(c, "write", next, proc, got)
    BY <1>23, ClientTurns
  <2>2. ~shared' => ~Meets(c) /\ Stage(c)'
    <3>1. SUFFICES ASSUME ~shared' PROVE ~Meets(c) /\ Stage(c)'
      OBVIOUS
    <3>2. ~shared /\ ~Meets(c) /\ c \notin Busy
      BY <1>23, <3>1 DEF Running, Join, Busy, Flight
    <3>3. Busy = {} /\ ready /\ UNCHANGED <<wires, procs>>
      BY <1>23, <3>2 DEF Running, Meets
    <3>4. Quiet'
      BY <3>2, <3>3 DEF Peace, Quiet, Linked, Empty, wires, procs
    <3> QED BY <2>1, <3>2, <3>4 DEF Stage, Turns
  <2> QED BY <2>1, <2>2, ToWork DEF Resting
<1>24. ASSUME HealthTick PROVE Peace'
  <2>1. PICK next, proc, got : Turns(Health, "write", next, proc, got)
    BY <1>24, LoopTurns
  <2>2. ~shared' => ~Meets(Health) /\ Stage(Health)'
    <3>1. SUFFICES ASSUME ~shared' PROVE ~Meets(Health) /\ Stage(Health)'
      OBVIOUS
    <3>2. ~shared /\ ~Meets(Health) /\ Health \notin Busy
      BY <1>24, <3>1 DEF HealthTick, Join, Busy, Flight
    <3>3. Busy = {} /\ ready /\ UNCHANGED <<wires, procs>>
      BY <1>24, <3>2 DEF HealthTick, Meets
    <3>4. Quiet'
      BY <3>2, <3>3 DEF Peace, Quiet, Linked, Empty, wires, procs
    <3> QED BY <2>1, <3>2, <3>4 DEF Stage, Turns
  <2> QED BY <2>1, <2>2, ToWork DEF Resting
<1>25. ASSUME NEW c \in Clients, Generate(c) PROVE Peace'
  <2>1. PICK pc, next, proc, got : Turns(c, pc, next, proc, got) /\ pc = "ensure"
    BY <1>25, ClientTurns
  <2>2. Busy' = Busy /\ UNCHANGED <<wires, procs, shared>>
    BY <1>25, <2>1 DEF Generate, Busy, Turns
  <2>3. ASSUME NEW u \in Busy, Stage(u) PROVE Stage(u)'
    <3>1. u # c /\ task'[u] = task[u]
      BY <1>25, <2>1, <2>3 DEF Generate, Busy, Turns
    <3> QED BY <2>2, <2>3, <3>1 DEF Stage, Quiet, Linked, Only, Empty, wires, procs
  <2> QED BY <2>2, <2>3 DEF Peace, Quiet, Linked, Empty, wires, procs
<1>26. ASSUME NEW p, Dies(p), UNCHANGED answers, UNCHANGED <<wires, task, shared>> PROVE Peace'
  <2>1. \A q \in Procs : asked'[q] \in {asked[q], <<>>} /\ answers'[q] = answers[q]
    BY <1>P, <1>26 DEF Dies
  <2>2. \A q \in Procs : Empty(q) => Empty(q)'
    BY <2>1 DEF Empty
  <2>3. \A q \in Procs, t \in Tasks : Only(q, t) => Only(q, t)'
    BY <2>1 DEF Only, Empty
  <2> QED BY <1>26, <2>2, <2>3, HelperWork
<1>27. ASSUME NEW p \in Procs, Serve(p) PROVE Peace'
  <2>1. /\ asked[p] # <<>>
        /\ \A q \in Procs \ {p} : asked'[q] = asked[q] /\ answers'[q] = answers[q]
        /\ answers'[p] = Append(answers[p], Head(asked[p]))
        /\ asked'[p] \in {Tail(asked[p]), <<>>}
    BY <1>P, <1>27 DEF Serve, Dies
  <2>2. \A q \in Procs : Empty(q) => Empty(q)'
    BY <2>1 DEF Empty
  <2>3. ASSUME NEW t \in Tasks, Only(p, t) PROVE Only(p, t)'
    <3>1. asked[p] = <<t>> /\ answers[p] = <<>>
      BY <2>1, <2>3 DEF Only, Empty
    <3>2. answers'[p] = <<t>> /\ asked'[p] = <<>>
      BY <2>1, <3>1, Single
    <3> QED BY <3>2 DEF Only
  <2>4. \A q \in Procs \ {p}, t \in Tasks : Only(q, t) => Only(q, t)'
    BY <2>1 DEF Only, Empty
  <2> QED BY <1>27, <2>2, <2>3, <2>4, HelperWork DEF Serve
<1>28. ASSUME NEW p \in Procs, InputClosed(p) \/ HelperCrash(p) PROVE Peace'
  BY <1>28, <1>26 DEF InputClosed, HelperCrash
<1>29. ASSUME UNCHANGED sidecarVars PROVE Peace'
  BY <1>29 DEF sidecarVars, wires, procs, Peace, Busy, Stage, Quiet, Linked, Only, Empty
<1> QED
  BY <1>1, <1>2, <1>3, <1>4, <1>5, <1>6, <1>7, <1>8, <1>9, <1>10, <1>11, <1>12, <1>13, <1>14,
     <1>15, <1>16, <1>17, <1>18, <1>19, <1>20, <1>21,
     <1>22, <1>23, <1>24, <1>25, <1>27, <1>28, <1>29, StepCases

-----------------------------------------------------------------------------
(* A task that goes on without a line from the helper returns no answer.    *)
LEMMA NoAnswer ==
    ASSUME Unanswered, NEW t \in Tasks, NEW pc, NEW next, NEW proc, NEW got,
           Turns(t, pc, next, proc, got), task[t].pc # "over", got \in {Nobody, task[t].got}
    PROVE  \A c \in Clients : task'[c].got = task[c].got
BY TasksDiffer DEF Unanswered, TaskAt, Turns

(* What a client that is alone at work reads is the answer to its prompt.   *)
LEMMA OwnLine ==
    ASSUME SInv, ~shared, NEW c \in Clients, Read(c)
    PROVE  task'[c].got = c
<1>1. c \in Busy /\ c \in Tasks
  BY TasksDiffer DEF Read, TaskAt, Busy
<1>2. Stage(c)
  BY <1>1 DEF SInv, Peace
<1>3. Linked /\ Only(child, c) /\ answers[child] # <<>>
  BY <1>2 DEF Read, Stage, TaskAt, Linked
<1>4. answers[stdout] = <<c>>
  BY <1>3 DEF Only, Empty, Linked
<1>5. Head(answers[stdout]) = c /\ Expected(c, c)
  BY <1>4, Single, TasksDiffer DEF Expected
<1>6. Turns(c, Rest(c), task[c].next, Nobody, c)
  BY <1>1, <1>5, TaskTurns DEF SInv
<1> QED BY <1>6 DEF Turns

(* Nobody else reads for a client, and every other way on returns nothing   *)
(* new to it.                                                               *)
LEMMA AnswerStep ==
    ASSUME SInv, [SidecarNext]_sidecarVars, ~shared, NEW c \in Clients, task'[c].got # task[c].got
    PROVE  task'[c].got = c
<1> USE TasksDiffer DEF TaskAt
<1>1. ASSUME NEW d \in Clients,
             \/ Generate(d) \/ Running(d) \/ NotRunning(d) \/ SpawnFails(d)
             \/ Spawn(d) \/ PlugIn(d) \/ PlugOut(d) \/ Announce(d)
             \/ RequestTimesOut(d) \/ RequestCancelled(d)
      PROVE  FALSE
  <2>1. task[d].pc # "over"
    BY <1>1 DEF Generate, Running, NotRunning, SpawnFails, Spawn, PlugIn, PlugOut, Announce,
                RequestTimesOut, RequestCancelled, Flight
  <2>2. PICK pc, next, proc, got : Turns(d, pc, next, proc, got) /\ got \in {Nobody, task[d].got}
    BY <1>1, ClientTurns DEF SInv
  <2> QED BY <2>1, <2>2, NoAnswer DEF SInv
<1>2. ASSUME NEW t \in Tasks,
             \/ Command(t) \/ Take(t) \/ Reap(t) \/ UnplugIn(t) \/ UnplugOut(t)
             \/ Forget(t) \/ Write(t) \/ WriteFails(t) \/ Lock(t) \/ LockFails(t) \/ EndOfFile(t)
      PROVE  FALSE
  <2>1. task[t].pc # "over"
    BY <1>2 DEF Command, Take, Reap, UnplugIn, UnplugOut, Forget, Write, WriteFails, Lock,
                LockFails, EndOfFile
  <2>2. PICK pc, next, proc, got : Turns(t, pc, next, proc, got) /\ got \in {Nobody, task[t].got}
    BY <1>2, TaskTurns DEF SInv
  <2> QED BY <2>1, <2>2, NoAnswer DEF SInv
<1>3. ASSUME NEW t \in Tasks, Read(t) PROVE t = c /\ task'[c].got = c
  <2>1. t = c
    BY <1>3, TaskTurns DEF SInv, Turns
  <2> QED BY <1>3, <2>1, OwnLine
<1>4. HealthTick \/ PingTimesOut \/ IdleTick => FALSE
  BY LoopTurns DEF SInv, Turns
<1>5. \A p \in Procs : Serve(p) \/ InputClosed(p) \/ HelperCrash(p) => FALSE
  BY DEF Serve, InputClosed, HelperCrash
<1>6. UNCHANGED sidecarVars => FALSE
  BY DEF sidecarVars
<1> QED BY <1>1, <1>2, <1>3, <1>4, <1>5, <1>6, StepCases

(* Every step keeps the invariant.                                          *)
LEMMA SInvStep == ASSUME SInv, [SidecarNext]_sidecarVars PROVE SInv'
BY SlotsTypeStep, RolesStep, LockedStep, PipesStep, UnansweredStep, PeaceStep DEF SInv

(* Slots, pipes and tasks are always well formed: what is plugged in is a   *)
(* process that was started, and what was locked can be read.               *)
THEOREM SidecarTypeCorrect == SidecarSpec => []SidecarTypeOK
<1>1. SidecarInit => SInv
  BY InitSInv
<1>2. SInv /\ [SidecarNext]_sidecarVars => SInv'
  BY SInvStep
<1>3. SInv => SidecarTypeOK
  BY DEF SInv
<1> QED BY <1>1, <1>2, <1>3, PTL DEF SidecarSpec

(* A manager that says it is ready and that no two tasks have disturbed has *)
(* the input, output and process in its slots belong together.              *)
THEOREM ReadyIsWiredHolds == SidecarSpec => []ReadyIsWired
<1>1. SidecarInit => SInv
  BY InitSInv
<1>2. SInv /\ [SidecarNext]_sidecarVars => SInv'
  BY SInvStep
<1>3. SInv => ReadyIsWired
  <2>1. child \in Procs => child # Nobody
    BY ClientsAssumption DEF Procs
  <2> QED BY <2>1 DEF SInv, Peace, Quiet, Linked, ReadyIsWired
<1> QED BY <1>1, <1>2, <1>3, PTL DEF SidecarSpec

(* A generation that no other task has disturbed returns the answer to its  *)
(* own prompt, whatever timed out, crashed or was cancelled before it.      *)
THEOREM LoneAnswerHolds == SidecarSpec => LoneAnswer
<1>1. SidecarInit => SInv
  BY InitSInv
<1>2. SInv /\ [SidecarNext]_sidecarVars => SInv'
  BY SInvStep
<1>3. SInv /\ [SidecarNext]_sidecarVars
        => [\A c \in Clients : ~shared /\ task'[c].got # task[c].got => task'[c].got = c]_sidecarVars
  BY AnswerStep
<1> QED BY <1>1, <1>2, <1>3, PTL DEF SidecarSpec, LoneAnswer
=============================================================================
