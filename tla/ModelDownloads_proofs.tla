------------------------- MODULE ModelDownloads_proofs -------------------------
(* Theorems about ModelDownloads, for any number of models and commands and *)
(* for each of the three managers: the list of active downloads keeps two   *)
(* downloads of a model apart, but for the two windows that it leaves open. *)
EXTENDS ModelDownloads, TLAPS

Results == {"none", "refused", "failed", "leaked", "cancelled", "completed"}
Commands == [op : Ops, m : Models \cup {None}, pc : Pcs, f : Files \cup {None},
             off : 0..Full, append : BOOLEAN, snap : [Models -> Status], res : Results]
StateInv ==
    /\ flavour \in Flavours /\ active \subseteq Models /\ overlapped \subseteq Models
    /\ cancelFlag \in Models \cup {None}
    /\ status \in [Models -> Status]
    /\ file \in [Models -> Files \cup {None}]
    /\ size \in [Files -> Nat]

(* A command knows its model from its first step on.                        *)
TaskInv ==
    /\ task \in [Tasks -> Commands]
    /\ \A t \in Tasks : task[t].pc # "idle" => task[t].m \in Models

(* A download that is running keeps its entry, keeps other downloads of the *)
(* model out, and keeps them from having looked before it was there.        *)
EntryInv ==
    \A m \in Models \ overlapped : \A t \in Tasks : Running(t, m) =>
        /\ m \in active
        /\ \A u \in Tasks \ {t} : task[u].m = m => task[u].pc \notin Working \cup {"admit"}

-----------------------------------------------------------------------------
(* The three things that a step of a command may do to its place, whatever  *)
(* else it does.                                                            *)
Keeps(t) == \A u \in Tasks \ {t} : task'[u] = task[u]
(* It goes on: it enters no download, and does not leave one.               *)
GoesOn(t) ==
    /\ Keeps(t) /\ task'[t].m = task[t].m
    /\ task'[t].pc \in Working <=> task[t].pc \in Working
    /\ task'[t].pc # "admit" /\ UNCHANGED <<active, overlapped>>
(* It leaves, and may take the entry of its own model with it.              *)
Leaves(t) ==
    /\ Keeps(t) /\ task'[t].m = task[t].m
    /\ task[t].pc \in Working /\ task'[t].pc \notin Working \cup {"admit"}
    /\ active \ {task[t].m} \subseteq active' /\ UNCHANGED overlapped
(* It begins.                                                               *)
Begins(t) ==
    /\ Keeps(t) /\ task[t].pc = "idle"
    /\ task'[t].pc \notin Working \cup {"admit"} /\ UNCHANGED <<active, overlapped>>

(* What going on and ending do to a command's place and model.              *)
LEMMA PlaceMoves ==
    ASSUME TaskInv, NEW t \in Tasks
    PROVE  /\ \A pc \in Pcs : Goto(t, pc) =>
                  Keeps(t) /\ task'[t].m = task[t].m /\ task'[t].pc = pc
           /\ \A res \in Results : End(t, res) =>
                  Keeps(t) /\ task'[t].m = task[t].m /\ task'[t].pc = "done"
BY DEF TaskInv, Commands, Goto, End, Idle, Keeps

(* A command that goes on leaves the entries as they are.                   *)
LEMMA GoesOnKeeps ==
    ASSUME EntryInv, NEW t \in Tasks, GoesOn(t)
    PROVE  EntryInv'
BY DEF EntryInv, GoesOn, Keeps, Running

(* A download that leaves takes no other model's entry with it.             *)
LEMMA LeavesKeeps ==
    ASSUME EntryInv, NEW t \in Tasks, Leaves(t)
    PROVE  EntryInv'
BY DEF EntryInv, Leaves, Keeps, Running, Working

(* A command that begins is not in a download yet.                          *)
LEMMA BeginsKeeps ==
    ASSUME EntryInv, NEW t \in Tasks, Begins(t)
    PROVE  EntryInv'
BY DEF EntryInv, Begins, Keeps, Running, Working

(* What is left of a command that has ended.                                *)
LEMMA EndRecord ==
    ASSUME TaskInv, NEW t \in Tasks, NEW res \in Results
    PROVE  [Idle EXCEPT !.op = task[t].op, !.m = task[t].m, !.pc = "done", !.res = res] \in Commands
<1>1. /\ task[t].op \in Ops /\ task[t].m \in Models \cup {None} /\ "done" \in Pcs
  BY DEF TaskInv, Commands, Pcs
<1>2. Idle \in Commands
  BY FullAssumption DEF Idle, Commands, Ops, Pcs, Results, Status
<1> QED BY <1>1, <1>2 DEF Commands

(* What becomes of the model and the place of a record whose fields change. *)
LEMMA Fields ==
    ASSUME NEW r \in Commands
    PROVE  /\ \A pc, op, m : /\ [r EXCEPT !.pc = pc, !.op = op, !.m = m].m = m
                            /\ [r EXCEPT !.pc = pc, !.op = op, !.m = m].pc = pc
           /\ \A pc, snap : /\ [r EXCEPT !.pc = pc, !.snap = snap].m = r.m
                            /\ [r EXCEPT !.pc = pc, !.snap = snap].pc = pc
           /\ \A pc, f, off, append :
                  /\ [r EXCEPT !.pc = pc, !.f = f, !.off = off, !.append = append].m = r.m
                  /\ [r EXCEPT !.pc = pc, !.f = f, !.off = off, !.append = append].pc = pc
           /\ \A off, pc : /\ [r EXCEPT !.off = off, !.pc = pc].m = r.m
                           /\ [r EXCEPT !.off = off, !.pc = pc].pc = pc
BY DEF Commands

(* A command whose record is replaced.                                      *)
LEMMA Replaced ==
    ASSUME TaskInv, NEW t \in Tasks, NEW r \in Commands, r.m \in Models,
           task' = [task EXCEPT ![t] = r]
    PROVE  TaskInv' /\ Keeps(t) /\ task'[t] = r
<1> USE DEF TaskInv
<1>1. Keeps(t) /\ task'[t] = r
  BY DEF Keeps
<1>2. task' \in [Tasks -> Commands]
  OBVIOUS
<1> QED BY <1>1, <1>2 DEF Keeps

(* A command that goes on or ends keeps its record's type.                  *)
LEMMA TypeMoves ==
    ASSUME TaskInv, NEW t \in Tasks, task[t].m \in Models
    PROVE  /\ \A pc \in Pcs : Goto(t, pc) => TaskInv'
           /\ \A res \in Results : End(t, res) => TaskInv'
<1>1. ASSUME NEW pc \in Pcs, Goto(t, pc) PROVE TaskInv'
  BY <1>1 DEF TaskInv, Commands, Goto
<1>2. ASSUME NEW res \in Results, End(t, res) PROVE TaskInv'
  <2>1. task' = [task EXCEPT ![t] = [Idle EXCEPT !.op = task[t].op, !.m = task[t].m,
                                                 !.pc = "done", !.res = res]]
    BY <1>2 DEF End
  <2>2. task'[t].m = task[t].m
    BY <1>2, PlaceMoves DEF TaskInv
  <2> HIDE DEF Commands
  <2> QED BY <2>1, <2>2, EndRecord DEF TaskInv
<1> QED BY <1>1, <1>2

(* What is held of a model, and what a look at the disk says of it.         *)
LEMMA HeldFound ==
    ASSUME StateInv, NEW m \in Models
    PROVE  /\ Held(m) \in Nat /\ Found(m) \in Status
           /\ Exists(m) => file[m] \in Files
<1>1. Held(m) \in Nat
  BY DEF StateInv, Held, Exists
<1>2. Found(m) \in Status
  BY DEF StateInv, Found, FoundByWhisper, FoundByParakeet, FoundBySummary, Status
<1> QED BY <1>1, <1>2 DEF StateInv, Exists

(* Every step keeps the commands in order.                                  *)
LEMMA TaskStep ==
    TaskInv /\ StateInv /\ [Next]_vars => TaskInv'
<1> SUFFICES ASSUME TaskInv, StateInv, [Next]_vars PROVE TaskInv'
  OBVIOUS
<1> USE DEF At
<1>1. ASSUME NEW t \in Tasks, NEW m \in Models, WhisperCommand(t, m) PROVE TaskInv'
  <2>1. PICK pc \in Pcs, op \in Ops : Begin(t, m, op, pc)
    BY <1>1 DEF WhisperCommand, Pcs, Ops
  <2> DEFINE rec == [task[t] EXCEPT !.pc = pc, !.op = op, !.m = m]
  <2>2. task' = [task EXCEPT ![t] = rec]
    BY <2>1 DEF Begin
  <2>3. task[t] \in Commands
    BY DEF TaskInv
  <2>7. rec \in Commands
    BY <2>3 DEF Commands
  <2>8. rec.m \in Models
    BY <2>3 DEF Commands
  <2> HIDE DEF rec
  <2> QED BY <2>7, <2>8, <2>2, Replaced
<1>2. ASSUME NEW t \in Tasks, NEW m \in Models, ParakeetCommand(t, m) PROVE TaskInv'
  <2>1. PICK pc \in Pcs, op \in Ops : Begin(t, m, op, pc)
    BY <1>2 DEF ParakeetCommand, Pcs, Ops
  <2> DEFINE rec == [task[t] EXCEPT !.pc = pc, !.op = op, !.m = m]
  <2>2. task' = [task EXCEPT ![t] = rec]
    BY <2>1 DEF Begin
  <2>3. task[t] \in Commands
    BY DEF TaskInv
  <2>7. rec \in Commands
    BY <2>3 DEF Commands
  <2>8. rec.m \in Models
    BY <2>3 DEF Commands
  <2> HIDE DEF rec
  <2> QED BY <2>7, <2>8, <2>2, Replaced
<1>3. ASSUME NEW t \in Tasks, NEW m \in Models, ParakeetRetry(t, m) PROVE TaskInv'
  <2>1. PICK pc \in Pcs, op \in Ops : Begin(t, m, op, pc)
    BY <1>3 DEF ParakeetRetry, Pcs, Ops
  <2> DEFINE rec == [task[t] EXCEPT !.pc = pc, !.op = op, !.m = m]
  <2>2. task' = [task EXCEPT ![t] = rec]
    BY <2>1 DEF Begin
  <2>3. task[t] \in Commands
    BY DEF TaskInv
  <2>7. rec \in Commands
    BY <2>3 DEF Commands
  <2>8. rec.m \in Models
    BY <2>3 DEF Commands
  <2> HIDE DEF rec
  <2> QED BY <2>7, <2>8, <2>2, Replaced
<1>4. ASSUME NEW t \in Tasks, NEW m \in Models, SummaryCommand(t, m) PROVE TaskInv'
  <2>1. PICK pc \in Pcs, op \in Ops : Begin(t, m, op, pc)
    BY <1>4 DEF SummaryCommand, Pcs, Ops
  <2> DEFINE rec == [task[t] EXCEPT !.pc = pc, !.op = op, !.m = m]
  <2>2. task' = [task EXCEPT ![t] = rec]
    BY <2>1 DEF Begin
  <2>3. task[t] \in Commands
    BY DEF TaskInv
  <2>7. rec \in Commands
    BY <2>3 DEF Commands
  <2>8. rec.m \in Models
    BY <2>3 DEF Commands
  <2> HIDE DEF rec
  <2> QED BY <2>7, <2>8, <2>2, Replaced
<1>5. ASSUME NEW t \in Tasks, Look(t) PROVE TaskInv'
  <2>1. task[t] \in Commands /\ task[t].m \in Models
    BY <1>5 DEF TaskInv, Look, At
  <2> DEFINE rec == [task[t] EXCEPT !.pc = "publish", !.snap = [m \in Models |-> Found(m)]]
  <2>2. [m \in Models |-> Found(m)] \in [Models -> Status] /\ "publish" \in Pcs
    BY HeldFound DEF Pcs
  <2>3. task' = [task EXCEPT ![t] = rec]
    BY <1>5 DEF Look
  <2>7. rec \in Commands
    BY <2>1, <2>2 DEF Commands
  <2>8. rec.m \in Models
    BY <2>1, <2>2 DEF Commands
  <2> HIDE DEF rec
  <2> QED BY <2>7, <2>8, <2>3, Replaced
<1>6. ASSUME NEW t \in Tasks, Publish(t) PROVE TaskInv'
  <2>1. task[t] \in Commands /\ task[t].m \in Models
    BY <1>6 DEF TaskInv, Publish, At
  <2> DEFINE pc == IF task[t].op = "scan" THEN "done" ELSE "check"
             rec == [task[t] EXCEPT !.pc = pc, !.snap = Idle.snap]
  <2>2. Idle.snap \in [Models -> Status] /\ pc \in Pcs
    BY DEF Idle, Status, Pcs
  <2>3. task' = [task EXCEPT ![t] = rec]
    BY <1>6 DEF Publish
  <2> HIDE DEF pc
  <2>7. rec \in Commands
    BY <2>1, <2>2 DEF Commands
  <2>8. rec.m \in Models
    BY <2>1, <2>2 DEF Commands
  <2> HIDE DEF rec
  <2> QED BY <2>7, <2>8, <2>3, Replaced
<1>7. ASSUME NEW t \in Tasks, RaiseFlag(t) PROVE TaskInv'
  <2>1. task[t].m \in Models
    BY <1>7 DEF TaskInv, RaiseFlag, At
  <2> QED BY <1>7, <2>1, TypeMoves DEF RaiseFlag, Pcs, Results
<1>8. ASSUME NEW t \in Tasks, RemoveEntry(t) PROVE TaskInv'
  <2>1. task[t].m \in Models
    BY <1>8 DEF TaskInv, RemoveEntry, At
  <2> QED BY <1>8, <2>1, TypeMoves DEF RemoveEntry, Pcs, Results
<1>9. ASSUME NEW t \in Tasks, Forget(t) PROVE TaskInv'
  <2>1. task[t].m \in Models
    BY <1>9 DEF TaskInv, Forget, At
  <2> QED BY <1>9, <2>1, TypeMoves DEF Forget, Pcs, Results
<1>10. ASSUME NEW t \in Tasks, Sweep(t) PROVE TaskInv'
  <2>1. task[t].m \in Models
    BY <1>10 DEF TaskInv, Sweep, At
  <2> QED BY <1>10, <2>1, TypeMoves DEF Sweep, Pcs, Results
<1>11. ASSUME NEW t \in Tasks, Pick(t) PROVE TaskInv'
  <2>1. task[t].m \in Models
    BY <1>11 DEF TaskInv, Pick, At
  <2> QED BY <1>11, <2>1, TypeMoves DEF Pick, Pcs, Results
<1>12. ASSUME NEW t \in Tasks, Remove(t) PROVE TaskInv'
  <2>1. task[t].m \in Models
    BY <1>12 DEF TaskInv, Remove, At
  <2> QED BY <1>12, <2>1, TypeMoves DEF Remove, Pcs, Results
<1>13. ASSUME NEW t \in Tasks, Check(t) PROVE TaskInv'
  <2>1. task[t].m \in Models
    BY <1>13 DEF TaskInv, Check, At
  <2> QED BY <1>13, <2>1, TypeMoves DEF Check, Pcs, Results
<1>14. ASSUME NEW t \in Tasks, Admit(t) PROVE TaskInv'
  <2>1. task[t].m \in Models
    BY <1>14 DEF TaskInv, Admit, At
  <2> QED BY <1>14, <2>1, TypeMoves DEF Admit, Pcs, Results
<1>15. ASSUME NEW t \in Tasks, ClearFlag(t) PROVE TaskInv'
  <2>1. task[t].m \in Models
    BY <1>15 DEF TaskInv, ClearFlag, At
  <2> QED BY <1>15, <2>1, TypeMoves DEF ClearFlag, Pcs, Results
<1>16. ASSUME NEW t \in Tasks, MarkDownloading(t) PROVE TaskInv'
  <2>1. task[t].m \in Models
    BY <1>16 DEF TaskInv, MarkDownloading, At
  <2> QED BY <1>16, <2>1, TypeMoves DEF MarkDownloading, Pcs, Results
<1>17. ASSUME NEW t \in Tasks, PrepareWhisper(t) PROVE TaskInv'
  <2>1. task[t].m \in Models
    BY <1>17 DEF TaskInv, PrepareWhisper, At
  <2> QED BY <1>17, <2>1, TypeMoves DEF PrepareWhisper, Pcs, Results
<1>18. ASSUME NEW t \in Tasks, PrepareParakeet(t) PROVE TaskInv'
  <2>1. task[t].m \in Models
    BY <1>18 DEF TaskInv, PrepareParakeet, At
  <2> QED BY <1>18, <2>1, TypeMoves DEF PrepareParakeet, Pcs, Results
<1>19. ASSUME NEW t \in Tasks, PrepareSummary(t) PROVE TaskInv'
  <2>1. task[t].m \in Models
    BY <1>19 DEF TaskInv, PrepareSummary, At
  <2> QED BY <1>19, <2>1, TypeMoves DEF PrepareSummary, Pcs, Results
<1>20. ASSUME NEW t \in Tasks, RequestFails(t) PROVE TaskInv'
  <2>1. task[t].m \in Models
    BY <1>20 DEF TaskInv, RequestFails, At
  <2> QED BY <1>20, <2>1, TypeMoves DEF RequestFails, Pcs, Results
<1>21. ASSUME NEW t \in Tasks, BadStatus(t) PROVE TaskInv'
  <2>1. task[t].m \in Models
    BY <1>21 DEF TaskInv, BadStatus, At
  <2> QED BY <1>21, <2>1, TypeMoves DEF BadStatus, Pcs, Results
<1>22. ASSUME NEW t \in Tasks, Resume(t) PROVE TaskInv'
  <2>1. task[t] \in Commands /\ task[t].m \in Models
    BY <1>22 DEF TaskInv, Resume, At
  <2> DEFINE pc == IF flavour = "whisper" THEN "recv" ELSE "loop"
             f == file[task[t].m]
             rec == [task[t] EXCEPT !.pc = pc, !.f = f, !.off = Held(task[t].m), !.append = TRUE]
  <2>2. pc \in Pcs /\ Held(task[t].m) \in 0..Full
    BY <1>22, <2>1, HeldFound, FullAssumption DEF Resume, Pcs
  <2>3. f \in Files
    BY <1>22, <2>1, HeldFound DEF Resume, Held
  <2>4. task' = [task EXCEPT ![t] = rec]
    BY <1>22 DEF Resume, Stream
  <2> HIDE DEF pc, f
  <2>7. rec \in Commands
    BY <2>1, <2>2, <2>3 DEF Commands
  <2>8. rec.m \in Models
    BY <2>1, <2>2, <2>3 DEF Commands
  <2> HIDE DEF rec
  <2> QED BY <2>7, <2>8, <2>4, Replaced
<1>23. ASSUME NEW t \in Tasks, Fresh(t) PROVE TaskInv'
  <2>1. task[t] \in Commands /\ task[t].m \in Models
    BY <1>23 DEF TaskInv, Fresh, At
  <2> DEFINE pc == IF flavour = "whisper" THEN "recv" ELSE "loop"
             f == IF Exists(task[t].m) THEN file[task[t].m] ELSE t
             rec == [task[t] EXCEPT !.pc = pc, !.f = f, !.off = 0, !.append = FALSE]
  <2>2. pc \in Pcs /\ 0 \in 0..Full
    BY <1>23, <2>1, HeldFound, FullAssumption DEF Fresh, Pcs
  <2>3. f \in Files
    BY <2>1, HeldFound DEF Files
  <2>4. task' = [task EXCEPT ![t] = rec]
    BY <1>23 DEF Fresh, Stream
  <2> HIDE DEF pc, f
  <2>7. rec \in Commands
    BY <2>1, <2>2, <2>3 DEF Commands
  <2>8. rec.m \in Models
    BY <2>1, <2>2, <2>3 DEF Commands
  <2> HIDE DEF rec
  <2> QED BY <2>7, <2>8, <2>4, Replaced
<1>24. ASSUME NEW t \in Tasks, RangeRefused(t) PROVE TaskInv'
  BY <1>24 DEF RangeRefused, TaskInv
<1>25. ASSUME NEW t \in Tasks, CancelledWhisper(t) PROVE TaskInv'
  <2>1. task[t].m \in Models
    BY <1>25 DEF TaskInv, CancelledWhisper, At
  <2> QED BY <1>25, <2>1, TypeMoves DEF CancelledWhisper, Pcs, Results
<1>26. ASSUME NEW t \in Tasks, CancelledParakeet(t) PROVE TaskInv'
  <2>1. task[t].m \in Models
    BY <1>26 DEF TaskInv, CancelledParakeet, At
  <2> QED BY <1>26, <2>1, TypeMoves DEF CancelledParakeet, Pcs, Results
<1>27. ASSUME NEW t \in Tasks, CancelledSummary(t) PROVE TaskInv'
  <2>1. task[t].m \in Models
    BY <1>27 DEF TaskInv, CancelledSummary, At
  <2> QED BY <1>27, <2>1, TypeMoves DEF CancelledSummary, Pcs, Results
<1>28. ASSUME NEW t \in Tasks, Await(t) PROVE TaskInv'
  <2>1. task[t].m \in Models
    BY <1>28 DEF TaskInv, Await, At
  <2> QED BY <1>28, <2>1, TypeMoves DEF Await, Pcs, Results
<1>29. ASSUME NEW t \in Tasks, ReceiveWhisper(t) PROVE TaskInv'
  <2>1. task[t].m \in Models
    BY <1>29 DEF TaskInv, ReceiveWhisper, At
  <2> QED BY <1>29, <2>1, TypeMoves DEF ReceiveWhisper, Pcs, Results
<1>30. ASSUME NEW t \in Tasks, WriteWhisper(t) PROVE TaskInv'
  <2>1. task[t] \in Commands /\ task[t].m \in Models
    BY <1>30 DEF TaskInv, WriteWhisper, At
  <2> DEFINE off == task[t].off + 1
             rec == [task[t] EXCEPT !.off = off, !.pc = "recv"]
  <2>2. off \in 0..Full /\ "recv" \in Pcs
    BY <1>30, <2>1, FullAssumption DEF WriteWhisper, Write, Commands, Pcs
  <2>3. task' = [task EXCEPT ![t] = rec]
    BY <1>30 DEF WriteWhisper, Write
  <2> HIDE DEF off
  <2>7. rec \in Commands
    BY <2>1, <2>2 DEF Commands
  <2>8. rec.m \in Models
    BY <2>1, <2>2 DEF Commands
  <2> HIDE DEF rec
  <2> QED BY <2>7, <2>8, <2>3, Replaced
<1>31. ASSUME NEW t \in Tasks, Receive(t) PROVE TaskInv'
  <2>1. task[t] \in Commands /\ task[t].m \in Models
    BY <1>31 DEF TaskInv, Receive, At
  <2> DEFINE off == task[t].off + 1
             rec == [task[t] EXCEPT !.off = off, !.pc = "loop"]
  <2>2. off \in 0..Full /\ "loop" \in Pcs
    BY <1>31, <2>1, FullAssumption DEF Receive, Write, Commands, Pcs
  <2>3. task' = [task EXCEPT ![t] = rec]
    BY <1>31 DEF Receive, Write
  <2> HIDE DEF off
  <2>7. rec \in Commands
    BY <2>1, <2>2 DEF Commands
  <2>8. rec.m \in Models
    BY <2>1, <2>2 DEF Commands
  <2> HIDE DEF rec
  <2> QED BY <2>7, <2>8, <2>3, Replaced
<1>32. ASSUME NEW t \in Tasks, EndOfBody(t) PROVE TaskInv'
  <2>1. task[t].m \in Models
    BY <1>32 DEF TaskInv, EndOfBody, At
  <2> QED BY <1>32, <2>1, TypeMoves DEF EndOfBody, Pcs, Results
<1>33. ASSUME NEW t \in Tasks, BrokenWhisper(t) PROVE TaskInv'
  <2>1. task[t].m \in Models
    BY <1>33 DEF TaskInv, BrokenWhisper, At
  <2> QED BY <1>33, <2>1, TypeMoves DEF BrokenWhisper, Pcs, Results
<1>34. ASSUME NEW t \in Tasks, BrokenParakeet(t) PROVE TaskInv'
  <2>1. task[t].m \in Models
    BY <1>34 DEF TaskInv, BrokenParakeet, At
  <2> QED BY <1>34, <2>1, TypeMoves DEF BrokenParakeet, Pcs, Results
<1>35. ASSUME NEW t \in Tasks, Blame(t) PROVE TaskInv'
  <2>1. task[t].m \in Models
    BY <1>35 DEF TaskInv, Blame, At
  <2> QED BY <1>35, <2>1, TypeMoves DEF Blame, Pcs, Results
<1>36. ASSUME NEW t \in Tasks, BrokenSummary(t) PROVE TaskInv'
  <2>1. task[t].m \in Models
    BY <1>36 DEF TaskInv, BrokenSummary, At
  <2> QED BY <1>36, <2>1, TypeMoves DEF BrokenSummary, Pcs, Results
<1>37. ASSUME NEW t \in Tasks, WriteFailsSummary(t) PROVE TaskInv'
  <2>1. task[t].m \in Models
    BY <1>37 DEF TaskInv, WriteFailsSummary, At
  <2> QED BY <1>37, <2>1, TypeMoves DEF WriteFailsSummary, Pcs, Results
<1>38. ASSUME NEW t \in Tasks, FinishWhisper(t) PROVE TaskInv'
  <2>1. task[t].m \in Models
    BY <1>38 DEF TaskInv, FinishWhisper, At
  <2> QED BY <1>38, <2>1, TypeMoves DEF FinishWhisper, Pcs, Results
<1>39. ASSUME NEW t \in Tasks, FinishParakeet(t) PROVE TaskInv'
  <2>1. task[t].m \in Models
    BY <1>39 DEF TaskInv, FinishParakeet, At
  <2> QED BY <1>39, <2>1, TypeMoves DEF FinishParakeet, Pcs, Results
<1>40. ASSUME NEW t \in Tasks, FinishSummary(t) PROVE TaskInv'
  <2>1. task[t].m \in Models
    BY <1>40 DEF TaskInv, FinishSummary, At
  <2> QED BY <1>40, <2>1, TypeMoves DEF FinishSummary, Pcs, Results
<1>41. ASSUME NEW t \in Tasks, Validate(t) PROVE TaskInv'
  <2>1. task[t].m \in Models
    BY <1>41 DEF TaskInv, Validate, At
  <2> QED BY <1>41, <2>1, TypeMoves DEF Validate, Pcs, Results
<1>42. ASSUME NEW t \in Tasks, Delist(t) PROVE TaskInv'
  <2>1. task[t].m \in Models
    BY <1>42 DEF TaskInv, Delist, At
  <2> QED BY <1>42, <2>1, TypeMoves DEF Delist, Pcs, Results
<1>43. ASSUME NEW t \in Tasks, Unflag(t) PROVE TaskInv'
  <2>1. task[t].m \in Models
    BY <1>43 DEF TaskInv, Unflag, At
  <2> QED BY <1>43, <2>1, TypeMoves DEF Unflag, Pcs, Results
<1>44. CASE UNCHANGED vars
  BY <1>44 DEF vars, TaskInv
<1> QED
  BY <1>1, <1>2, <1>3, <1>4, <1>5, <1>6, <1>7, <1>8, <1>9, <1>10, <1>11, <1>12, <1>13,
     <1>14, <1>15, <1>16, <1>17, <1>18, <1>19, <1>20, <1>21, <1>22, <1>23, <1>24, <1>25,
     <1>26, <1>27, <1>28, <1>29, <1>30, <1>31, <1>32, <1>33, <1>34, <1>35, <1>36, <1>37,
     <1>38, <1>39, <1>40, <1>41, <1>42, <1>43, <1>44
  DEF Next, Step, Manage, Download

(* Every step keeps the types of the lists, the files and the cache.        *)
LEMMA StateStep ==
    TaskInv /\ StateInv /\ [Next]_vars => StateInv'
<1> SUFFICES ASSUME TaskInv, StateInv, [Next]_vars PROVE StateInv'
  OBVIOUS
<1> USE DEF At
<1>1. ASSUME NEW t \in Tasks, NEW m \in Models, WhisperCommand(t, m) PROVE StateInv'
  BY <1>1 DEF WhisperCommand, Begin, StateInv
<1>2. ASSUME NEW t \in Tasks, NEW m \in Models, ParakeetCommand(t, m) PROVE StateInv'
  BY <1>2 DEF ParakeetCommand, Begin, StateInv
<1>3. ASSUME NEW t \in Tasks, NEW m \in Models, ParakeetRetry(t, m) PROVE StateInv'
  BY <1>3 DEF ParakeetRetry, Begin, StateInv
<1>4. ASSUME NEW t \in Tasks, NEW m \in Models, SummaryCommand(t, m) PROVE StateInv'
  BY <1>4 DEF SummaryCommand, Begin, StateInv
<1>5. ASSUME NEW t \in Tasks, Look(t) PROVE StateInv'
  <2>1. task[t].m \in Models
    BY <1>5 DEF TaskInv, Look, At
  <2> QED BY <1>5, <2>1 DEF Look, StateInv, Status, Set, Unlist
<1>6. ASSUME NEW t \in Tasks, Publish(t) PROVE StateInv'
  BY <1>6 DEF Publish, StateInv, TaskInv, Commands
<1>7. ASSUME NEW t \in Tasks, RaiseFlag(t) PROVE StateInv'
  <2>1. task[t].m \in Models
    BY <1>7 DEF TaskInv, RaiseFlag, At
  <2> QED BY <1>7, <2>1 DEF RaiseFlag, StateInv, Status, Set, Unlist
<1>8. ASSUME NEW t \in Tasks, RemoveEntry(t) PROVE StateInv'
  <2>1. task[t].m \in Models
    BY <1>8 DEF TaskInv, RemoveEntry, At
  <2> QED BY <1>8, <2>1 DEF RemoveEntry, StateInv, Status, Set, Unlist
<1>9. ASSUME NEW t \in Tasks, Forget(t) PROVE StateInv'
  <2>1. task[t].m \in Models
    BY <1>9 DEF TaskInv, Forget, At
  <2> QED BY <1>9, <2>1 DEF Forget, StateInv, Status, Set, Unlist
<1>10. ASSUME NEW t \in Tasks, Sweep(t) PROVE StateInv'
  <2>1. task[t].m \in Models
    BY <1>10 DEF TaskInv, Sweep, At
  <2> QED BY <1>10, <2>1 DEF Sweep, StateInv, Status, Set, Unlist
<1>11. ASSUME NEW t \in Tasks, Pick(t) PROVE StateInv'
  <2>1. task[t].m \in Models
    BY <1>11 DEF TaskInv, Pick, At
  <2> QED BY <1>11, <2>1 DEF Pick, StateInv, Status, Set, Unlist
<1>12. ASSUME NEW t \in Tasks, Remove(t) PROVE StateInv'
  <2>1. task[t].m \in Models
    BY <1>12 DEF TaskInv, Remove, At
  <2> QED BY <1>12, <2>1 DEF Remove, StateInv, Status, Set, Unlist
<1>13. ASSUME NEW t \in Tasks, Check(t) PROVE StateInv'
  <2>1. task[t].m \in Models
    BY <1>13 DEF TaskInv, Check, At
  <2> QED BY <1>13, <2>1 DEF Check, StateInv, Status, Set, Unlist
<1>14. ASSUME NEW t \in Tasks, Admit(t) PROVE StateInv'
  <2>1. task[t].m \in Models
    BY <1>14 DEF TaskInv, Admit, At
  <2> QED BY <1>14, <2>1 DEF Admit, StateInv, Status, Set, Unlist
<1>15. ASSUME NEW t \in Tasks, ClearFlag(t) PROVE StateInv'
  <2>1. task[t].m \in Models
    BY <1>15 DEF TaskInv, ClearFlag, At
  <2> QED BY <1>15, <2>1 DEF ClearFlag, StateInv, Status, Set, Unlist
<1>16. ASSUME NEW t \in Tasks, MarkDownloading(t) PROVE StateInv'
  <2>1. task[t].m \in Models
    BY <1>16 DEF TaskInv, MarkDownloading, At
  <2> QED BY <1>16, <2>1 DEF MarkDownloading, StateInv, Status, Set, Unlist
<1>17. ASSUME NEW t \in Tasks, PrepareWhisper(t) PROVE StateInv'
  <2>1. task[t].m \in Models
    BY <1>17 DEF TaskInv, PrepareWhisper, At
  <2> QED BY <1>17, <2>1 DEF PrepareWhisper, StateInv, Status, Set, Unlist
<1>18. ASSUME NEW t \in Tasks, PrepareParakeet(t) PROVE StateInv'
  <2>1. task[t].m \in Models
    BY <1>18 DEF TaskInv, PrepareParakeet, At
  <2> QED BY <1>18, <2>1 DEF PrepareParakeet, StateInv, Status, Set, Unlist
<1>19. ASSUME NEW t \in Tasks, PrepareSummary(t) PROVE StateInv'
  <2>1. task[t].m \in Models
    BY <1>19 DEF TaskInv, PrepareSummary, At
  <2> QED BY <1>19, <2>1 DEF PrepareSummary, StateInv, Status, Set, Unlist
<1>20. ASSUME NEW t \in Tasks, RequestFails(t) PROVE StateInv'
  <2>1. task[t].m \in Models
    BY <1>20 DEF TaskInv, RequestFails, At
  <2> QED BY <1>20, <2>1 DEF RequestFails, StateInv, Status, Set, Unlist
<1>21. ASSUME NEW t \in Tasks, BadStatus(t) PROVE StateInv'
  <2>1. task[t].m \in Models
    BY <1>21 DEF TaskInv, BadStatus, At
  <2> QED BY <1>21, <2>1 DEF BadStatus, StateInv, Status, Set, Unlist
<1>22. ASSUME NEW t \in Tasks, Resume(t) PROVE StateInv'
  <2>1. task[t].m \in Models
    BY <1>22 DEF TaskInv, Resume, Stream, At
  <2> QED BY <1>22, <2>1 DEF Resume, Stream, StateInv, Status, Set, Unlist
<1>23. ASSUME NEW t \in Tasks, Fresh(t) PROVE StateInv'
  <2>1. task[t].m \in Models
    BY <1>23 DEF TaskInv, Fresh, At
  <2>2. (IF Exists(task[t].m) THEN file[task[t].m] ELSE t) \in Files
    BY <2>1, HeldFound DEF Files
  <2> QED BY <1>23, <2>1, <2>2 DEF Fresh, StateInv
<1>24. ASSUME NEW t \in Tasks, RangeRefused(t) PROVE StateInv'
  <2>1. task[t].m \in Models
    BY <1>24 DEF TaskInv, RangeRefused, At
  <2> QED BY <1>24, <2>1 DEF RangeRefused, StateInv, Status, Set, Unlist
<1>25. ASSUME NEW t \in Tasks, CancelledWhisper(t) PROVE StateInv'
  <2>1. task[t].m \in Models
    BY <1>25 DEF TaskInv, CancelledWhisper, At
  <2> QED BY <1>25, <2>1 DEF CancelledWhisper, StateInv, Status, Set, Unlist
<1>26. ASSUME NEW t \in Tasks, CancelledParakeet(t) PROVE StateInv'
  <2>1. task[t].m \in Models
    BY <1>26 DEF TaskInv, CancelledParakeet, At
  <2> QED BY <1>26, <2>1 DEF CancelledParakeet, StateInv, Status, Set, Unlist
<1>27. ASSUME NEW t \in Tasks, CancelledSummary(t) PROVE StateInv'
  <2>1. task[t].m \in Models
    BY <1>27 DEF TaskInv, CancelledSummary, At
  <2> QED BY <1>27, <2>1 DEF CancelledSummary, StateInv, Status, Set, Unlist
<1>28. ASSUME NEW t \in Tasks, Await(t) PROVE StateInv'
  <2>1. task[t].m \in Models
    BY <1>28 DEF TaskInv, Await, At
  <2> QED BY <1>28, <2>1 DEF Await, StateInv, Status, Set, Unlist
<1>29. ASSUME NEW t \in Tasks, ReceiveWhisper(t) PROVE StateInv'
  <2>1. task[t].m \in Models
    BY <1>29 DEF TaskInv, ReceiveWhisper, At
  <2> QED BY <1>29, <2>1 DEF ReceiveWhisper, StateInv, Status, Set, Unlist
<1>30. ASSUME NEW t \in Tasks, WriteWhisper(t) PROVE StateInv'
  <2>1. task[t].m \in Models /\ task[t].off \in Nat
    BY <1>30, FullAssumption DEF TaskInv, Commands, WriteWhisper, At
  <2> DEFINE f == task[t].f
             end == CASE task[t].append -> size[f] + 1
                      [] ~task[t].append /\ task[t].off >= size[f] -> task[t].off + 1
                      [] OTHER -> size[f]
  <2>2. size' \in [Files -> Nat]
    <3>1. size' = [size EXCEPT ![f] = end]
      BY <1>30 DEF WriteWhisper, Write
    <3>2. f \in Files => end \in Nat
      BY <2>1 DEF StateInv
    <3> HIDE DEF end, f
    <3> QED BY <3>1, <3>2 DEF StateInv
  <2>3. /\ Set(task[t].m, "downloading")
        /\ UNCHANGED <<flavour, active, cancelFlag, file, overlapped>>
    BY <1>30 DEF WriteWhisper, Write
  <2> QED BY <2>1, <2>2, <2>3 DEF StateInv, Set, Status
<1>31. ASSUME NEW t \in Tasks, Receive(t) PROVE StateInv'
  <2>1. task[t].m \in Models /\ task[t].off \in Nat
    BY <1>31, FullAssumption DEF TaskInv, Commands, Receive, At
  <2> DEFINE f == task[t].f
             end == CASE task[t].append -> size[f] + 1
                      [] ~task[t].append /\ task[t].off >= size[f] -> task[t].off + 1
                      [] OTHER -> size[f]
  <2>2. size' \in [Files -> Nat]
    <3>1. size' = [size EXCEPT ![f] = end]
      BY <1>31 DEF Receive, Write
    <3>2. f \in Files => end \in Nat
      BY <2>1 DEF StateInv
    <3> HIDE DEF end, f
    <3> QED BY <3>1, <3>2 DEF StateInv
  <2>3. /\ Set(task[t].m, "downloading")
        /\ UNCHANGED <<flavour, active, cancelFlag, file, overlapped>>
    BY <1>31 DEF Receive, Write
  <2> QED BY <2>1, <2>2, <2>3 DEF StateInv, Set, Status
<1>32. ASSUME NEW t \in Tasks, EndOfBody(t) PROVE StateInv'
  <2>1. task[t].m \in Models
    BY <1>32 DEF TaskInv, EndOfBody, At
  <2> QED BY <1>32, <2>1 DEF EndOfBody, StateInv, Status, Set, Unlist
<1>33. ASSUME NEW t \in Tasks, BrokenWhisper(t) PROVE StateInv'
  <2>1. task[t].m \in Models
    BY <1>33 DEF TaskInv, BrokenWhisper, At
  <2> QED BY <1>33, <2>1 DEF BrokenWhisper, StateInv, Status, Set, Unlist
<1>34. ASSUME NEW t \in Tasks, BrokenParakeet(t) PROVE StateInv'
  <2>1. task[t].m \in Models
    BY <1>34 DEF TaskInv, BrokenParakeet, At
  <2> QED BY <1>34, <2>1 DEF BrokenParakeet, StateInv, Status, Set, Unlist
<1>35. ASSUME NEW t \in Tasks, Blame(t) PROVE StateInv'
  <2>1. task[t].m \in Models
    BY <1>35 DEF TaskInv, Blame, At
  <2> QED BY <1>35, <2>1 DEF Blame, StateInv, Status, Set, Unlist
<1>36. ASSUME NEW t \in Tasks, BrokenSummary(t) PROVE StateInv'
  <2>1. task[t].m \in Models
    BY <1>36 DEF TaskInv, BrokenSummary, At
  <2> QED BY <1>36, <2>1 DEF BrokenSummary, StateInv, Status, Set, Unlist
<1>37. ASSUME NEW t \in Tasks, WriteFailsSummary(t) PROVE StateInv'
  <2>1. task[t].m \in Models
    BY <1>37 DEF TaskInv, WriteFailsSummary, At
  <2> QED BY <1>37, <2>1 DEF WriteFailsSummary, StateInv, Status, Set, Unlist
<1>38. ASSUME NEW t \in Tasks, FinishWhisper(t) PROVE StateInv'
  <2>1. task[t].m \in Models
    BY <1>38 DEF TaskInv, FinishWhisper, At
  <2> QED BY <1>38, <2>1 DEF FinishWhisper, StateInv, Status, Set, Unlist
<1>39. ASSUME NEW t \in Tasks, FinishParakeet(t) PROVE StateInv'
  <2>1. task[t].m \in Models
    BY <1>39 DEF TaskInv, FinishParakeet, At
  <2> QED BY <1>39, <2>1 DEF FinishParakeet, StateInv, Status, Set, Unlist
<1>40. ASSUME NEW t \in Tasks, FinishSummary(t) PROVE StateInv'
  <2>1. task[t].m \in Models
    BY <1>40 DEF TaskInv, FinishSummary, At
  <2> QED BY <1>40, <2>1 DEF FinishSummary, StateInv, Status, Set, Unlist
<1>41. ASSUME NEW t \in Tasks, Validate(t) PROVE StateInv'
  <2>1. task[t].m \in Models
    BY <1>41 DEF TaskInv, Validate, At
  <2> QED BY <1>41, <2>1 DEF Validate, StateInv, Status, Set, Unlist
<1>42. ASSUME NEW t \in Tasks, Delist(t) PROVE StateInv'
  <2>1. task[t].m \in Models
    BY <1>42 DEF TaskInv, Delist, At
  <2> QED BY <1>42, <2>1 DEF Delist, StateInv, Status, Set, Unlist
<1>43. ASSUME NEW t \in Tasks, Unflag(t) PROVE StateInv'
  <2>1. task[t].m \in Models
    BY <1>43 DEF TaskInv, Unflag, At
  <2> QED BY <1>43, <2>1 DEF Unflag, StateInv, Status, Set, Unlist
<1>44. CASE UNCHANGED vars
  BY <1>44 DEF vars, StateInv
<1> QED
  BY <1>1, <1>2, <1>3, <1>4, <1>5, <1>6, <1>7, <1>8, <1>9, <1>10, <1>11, <1>12, <1>13,
     <1>14, <1>15, <1>16, <1>17, <1>18, <1>19, <1>20, <1>21, <1>22, <1>23, <1>24, <1>25,
     <1>26, <1>27, <1>28, <1>29, <1>30, <1>31, <1>32, <1>33, <1>34, <1>35, <1>36, <1>37,
     <1>38, <1>39, <1>40, <1>41, <1>42, <1>43, <1>44
  DEF Next, Step, Manage, Download

(* Every step keeps the entries: a download goes on with its own, and who    *)
(* leaves takes no other's away.                                            *)
LEMMA EntryStep ==
    TaskInv /\ EntryInv /\ [Next]_vars => EntryInv'
<1> SUFFICES ASSUME TaskInv, EntryInv, [Next]_vars PROVE EntryInv'
  OBVIOUS
<1> USE DEF At
<1>1. ASSUME NEW t \in Tasks, NEW m \in Models, WhisperCommand(t, m) PROVE EntryInv'
  <2>1. Begins(t)
    BY <1>1 DEF WhisperCommand, Begin, Begins, Working, Keeps, TaskInv, Commands
  <2> QED BY <2>1, BeginsKeeps
<1>2. ASSUME NEW t \in Tasks, NEW m \in Models, ParakeetCommand(t, m) PROVE EntryInv'
  <2>1. Begins(t)
    BY <1>2 DEF ParakeetCommand, Begin, Begins, Working, Keeps, TaskInv, Commands
  <2> QED BY <2>1, BeginsKeeps
<1>3. ASSUME NEW t \in Tasks, NEW m \in Models, ParakeetRetry(t, m) PROVE EntryInv'
  <2>1. Begins(t)
    BY <1>3 DEF ParakeetRetry, Begin, Begins, Working, Keeps, TaskInv, Commands
  <2> QED BY <2>1, BeginsKeeps
<1>4. ASSUME NEW t \in Tasks, NEW m \in Models, SummaryCommand(t, m) PROVE EntryInv'
  <2>1. Begins(t)
    BY <1>4 DEF SummaryCommand, Begin, Begins, Working, Keeps, TaskInv, Commands
  <2> QED BY <2>1, BeginsKeeps
<1>5. ASSUME NEW t \in Tasks, Look(t) PROVE EntryInv'
  <2>1. task' = [task EXCEPT ![t] = [task[t] EXCEPT !.pc = "publish",
                                                    !.snap = [m \in Models |-> Found(m)]]]
    BY <1>5 DEF Look
  <2>2. task[t] \in Commands /\ task[t].pc = "scan" /\ UNCHANGED <<active, overlapped>>
    BY <1>5 DEF Look, TaskInv
  <2>3. GoesOn(t)
    BY <2>1, <2>2, Fields DEF TaskInv, GoesOn, Keeps, Working
  <2> QED BY <2>3, GoesOnKeeps
<1>6. ASSUME NEW t \in Tasks, Publish(t) PROVE EntryInv'
  <2>1. GoesOn(t)
    BY SMTT(30), <1>6, PlaceMoves DEF Publish, Commands, Keeps, TaskInv, GoesOn, Working, Results, Pcs
  <2> QED BY <2>1, GoesOnKeeps
<1>7. ASSUME NEW t \in Tasks, RaiseFlag(t) PROVE EntryInv'
  <2>1. GoesOn(t)
    BY <1>7, PlaceMoves DEF RaiseFlag, GoesOn, Working, Results, Pcs
  <2> QED BY <2>1, GoesOnKeeps
<1>8. ASSUME NEW t \in Tasks, RemoveEntry(t) PROVE EntryInv'
  <2>1. /\ Keeps(t) /\ task'[t].m = task[t].m /\ task'[t].pc = "forget"
    BY <1>8, PlaceMoves DEF RemoveEntry, Pcs
  <2>2. /\ active' = active \ {task[t].m} /\ overlapped \subseteq overlapped'
        /\ \A u \in Tasks : Running(u, task[t].m) => task[t].m \in overlapped'
    BY <1>8 DEF RemoveEntry, Unlist
  <2> QED BY <2>1, <2>2 DEF EntryInv, Keeps, Running, Working
<1>9. ASSUME NEW t \in Tasks, Forget(t) PROVE EntryInv'
  <2>1. GoesOn(t)
    BY <1>9, PlaceMoves DEF Forget, GoesOn, Working, Results, Pcs
  <2> QED BY <2>1, GoesOnKeeps
<1>10. ASSUME NEW t \in Tasks, Sweep(t) PROVE EntryInv'
  <2>1. GoesOn(t)
    BY <1>10, PlaceMoves DEF Sweep, GoesOn, Working, Results, Pcs
  <2> QED BY <2>1, GoesOnKeeps
<1>11. ASSUME NEW t \in Tasks, Pick(t) PROVE EntryInv'
  <2>1. GoesOn(t)
    BY <1>11, PlaceMoves DEF Pick, GoesOn, Working, Results, Pcs
  <2> QED BY <2>1, GoesOnKeeps
<1>12. ASSUME NEW t \in Tasks, Remove(t) PROVE EntryInv'
  <2>1. GoesOn(t)
    BY <1>12, PlaceMoves DEF Remove, GoesOn, Working, Results, Pcs
  <2> QED BY <2>1, GoesOnKeeps
<1>13. ASSUME NEW t \in Tasks, Check(t) PROVE EntryInv'
  <2>1. CASE task[t].m \in active
    <3>1. GoesOn(t)
      BY <1>13, <2>1, PlaceMoves DEF Check, GoesOn, Working, Results
    <3> QED BY <3>1, GoesOnKeeps
  <2>2. CASE task[t].m \notin active
    <3>1. /\ Keeps(t) /\ task'[t].m = task[t].m /\ task'[t].pc = "admit"
          /\ UNCHANGED <<active, overlapped>>
      BY <1>13, <2>2, PlaceMoves DEF Check, Pcs
    <3>2. \A u \in Tasks : ~Running(u, task[t].m) \/ task[t].m \in overlapped
      BY <1>13, <2>2 DEF Check, EntryInv, TaskInv
    <3> QED BY <3>1, <3>2 DEF EntryInv, Keeps, Running, Working
  <2> QED BY <2>1, <2>2
<1>14. ASSUME NEW t \in Tasks, Admit(t) PROVE EntryInv'
  <2>1. /\ Keeps(t) /\ task'[t].m = task[t].m /\ task'[t].pc = "clear" /\ task[t].pc = "admit"
    BY <1>14, PlaceMoves DEF Admit, Pcs
  <2>2. /\ active' = active \cup {task[t].m} /\ overlapped \subseteq overlapped'
        /\ \A u \in Tasks \ {t} : task[u].pc = "admit" /\ task[u].m = task[t].m
               => task[t].m \in overlapped'
    BY <1>14 DEF Admit
  <2>3. \A u \in Tasks \ {t} : task[u].m = task[t].m /\ task[t].m \in Models \ overlapped'
               => task[u].pc \notin Working \cup {"admit"}
    BY <2>1, <2>2 DEF EntryInv, Running
  <2> QED BY <2>1, <2>2, <2>3 DEF EntryInv, Keeps, Running, Working
<1>15. ASSUME NEW t \in Tasks, ClearFlag(t) PROVE EntryInv'
  <2>1. GoesOn(t)
    BY <1>15, PlaceMoves DEF ClearFlag, GoesOn, Working, Results, Pcs
  <2> QED BY <2>1, GoesOnKeeps
<1>16. ASSUME NEW t \in Tasks, MarkDownloading(t) PROVE EntryInv'
  <2>1. GoesOn(t)
    BY <1>16, PlaceMoves DEF MarkDownloading, GoesOn, Working, Results, Pcs
  <2> QED BY <2>1, GoesOnKeeps
<1>17. ASSUME NEW t \in Tasks, PrepareWhisper(t) PROVE EntryInv'
  <2>1. GoesOn(t)
    BY <1>17, PlaceMoves DEF PrepareWhisper, GoesOn, Working, Results, Pcs
  <2> QED BY <2>1, GoesOnKeeps
<1>18. ASSUME NEW t \in Tasks, PrepareParakeet(t) PROVE EntryInv'
  <2>1. GoesOn(t)
    BY <1>18, PlaceMoves DEF PrepareParakeet, GoesOn, Working, Results, Pcs
  <2> QED BY <2>1, GoesOnKeeps
<1>19. ASSUME NEW t \in Tasks, PrepareSummary(t) PROVE EntryInv'
  <2>1. GoesOn(t)
    BY <1>19, PlaceMoves DEF PrepareSummary, GoesOn, Working, Results, Pcs
  <2> QED BY <2>1, GoesOnKeeps
<1>20. ASSUME NEW t \in Tasks, RequestFails(t) PROVE EntryInv'
  <2>1. Leaves(t)
    BY <1>20, PlaceMoves DEF RequestFails, Leaves, Working, Results, Unlist, Pcs
  <2> QED BY <2>1, LeavesKeeps
<1>21. ASSUME NEW t \in Tasks, BadStatus(t) PROVE EntryInv'
  <2>1. Leaves(t)
    BY <1>21, PlaceMoves DEF BadStatus, Leaves, Working, Results, Unlist, Pcs
  <2> QED BY <2>1, LeavesKeeps
<1>22. ASSUME NEW t \in Tasks, Resume(t) PROVE EntryInv'
  <2> DEFINE pc == IF flavour = "whisper" THEN "recv" ELSE "loop"
             f == file[task[t].m]
             rec == [task[t] EXCEPT !.pc = pc, !.f = f, !.off = Held(task[t].m), !.append = TRUE]
  <2>1. task' = [task EXCEPT ![t] = rec]
    BY <1>22 DEF Resume, Stream
  <2>2. task[t] \in Commands /\ task[t].pc = "request" /\ UNCHANGED <<active, overlapped>>
    BY <1>22 DEF Resume, TaskInv
  <2> HIDE DEF f
  <2>3. GoesOn(t)
    BY <2>1, <2>2, Fields DEF TaskInv, GoesOn, Keeps, Working
  <2> QED BY <2>3, GoesOnKeeps
<1>23. ASSUME NEW t \in Tasks, Fresh(t) PROVE EntryInv'
  <2> DEFINE pc == IF flavour = "whisper" THEN "recv" ELSE "loop"
             f == IF Exists(task[t].m) THEN file[task[t].m] ELSE t
             rec == [task[t] EXCEPT !.pc = pc, !.f = f, !.off = 0, !.append = FALSE]
  <2>1. task' = [task EXCEPT ![t] = rec]
    BY <1>23 DEF Fresh, Stream
  <2>2. task[t] \in Commands /\ task[t].pc = "request" /\ UNCHANGED <<active, overlapped>>
    BY <1>23 DEF Fresh, TaskInv
  <2> HIDE DEF f
  <2>3. GoesOn(t)
    BY <2>1, <2>2, Fields DEF TaskInv, GoesOn, Keeps, Working
  <2> QED BY <2>3, GoesOnKeeps
<1>24. ASSUME NEW t \in Tasks, RangeRefused(t) PROVE EntryInv'
  <2>1. GoesOn(t)
    BY <1>24, PlaceMoves DEF RangeRefused, Keeps, GoesOn, Working, Results, Pcs
  <2> QED BY <2>1, GoesOnKeeps
<1>25. ASSUME NEW t \in Tasks, CancelledWhisper(t) PROVE EntryInv'
  <2>1. Leaves(t)
    BY <1>25, PlaceMoves DEF CancelledWhisper, Leaves, Working, Results, Unlist, Pcs
  <2> QED BY <2>1, LeavesKeeps
<1>26. ASSUME NEW t \in Tasks, CancelledParakeet(t) PROVE EntryInv'
  <2>1. Leaves(t)
    BY <1>26, PlaceMoves DEF CancelledParakeet, Leaves, Working, Results, Unlist, Pcs
  <2> QED BY <2>1, LeavesKeeps
<1>27. ASSUME NEW t \in Tasks, CancelledSummary(t) PROVE EntryInv'
  <2>1. Leaves(t)
    BY <1>27, PlaceMoves DEF CancelledSummary, Leaves, Working, Results, Unlist, Pcs
  <2> QED BY <2>1, LeavesKeeps
<1>28. ASSUME NEW t \in Tasks, Await(t) PROVE EntryInv'
  <2>1. GoesOn(t)
    BY <1>28, PlaceMoves DEF Await, GoesOn, Working, Results, Pcs
  <2> QED BY <2>1, GoesOnKeeps
<1>29. ASSUME NEW t \in Tasks, ReceiveWhisper(t) PROVE EntryInv'
  <2>1. GoesOn(t)
    BY <1>29, PlaceMoves DEF ReceiveWhisper, GoesOn, Working, Results, Pcs
  <2> QED BY <2>1, GoesOnKeeps
<1>30. ASSUME NEW t \in Tasks, WriteWhisper(t) PROVE EntryInv'
  <2>1. GoesOn(t)
    BY SMTT(30), <1>30, PlaceMoves
       DEF WriteWhisper, Write, Commands, Keeps, TaskInv, GoesOn, Working, Results, Pcs
  <2> QED BY <2>1, GoesOnKeeps
<1>31. ASSUME NEW t \in Tasks, Receive(t) PROVE EntryInv'
  <2>1. GoesOn(t)
    BY SMTT(30), <1>31, PlaceMoves
       DEF Receive, Write, Commands, Keeps, TaskInv, GoesOn, Working, Results, Pcs
  <2> QED BY <2>1, GoesOnKeeps
<1>32. ASSUME NEW t \in Tasks, EndOfBody(t) PROVE EntryInv'
  <2>1. GoesOn(t)
    BY <1>32, PlaceMoves DEF EndOfBody, GoesOn, Working, Results, Pcs
  <2> QED BY <2>1, GoesOnKeeps
<1>33. ASSUME NEW t \in Tasks, BrokenWhisper(t) PROVE EntryInv'
  <2>1. Leaves(t)
    BY <1>33, PlaceMoves DEF BrokenWhisper, Leaves, Working, Results, Unlist, Pcs
  <2> QED BY <2>1, LeavesKeeps
<1>34. ASSUME NEW t \in Tasks, BrokenParakeet(t) PROVE EntryInv'
  <2>1. Leaves(t)
    BY <1>34, PlaceMoves DEF BrokenParakeet, Leaves, Working, Results, Unlist, Pcs
  <2> QED BY <2>1, LeavesKeeps
<1>35. ASSUME NEW t \in Tasks, Blame(t) PROVE EntryInv'
  <2>1. GoesOn(t)
    BY <1>35, PlaceMoves DEF Blame, GoesOn, Working, Results, Pcs
  <2> QED BY <2>1, GoesOnKeeps
<1>36. ASSUME NEW t \in Tasks, BrokenSummary(t) PROVE EntryInv'
  <2>1. Leaves(t)
    BY <1>36, PlaceMoves DEF BrokenSummary, Leaves, Working, Results, Unlist, Pcs
  <2> QED BY <2>1, LeavesKeeps
<1>37. ASSUME NEW t \in Tasks, WriteFailsSummary(t) PROVE EntryInv'
  <2>1. Leaves(t)
    BY <1>37, PlaceMoves DEF WriteFailsSummary, Leaves, Working, Results, Unlist, Pcs
  <2> QED BY <2>1, LeavesKeeps
<1>38. ASSUME NEW t \in Tasks, FinishWhisper(t) PROVE EntryInv'
  <2>1. GoesOn(t)
    BY <1>38, PlaceMoves DEF FinishWhisper, GoesOn, Working, Results, Pcs
  <2> QED BY <2>1, GoesOnKeeps
<1>39. ASSUME NEW t \in Tasks, FinishParakeet(t) PROVE EntryInv'
  <2>1. GoesOn(t)
    BY <1>39, PlaceMoves DEF FinishParakeet, GoesOn, Working, Results, Pcs
  <2> QED BY <2>1, GoesOnKeeps
<1>40. ASSUME NEW t \in Tasks, FinishSummary(t) PROVE EntryInv'
  <2>1. GoesOn(t)
    BY <1>40, PlaceMoves DEF FinishSummary, GoesOn, Working, Results, Pcs
  <2> QED BY <2>1, GoesOnKeeps
<1>41. ASSUME NEW t \in Tasks, Validate(t) PROVE EntryInv'
  <2>1. CASE Held(task[t].m) > 0
    <3>1. GoesOn(t)
      BY <1>41, <2>1, PlaceMoves DEF Validate, GoesOn, Working, Pcs
    <3> QED BY <3>1, GoesOnKeeps
  <2>2. CASE ~(Held(task[t].m) > 0)
    <3>1. Leaves(t)
      BY <1>41, <2>2, PlaceMoves DEF Validate, Leaves, Working, Results, Unlist
    <3> QED BY <3>1, LeavesKeeps
  <2> QED BY <2>1, <2>2
<1>42. ASSUME NEW t \in Tasks, Delist(t) PROVE EntryInv'
  <2>1. Leaves(t)
    BY <1>42, PlaceMoves DEF Delist, Leaves, Working, Results, Unlist, Pcs
  <2> QED BY <2>1, LeavesKeeps
<1>43. ASSUME NEW t \in Tasks, Unflag(t) PROVE EntryInv'
  <2>1. GoesOn(t)
    BY <1>43, PlaceMoves DEF Unflag, GoesOn, Working, Results, Pcs
  <2> QED BY <2>1, GoesOnKeeps
<1>44. CASE UNCHANGED vars
  BY <1>44 DEF vars, EntryInv, Running
<1> QED
  BY <1>1, <1>2, <1>3, <1>4, <1>5, <1>6, <1>7, <1>8, <1>9, <1>10, <1>11, <1>12, <1>13,
     <1>14, <1>15, <1>16, <1>17, <1>18, <1>19, <1>20, <1>21, <1>22, <1>23, <1>24, <1>25,
     <1>26, <1>27, <1>28, <1>29, <1>30, <1>31, <1>32, <1>33, <1>34, <1>35, <1>36, <1>37,
     <1>38, <1>39, <1>40, <1>41, <1>42, <1>43, <1>44
  DEF Next, Step, Manage, Download

-----------------------------------------------------------------------------
(* What a step does to the record of its command, field by field: a command *)
(* that goes on changes its place only, one that ends forgets its writer.   *)
Moved(t, pc) ==
    /\ Keeps(t) /\ task'[t].pc = pc /\ task'[t].op = task[t].op /\ task'[t].m = task[t].m
    /\ task'[t].f = task[t].f /\ task'[t].off = task[t].off /\ task'[t].snap = task[t].snap
    /\ task'[t].res = task[t].res
Ended(t, res) ==
    /\ Keeps(t) /\ task'[t].pc = "done" /\ task'[t].op = task[t].op /\ task'[t].m = task[t].m
    /\ task'[t].res = res
Begun(t, m, op, pc) ==
    /\ Keeps(t) /\ task[t].pc = "idle" /\ task'[t].pc = pc /\ task'[t].op = op
    /\ task'[t].m = m /\ task'[t].res = task[t].res

(* Going on, ending and beginning, field by field.                          *)
LEMMA FieldMoves ==
    ASSUME TaskInv, NEW t \in Tasks
    PROVE  /\ \A pc \in Pcs : Goto(t, pc) => Moved(t, pc)
           /\ \A res \in Results : End(t, res) => Ended(t, res)
           /\ \A m \in Models, op \in Ops, pc \in Pcs : Begin(t, m, op, pc) => Begun(t, m, op, pc)
<1> USE DEF TaskInv, Commands
<1>1. ASSUME NEW pc \in Pcs, Goto(t, pc) PROVE Moved(t, pc)
  BY <1>1 DEF Goto, Moved, Keeps
<1>2. ASSUME NEW res \in Results, End(t, res) PROVE Ended(t, res)
  BY <1>2 DEF End, Idle, Ended, Keeps
<1>3. ASSUME NEW m \in Models, NEW op \in Ops, NEW pc \in Pcs, Begin(t, m, op, pc)
      PROVE  Begun(t, m, op, pc)
  BY <1>3 DEF Begin, Begun, Keeps, At
<1> QED BY <1>1, <1>2, <1>3

(* The five steps that change more of the record than that.                 *)
LEMMA LookMoves ==
    ASSUME TaskInv, NEW t \in Tasks, Look(t)
    PROVE  /\ Keeps(t) /\ task[t].pc = "scan" /\ task'[t].pc = "publish"
           /\ task'[t].op = task[t].op /\ task'[t].m = task[t].m /\ task'[t].res = task[t].res
           /\ task'[t].snap = [m \in Models |-> Found(m)]
BY DEF TaskInv, Commands, Look, At, Keeps

(* A scan that has published is at its end, or goes on to the download it   *)
(* was made for.                                                            *)
LEMMA PublishMoves ==
    ASSUME TaskInv, NEW t \in Tasks, Publish(t)
    PROVE  /\ Keeps(t) /\ task[t].pc = "publish" /\ task'[t].res = task[t].res
           /\ task'[t].pc = IF task[t].op = "scan" THEN "done" ELSE "check"
           /\ task'[t].op = task[t].op /\ task'[t].m = task[t].m
BY DEF TaskInv, Commands, Publish, At, Keeps

(* A download whose request has been answered becomes a writer.             *)
LEMMA StreamMoves ==
    ASSUME TaskInv, NEW t \in Tasks, NEW f, NEW off, NEW append, Stream(t, f, off, append)
    PROVE  /\ Keeps(t) /\ task'[t].pc \in {"recv", "loop"}
           /\ task'[t].op = task[t].op /\ task'[t].m = task[t].m /\ task'[t].res = task[t].res
           /\ task'[t].f = f /\ task'[t].off = off
BY DEF TaskInv, Commands, Stream, Keeps

(* A writer that has written a chunk stands one chunk further.              *)
LEMMA WriteMoves ==
    ASSUME TaskInv, NEW t \in Tasks, NEW pc \in {"recv", "loop"}, Write(t, pc)
    PROVE  /\ Keeps(t) /\ task'[t].pc = pc /\ task'[t].res = task[t].res
           /\ task'[t].op = task[t].op /\ task'[t].m = task[t].m
           /\ task'[t].f = task[t].f /\ task'[t].off = task[t].off + 1
BY DEF TaskInv, Commands, Write, Keeps

(* A model whose files no cancel, delete or retry and no Whisper scan has   *)
(* come near, and whose downloads the list has kept apart.                  *)
Clean(m) == m \notin overlapped /\ ~Touched(m)

(* What a command can be, by its place.                                     *)
OpInv ==
    \A t \in Tasks :
        /\ task[t].pc = "idle" => task[t].m = None
        /\ task[t].pc \in {"flag", "unlist", "forget", "sweep", "pick", "remove"}
              => task[t].op \in {"cancel", "delete", "retry"}
        /\ flavour = "whisper" /\ task[t].pc \in {"scan", "publish"} => task[t].op = "scan"
        /\ task[t].op = "retry" => flavour = "parakeet"
        /\ task[t].res = "leaked" => task[t].pc = "done"

(* A command keeps its kind and its model.                                  *)
Follows(t) ==
    /\ Keeps(t) /\ overlapped \subseteq overlapped' /\ flavour' = flavour
    /\ \/ task[t].pc = "idle"
       \/ /\ task[t].pc # "idle" /\ task'[t].pc # "idle"
          /\ task'[t].op = task[t].op /\ task'[t].m = task[t].m

(* So that a model which is clean after a step was clean before it.         *)
LEMMA CleanBefore ==
    ASSUME OpInv, NEW t \in Tasks, Follows(t), NEW m \in Models, Clean(m)'
    PROVE  Clean(m)
<1>1. \A u \in Tasks : task[u].pc # "idle" =>
          task'[u].pc # "idle" /\ task'[u].op = task[u].op /\ task'[u].m = task[u].m
  BY DEF Follows, Keeps
<1>2. m # None
  BY NoneAssumption
<1> QED BY <1>1, <1>2 DEF Follows, Clean, Touched, OpInv, At

(* Every step keeps what a command can be, and follows the one it was.      *)
LEMMA OpStep ==
    TaskInv /\ OpInv /\ [Next]_vars => OpInv' /\ (vars' = vars \/ \E t \in Tasks : Follows(t))
<1> SUFFICES ASSUME TaskInv, OpInv, [Next]_vars
             PROVE  OpInv' /\ (vars' = vars \/ \E t \in Tasks : Follows(t))
  OBVIOUS
<1> USE DEF At
<1>1. ASSUME NEW t \in Tasks, NEW m \in Models, WhisperCommand(t, m) PROVE OpInv' /\ Follows(t)
  <2>1. PICK pc \in {"check", "flag", "scan", "pick", "unlist"}, op \in Ops :
            /\ Begun(t, m, op, pc)
            /\ pc \in {"check", "scan"} \/ op \in {"cancel", "delete", "retry"}
            /\ op = "retry" => flavour = "parakeet"
            /\ flavour = "whisper" /\ pc = "scan" => op = "scan"
    BY <1>1, FieldMoves DEF WhisperCommand, Ops, Pcs
  <2>2. UNCHANGED <<flavour, overlapped>>
    BY <1>1 DEF WhisperCommand, Begin
  <2> QED BY <2>1, <2>2 DEF OpInv, Begun, Keeps, Follows
<1>2. ASSUME NEW t \in Tasks, NEW m \in Models, ParakeetCommand(t, m) PROVE OpInv' /\ Follows(t)
  <2>1. PICK pc \in {"check", "flag", "scan", "pick", "unlist"}, op \in Ops :
            /\ Begun(t, m, op, pc)
            /\ pc \in {"check", "scan"} \/ op \in {"cancel", "delete", "retry"}
            /\ op = "retry" => flavour = "parakeet"
            /\ flavour = "whisper" /\ pc = "scan" => op = "scan"
    BY <1>2, FieldMoves DEF ParakeetCommand, Ops, Pcs
  <2>2. UNCHANGED <<flavour, overlapped>>
    BY <1>2 DEF ParakeetCommand, Begin
  <2> QED BY <2>1, <2>2 DEF OpInv, Begun, Keeps, Follows
<1>3. ASSUME NEW t \in Tasks, NEW m \in Models, ParakeetRetry(t, m) PROVE OpInv' /\ Follows(t)
  <2>1. PICK pc \in {"check", "flag", "scan", "pick", "unlist"}, op \in Ops :
            /\ Begun(t, m, op, pc)
            /\ pc \in {"check", "scan"} \/ op \in {"cancel", "delete", "retry"}
            /\ op = "retry" => flavour = "parakeet"
            /\ flavour = "whisper" /\ pc = "scan" => op = "scan"
    BY <1>3, FieldMoves DEF ParakeetRetry, Ops, Pcs
  <2>2. UNCHANGED <<flavour, overlapped>>
    BY <1>3 DEF ParakeetRetry, Begin
  <2> QED BY <2>1, <2>2 DEF OpInv, Begun, Keeps, Follows
<1>4. ASSUME NEW t \in Tasks, NEW m \in Models, SummaryCommand(t, m) PROVE OpInv' /\ Follows(t)
  <2>1. PICK pc \in {"check", "flag", "scan", "pick", "unlist"}, op \in Ops :
            /\ Begun(t, m, op, pc)
            /\ pc \in {"check", "scan"} \/ op \in {"cancel", "delete", "retry"}
            /\ op = "retry" => flavour = "parakeet"
            /\ flavour = "whisper" /\ pc = "scan" => op = "scan"
    BY <1>4, FieldMoves DEF SummaryCommand, Ops, Pcs
  <2>2. UNCHANGED <<flavour, overlapped>>
    BY <1>4 DEF SummaryCommand, Begin
  <2> QED BY <2>1, <2>2 DEF OpInv, Begun, Keeps, Follows
<1>5. ASSUME NEW t \in Tasks, Look(t) PROVE OpInv' /\ Follows(t)
  <2>1. UNCHANGED <<flavour, overlapped>>
    BY <1>5 DEF Look
  <2>2. /\ Keeps(t) /\ task[t].pc = "scan" /\ task'[t].pc = "publish"
        /\ task'[t].op = task[t].op /\ task'[t].m = task[t].m /\ task'[t].res = task[t].res
    BY <1>5, LookMoves
  <2> QED BY <2>1, <2>2 DEF Keeps, Follows, OpInv
<1>6. ASSUME NEW t \in Tasks, Publish(t) PROVE OpInv' /\ Follows(t)
  <2>1. UNCHANGED <<flavour, overlapped>>
    BY <1>6 DEF Publish
  <2> QED BY <1>6, <2>1, PublishMoves DEF Keeps, Follows, OpInv
<1>7. ASSUME NEW t \in Tasks, RaiseFlag(t) PROVE OpInv' /\ Follows(t)
  BY <1>7, FieldMoves DEF RaiseFlag, Moved, Ended, Keeps, Follows, OpInv, Results, Pcs
<1>8. ASSUME NEW t \in Tasks, RemoveEntry(t) PROVE OpInv' /\ Follows(t)
  BY <1>8, FieldMoves DEF RemoveEntry, Moved, Ended, Keeps, Follows, OpInv, Results, Pcs
<1>9. ASSUME NEW t \in Tasks, Forget(t) PROVE OpInv' /\ Follows(t)
  BY <1>9, FieldMoves DEF Forget, Moved, Ended, Keeps, Follows, OpInv, Results, Pcs
<1>10. ASSUME NEW t \in Tasks, Sweep(t) PROVE OpInv' /\ Follows(t)
  BY <1>10, FieldMoves DEF Sweep, Moved, Ended, Keeps, Follows, OpInv, Results, Pcs
<1>11. ASSUME NEW t \in Tasks, Pick(t) PROVE OpInv' /\ Follows(t)
  BY <1>11, FieldMoves DEF Pick, Moved, Ended, Keeps, Follows, OpInv, Results, Pcs
<1>12. ASSUME NEW t \in Tasks, Remove(t) PROVE OpInv' /\ Follows(t)
  BY <1>12, FieldMoves DEF Remove, Moved, Ended, Keeps, Follows, OpInv, Results, Pcs
<1>13. ASSUME NEW t \in Tasks, Check(t) PROVE OpInv' /\ Follows(t)
  BY <1>13, FieldMoves DEF Check, Moved, Ended, Keeps, Follows, OpInv, Results, Pcs
<1>14. ASSUME NEW t \in Tasks, Admit(t) PROVE OpInv' /\ Follows(t)
  BY <1>14, FieldMoves DEF Admit, Moved, Ended, Keeps, Follows, OpInv, Results, Pcs
<1>15. ASSUME NEW t \in Tasks, ClearFlag(t) PROVE OpInv' /\ Follows(t)
  BY <1>15, FieldMoves DEF ClearFlag, Moved, Ended, Keeps, Follows, OpInv, Results, Pcs
<1>16. ASSUME NEW t \in Tasks, MarkDownloading(t) PROVE OpInv' /\ Follows(t)
  BY <1>16, FieldMoves DEF MarkDownloading, Moved, Ended, Keeps, Follows, OpInv, Results, Pcs
<1>17. ASSUME NEW t \in Tasks, PrepareWhisper(t) PROVE OpInv' /\ Follows(t)
  BY <1>17, FieldMoves DEF PrepareWhisper, Moved, Ended, Keeps, Follows, OpInv, Results, Pcs
<1>18. ASSUME NEW t \in Tasks, PrepareParakeet(t) PROVE OpInv' /\ Follows(t)
  BY <1>18, FieldMoves DEF PrepareParakeet, Moved, Ended, Keeps, Follows, OpInv, Results, Pcs
<1>19. ASSUME NEW t \in Tasks, PrepareSummary(t) PROVE OpInv' /\ Follows(t)
  BY <1>19, FieldMoves DEF PrepareSummary, Moved, Ended, Keeps, Follows, OpInv, Results, Pcs
<1>20. ASSUME NEW t \in Tasks, RequestFails(t) PROVE OpInv' /\ Follows(t)
  BY <1>20, FieldMoves DEF RequestFails, Moved, Ended, Keeps, Follows, OpInv, Results, Pcs
<1>21. ASSUME NEW t \in Tasks, BadStatus(t) PROVE OpInv' /\ Follows(t)
  BY <1>21, FieldMoves DEF BadStatus, Moved, Ended, Keeps, Follows, OpInv, Results, Pcs
<1>22. ASSUME NEW t \in Tasks, Resume(t) PROVE OpInv' /\ Follows(t)
  <2>1. PICK f, off, append : Stream(t, f, off, append)
    BY <1>22 DEF Resume
  <2>2. task[t].pc = "request" /\ UNCHANGED <<flavour, overlapped>>
    BY <1>22 DEF Resume, Write
  <2> QED BY <2>1, <2>2, StreamMoves DEF Keeps, Follows, OpInv
<1>23. ASSUME NEW t \in Tasks, Fresh(t) PROVE OpInv' /\ Follows(t)
  <2>1. PICK f, off, append : Stream(t, f, off, append)
    BY <1>23 DEF Fresh
  <2>2. task[t].pc = "request" /\ UNCHANGED <<flavour, overlapped>>
    BY <1>23 DEF Fresh, Write
  <2> QED BY <2>1, <2>2, StreamMoves DEF Keeps, Follows, OpInv
<1>24. ASSUME NEW t \in Tasks, RangeRefused(t) PROVE OpInv' /\ Follows(t)
  BY <1>24 DEF RangeRefused, Keeps, Follows, OpInv
<1>25. ASSUME NEW t \in Tasks, CancelledWhisper(t) PROVE OpInv' /\ Follows(t)
  BY <1>25, FieldMoves DEF CancelledWhisper, Moved, Ended, Keeps, Follows, OpInv, Results, Pcs
<1>26. ASSUME NEW t \in Tasks, CancelledParakeet(t) PROVE OpInv' /\ Follows(t)
  BY <1>26, FieldMoves DEF CancelledParakeet, Moved, Ended, Keeps, Follows, OpInv, Results, Pcs
<1>27. ASSUME NEW t \in Tasks, CancelledSummary(t) PROVE OpInv' /\ Follows(t)
  BY <1>27, FieldMoves DEF CancelledSummary, Moved, Ended, Keeps, Follows, OpInv, Results, Pcs
<1>28. ASSUME NEW t \in Tasks, Await(t) PROVE OpInv' /\ Follows(t)
  BY <1>28, FieldMoves DEF Await, Moved, Ended, Keeps, Follows, OpInv, Results, Pcs
<1>29. ASSUME NEW t \in Tasks, ReceiveWhisper(t) PROVE OpInv' /\ Follows(t)
  BY <1>29, FieldMoves DEF ReceiveWhisper, Moved, Ended, Keeps, Follows, OpInv, Results, Pcs
<1>30. ASSUME NEW t \in Tasks, WriteWhisper(t) PROVE OpInv' /\ Follows(t)
  <2>1. PICK pc \in {"recv", "loop"} : Write(t, pc)
    BY <1>30 DEF WriteWhisper
  <2>2. task[t].pc = "got" /\ UNCHANGED <<flavour, overlapped>>
    BY <1>30 DEF WriteWhisper, Write
  <2> QED BY <2>1, <2>2, WriteMoves DEF Keeps, Follows, OpInv
<1>31. ASSUME NEW t \in Tasks, Receive(t) PROVE OpInv' /\ Follows(t)
  <2>1. PICK pc \in {"recv", "loop"} : Write(t, pc)
    BY <1>31 DEF Receive
  <2>2. task[t].pc = "recv" /\ UNCHANGED <<flavour, overlapped>>
    BY <1>31 DEF Receive, Write
  <2> QED BY <2>1, <2>2, WriteMoves DEF Keeps, Follows, OpInv
<1>32. ASSUME NEW t \in Tasks, EndOfBody(t) PROVE OpInv' /\ Follows(t)
  BY <1>32, FieldMoves DEF EndOfBody, Moved, Ended, Keeps, Follows, OpInv, Results, Pcs
<1>33. ASSUME NEW t \in Tasks, BrokenWhisper(t) PROVE OpInv' /\ Follows(t)
  BY <1>33, FieldMoves DEF BrokenWhisper, Moved, Ended, Keeps, Follows, OpInv, Results, Pcs
<1>34. ASSUME NEW t \in Tasks, BrokenParakeet(t) PROVE OpInv' /\ Follows(t)
  BY <1>34, FieldMoves DEF BrokenParakeet, Moved, Ended, Keeps, Follows, OpInv, Results, Pcs
<1>35. ASSUME NEW t \in Tasks, Blame(t) PROVE OpInv' /\ Follows(t)
  BY <1>35, FieldMoves DEF Blame, Moved, Ended, Keeps, Follows, OpInv, Results, Pcs
<1>36. ASSUME NEW t \in Tasks, BrokenSummary(t) PROVE OpInv' /\ Follows(t)
  BY <1>36, FieldMoves DEF BrokenSummary, Moved, Ended, Keeps, Follows, OpInv, Results, Pcs
<1>37. ASSUME NEW t \in Tasks, WriteFailsSummary(t) PROVE OpInv' /\ Follows(t)
  BY <1>37, FieldMoves DEF WriteFailsSummary, Moved, Ended, Keeps, Follows, OpInv, Results, Pcs
<1>38. ASSUME NEW t \in Tasks, FinishWhisper(t) PROVE OpInv' /\ Follows(t)
  BY <1>38, FieldMoves DEF FinishWhisper, Moved, Ended, Keeps, Follows, OpInv, Results, Pcs
<1>39. ASSUME NEW t \in Tasks, FinishParakeet(t) PROVE OpInv' /\ Follows(t)
  BY <1>39, FieldMoves DEF FinishParakeet, Moved, Ended, Keeps, Follows, OpInv, Results, Pcs
<1>40. ASSUME NEW t \in Tasks, FinishSummary(t) PROVE OpInv' /\ Follows(t)
  BY <1>40, FieldMoves DEF FinishSummary, Moved, Ended, Keeps, Follows, OpInv, Results, Pcs
<1>41. ASSUME NEW t \in Tasks, Validate(t) PROVE OpInv' /\ Follows(t)
  BY <1>41, FieldMoves DEF Validate, Moved, Ended, Keeps, Follows, OpInv, Results, Pcs
<1>42. ASSUME NEW t \in Tasks, Delist(t) PROVE OpInv' /\ Follows(t)
  BY <1>42, FieldMoves DEF Delist, Moved, Ended, Keeps, Follows, OpInv, Results, Pcs
<1>43. ASSUME NEW t \in Tasks, Unflag(t) PROVE OpInv' /\ Follows(t)
  BY <1>43, FieldMoves DEF Unflag, Moved, Ended, Keeps, Follows, OpInv, Results, Pcs
<1>44. CASE UNCHANGED vars
  BY <1>44 DEF vars, OpInv
<1> QED
  BY <1>1, <1>2, <1>3, <1>4, <1>5, <1>6, <1>7, <1>8, <1>9, <1>10, <1>11, <1>12,
     <1>13, <1>14, <1>15, <1>16, <1>17, <1>18, <1>19, <1>20, <1>21, <1>22, <1>23,
     <1>24, <1>25, <1>26, <1>27, <1>28, <1>29, <1>30, <1>31, <1>32, <1>33, <1>34,
     <1>35, <1>36, <1>37, <1>38, <1>39, <1>40, <1>41, <1>42, <1>43, <1>44
  DEF Next, Step, Manage, Download

(* A model that is clean after a step was clean before it.                  *)
LEMMA OnlyDirtier ==
    ASSUME TaskInv, OpInv, [Next]_vars, NEW m \in Models, Clean(m)'
    PROVE  Clean(m)
<1>1. CASE vars' = vars
  BY <1>1 DEF vars, Clean, Touched, At
<1>2. CASE \E t \in Tasks : Follows(t)
  BY <1>2, CleanBefore
<1> QED BY <1>1, <1>2, OpStep

-----------------------------------------------------------------------------
(* Who accounts for an entry, and that nobody who does leaves without it.   *)
Accounts(t, m) == Running(t, m) \/ (task[t].m = m /\ task[t].res = "leaked")

(* Entries stay accounted for when each one that the acting command         *)
(* accounted for is gone or is still accounted for by it.                   *)
LEMMA AccountKept ==
    ASSUME EntriesAccountedFor, NEW t \in Tasks, Keeps(t),
           \A m \in active' : (m \in active /\ ~Accounts(t, m)) \/ Accounts(t, m)'
    PROVE  EntriesAccountedFor'
<1> SUFFICES ASSUME NEW m \in active'
             PROVE  \E u \in Tasks : Accounts(u, m)'
  BY DEF EntriesAccountedFor, Accounts
<1>1. CASE Accounts(t, m)'
  BY <1>1
<1>2. CASE m \in active /\ ~Accounts(t, m)
  <2>1. PICK u \in Tasks : Accounts(u, m)
    BY <1>2 DEF EntriesAccountedFor, Accounts
  <2>2. u # t /\ task'[u] = task[u]
    BY <1>2, <2>1 DEF Keeps
  <2>3. Accounts(u, m)'
    BY <2>1, <2>2 DEF Accounts, Running
  <2> QED BY <2>3
<1> QED BY <1>1, <1>2

(* Every step leaves each entry accounted for.                              *)
LEMMA AccountStep ==
    TaskInv /\ OpInv /\ EntriesAccountedFor /\ [Next]_vars => EntriesAccountedFor'
<1> SUFFICES ASSUME TaskInv, OpInv, EntriesAccountedFor, [Next]_vars PROVE EntriesAccountedFor'
  OBVIOUS
<1> USE DEF At
<1>1. ASSUME NEW t \in Tasks, NEW m \in Models, WhisperCommand(t, m) PROVE EntriesAccountedFor'
  <2>1. PICK pc \in {"check", "flag", "scan", "pick", "unlist"}, op \in Ops : Begun(t, m, op, pc)
    BY <1>1, FieldMoves DEF WhisperCommand, Ops, Pcs
  <2>2. UNCHANGED active
    BY <1>1 DEF WhisperCommand, Begin
  <2> QED BY <2>1, <2>2, AccountKept DEF OpInv, Begun, Accounts, Running, Working
<1>2. ASSUME NEW t \in Tasks, NEW m \in Models, ParakeetCommand(t, m) PROVE EntriesAccountedFor'
  <2>1. PICK pc \in {"check", "flag", "scan", "pick", "unlist"}, op \in Ops : Begun(t, m, op, pc)
    BY <1>2, FieldMoves DEF ParakeetCommand, Ops, Pcs
  <2>2. UNCHANGED active
    BY <1>2 DEF ParakeetCommand, Begin
  <2> QED BY <2>1, <2>2, AccountKept DEF OpInv, Begun, Accounts, Running, Working
<1>3. ASSUME NEW t \in Tasks, NEW m \in Models, ParakeetRetry(t, m) PROVE EntriesAccountedFor'
  <2>1. PICK pc \in {"check", "flag", "scan", "pick", "unlist"}, op \in Ops : Begun(t, m, op, pc)
    BY <1>3, FieldMoves DEF ParakeetRetry, Ops, Pcs
  <2>2. UNCHANGED active
    BY <1>3 DEF ParakeetRetry, Begin
  <2> QED BY <2>1, <2>2, AccountKept DEF OpInv, Begun, Accounts, Running, Working
<1>4. ASSUME NEW t \in Tasks, NEW m \in Models, SummaryCommand(t, m) PROVE EntriesAccountedFor'
  <2>1. PICK pc \in {"check", "flag", "scan", "pick", "unlist"}, op \in Ops : Begun(t, m, op, pc)
    BY <1>4, FieldMoves DEF SummaryCommand, Ops, Pcs
  <2>2. UNCHANGED active
    BY <1>4 DEF SummaryCommand, Begin
  <2> QED BY <2>1, <2>2, AccountKept DEF OpInv, Begun, Accounts, Running, Working
<1>5. ASSUME NEW t \in Tasks, Look(t) PROVE EntriesAccountedFor'
  <2>1. UNCHANGED active
    BY <1>5 DEF Look
  <2>2. /\ Keeps(t) /\ task[t].pc = "scan" /\ task'[t].pc = "publish"
        /\ task'[t].m = task[t].m /\ task'[t].res = task[t].res
    BY <1>5, LookMoves
  <2> QED BY <2>1, <2>2, AccountKept DEF OpInv, Accounts, Running, Working
<1>6. ASSUME NEW t \in Tasks, Publish(t) PROVE EntriesAccountedFor'
  <2>1. UNCHANGED active
    BY <1>6 DEF Publish
  <2> QED BY <1>6, <2>1, PublishMoves, AccountKept DEF OpInv, Accounts, Running, Working
<1>7. ASSUME NEW t \in Tasks, RaiseFlag(t) PROVE EntriesAccountedFor'
  BY <1>7, FieldMoves, AccountKept
  DEF RaiseFlag, Moved, Ended, OpInv, Accounts, Running, Working, Unlist, Results, Pcs
<1>8. ASSUME NEW t \in Tasks, RemoveEntry(t) PROVE EntriesAccountedFor'
  BY <1>8, FieldMoves, AccountKept
  DEF RemoveEntry, Moved, Ended, OpInv, Accounts, Running, Working, Unlist, Results, Pcs
<1>9. ASSUME NEW t \in Tasks, Forget(t) PROVE EntriesAccountedFor'
  BY <1>9, FieldMoves, AccountKept
  DEF Forget, Moved, Ended, OpInv, Accounts, Running, Working, Unlist, Results, Pcs
<1>10. ASSUME NEW t \in Tasks, Sweep(t) PROVE EntriesAccountedFor'
  BY <1>10, FieldMoves, AccountKept
  DEF Sweep, Moved, Ended, OpInv, Accounts, Running, Working, Unlist, Results, Pcs
<1>11. ASSUME NEW t \in Tasks, Pick(t) PROVE EntriesAccountedFor'
  BY <1>11, FieldMoves, AccountKept
  DEF Pick, Moved, Ended, OpInv, Accounts, Running, Working, Unlist, Results, Pcs
<1>12. ASSUME NEW t \in Tasks, Remove(t) PROVE EntriesAccountedFor'
  BY <1>12, FieldMoves, AccountKept
  DEF Remove, Moved, Ended, OpInv, Accounts, Running, Working, Unlist, Results, Pcs
<1>13. ASSUME NEW t \in Tasks, Check(t) PROVE EntriesAccountedFor'
  BY <1>13, FieldMoves, AccountKept
  DEF Check, Moved, Ended, OpInv, Accounts, Running, Working, Unlist, Results, Pcs
<1>14. ASSUME NEW t \in Tasks, Admit(t) PROVE EntriesAccountedFor'
  BY <1>14, FieldMoves, AccountKept
  DEF Admit, Moved, Ended, OpInv, Accounts, Running, Working, Unlist, Results, Pcs
<1>15. ASSUME NEW t \in Tasks, ClearFlag(t) PROVE EntriesAccountedFor'
  BY <1>15, FieldMoves, AccountKept
  DEF ClearFlag, Moved, Ended, OpInv, Accounts, Running, Working, Unlist, Results, Pcs
<1>16. ASSUME NEW t \in Tasks, MarkDownloading(t) PROVE EntriesAccountedFor'
  BY <1>16, FieldMoves, AccountKept
  DEF MarkDownloading, Moved, Ended, OpInv, Accounts, Running, Working, Unlist, Results, Pcs
<1>17. ASSUME NEW t \in Tasks, PrepareWhisper(t) PROVE EntriesAccountedFor'
  BY <1>17, FieldMoves, AccountKept
  DEF PrepareWhisper, Moved, Ended, OpInv, Accounts, Running, Working, Unlist, Results, Pcs
<1>18. ASSUME NEW t \in Tasks, PrepareParakeet(t) PROVE EntriesAccountedFor'
  BY <1>18, FieldMoves, AccountKept
  DEF PrepareParakeet, Moved, Ended, OpInv, Accounts, Running, Working, Unlist, Results, Pcs
<1>19. ASSUME NEW t \in Tasks, PrepareSummary(t) PROVE EntriesAccountedFor'
  BY <1>19, FieldMoves, AccountKept
  DEF PrepareSummary, Moved, Ended, OpInv, Accounts, Running, Working, Unlist, Results, Pcs
<1>20. ASSUME NEW t \in Tasks, RequestFails(t) PROVE EntriesAccountedFor'
  BY <1>20, FieldMoves, AccountKept
  DEF RequestFails, Moved, Ended, OpInv, Accounts, Running, Working, Unlist, Results, Pcs
<1>21. ASSUME NEW t \in Tasks, BadStatus(t) PROVE EntriesAccountedFor'
  BY <1>21, FieldMoves, AccountKept
  DEF BadStatus, Moved, Ended, OpInv, Accounts, Running, Working, Unlist, Results, Pcs
<1>22. ASSUME NEW t \in Tasks, Resume(t) PROVE EntriesAccountedFor'
  <2>1. PICK f, off, append : Stream(t, f, off, append)
    BY <1>22 DEF Resume
  <2>2. task[t].pc = "request" /\ UNCHANGED active
    BY <1>22 DEF Resume, Write
  <2> QED BY <2>1, <2>2, StreamMoves, AccountKept DEF OpInv, Accounts, Running, Working
<1>23. ASSUME NEW t \in Tasks, Fresh(t) PROVE EntriesAccountedFor'
  <2>1. PICK f, off, append : Stream(t, f, off, append)
    BY <1>23 DEF Fresh
  <2>2. task[t].pc = "request" /\ UNCHANGED active
    BY <1>23 DEF Fresh, Write
  <2> QED BY <2>1, <2>2, StreamMoves, AccountKept DEF OpInv, Accounts, Running, Working
<1>24. ASSUME NEW t \in Tasks, RangeRefused(t) PROVE EntriesAccountedFor'
  BY <1>24 DEF RangeRefused, EntriesAccountedFor, Running
<1>25. ASSUME NEW t \in Tasks, CancelledWhisper(t) PROVE EntriesAccountedFor'
  BY <1>25, FieldMoves, AccountKept
  DEF CancelledWhisper, Moved, Ended, OpInv, Accounts, Running, Working, Unlist, Results, Pcs
<1>26. ASSUME NEW t \in Tasks, CancelledParakeet(t) PROVE EntriesAccountedFor'
  BY <1>26, FieldMoves, AccountKept
  DEF CancelledParakeet, Moved, Ended, OpInv, Accounts, Running, Working, Unlist, Results, Pcs
<1>27. ASSUME NEW t \in Tasks, CancelledSummary(t) PROVE EntriesAccountedFor'
  BY <1>27, FieldMoves, AccountKept
  DEF CancelledSummary, Moved, Ended, OpInv, Accounts, Running, Working, Unlist, Results, Pcs
<1>28. ASSUME NEW t \in Tasks, Await(t) PROVE EntriesAccountedFor'
  BY <1>28, FieldMoves, AccountKept
  DEF Await, Moved, Ended, OpInv, Accounts, Running, Working, Unlist, Results, Pcs
<1>29. ASSUME NEW t \in Tasks, ReceiveWhisper(t) PROVE EntriesAccountedFor'
  BY <1>29, FieldMoves, AccountKept
  DEF ReceiveWhisper, Moved, Ended, OpInv, Accounts, Running, Working, Unlist, Results, Pcs
<1>30. ASSUME NEW t \in Tasks, WriteWhisper(t) PROVE EntriesAccountedFor'
  <2>1. PICK pc \in {"recv", "loop"} : Write(t, pc)
    BY <1>30 DEF WriteWhisper
  <2>2. task[t].pc = "got" /\ UNCHANGED active
    BY <1>30 DEF WriteWhisper, Write
  <2> QED BY <2>1, <2>2, WriteMoves, AccountKept DEF OpInv, Accounts, Running, Working
<1>31. ASSUME NEW t \in Tasks, Receive(t) PROVE EntriesAccountedFor'
  <2>1. PICK pc \in {"recv", "loop"} : Write(t, pc)
    BY <1>31 DEF Receive
  <2>2. task[t].pc = "recv" /\ UNCHANGED active
    BY <1>31 DEF Receive, Write
  <2> QED BY <2>1, <2>2, WriteMoves, AccountKept DEF OpInv, Accounts, Running, Working
<1>32. ASSUME NEW t \in Tasks, EndOfBody(t) PROVE EntriesAccountedFor'
  BY <1>32, FieldMoves, AccountKept
  DEF EndOfBody, Moved, Ended, OpInv, Accounts, Running, Working, Unlist, Results, Pcs
<1>33. ASSUME NEW t \in Tasks, BrokenWhisper(t) PROVE EntriesAccountedFor'
  BY <1>33, FieldMoves, AccountKept
  DEF BrokenWhisper, Moved, Ended, OpInv, Accounts, Running, Working, Unlist, Results, Pcs
<1>34. ASSUME NEW t \in Tasks, BrokenParakeet(t) PROVE EntriesAccountedFor'
  BY <1>34, FieldMoves, AccountKept
  DEF BrokenParakeet, Moved, Ended, OpInv, Accounts, Running, Working, Unlist, Results, Pcs
<1>35. ASSUME NEW t \in Tasks, Blame(t) PROVE EntriesAccountedFor'
  BY <1>35, FieldMoves, AccountKept
  DEF Blame, Moved, Ended, OpInv, Accounts, Running, Working, Unlist, Results, Pcs
<1>36. ASSUME NEW t \in Tasks, BrokenSummary(t) PROVE EntriesAccountedFor'
  BY <1>36, FieldMoves, AccountKept
  DEF BrokenSummary, Moved, Ended, OpInv, Accounts, Running, Working, Unlist, Results, Pcs
<1>37. ASSUME NEW t \in Tasks, WriteFailsSummary(t) PROVE EntriesAccountedFor'
  BY <1>37, FieldMoves, AccountKept
  DEF WriteFailsSummary, Moved, Ended, OpInv, Accounts, Running, Working, Unlist, Results, Pcs
<1>38. ASSUME NEW t \in Tasks, FinishWhisper(t) PROVE EntriesAccountedFor'
  BY <1>38, FieldMoves, AccountKept
  DEF FinishWhisper, Moved, Ended, OpInv, Accounts, Running, Working, Unlist, Results, Pcs
<1>39. ASSUME NEW t \in Tasks, FinishParakeet(t) PROVE EntriesAccountedFor'
  BY <1>39, FieldMoves, AccountKept
  DEF FinishParakeet, Moved, Ended, OpInv, Accounts, Running, Working, Unlist, Results, Pcs
<1>40. ASSUME NEW t \in Tasks, FinishSummary(t) PROVE EntriesAccountedFor'
  BY <1>40, FieldMoves, AccountKept
  DEF FinishSummary, Moved, Ended, OpInv, Accounts, Running, Working, Unlist, Results, Pcs
<1>41. ASSUME NEW t \in Tasks, Validate(t) PROVE EntriesAccountedFor'
  BY <1>41, FieldMoves, AccountKept
  DEF Validate, Moved, Ended, OpInv, Accounts, Running, Working, Unlist, Results, Pcs
<1>42. ASSUME NEW t \in Tasks, Delist(t) PROVE EntriesAccountedFor'
  BY <1>42, FieldMoves, AccountKept
  DEF Delist, Moved, Ended, OpInv, Accounts, Running, Working, Unlist, Results, Pcs
<1>43. ASSUME NEW t \in Tasks, Unflag(t) PROVE EntriesAccountedFor'
  BY <1>43, FieldMoves, AccountKept
  DEF Unflag, Moved, Ended, OpInv, Accounts, Running, Working, Unlist, Results, Pcs
<1>44. CASE UNCHANGED vars
  BY <1>44 DEF vars, EntriesAccountedFor, Running
<1> QED
  BY <1>1, <1>2, <1>3, <1>4, <1>5, <1>6, <1>7, <1>8, <1>9, <1>10, <1>11, <1>12,
     <1>13, <1>14, <1>15, <1>16, <1>17, <1>18, <1>19, <1>20, <1>21, <1>22, <1>23,
     <1>24, <1>25, <1>26, <1>27, <1>28, <1>29, <1>30, <1>31, <1>32, <1>33, <1>34,
     <1>35, <1>36, <1>37, <1>38, <1>39, <1>40, <1>41, <1>42, <1>43, <1>44
  DEF Next, Step, Manage, Download

-----------------------------------------------------------------------------
(* A file belongs to the model under whose path an earlier session left it, *)
(* or to the model of the command that created it; a writer writes to a     *)
(* file of its own model, also when the path does not lead to it any more.  *)
Writing == {"loop", "recv", "got"}
Belongs(f, m) == f = m \/ (f \in Tasks /\ task[f].m = m)
OwnInv ==
    /\ \A m \in Models : file[m] # None => Belongs(file[m], m)
    /\ \A t \in Tasks : task[t].pc \in Writing =>
          task[t].f \in Files /\ Belongs(task[t].f, task[t].m)

(* Files stay with their models when the acting command puts its own new    *)
(* file under its model's path, removes one, or begins to write to the file *)
(* its model's path leads to.                                               *)
LEMMA OwnKept ==
    ASSUME TaskInv, OwnInv, NEW t \in Tasks, Keeps(t),
           task'[t].m = task[t].m \/ task[t].m = None,
           \A m \in Models : file'[m] \in {None, file[m]} \/ (file'[m] = t /\ m = task'[t].m),
           task'[t].pc \in Writing =>
               /\ task'[t].m \in Models /\ task'[t].f \in Files
               /\ \/ task[t].pc \in Writing /\ task'[t].f = task[t].f /\ task'[t].m = task[t].m
                  \/ task'[t].f = t
                  \/ file[task'[t].m] # None /\ task'[t].f = file[task'[t].m]
    PROVE  OwnInv'
<1>1. \A f, m : m # None /\ Belongs(f, m) => (f = m \/ (f \in Tasks /\ task'[f].m = m))
  BY DEF Belongs, Keeps
<1>2. \A m \in Models : m # None
  BY NoneAssumption
<1>3. ASSUME NEW m \in Models, file'[m] # None
      PROVE  file'[m] = m \/ (file'[m] \in Tasks /\ task'[file'[m]].m = m)
  <2>1. CASE file'[m] = file[m]
    BY <1>3, <2>1, <1>1, <1>2 DEF OwnInv
  <2>2. CASE file'[m] = t /\ m = task'[t].m
    BY <2>2
  <2> QED BY <1>3, <2>1, <2>2
<1>4. ASSUME NEW u \in Tasks, task'[u].pc \in Writing, task'[u].m \in Models
      PROVE  /\ task'[u].f \in Files
             /\ \/ task'[u].f = task'[u].m
                \/ task'[u].f \in Tasks /\ task'[task'[u].f].m = task'[u].m
  <2>1. CASE u # t
    <3>1. task'[u] = task[u] /\ task[u].f \in Files /\ Belongs(task[u].f, task[u].m)
      BY <1>4, <2>1 DEF OwnInv, Keeps
    <3> QED BY <1>4, <3>1, <1>1, <1>2
  <2>2. CASE u = t
    <3>2. CASE task[t].pc \in Writing /\ task'[t].f = task[t].f /\ task'[t].m = task[t].m
      BY <1>4, <2>2, <3>2, <1>1, <1>2 DEF OwnInv
    <3>3. CASE task'[t].f = t
      BY <1>4, <2>2, <3>3
    <3>4. CASE file[task'[t].m] # None /\ task'[t].f = file[task'[t].m]
      BY <1>4, <2>2, <3>4, <1>1, <1>2 DEF OwnInv
    <3> QED BY <1>4, <2>2, <3>2, <3>3, <3>4
  <2> QED BY <2>1, <2>2
<1>5. \A u \in Tasks : task'[u].pc \in Writing => task'[u].m \in Models
  BY DEF TaskInv, Writing, Keeps
<1> QED BY <1>3, <1>4, <1>5 DEF OwnInv, Belongs

(* Every step leaves each file with its model.                              *)
LEMMA OwnStep ==
    TaskInv /\ StateInv /\ OpInv /\ OwnInv /\ [Next]_vars => OwnInv'
<1> SUFFICES ASSUME TaskInv, StateInv, OpInv, OwnInv, [Next]_vars PROVE OwnInv'
  OBVIOUS
<1> USE DEF At
<1>1. ASSUME NEW t \in Tasks, NEW m \in Models, WhisperCommand(t, m) PROVE OwnInv'
  <2>1. PICK pc \in {"check", "flag", "scan", "pick", "unlist"}, op \in Ops : Begun(t, m, op, pc)
    BY <1>1, FieldMoves DEF WhisperCommand, Ops, Pcs
  <2>2. UNCHANGED file
    BY <1>1 DEF WhisperCommand, Begin
  <2> QED BY <2>1, <2>2, OwnKept DEF OpInv, Begun, Writing
<1>2. ASSUME NEW t \in Tasks, NEW m \in Models, ParakeetCommand(t, m) PROVE OwnInv'
  <2>1. PICK pc \in {"check", "flag", "scan", "pick", "unlist"}, op \in Ops : Begun(t, m, op, pc)
    BY <1>2, FieldMoves DEF ParakeetCommand, Ops, Pcs
  <2>2. UNCHANGED file
    BY <1>2 DEF ParakeetCommand, Begin
  <2> QED BY <2>1, <2>2, OwnKept DEF OpInv, Begun, Writing
<1>3. ASSUME NEW t \in Tasks, NEW m \in Models, ParakeetRetry(t, m) PROVE OwnInv'
  <2>1. PICK pc \in {"check", "flag", "scan", "pick", "unlist"}, op \in Ops : Begun(t, m, op, pc)
    BY <1>3, FieldMoves DEF ParakeetRetry, Ops, Pcs
  <2>2. UNCHANGED file
    BY <1>3 DEF ParakeetRetry, Begin
  <2> QED BY <2>1, <2>2, OwnKept DEF OpInv, Begun, Writing
<1>4. ASSUME NEW t \in Tasks, NEW m \in Models, SummaryCommand(t, m) PROVE OwnInv'
  <2>1. PICK pc \in {"check", "flag", "scan", "pick", "unlist"}, op \in Ops : Begun(t, m, op, pc)
    BY <1>4, FieldMoves DEF SummaryCommand, Ops, Pcs
  <2>2. UNCHANGED file
    BY <1>4 DEF SummaryCommand, Begin
  <2> QED BY <2>1, <2>2, OwnKept DEF OpInv, Begun, Writing
<1>5. ASSUME NEW t \in Tasks, Look(t) PROVE OwnInv'
  <2>1. UNCHANGED file
    BY <1>5 DEF Look
  <2>2. Keeps(t) /\ task'[t].pc = "publish" /\ task'[t].m = task[t].m
    BY <1>5, LookMoves
  <2> QED BY <2>1, <2>2, OwnKept DEF Writing
<1>6. ASSUME NEW t \in Tasks, Publish(t) PROVE OwnInv'
  <2>1. UNCHANGED file
    BY <1>6 DEF Publish
  <2> QED BY <1>6, <2>1, PublishMoves, OwnKept DEF Writing
<1>7. ASSUME NEW t \in Tasks, RaiseFlag(t) PROVE OwnInv'
  BY <1>7, FieldMoves, OwnKept
  DEF RaiseFlag, Moved, Ended, TaskInv, OwnInv, Writing, Results, Pcs
<1>8. ASSUME NEW t \in Tasks, RemoveEntry(t) PROVE OwnInv'
  BY <1>8, FieldMoves, OwnKept
  DEF RemoveEntry, Moved, Ended, TaskInv, OwnInv, Writing, Results, Pcs
<1>9. ASSUME NEW t \in Tasks, Forget(t) PROVE OwnInv'
  BY <1>9, FieldMoves, OwnKept
  DEF Forget, Moved, Ended, TaskInv, OwnInv, Writing, Results, Pcs
<1>10. ASSUME NEW t \in Tasks, Sweep(t) PROVE OwnInv'
  <2>1. \A m \in Models : file'[m] \in {None, file[m]}
    BY <1>10 DEF Sweep, StateInv
  <2>2. Keeps(t) /\ task'[t].m = task[t].m /\ task'[t].pc \notin Writing
    BY <1>10, FieldMoves DEF Sweep, Moved, Ended, Writing, Results, Pcs
  <2> QED BY <2>1, <2>2, OwnKept
<1>11. ASSUME NEW t \in Tasks, Pick(t) PROVE OwnInv'
  BY <1>11, FieldMoves, OwnKept
  DEF Pick, Moved, Ended, TaskInv, OwnInv, Writing, Results, Pcs
<1>12. ASSUME NEW t \in Tasks, Remove(t) PROVE OwnInv'
  <2>1. \A m \in Models : file'[m] \in {None, file[m]}
    BY <1>12 DEF Remove, StateInv
  <2>2. Keeps(t) /\ task'[t].m = task[t].m /\ task'[t].pc \notin Writing
    BY <1>12, FieldMoves DEF Remove, Moved, Ended, Writing, Results, Pcs
  <2> QED BY <2>1, <2>2, OwnKept
<1>13. ASSUME NEW t \in Tasks, Check(t) PROVE OwnInv'
  BY <1>13, FieldMoves, OwnKept
  DEF Check, Moved, Ended, TaskInv, OwnInv, Writing, Results, Pcs
<1>14. ASSUME NEW t \in Tasks, Admit(t) PROVE OwnInv'
  BY <1>14, FieldMoves, OwnKept
  DEF Admit, Moved, Ended, TaskInv, OwnInv, Writing, Results, Pcs
<1>15. ASSUME NEW t \in Tasks, ClearFlag(t) PROVE OwnInv'
  BY <1>15, FieldMoves, OwnKept
  DEF ClearFlag, Moved, Ended, TaskInv, OwnInv, Writing, Results, Pcs
<1>16. ASSUME NEW t \in Tasks, MarkDownloading(t) PROVE OwnInv'
  BY <1>16, FieldMoves, OwnKept
  DEF MarkDownloading, Moved, Ended, TaskInv, OwnInv, Writing, Results, Pcs
<1>17. ASSUME NEW t \in Tasks, PrepareWhisper(t) PROVE OwnInv'
  BY <1>17, FieldMoves, OwnKept
  DEF PrepareWhisper, Moved, Ended, TaskInv, OwnInv, Writing, Results, Pcs
<1>18. ASSUME NEW t \in Tasks, PrepareParakeet(t) PROVE OwnInv'
  <2>1. \A m \in Models : file'[m] \in {None, file[m]}
    BY <1>18 DEF PrepareParakeet, StateInv
  <2>2. Keeps(t) /\ task'[t].m = task[t].m /\ task'[t].pc \notin Writing
    BY <1>18, FieldMoves DEF PrepareParakeet, Moved, Ended, Writing, Results, Pcs
  <2> QED BY <2>1, <2>2, OwnKept
<1>19. ASSUME NEW t \in Tasks, PrepareSummary(t) PROVE OwnInv'
  <2>1. \A m \in Models : file'[m] \in {None, file[m]}
    BY <1>19 DEF PrepareSummary, StateInv
  <2>2. Keeps(t) /\ task'[t].m = task[t].m /\ task'[t].pc \notin Writing
    BY <1>19, FieldMoves DEF PrepareSummary, Moved, Ended, Writing, Results, Pcs
  <2> QED BY <2>1, <2>2, OwnKept
<1>20. ASSUME NEW t \in Tasks, RequestFails(t) PROVE OwnInv'
  BY <1>20, FieldMoves, OwnKept
  DEF RequestFails, Moved, Ended, TaskInv, OwnInv, Writing, Results, Pcs
<1>21. ASSUME NEW t \in Tasks, BadStatus(t) PROVE OwnInv'
  BY <1>21, FieldMoves, OwnKept
  DEF BadStatus, Moved, Ended, TaskInv, OwnInv, Writing, Results, Pcs
<1>22. ASSUME NEW t \in Tasks, Resume(t) PROVE OwnInv'
  <2>1. PICK off : Stream(t, file[task[t].m], off, TRUE)
    BY <1>22 DEF Resume
  <2>2. Keeps(t) /\ task'[t].m = task[t].m /\ task'[t].f = file[task[t].m]
    BY <2>1, StreamMoves
  <2>3. /\ task[t].m \in Models /\ UNCHANGED file
        /\ file[task[t].m] # None /\ file[task[t].m] \in Files
    BY <1>22 DEF Resume, TaskInv, StateInv, Held, Exists
  <2> QED BY <2>2, <2>3, OwnKept
<1>23. ASSUME NEW t \in Tasks, Fresh(t) PROVE OwnInv'
  <2> DEFINE m == task[t].m
             f == IF Exists(m) THEN file[m] ELSE t
  <2>1. m \in Models /\ file' = [file EXCEPT ![m] = f] /\ Stream(t, f, 0, FALSE)
    BY <1>23 DEF Fresh, TaskInv
  <2>2. f \in Files /\ (f = t \/ (file[m] # None /\ f = file[m]))
    BY <2>1 DEF Exists, Files, StateInv
  <2> HIDE DEF f
  <2>3. Keeps(t) /\ task'[t].m = m /\ task'[t].f = f
    BY <2>1, StreamMoves
  <2>4. \A n \in Models : file'[n] \in {None, file[n]} \/ (file'[n] = t /\ n = m)
    BY <2>1, <2>2 DEF StateInv
  <2> QED BY <2>1, <2>2, <2>3, <2>4, OwnKept
<1>24. ASSUME NEW t \in Tasks, RangeRefused(t) PROVE OwnInv'
  <2>1. Keeps(t) /\ task' = task /\ \A m \in Models : file'[m] \in {None, file[m]}
    BY <1>24 DEF RangeRefused, Keeps, StateInv
  <2>2. task[t].pc = "request"
    BY <1>24 DEF RangeRefused
  <2> QED BY <2>1, <2>2, OwnKept DEF Writing
<1>25. ASSUME NEW t \in Tasks, CancelledWhisper(t) PROVE OwnInv'
  BY <1>25, FieldMoves, OwnKept
  DEF CancelledWhisper, Moved, Ended, TaskInv, OwnInv, Writing, Results, Pcs
<1>26. ASSUME NEW t \in Tasks, CancelledParakeet(t) PROVE OwnInv'
  BY <1>26, FieldMoves, OwnKept
  DEF CancelledParakeet, Moved, Ended, TaskInv, OwnInv, Writing, Results, Pcs
<1>27. ASSUME NEW t \in Tasks, CancelledSummary(t) PROVE OwnInv'
  BY <1>27, FieldMoves, OwnKept
  DEF CancelledSummary, Moved, Ended, TaskInv, OwnInv, Writing, Results, Pcs
<1>28. ASSUME NEW t \in Tasks, Await(t) PROVE OwnInv'
  BY <1>28, FieldMoves, OwnKept
  DEF Await, Moved, Ended, TaskInv, OwnInv, Writing, Results, Pcs
<1>29. ASSUME NEW t \in Tasks, ReceiveWhisper(t) PROVE OwnInv'
  BY <1>29, FieldMoves, OwnKept
  DEF ReceiveWhisper, Moved, Ended, TaskInv, OwnInv, Writing, Results, Pcs
<1>30. ASSUME NEW t \in Tasks, WriteWhisper(t) PROVE OwnInv'
  <2>1. PICK pc \in {"recv", "loop"} : Write(t, pc)
    BY <1>30 DEF WriteWhisper
  <2>2. task[t].pc = "got" /\ UNCHANGED file
    BY <1>30 DEF WriteWhisper, Write
  <2> QED BY <2>1, <2>2, WriteMoves, OwnKept DEF TaskInv, Commands, OwnInv, Writing
<1>31. ASSUME NEW t \in Tasks, Receive(t) PROVE OwnInv'
  <2>1. PICK pc \in {"recv", "loop"} : Write(t, pc)
    BY <1>31 DEF Receive
  <2>2. task[t].pc = "recv" /\ UNCHANGED file
    BY <1>31 DEF Receive, Write
  <2> QED BY <2>1, <2>2, WriteMoves, OwnKept DEF TaskInv, Commands, OwnInv, Writing
<1>32. ASSUME NEW t \in Tasks, EndOfBody(t) PROVE OwnInv'
  BY <1>32, FieldMoves, OwnKept
  DEF EndOfBody, Moved, Ended, TaskInv, OwnInv, Writing, Results, Pcs
<1>33. ASSUME NEW t \in Tasks, BrokenWhisper(t) PROVE OwnInv'
  BY <1>33, FieldMoves, OwnKept
  DEF BrokenWhisper, Moved, Ended, TaskInv, OwnInv, Writing, Results, Pcs
<1>34. ASSUME NEW t \in Tasks, BrokenParakeet(t) PROVE OwnInv'
  BY <1>34, FieldMoves, OwnKept
  DEF BrokenParakeet, Moved, Ended, TaskInv, OwnInv, Writing, Results, Pcs
<1>35. ASSUME NEW t \in Tasks, Blame(t) PROVE OwnInv'
  BY <1>35, FieldMoves, OwnKept
  DEF Blame, Moved, Ended, TaskInv, OwnInv, Writing, Results, Pcs
<1>36. ASSUME NEW t \in Tasks, BrokenSummary(t) PROVE OwnInv'
  BY <1>36, FieldMoves, OwnKept
  DEF BrokenSummary, Moved, Ended, TaskInv, OwnInv, Writing, Results, Pcs
<1>37. ASSUME NEW t \in Tasks, WriteFailsSummary(t) PROVE OwnInv'
  BY <1>37, FieldMoves, OwnKept
  DEF WriteFailsSummary, Moved, Ended, TaskInv, OwnInv, Writing, Results, Pcs
<1>38. ASSUME NEW t \in Tasks, FinishWhisper(t) PROVE OwnInv'
  BY <1>38, FieldMoves, OwnKept
  DEF FinishWhisper, Moved, Ended, TaskInv, OwnInv, Writing, Results, Pcs
<1>39. ASSUME NEW t \in Tasks, FinishParakeet(t) PROVE OwnInv'
  BY <1>39, FieldMoves, OwnKept
  DEF FinishParakeet, Moved, Ended, TaskInv, OwnInv, Writing, Results, Pcs
<1>40. ASSUME NEW t \in Tasks, FinishSummary(t) PROVE OwnInv'
  BY <1>40, FieldMoves, OwnKept
  DEF FinishSummary, Moved, Ended, TaskInv, OwnInv, Writing, Results, Pcs
<1>41. ASSUME NEW t \in Tasks, Validate(t) PROVE OwnInv'
  <2>1. \A m \in Models : file'[m] \in {None, file[m]}
    BY <1>41 DEF Validate, StateInv
  <2>2. Keeps(t) /\ task'[t].m = task[t].m /\ task'[t].pc \notin Writing
    BY <1>41, FieldMoves DEF Validate, Moved, Ended, Writing, Results, Pcs
  <2> QED BY <2>1, <2>2, OwnKept
<1>42. ASSUME NEW t \in Tasks, Delist(t) PROVE OwnInv'
  BY <1>42, FieldMoves, OwnKept
  DEF Delist, Moved, Ended, TaskInv, OwnInv, Writing, Results, Pcs
<1>43. ASSUME NEW t \in Tasks, Unflag(t) PROVE OwnInv'
  BY <1>43, FieldMoves, OwnKept
  DEF Unflag, Moved, Ended, TaskInv, OwnInv, Writing, Results, Pcs
<1>44. CASE UNCHANGED vars
  BY <1>44 DEF vars, OwnInv, Belongs
<1> QED
  BY <1>1, <1>2, <1>3, <1>4, <1>5, <1>6, <1>7, <1>8, <1>9, <1>10, <1>11, <1>12,
     <1>13, <1>14, <1>15, <1>16, <1>17, <1>18, <1>19, <1>20, <1>21, <1>22, <1>23,
     <1>24, <1>25, <1>26, <1>27, <1>28, <1>29, <1>30, <1>31, <1>32, <1>33, <1>34,
     <1>35, <1>36, <1>37, <1>38, <1>39, <1>40, <1>41, <1>42, <1>43, <1>44
  DEF Next, Step, Manage, Download

-----------------------------------------------------------------------------
(* The copy of a clean model: what the path leads to is what its only       *)
(* writer writes, as far as it has come; a place behind the end of the body *)
(* is only reached with a complete copy; and neither the cache nor a scan   *)
(* that has yet to publish calls a copy complete which is about to be       *)
(* replaced.                                                                *)
CopyOf(m) ==
    /\ Held(m) <= Full
    /\ status[m] = "available" => Enough(Held(m))
    /\ \A u \in Tasks : task[u].pc = "publish" /\ task[u].snap[m] = "available" => Enough(Held(m))
    /\ \A t \in Tasks : Running(t, m) =>
        /\ task[t].pc \in Writing => file[m] = task[t].f /\ Held(m) = task[t].off
        /\ task[t].pc \in {"finish", "validate", "delist"} => Enough(Held(m))
        /\ task[t].pc = "request" /\ flavour = "summary" => ~Enough(Held(m))
        /\ task[t].pc \in {"prepare", "request"} /\ flavour # "summary" => status[m] # "available"
        /\ flavour = "parakeet" =>
              \A u \in Tasks : task[u].pc = "publish" => task[u].snap[m] # "available"
CopyInv == \A m \in Models : Clean(m) => CopyOf(m)

(* What is held of a model depends on the files only.                       *)
LEMMA HeldKept ==
    ASSUME UNCHANGED <<file, size>>, NEW m \in Models
    PROVE  Held(m)' = Held(m)
BY DEF Held, Exists

(* What clean means for the commands of a model.                            *)
LEMMA CleanCommands ==
    ASSUME OpInv, EntryInv, NEW m \in Models, Clean(m)
    PROVE  /\ m \notin overlapped /\ m # None
           /\ \A u \in Tasks : task[u].m = m =>
                  /\ task[u].op \notin {"cancel", "delete", "retry"}
                  /\ task[u].pc \notin {"idle", "flag", "unlist", "forget", "sweep", "pick",
                                        "remove"}
           /\ flavour = "whisper" => \A u \in Tasks : task[u].pc \notin {"scan", "publish"}
           /\ \A u \in Tasks : Running(u, m) =>
                  /\ m \in active
                  /\ \A v \in Tasks \ {u} :
                        task[v].m = m => task[v].pc \notin Working \cup {"admit"}
BY NoneAssumption DEF Clean, Touched, OpInv, EntryInv, At

(* A look that finds a clean model available has seen a complete copy, and  *)
(* Parakeet's has seen no entry.                                            *)
LEMMA FoundAvailable ==
    ASSUME CopyInv, NEW m \in Models, Clean(m), Found(m) = "available"
    PROVE  Enough(Held(m)) /\ (flavour = "parakeet" => m \notin active)
<1>1. CASE flavour = "whisper"
  BY <1>1 DEF Found, FoundByWhisper
<1>2. CASE flavour = "parakeet"
  BY <1>2 DEF Found, FoundByParakeet
<1>3. CASE flavour \notin {"whisper", "parakeet"}
  BY <1>3 DEF Found, FoundBySummary, CopyInv, CopyOf
<1> QED BY <1>1, <1>2, <1>3

(* Every step keeps the copies of clean models.                             *)
LEMMA CopyStep ==
    TaskInv /\ StateInv /\ EntryInv /\ OpInv /\ OwnInv /\ CopyInv /\ [Next]_vars => CopyInv'
<1> SUFFICES ASSUME TaskInv, StateInv, EntryInv, OpInv, OwnInv, CopyInv, [Next]_vars,
                    NEW m \in Models, Clean(m)'
             PROVE  CopyOf(m)'
  BY DEF CopyInv
<1>0. CopyOf(m) /\ Clean(m)
  BY OnlyDirtier DEF CopyInv
<1>45. /\ m # None
       /\ \A u \in Tasks : task[u].m = m =>
              task[u].pc \notin {"idle", "flag", "unlist", "forget", "sweep", "pick", "remove"}
       /\ flavour = "whisper" => \A u \in Tasks : task[u].pc \notin {"scan", "publish"}
       /\ \A u \in Tasks : Running(u, m) =>
              /\ m \in active
              /\ \A v \in Tasks \ {u} : task[v].m = m => task[v].pc \notin Working \cup {"admit"}
  BY <1>0, CleanCommands
<1> USE DEF At
<1>1. ASSUME NEW t \in Tasks, NEW n \in Models, WhisperCommand(t, n) PROVE CopyOf(m)'
  <2>1. PICK pc \in {"check", "flag", "scan", "pick", "unlist"}, op \in Ops : Begun(t, n, op, pc)
    BY <1>1, FieldMoves DEF WhisperCommand, Ops, Pcs
  <2>2. UNCHANGED <<flavour, status, file, size>>
    BY <1>1 DEF WhisperCommand, Begin
  <2> QED BY <1>0, <2>1, <2>2, HeldKept
             DEF Begun, Enough, CopyOf, Running, Working, Writing, Keeps
<1>2. ASSUME NEW t \in Tasks, NEW n \in Models, ParakeetCommand(t, n) PROVE CopyOf(m)'
  <2>1. PICK pc \in {"check", "flag", "scan", "pick", "unlist"}, op \in Ops : Begun(t, n, op, pc)
    BY <1>2, FieldMoves DEF ParakeetCommand, Ops, Pcs
  <2>2. UNCHANGED <<flavour, status, file, size>>
    BY <1>2 DEF ParakeetCommand, Begin
  <2> QED BY <1>0, <2>1, <2>2, HeldKept
             DEF Begun, Enough, CopyOf, Running, Working, Writing, Keeps
<1>3. ASSUME NEW t \in Tasks, NEW n \in Models, ParakeetRetry(t, n) PROVE CopyOf(m)'
  <2>1. PICK pc \in {"check", "flag", "scan", "pick", "unlist"}, op \in Ops : Begun(t, n, op, pc)
    BY <1>3, FieldMoves DEF ParakeetRetry, Ops, Pcs
  <2>2. UNCHANGED <<flavour, status, file, size>>
    BY <1>3 DEF ParakeetRetry, Begin
  <2> QED BY <1>0, <2>1, <2>2, HeldKept
             DEF Begun, Enough, CopyOf, Running, Working, Writing, Keeps
<1>4. ASSUME NEW t \in Tasks, NEW n \in Models, SummaryCommand(t, n) PROVE CopyOf(m)'
  <2>1. PICK pc \in {"check", "flag", "scan", "pick", "unlist"}, op \in Ops : Begun(t, n, op, pc)
    BY <1>4, FieldMoves DEF SummaryCommand, Ops, Pcs
  <2>2. UNCHANGED <<flavour, status, file, size>>
    BY <1>4 DEF SummaryCommand, Begin
  <2> QED BY <1>0, <2>1, <2>2, HeldKept
             DEF Begun, Enough, CopyOf, Running, Working, Writing, Keeps
<1>5. ASSUME NEW t \in Tasks, Look(t) PROVE CopyOf(m)'
  <2>1. UNCHANGED <<flavour, status, file, size>>
    BY <1>5 DEF Look
  <2>2. /\ Keeps(t) /\ task[t].pc = "scan" /\ task'[t].pc = "publish"
        /\ task'[t].m = task[t].m /\ task'[t].snap[m] = Found(m)
    BY <1>5, LookMoves
  <2>3. \A u \in Tasks : Running(u, m)' => Running(u, m) /\ task'[u] = task[u]
    BY <2>2 DEF Running, Working, Keeps
  <2>4. \A u \in Tasks : task'[u].pc = "publish" /\ task'[u].snap[m] = "available" =>
            /\ Enough(Held(m))
            /\ flavour = "parakeet" => \A v \in Tasks : ~Running(v, m)
    BY <1>0, <1>45, <2>2, FoundAvailable DEF CopyOf, Keeps
  <2> QED BY <1>0, <2>1, <2>2, <2>3, <2>4, HeldKept DEF CopyOf, Enough
<1>6. ASSUME NEW t \in Tasks, Publish(t) PROVE CopyOf(m)'
  <2>1. UNCHANGED <<flavour, file, size>> /\ status' = task[t].snap
    BY <1>6 DEF Publish
  <2>2. /\ Keeps(t) /\ task[t].pc = "publish" /\ task'[t].pc \in {"done", "check"}
        /\ task'[t].m = task[t].m
    BY <1>6, PublishMoves
  <2>3. \A u \in Tasks : Running(u, m)' => Running(u, m) /\ task'[u] = task[u]
    BY <2>2 DEF Running, Working, Keeps
  <2>4. \A u \in Tasks : task'[u].pc = "publish" => task[u].pc = "publish" /\ task'[u] = task[u]
    BY <2>2 DEF Keeps
  <2>5. flavour # "whisper"
    BY <1>45, <2>2
  <2>6. flavour \in {"parakeet", "summary"}
    BY <2>5, FlavourAssumption DEF StateInv
  <2> QED BY <1>0, <2>1, <2>2, <2>3, <2>4, <2>6, HeldKept DEF CopyOf, Enough
<1>7. ASSUME NEW t \in Tasks, RaiseFlag(t) PROVE CopyOf(m)'
  <2>1. UNCHANGED <<flavour, file, size, status>>
    BY <1>7 DEF RaiseFlag
  <2> QED BY <1>0, <1>45, <1>7, <2>1, FieldMoves, HeldKept
    DEF RaiseFlag, Moved, Ended, Enough, Set, StateInv, Results, Pcs, CopyOf, Running,
        Working, Writing, Keeps
<1>8. ASSUME NEW t \in Tasks, RemoveEntry(t) PROVE CopyOf(m)'
  <2>1. UNCHANGED <<flavour, file, size, status>>
    BY <1>8 DEF RemoveEntry
  <2> QED BY <1>0, <1>45, <1>8, <2>1, FieldMoves, HeldKept
    DEF RemoveEntry, Moved, Ended, Enough, Set, StateInv, Results, Pcs, CopyOf, Running,
        Working, Writing, Keeps
<1>9. ASSUME NEW t \in Tasks, Forget(t) PROVE CopyOf(m)'
  <2>1. UNCHANGED <<flavour, file, size>>
    BY <1>9 DEF Forget
  <2> QED BY <1>0, <1>45, <1>9, <2>1, FieldMoves, HeldKept
    DEF Forget, Moved, Ended, Enough, Set, StateInv, Results, Pcs, CopyOf, Running, Working,
        Writing, Keeps
<1>10. ASSUME NEW t \in Tasks, Sweep(t) PROVE CopyOf(m)'
  <2>1. task[t].m # m /\ Keeps(t) /\ task'[t].m = task[t].m /\ task'[t].pc \in {"done", "forget"}
    BY <1>45, <1>10, FieldMoves DEF Sweep, Moved, Ended, Results, Pcs
  <2>2. file'[m] = file[m] /\ UNCHANGED <<flavour, status, size>>
    BY <2>1, <1>10 DEF Sweep, StateInv
  <2>3. Held(m)' = Held(m)
    BY <2>2 DEF Held, Exists
  <2> QED BY <1>0, <2>1, <2>2, <2>3 DEF CopyOf, Enough, Keeps, Running
<1>11. ASSUME NEW t \in Tasks, Pick(t) PROVE CopyOf(m)'
  <2>1. UNCHANGED <<flavour, file, size, status>>
    BY <1>11 DEF Pick
  <2> QED BY <1>0, <1>45, <1>11, <2>1, FieldMoves, HeldKept
    DEF Pick, Moved, Ended, Enough, Set, StateInv, Results, Pcs, CopyOf, Running, Working,
        Writing, Keeps
<1>12. ASSUME NEW t \in Tasks, Remove(t) PROVE CopyOf(m)'
  <2>1. task[t].m # m /\ Keeps(t) /\ task'[t].m = task[t].m /\ task'[t].pc \in {"done", "forget"}
    BY <1>45, <1>12, FieldMoves DEF Remove, Moved, Ended, Results, Pcs
  <2>2. file'[m] = file[m] /\ UNCHANGED <<flavour, status, size>>
    BY <2>1, <1>12 DEF Remove, StateInv
  <2>3. Held(m)' = Held(m)
    BY <2>2 DEF Held, Exists
  <2> QED BY <1>0, <2>1, <2>2, <2>3 DEF CopyOf, Enough, Keeps, Running
<1>13. ASSUME NEW t \in Tasks, Check(t) PROVE CopyOf(m)'
  <2>1. UNCHANGED <<flavour, file, size, status>>
    BY <1>13 DEF Check
  <2> QED BY <1>0, <1>45, <1>13, <2>1, FieldMoves, HeldKept
    DEF Check, Moved, Ended, Enough, Set, StateInv, Results, Pcs, CopyOf, Running, Working,
        Writing, Keeps
<1>14. ASSUME NEW t \in Tasks, Admit(t) PROVE CopyOf(m)'
  <2>1. UNCHANGED <<flavour, file, size, status>>
    BY <1>14 DEF Admit
  <2> QED BY <1>0, <1>45, <1>14, <2>1, FieldMoves, HeldKept
    DEF Admit, Moved, Ended, Enough, Set, StateInv, Results, Pcs, CopyOf, Running, Working,
        Writing, Keeps, ListFree
<1>15. ASSUME NEW t \in Tasks, ClearFlag(t) PROVE CopyOf(m)'
  <2>1. UNCHANGED <<flavour, file, size, status>>
    BY <1>15 DEF ClearFlag
  <2> QED BY <1>0, <1>45, <1>15, <2>1, FieldMoves, HeldKept
    DEF ClearFlag, Moved, Ended, Enough, Set, StateInv, Results, Pcs, CopyOf, Running,
        Working, Writing, Keeps
<1>16. ASSUME NEW t \in Tasks, MarkDownloading(t) PROVE CopyOf(m)'
  <2>1. UNCHANGED <<flavour, file, size>>
    BY <1>16 DEF MarkDownloading
  <2> QED BY <1>0, <1>45, <1>16, <2>1, FieldMoves, HeldKept
    DEF MarkDownloading, Moved, Ended, Enough, Set, StateInv, Results, Pcs, CopyOf, Running,
        Working, Writing, Keeps
<1>17. ASSUME NEW t \in Tasks, PrepareWhisper(t) PROVE CopyOf(m)'
  <2>1. UNCHANGED <<flavour, file, size, status>>
    BY <1>17 DEF PrepareWhisper
  <2> QED BY <1>0, <1>45, <1>17, <2>1, FieldMoves, HeldKept
    DEF PrepareWhisper, Moved, Ended, Enough, Set, StateInv, Results, Pcs, CopyOf, Running,
        Working, Writing, Keeps
<1>18. ASSUME NEW t \in Tasks, PrepareParakeet(t) PROVE CopyOf(m)'
  <2>1. /\ Keeps(t) /\ task[t].pc = "prepare" /\ task'[t].m = task[t].m /\ task[t].m \in Models
        /\ task'[t].pc = (IF Held(task[t].m) >= Full THEN "finish" ELSE "request")
        /\ flavour = "parakeet" /\ UNCHANGED <<flavour, status, size>>
    BY <1>18, FieldMoves DEF PrepareParakeet, Moved, Pcs, TaskInv
  <2>2. CASE task[t].m = m
    <3>1. Running(t, m) /\ \A u \in Tasks \ {t} : ~Running(u, m)'
      BY <1>45, <2>1, <2>2 DEF Running, Working, Keeps
    <3>2. /\ status[m] # "available"
          /\ \A u \in Tasks : task'[u].pc = "publish" => task'[u].snap[m] # "available"
      BY <1>0, <2>1, <3>1 DEF CopyOf, Keeps
    <3>3. CASE Enough(Held(m))
      <4>1. Held(m)' = Held(m)
        BY <1>18, <2>2, <3>3, HeldKept DEF PrepareParakeet
      <4> QED BY <1>0, <2>1, <2>2, <3>1, <3>2, <3>3, <4>1 DEF CopyOf, Enough, Writing
    <3>4. CASE ~Enough(Held(m))
      <4>1. Held(m)' = 0
        BY <1>18, <2>2, <3>4 DEF PrepareParakeet, Held, Exists, StateInv
      <4>2. task'[t].pc = "request"
        BY <2>1, <2>2, <3>4, FullAssumption, HeldFound DEF Enough
      <4> QED BY <2>1, <3>1, <3>2, <4>1, <4>2, FullAssumption DEF CopyOf, Writing
    <3> QED BY <3>3, <3>4
  <2>3. CASE task[t].m # m
    <3>1. file'[m] = file[m]
      BY <1>18, <2>1, <2>3 DEF PrepareParakeet, StateInv
    <3>2. Held(m)' = Held(m)
      BY <2>1, <3>1 DEF Held, Exists
    <3> QED BY <1>0, <2>1, <2>3, <3>1, <3>2 DEF CopyOf, Enough, Keeps, Running
  <2> QED BY <2>2, <2>3
<1>19. ASSUME NEW t \in Tasks, PrepareSummary(t) PROVE CopyOf(m)'
  <2> DEFINE n == task[t].m
             valid == Exists(n) /\ Enough(Held(n)) /\ Held(n) <= Full
  <2>1. /\ Keeps(t) /\ task[t].pc = "prepare" /\ task'[t].m = n /\ n \in Models
        /\ task'[t].pc = (IF valid THEN "delist" ELSE "request")
        /\ flavour = "summary" /\ UNCHANGED <<flavour, size>>
    BY <1>19, FieldMoves DEF PrepareSummary, Moved, Pcs, TaskInv
  <2>2. /\ file' = IF Held(n) > Full THEN [file EXCEPT ![n] = None] ELSE file
        /\ status' = IF valid THEN [status EXCEPT ![n] = "available"] ELSE status
    BY <1>19 DEF PrepareSummary, Set
  <2>3. CASE n = m
    <3>1. Running(t, m) /\ \A u \in Tasks \ {t} : ~Running(u, m)'
      BY <1>45, <2>1, <2>3 DEF Running, Working, Keeps
    <3>2. Held(m) <= Full /\ Held(m) \in Nat
      BY <1>0, HeldFound DEF CopyOf
    <3>3. Held(m)' = Held(m)
      BY <2>1, <2>2, <2>3, <3>2, FullAssumption, HeldKept
    <3>4. valid <=> Enough(Held(m))
      BY <2>3, <3>2, FullAssumption DEF Held, Enough
    <3>5. status'[m] = "available" => Enough(Held(m))
      BY <1>0, <2>2, <2>3, <3>4 DEF CopyOf
    <3> HIDE DEF valid
    <3>6. \A u \in Tasks : task'[u].pc = "publish" => task[u].pc = "publish" /\ task'[u] = task[u]
      BY <2>1 DEF Keeps
    <3> QED BY <1>0, <2>1, <2>3, <3>1, <3>2, <3>3, <3>4, <3>5, <3>6 DEF CopyOf, Enough, Writing
  <2>4. CASE n # m
    <3>1. file'[m] = file[m] /\ status'[m] = status[m]
      BY <2>1, <2>2, <2>4 DEF StateInv
    <3>2. Held(m)' = Held(m)
      BY <2>1, <3>1 DEF Held, Exists
    <3> HIDE DEF valid
    <3> QED BY <1>0, <2>1, <2>4, <3>1, <3>2 DEF CopyOf, Enough, Keeps, Running
  <2> QED BY <2>3, <2>4
<1>20. ASSUME NEW t \in Tasks, RequestFails(t) PROVE CopyOf(m)'
  <2>1. UNCHANGED <<flavour, file, size, status>>
    BY <1>20 DEF RequestFails
  <2> QED BY <1>0, <1>45, <1>20, <2>1, FieldMoves, HeldKept
    DEF RequestFails, Moved, Ended, Enough, Set, StateInv, Results, Pcs, CopyOf, Running,
        Working, Writing, Keeps
<1>21. ASSUME NEW t \in Tasks, BadStatus(t) PROVE CopyOf(m)'
  <2>1. UNCHANGED <<flavour, file, size, status>>
    BY <1>21 DEF BadStatus
  <2> QED BY <1>0, <1>45, <1>21, <2>1, FieldMoves, HeldKept
    DEF BadStatus, Moved, Ended, Enough, Set, StateInv, Results, Pcs, CopyOf, Running,
        Working, Writing, Keeps
<1>22. ASSUME NEW t \in Tasks, Resume(t) PROVE CopyOf(m)'
  <2>1. PICK f, off : f = file[task[t].m] /\ off = Held(task[t].m) /\ Stream(t, f, off, TRUE)
    BY <1>22 DEF Resume, Stream
  <2>2. /\ task[t].pc = "request" /\ off < Full /\ UNCHANGED <<flavour, status, file, size>>
    BY <1>22, <2>1 DEF Resume
  <2>3. /\ Keeps(t) /\ task'[t].pc \in {"recv", "loop"}
        /\ task'[t].m = task[t].m /\ task'[t].f = f /\ task'[t].off = off
    BY <2>1, StreamMoves
  <2> QED BY <1>0, <2>1, <2>2, <2>3, HeldKept
             DEF CopyOf, Enough, Keeps, Running, Working, Writing
<1>23. ASSUME NEW t \in Tasks, Fresh(t) PROVE CopyOf(m)'
  <2> DEFINE n == task[t].m
  <2>0. PICK f, off, append :
            f = (IF Exists(n) THEN file[n] ELSE t) /\ off = 0 /\ Stream(t, f, off, append)
    BY <1>23 DEF Fresh, Stream
  <2>1. /\ n \in Models /\ file' = [file EXCEPT ![n] = f] /\ size' = [size EXCEPT ![f] = 0]
        /\ task[t].pc = "request" /\ UNCHANGED <<flavour, status>>
    BY <1>23, <2>0 DEF Fresh, TaskInv
  <2>2. f \in Files /\ Belongs(f, n)
    BY <2>0, <2>1 DEF Exists, OwnInv, StateInv, Belongs, Files
  <2>3. /\ Keeps(t) /\ task'[t].pc \in {"recv", "loop"}
        /\ task'[t].m = n /\ task'[t].f = f /\ task'[t].off = 0
    BY <2>0, StreamMoves
  <2>4. CASE n = m
    <3>1. file'[m] = f /\ Held(m)' = 0
      BY <2>1, <2>2, <2>4 DEF Held, Exists, StateInv
    <3>2. Running(t, m) /\ \A u \in Tasks \ {t} : ~Running(u, m)'
      BY <1>45, <2>1, <2>3, <2>4 DEF Running, Working, Keeps
    <3>3. flavour # "summary" => status[m] # "available"
      BY <1>0, <2>1, <3>2 DEF CopyOf
    <3>4. flavour = "summary" => status[m] # "available"
      BY <1>0, <2>1, <3>2 DEF CopyOf
    <3>5. \A u \in Tasks : task'[u].pc = "publish" => task'[u].snap[m] # "available"
      <4>1. \A u \in Tasks : task'[u].pc = "publish" => task[u].pc = "publish" /\ task'[u] = task[u]
        BY <2>3 DEF Keeps
      <4>2. flavour \in {"parakeet", "summary", "whisper"}
        BY FlavourAssumption DEF StateInv
      <4> QED BY <1>0, <1>45, <2>1, <3>2, <4>1, <4>2 DEF CopyOf
    <3> QED BY <2>1, <2>3, <3>1, <3>2, <3>3, <3>4, <3>5, FullAssumption DEF CopyOf, Writing
  <2>5. CASE n # m
    <3>1. file'[m] = file[m] /\ file[m] # f
      BY <2>1, <2>2, <2>5, NoneAssumption DEF OwnInv, Belongs, StateInv, Files
    <3>2. Held(m)' = Held(m)
      BY <2>1, <2>2, <3>1 DEF Held, Exists, StateInv
    <3> QED BY <1>0, <2>1, <2>3, <2>5, <3>1, <3>2 DEF CopyOf, Enough, Keeps, Running
  <2> QED BY <2>4, <2>5
<1>24. ASSUME NEW t \in Tasks, RangeRefused(t) PROVE CopyOf(m)'
  <2> DEFINE n == task[t].m
  <2>1. /\ n \in Models /\ file' = [file EXCEPT ![n] = None] /\ task[t].pc = "request"
        /\ flavour = "parakeet" /\ UNCHANGED <<flavour, status, size, task>>
    BY <1>24 DEF RangeRefused, TaskInv
  <2>2. CASE n = m
    <3>1. Held(m)' = 0
      BY <2>1, <2>2 DEF Held, Exists, StateInv
    <3>2. Running(t, m) /\ \A u \in Tasks \ {t} : ~Running(u, m)
      BY <1>45, <2>1, <2>2 DEF Running, Working
    <3>3. /\ status[m] # "available"
          /\ \A u \in Tasks : task[u].pc = "publish" => task[u].snap[m] # "available"
      BY <1>0, <2>1, <3>2 DEF CopyOf
    <3> QED BY <2>1, <3>1, <3>2, <3>3, FullAssumption DEF CopyOf, Writing, Running
  <2>3. CASE n # m
    <3>1. file'[m] = file[m]
      BY <2>1, <2>3 DEF StateInv
    <3>2. Held(m)' = Held(m)
      BY <2>1, <3>1 DEF Held, Exists
    <3> QED BY <1>0, <2>1, <3>1, <3>2 DEF CopyOf, Enough, Running
  <2> QED BY <2>2, <2>3
<1>25. ASSUME NEW t \in Tasks, CancelledWhisper(t) PROVE CopyOf(m)'
  <2>1. UNCHANGED <<flavour, file, size, status>>
    BY <1>25 DEF CancelledWhisper
  <2> QED BY <1>0, <1>45, <1>25, <2>1, FieldMoves, HeldKept
    DEF CancelledWhisper, Moved, Ended, Enough, Set, StateInv, Results, Pcs, CopyOf,
        Running, Working, Writing, Keeps
<1>26. ASSUME NEW t \in Tasks, CancelledParakeet(t) PROVE CopyOf(m)'
  <2>1. UNCHANGED <<flavour, file, size, status>>
    BY <1>26 DEF CancelledParakeet
  <2> QED BY <1>0, <1>45, <1>26, <2>1, FieldMoves, HeldKept
    DEF CancelledParakeet, Moved, Ended, Enough, Set, StateInv, Results, Pcs, CopyOf,
        Running, Working, Writing, Keeps
<1>27. ASSUME NEW t \in Tasks, CancelledSummary(t) PROVE CopyOf(m)'
  <2>1. UNCHANGED <<flavour, file, size>>
    BY <1>27 DEF CancelledSummary
  <2> QED BY <1>0, <1>45, <1>27, <2>1, FieldMoves, HeldKept
    DEF CancelledSummary, Moved, Ended, Enough, Set, StateInv, Results, Pcs, CopyOf,
        Running, Working, Writing, Keeps
<1>28. ASSUME NEW t \in Tasks, Await(t) PROVE CopyOf(m)'
  <2>1. UNCHANGED <<flavour, file, size, status>>
    BY <1>28 DEF Await
  <2> QED BY <1>0, <1>45, <1>28, <2>1, FieldMoves, HeldKept
    DEF Await, Moved, Ended, Enough, Set, StateInv, Results, Pcs, CopyOf, Running, Working,
        Writing, Keeps
<1>29. ASSUME NEW t \in Tasks, ReceiveWhisper(t) PROVE CopyOf(m)'
  <2>1. UNCHANGED <<flavour, file, size, status>>
    BY <1>29 DEF ReceiveWhisper
  <2> QED BY <1>0, <1>45, <1>29, <2>1, FieldMoves, HeldKept
    DEF ReceiveWhisper, Moved, Ended, Enough, Set, StateInv, Results, Pcs, CopyOf, Running,
        Working, Writing, Keeps
<1>30. ASSUME NEW t \in Tasks, WriteWhisper(t) PROVE CopyOf(m)'
  <2> DEFINE n == task[t].m
             f == task[t].f
             off == task[t].off
  <2>1. /\ Write(t, "recv") /\ task[t].pc \in {"got", "recv"}
    BY <1>30 DEF WriteWhisper
  <2>2. /\ n \in Models /\ f \in Files /\ Belongs(f, n) /\ off < Full /\ off \in Nat
        /\ status' = [status EXCEPT ![n] = "downloading"] /\ UNCHANGED <<flavour, file>>
    BY <2>1 DEF Write, Set, TaskInv, Commands, OwnInv, Writing
  <2>3. size' = [size EXCEPT ![f] = CASE task[t].append -> @ + 1
                                      [] ~task[t].append /\ off >= @ -> off + 1
                                      [] OTHER -> @]
    BY <2>1 DEF Write
  <2>4. /\ Keeps(t) /\ task'[t].pc \in {"recv", "loop"}
        /\ task'[t].m = n /\ task'[t].f = f /\ task'[t].off = off + 1
    BY <2>1, WriteMoves
  <2>5. CASE n = m
    <3>1. /\ Running(t, m) /\ \A u \in Tasks \ {t} : ~Running(u, m)'
      BY <1>45, <2>1, <2>4, <2>5 DEF Running, Working, Keeps
    <3>2. file[m] = f /\ Held(m) = off
      BY <1>0, <2>1, <3>1 DEF CopyOf, Writing
    <3>3. f # None
      BY <2>2, NoneAssumption DEF Files
    <3>4. size[f] = off
      BY <3>2, <3>3 DEF Held, Exists
    <3>5. size'[f] = off + 1
      BY <2>2, <2>3, <3>4 DEF StateInv
    <3>6. Held(m)' = off + 1
      BY <2>2, <3>2, <3>3, <3>5 DEF Held, Exists
    <3>7. Enough(Held(m)) => Enough(Held(m)')
      BY <2>2, <3>2, <3>6, FullAssumption DEF Enough
    <3>8. status'[m] = "downloading"
      BY <2>2, <2>5 DEF StateInv
    <3>9. \A u \in Tasks : task'[u].pc = "publish" => task[u].pc = "publish" /\ task'[u] = task[u]
      BY <2>4 DEF Keeps
    <3>10. off + 1 <= Full
      BY <2>2, FullAssumption
    <3> QED BY <1>0, <2>2, <2>4, <3>1, <3>2, <3>6, <3>7, <3>8, <3>9, <3>10
               DEF CopyOf, Writing, Enough
  <2>6. CASE n # m
    <3>1. file[m] # f
      BY <2>2, <2>6, NoneAssumption DEF OwnInv, Belongs, Files
    <3>2. Held(m)' = Held(m)
      BY <2>2, <2>3, <3>1 DEF Held, Exists, StateInv
    <3>3. status'[m] = status[m]
      BY <2>2, <2>6 DEF StateInv
    <3> QED BY <1>0, <2>2, <2>4, <2>6, <3>2, <3>3 DEF CopyOf, Enough, Keeps, Running
  <2> QED BY <2>5, <2>6
<1>31. ASSUME NEW t \in Tasks, Receive(t) PROVE CopyOf(m)'
  <2> DEFINE n == task[t].m
             f == task[t].f
             off == task[t].off
  <2>1. /\ Write(t, "loop") /\ task[t].pc \in {"got", "recv"}
    BY <1>31 DEF Receive
  <2>2. /\ n \in Models /\ f \in Files /\ Belongs(f, n) /\ off < Full /\ off \in Nat
        /\ status' = [status EXCEPT ![n] = "downloading"] /\ UNCHANGED <<flavour, file>>
    BY <2>1 DEF Write, Set, TaskInv, Commands, OwnInv, Writing
  <2>3. size' = [size EXCEPT ![f] = CASE task[t].append -> @ + 1
                                      [] ~task[t].append /\ off >= @ -> off + 1
                                      [] OTHER -> @]
    BY <2>1 DEF Write
  <2>4. /\ Keeps(t) /\ task'[t].pc \in {"recv", "loop"}
        /\ task'[t].m = n /\ task'[t].f = f /\ task'[t].off = off + 1
    BY <2>1, WriteMoves
  <2>5. CASE n = m
    <3>1. /\ Running(t, m) /\ \A u \in Tasks \ {t} : ~Running(u, m)'
      BY <1>45, <2>1, <2>4, <2>5 DEF Running, Working, Keeps
    <3>2. file[m] = f /\ Held(m) = off
      BY <1>0, <2>1, <3>1 DEF CopyOf, Writing
    <3>3. f # None
      BY <2>2, NoneAssumption DEF Files
    <3>4. size[f] = off
      BY <3>2, <3>3 DEF Held, Exists
    <3>5. size'[f] = off + 1
      BY <2>2, <2>3, <3>4 DEF StateInv
    <3>6. Held(m)' = off + 1
      BY <2>2, <3>2, <3>3, <3>5 DEF Held, Exists
    <3>7. Enough(Held(m)) => Enough(Held(m)')
      BY <2>2, <3>2, <3>6, FullAssumption DEF Enough
    <3>8. status'[m] = "downloading"
      BY <2>2, <2>5 DEF StateInv
    <3>9. \A u \in Tasks : task'[u].pc = "publish" => task[u].pc = "publish" /\ task'[u] = task[u]
      BY <2>4 DEF Keeps
    <3>10. off + 1 <= Full
      BY <2>2, FullAssumption
    <3> QED BY <1>0, <2>2, <2>4, <3>1, <3>2, <3>6, <3>7, <3>8, <3>9, <3>10
               DEF CopyOf, Writing, Enough
  <2>6. CASE n # m
    <3>1. file[m] # f
      BY <2>2, <2>6, NoneAssumption DEF OwnInv, Belongs, Files
    <3>2. Held(m)' = Held(m)
      BY <2>2, <2>3, <3>1 DEF Held, Exists, StateInv
    <3>3. status'[m] = status[m]
      BY <2>2, <2>6 DEF StateInv
    <3> QED BY <1>0, <2>2, <2>4, <2>6, <3>2, <3>3 DEF CopyOf, Enough, Keeps, Running
  <2> QED BY <2>5, <2>6
<1>32. ASSUME NEW t \in Tasks, EndOfBody(t) PROVE CopyOf(m)'
  <2>1. UNCHANGED <<flavour, file, size, status>> /\ task[t].pc = "recv" /\ task[t].off = Full
    BY <1>32 DEF EndOfBody
  <2>2. Keeps(t) /\ task'[t].m = task[t].m /\ task'[t].pc = "finish"
    BY <1>32, FieldMoves DEF EndOfBody, Moved, Pcs
  <2>3. task[t].m = m => Running(t, m) /\ Held(m) = Full
    BY <1>0, <2>1 DEF CopyOf, Running, Working, Writing
  <2>4. Enough(Full)
    BY FullAssumption DEF Enough
  <2> QED BY <1>0, <1>45, <2>1, <2>2, <2>3, <2>4, HeldKept
      DEF CopyOf, Enough, Running, Working, Writing, Keeps
<1>33. ASSUME NEW t \in Tasks, BrokenWhisper(t) PROVE CopyOf(m)'
  <2>1. UNCHANGED <<flavour, file, size, status>>
    BY <1>33 DEF BrokenWhisper
  <2> QED BY <1>0, <1>45, <1>33, <2>1, FieldMoves, HeldKept
    DEF BrokenWhisper, Moved, Ended, Enough, Set, StateInv, Results, Pcs, CopyOf, Running,
        Working, Writing, Keeps
<1>34. ASSUME NEW t \in Tasks, BrokenParakeet(t) PROVE CopyOf(m)'
  <2>1. UNCHANGED <<flavour, file, size, status>>
    BY <1>34 DEF BrokenParakeet
  <2> QED BY <1>0, <1>45, <1>34, <2>1, FieldMoves, HeldKept
    DEF BrokenParakeet, Moved, Ended, Enough, Set, StateInv, Results, Pcs, CopyOf, Running,
        Working, Writing, Keeps
<1>35. ASSUME NEW t \in Tasks, Blame(t) PROVE CopyOf(m)'
  <2>1. UNCHANGED <<flavour, file, size>>
    BY <1>35 DEF Blame
  <2> QED BY <1>0, <1>45, <1>35, <2>1, FieldMoves, HeldKept
    DEF Blame, Moved, Ended, Enough, Set, StateInv, Results, Pcs, CopyOf, Running, Working,
        Writing, Keeps
<1>36. ASSUME NEW t \in Tasks, BrokenSummary(t) PROVE CopyOf(m)'
  <2>1. UNCHANGED <<flavour, file, size>>
    BY <1>36 DEF BrokenSummary
  <2> QED BY <1>0, <1>45, <1>36, <2>1, FieldMoves, HeldKept
    DEF BrokenSummary, Moved, Ended, Enough, Set, StateInv, Results, Pcs, CopyOf, Running,
        Working, Writing, Keeps
<1>37. ASSUME NEW t \in Tasks, WriteFailsSummary(t) PROVE CopyOf(m)'
  <2>1. UNCHANGED <<flavour, file, size, status>>
    BY <1>37 DEF WriteFailsSummary
  <2> QED BY <1>0, <1>45, <1>37, <2>1, FieldMoves, HeldKept
    DEF WriteFailsSummary, Moved, Ended, Enough, Set, StateInv, Results, Pcs, CopyOf,
        Running, Working, Writing, Keeps
<1>38. ASSUME NEW t \in Tasks, FinishWhisper(t) PROVE CopyOf(m)'
  <2>1. UNCHANGED <<flavour, file, size>>
    BY <1>38 DEF FinishWhisper
  <2> QED BY <1>0, <1>45, <1>38, <2>1, FieldMoves, HeldKept
    DEF FinishWhisper, Moved, Ended, Enough, Set, StateInv, Results, Pcs, CopyOf, Running,
        Working, Writing, Keeps
<1>39. ASSUME NEW t \in Tasks, FinishParakeet(t) PROVE CopyOf(m)'
  <2>1. UNCHANGED <<flavour, file, size>>
    BY <1>39 DEF FinishParakeet
  <2> QED BY <1>0, <1>45, <1>39, <2>1, FieldMoves, HeldKept
    DEF FinishParakeet, Moved, Ended, Enough, Set, StateInv, Results, Pcs, CopyOf, Running,
        Working, Writing, Keeps
<1>40. ASSUME NEW t \in Tasks, FinishSummary(t) PROVE CopyOf(m)'
  <2>1. UNCHANGED <<flavour, file, size>>
    BY <1>40 DEF FinishSummary
  <2> QED BY <1>0, <1>45, <1>40, <2>1, FieldMoves, HeldKept
    DEF FinishSummary, Moved, Ended, Enough, Set, StateInv, Results, Pcs, CopyOf, Running,
        Working, Writing, Keeps
<1>41. ASSUME NEW t \in Tasks, Validate(t) PROVE CopyOf(m)'
  <2>1. task[t].m \in Models /\ task[t].pc = "validate" /\ UNCHANGED <<flavour, size>>
    BY <1>41 DEF Validate, TaskInv
  <2>2. /\ Keeps(t) /\ task'[t].m = task[t].m /\ task'[t].pc \in {"delist", "done"}
    BY <1>41, FieldMoves DEF Validate, Moved, Ended, Results, Pcs
  <2>3. CASE task[t].m = m
    <3>1. Running(t, m) /\ \A u \in Tasks \ {t} : ~Running(u, m)'
      BY <1>45, <2>1, <2>2, <2>3 DEF Running, Working, Keeps
    <3>2. Enough(Held(m))
      BY <1>0, <2>1, <3>1 DEF CopyOf
    <3>3. Held(m) > 0
      BY <3>2, HeldFound, FullAssumption DEF Enough
    <3>4. UNCHANGED file /\ status' = [status EXCEPT ![m] = "available"]
      BY <1>41, <2>3, <3>3 DEF Validate, Set
    <3>5. Held(m)' = Held(m)
      BY <2>1, <3>4, HeldKept
    <3> QED BY <1>0, <2>1, <2>2, <3>1, <3>2, <3>4, <3>5 DEF CopyOf, Enough, Keeps, Writing
  <2>4. CASE task[t].m # m
    <3>1. file'[m] = file[m] /\ status'[m] = status[m]
      BY <1>41, <2>1, <2>4 DEF Validate, Set, StateInv
    <3>2. Held(m)' = Held(m)
      BY <2>1, <3>1 DEF Held, Exists
    <3> QED BY <1>0, <2>1, <2>2, <2>4, <3>1, <3>2 DEF CopyOf, Enough, Keeps, Running
  <2> QED BY <2>3, <2>4
<1>42. ASSUME NEW t \in Tasks, Delist(t) PROVE CopyOf(m)'
  <2>1. UNCHANGED <<flavour, file, size, status>>
    BY <1>42 DEF Delist
  <2> QED BY <1>0, <1>45, <1>42, <2>1, FieldMoves, HeldKept
    DEF Delist, Moved, Ended, Enough, Set, StateInv, Results, Pcs, CopyOf, Running, Working,
        Writing, Keeps
<1>43. ASSUME NEW t \in Tasks, Unflag(t) PROVE CopyOf(m)'
  <2>1. UNCHANGED <<flavour, file, size, status>>
    BY <1>43 DEF Unflag
  <2> QED BY <1>0, <1>45, <1>43, <2>1, FieldMoves, HeldKept
    DEF Unflag, Moved, Ended, Enough, Set, StateInv, Results, Pcs, CopyOf, Running, Working,
        Writing, Keeps
<1>44. CASE UNCHANGED vars
  BY <1>0, <1>44, HeldKept DEF vars, CopyOf, Running, Enough
<1> QED
  BY <1>1, <1>2, <1>3, <1>4, <1>5, <1>6, <1>7, <1>8, <1>9, <1>10, <1>11, <1>12,
     <1>13, <1>14, <1>15, <1>16, <1>17, <1>18, <1>19, <1>20, <1>21, <1>22, <1>23,
     <1>24, <1>25, <1>26, <1>27, <1>28, <1>29, <1>30, <1>31, <1>32, <1>33, <1>34,
     <1>35, <1>36, <1>37, <1>38, <1>39, <1>40, <1>41, <1>42, <1>43, <1>44
  DEF Next, Step, Manage, Download

-----------------------------------------------------------------------------
IInv ==
    /\ TaskInv /\ StateInv /\ EntryInv
    /\ OpInv /\ EntriesAccountedFor /\ OwnInv /\ CopyInv

(* The inductive invariant, of every behaviour.                             *)
LEMMA Invariance == Spec => []IInv
<1>1. Init => IInv
  <2> SUFFICES ASSUME Init PROVE IInv
    OBVIOUS
  <2>1. Idle \in Commands /\ Idle.pc = "idle"
    BY FullAssumption DEF Idle, Commands, Ops, Pcs, Results, Status
  <2>2. TaskInv
    BY <2>1 DEF Init, TaskInv
  <2>3. EntryInv
    BY <2>1 DEF Init, EntryInv, Running, Working
  <2>4. PICK left \in [Models -> {None, Full}] :
            /\ file = [m \in Models |-> IF left[m] = None THEN None ELSE m]
            /\ size = [f \in Files |-> IF f \in Models /\ left[f] # None THEN left[f] ELSE 0]
            /\ status = [m \in Models |-> IF left[m] = None THEN "missing" ELSE "available"]
    BY DEF Init
  <2>5. size \in [Files -> Nat]
    BY <2>4, FullAssumption
  <2>6. file \in [Models -> Files \cup {None}] /\ status \in [Models -> Status]
    BY <2>4 DEF Files, Status
  <2>7. StateInv
    BY <2>5, <2>6 DEF Init, StateInv
  <2>8. \A t \in Tasks : task[t].pc = "idle" /\ task[t].m = None /\ task[t].op = "scan"
                         /\ task[t].res = "none"
    BY DEF Init, Idle
  <2>9. OpInv /\ EntriesAccountedFor
    BY <2>8 DEF Init, OpInv, EntriesAccountedFor
  <2>10. OwnInv
    BY <2>4, <2>8, NoneAssumption DEF OwnInv, Belongs, Writing
  <2>11. \A m \in Models : Held(m) = IF left[m] = None THEN 0 ELSE Full
    BY <2>4, NoneAssumption DEF Held, Exists, Files
  <2>12. \A m \in Models, t \in Tasks : ~Running(t, m)
    BY <2>8 DEF Running, Working
  <2>13. CopyInv
    BY <2>4, <2>8, <2>11, <2>12, FullAssumption DEF CopyInv, CopyOf, Enough
  <2> QED BY <2>2, <2>3, <2>7, <2>9, <2>10, <2>13 DEF IInv
<1>2. IInv /\ [Next]_vars => IInv'
  BY TaskStep, StateStep, EntryStep, OpStep, AccountStep, OwnStep, CopyStep DEF IInv
<1> QED BY <1>1, <1>2, PTL DEF Spec

(* Every variable of a manager keeps its type, in particular: a command is  *)
(* about a model of the catalogue, and no writer passes the announced end.  *)
THEOREM TypeCorrect == Spec => []TypeOK
<1>1. IInv => TypeOK
  BY DEF IInv, TaskInv, StateInv, Commands, Results, TypeOK
<1> QED BY <1>1, Invariance, PTL

(* Two downloads of one model run only through one of the two windows.      *)
THEOREM OneDownloadPerModelHolds == Spec => []OneDownloadPerModel
<1>1. IInv => OneDownloadPerModel
  BY DEF IInv, EntryInv, OneDownloadPerModel, Running
<1> QED BY <1>1, Invariance, PTL

(* Outside of those windows the entry of a running download is in the list, *)
(* so that every later download of the model is refused.                    *)
THEOREM RunningIsListed ==
    Spec => [](\A m \in Models, t \in Tasks : Running(t, m) => m \in active \cup overlapped)
<1>1. IInv => \A m \in Models, t \in Tasks : Running(t, m) => m \in active \cup overlapped
  BY DEF IInv, EntryInv
<1> QED BY <1>1, Invariance, PTL

(* Whatever scans and downloads run: what the cache calls available is a    *)
(* complete copy, unless a cancel, a delete, a retry or a Whisper scan has  *)
(* come near the model, or a second download has slipped in.                *)
THEOREM AvailableIsCompleteHolds == Spec => []AvailableIsComplete
<1>1. IInv => AvailableIsComplete
  BY DEF IInv, CopyInv, CopyOf, Clean, AvailableIsComplete
<1> QED BY <1>1, Invariance, PTL

(* No entry is left behind but by the returns that forget it: each belongs  *)
(* to a download that is running or to one of those.                        *)
THEOREM EveryEntryAccountedFor == Spec => []EntriesAccountedFor
<1>1. IInv => EntriesAccountedFor
  BY DEF IInv
<1> QED BY <1>1, Invariance, PTL

(* A file that a download writes, and the file a path leads to, are never   *)
(* another model's: downloads of different models cannot spoil each other.  *)
THEOREM WritersKeepApart ==
    Spec => [](\A m \in Models, t \in Tasks :
                  task[t].pc \in Writing /\ task[t].m # m => task[t].f # file[m] \/ file[m] = None)
<1>1. IInv => \A m \in Models, t \in Tasks :
                 task[t].pc \in Writing /\ task[t].m # m => task[t].f # file[m] \/ file[m] = None
  BY NoneAssumption DEF IInv, OwnInv, Belongs, TaskInv, Writing
<1> QED BY <1>1, Invariance, PTL
=============================================================================
