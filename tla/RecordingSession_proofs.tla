------------------------ MODULE RecordingSession_proofs ------------------------
(* Theorems about RecordingSession, for any number of callers, recordings   *)
(* and finals: a session belongs to one place at a time, and as long as     *)
(* commands do not overlap the globals agree with each other and every      *)
(* final goes to its own meeting.                                           *)
EXTENDS RecordingSession, FiniteSetTheorems, TLAPS

Labels == {"idle"} \cup StartLabels \cup StopLabels
Commands == [pc : Labels, mgr : 0..MaxSessions, task : 0..MaxSessions]
ProcInv == proc \in [Callers -> Commands] /\ started \in 0..MaxSessions

Late == {"flush", "unlisten", "take_task", "join", "unload"}
Holding(c) == proc[c].pc \in {"opening", "streams"} \cup Late

(* No session has two owners, one whose audio flows has one, and a stop     *)
(* that has passed the streams has closed them.                             *)
Bounded ==
    /\ manager \in 0..started /\ \A c \in Callers : proc[c].mgr \in 0..started
    /\ capturing \subseteq 1..started
Single ==
    \A c \in Callers : Holding(c) /\ proc[c].mgr # None =>
        /\ manager # proc[c].mgr
        /\ \A d \in Callers : Holding(d) /\ proc[d].mgr = proc[c].mgr => d = c
Closed == \A c \in Callers : proc[c].pc \in Late => proc[c].mgr \notin capturing
Owned ==
    \A s \in capturing : manager = s \/ \E c \in Callers : Holding(c) /\ proc[c].mgr = s
OwnerInv == Bounded /\ Single /\ Closed /\ Owned

(* As long as no two commands have overlapped, one at most is at work ...   *)
Resting(c) == proc[c].pc \in {"idle", "start", "stop"}
Alone == ~overlapped => \A c, d \in Callers : ~At(c, "idle") /\ ~At(d, "idle") => c = d
(* ... and finds the globals as they are between commands, ...              *)
Rest ==
    /\ isRecording <=> manager # None
    /\ transcriptionTask = manager /\ listenerId = manager
    /\ listeners = {manager} \ {None}
AtRest ==
    ~overlapped /\ (\A c \in Callers : Resting(c) \/ At(c, "take_manager")) => Rest
(* ... or as its own steps have left them.                                  *)
Nothing ==
    manager = None /\ transcriptionTask = None /\ listenerId = None /\ listeners = {}
Unpublished ==
    ~overlapped => \A c \in Callers :
        proc[c].pc \in {"validate", "opening", "join", "unload", "clear"} => Nothing
Holds ==
    ~overlapped => \A c \in Callers :
        proc[c].pc \in {"opening", "flag", "spawn", "listen", "streams", "flush", "unlisten",
                        "take_task"} => proc[c].mgr # None
Publishing ==
    ~overlapped => \A c \in Callers :
        /\ proc[c].pc \in {"flag", "spawn", "listen"} =>
               manager = proc[c].mgr /\ listenerId = None /\ listeners = {}
        /\ proc[c].pc \in {"flag", "spawn"} => transcriptionTask = None
        /\ At(c, "listen") => transcriptionTask = proc[c].mgr
Withdrawing ==
    ~overlapped => \A c \in Callers :
        /\ proc[c].pc \in {"streams", "flush", "unlisten", "take_task"} =>
               manager = None /\ transcriptionTask = proc[c].mgr
        /\ proc[c].pc \in {"streams", "flush", "unlisten"} =>
               listenerId = proc[c].mgr /\ listeners = {proc[c].mgr}
        /\ At(c, "take_task") => listenerId = None /\ listeners = {}
Flagged ==
    ~overlapped => \A c \in Callers :
        /\ proc[c].pc \in {"validate", "opening", "flag"} => ~isRecording
        /\ proc[c].pc \in {"spawn", "listen", "take_manager", "streams", "flush", "unlisten",
                           "take_task", "join", "unload", "clear"} => isRecording
PhaseInv ==
    Alone /\ AtRest /\ Unpublished /\ Holds /\ Publishing /\ Withdrawing /\ Flagged

(* Without a wait that was cut off, the only transcription task is that of  *)
(* the recording that is on, or of the one that a stop waits for.           *)
RunningFree ==
    ~overlapped /\ ~cutOff /\ (\A c \in Callers : Resting(c) \/ At(c, "take_manager"))
        => running \subseteq {manager} \ {None}
RunningNone ==
    ~overlapped /\ ~cutOff => \A c \in Callers :
        proc[c].pc \in {"validate", "opening", "flag", "spawn", "unload", "clear"}
            => running = {}
RunningOwn ==
    ~overlapped /\ ~cutOff => \A c \in Callers :
        /\ proc[c].pc \in {"listen", "streams", "flush", "unlisten", "take_task"}
               => running \subseteq {proc[c].mgr}
        /\ At(c, "join") => running \subseteq {proc[c].task}
RunningInv == RunningFree /\ RunningNone /\ RunningOwn

FiledInv ==
    /\ transcripts \in [Sessions -> SUBSET (Sessions \X Nat)]
    /\ delivered \in [Sessions -> Nat]
    /\ ~overlapped /\ ~cutOff => \A s \in Sessions : \A f \in transcripts[s] : f[1] = s

-----------------------------------------------------------------------------
(* What a command's step does to it, once and for all.                      *)
LEMMA ProcMoves ==
    ASSUME ProcInv, NEW c \in Callers
    PROVE  /\ \A pc \in Labels : Goto(c, pc) =>
                  /\ proc' \in [Callers -> Commands]
                  /\ proc'[c].pc = pc /\ proc'[c].mgr = proc[c].mgr
                  /\ proc'[c].task = proc[c].task
                  /\ \A d \in Callers \ {c} : proc'[d] = proc[d]
           /\ Return(c) =>
                  /\ proc' \in [Callers -> Commands]
                  /\ proc'[c].pc = "idle" /\ proc'[c].mgr = None
                  /\ \A d \in Callers \ {c} : proc'[d] = proc[d]
           /\ \A pc \in Labels, m \in 0..MaxSessions :
                  proc' = [proc EXCEPT ![c] = [@ EXCEPT !.pc = pc, !.mgr = m]] =>
                  /\ proc' \in [Callers -> Commands]
                  /\ proc'[c].pc = pc /\ proc'[c].mgr = m
                  /\ \A d \in Callers \ {c} : proc'[d] = proc[d]
           /\ \A pc \in Labels, m \in 0..MaxSessions :
                  proc' = [proc EXCEPT ![c] = [@ EXCEPT !.pc = pc, !.task = m]] =>
                  /\ proc' \in [Callers -> Commands]
                  /\ proc'[c].pc = pc /\ proc'[c].mgr = proc[c].mgr /\ proc'[c].task = m
                  /\ \A d \in Callers \ {c} : proc'[d] = proc[d]
<1> USE DEF ProcInv
<1>1. ASSUME NEW pc \in Labels, Goto(c, pc)
      PROVE  /\ proc' \in [Callers -> Commands]
             /\ proc'[c].pc = pc /\ proc'[c].mgr = proc[c].mgr
             /\ proc'[c].task = proc[c].task
             /\ \A d \in Callers \ {c} : proc'[d] = proc[d]
  BY <1>1 DEF Goto, Commands
<1>2. ASSUME Return(c)
      PROVE  /\ proc' \in [Callers -> Commands]
             /\ proc'[c].pc = "idle" /\ proc'[c].mgr = None
             /\ \A d \in Callers \ {c} : proc'[d] = proc[d]
  BY <1>2, SessionAssumption DEF Return, Idle, Commands, Labels, None
<1>3. ASSUME NEW pc \in Labels, NEW m \in 0..MaxSessions,
             proc' = [proc EXCEPT ![c] = [@ EXCEPT !.pc = pc, !.mgr = m]]
      PROVE  /\ proc' \in [Callers -> Commands]
             /\ proc'[c].pc = pc /\ proc'[c].mgr = m
             /\ \A d \in Callers \ {c} : proc'[d] = proc[d]
  BY <1>3 DEF Commands
<1>4. ASSUME NEW pc \in Labels, NEW m \in 0..MaxSessions,
             proc' = [proc EXCEPT ![c] = [@ EXCEPT !.pc = pc, !.task = m]]
      PROVE  /\ proc' \in [Callers -> Commands]
             /\ proc'[c].pc = pc /\ proc'[c].mgr = proc[c].mgr /\ proc'[c].task = m
             /\ \A d \in Callers \ {c} : proc'[d] = proc[d]
  BY <1>4 DEF Commands
<1> QED BY <1>1, <1>2, <1>3, <1>4

(* The steps that set fields of their own, in the form of the lemma above.  *)
LEMMA Given == /\ MaxSessions \in Nat /\ 0 \in 0..MaxSessions
               /\ \A pc \in {"start", "validate", "opening", "flag", "spawn", "listen", "stop",
                             "take_manager", "streams", "flush", "unlisten", "take_task",
                             "join", "unload", "clear", "idle"} : pc \in Labels
BY SessionAssumption DEF Labels, StartLabels, StopLabels

LEMMA OwnSteps ==
    ASSUME ProcInv, manager \in 0..MaxSessions, transcriptionTask \in 0..MaxSessions,
           NEW c \in Callers
    PROVE  /\ StartManager(c) =>
                  /\ proc' \in [Callers -> Commands]
                  /\ proc'[c].pc = "opening" /\ proc'[c].mgr = started + 1
                  /\ \A d \in Callers \ {c} : proc'[d] = proc[d]
           /\ StopTakeManager(c) =>
                  /\ proc' \in [Callers -> Commands]
                  /\ proc'[c].pc = IF manager = None THEN "unlisten" ELSE "streams"
                  /\ proc'[c].mgr = manager
                  /\ \A d \in Callers \ {c} : proc'[d] = proc[d]
           /\ StopTakeTask(c) =>
                  /\ proc' \in [Callers -> Commands]
                  /\ proc'[c].pc = IF transcriptionTask = None THEN "unload" ELSE "join"
                  /\ proc'[c].mgr = proc[c].mgr /\ proc'[c].task = transcriptionTask
                  /\ \A d \in Callers \ {c} : proc'[d] = proc[d]
           /\ \A ok \in BOOLEAN : StopSave(c, ok) =>
                  /\ proc' \in [Callers -> Commands]
                  /\ proc'[c].pc = "clear" /\ proc'[c].mgr = None
                  /\ \A d \in Callers \ {c} : proc'[d] = proc[d]
<1>1. ASSUME StartManager(c)
      PROVE  /\ proc' \in [Callers -> Commands]
             /\ proc'[c].pc = "opening" /\ proc'[c].mgr = started + 1
             /\ \A d \in Callers \ {c} : proc'[d] = proc[d]
  <2>1. started + 1 \in 0..MaxSessions
    BY <1>1, Given DEF StartManager, ProcInv
  <2>2. proc' = [proc EXCEPT ![c] = [@ EXCEPT !.pc = "opening", !.mgr = started + 1]]
    BY <1>1 DEF StartManager
  <2> QED BY <2>1, <2>2, ProcMoves, Given
<1>2. ASSUME StopTakeManager(c)
      PROVE  /\ proc' \in [Callers -> Commands]
             /\ proc'[c].pc = IF manager = None THEN "unlisten" ELSE "streams"
             /\ proc'[c].mgr = manager
             /\ \A d \in Callers \ {c} : proc'[d] = proc[d]
  <2> DEFINE pc == IF manager = None THEN "unlisten" ELSE "streams"
  <2>1. pc \in Labels
    BY Given
  <2>2. proc' = [proc EXCEPT ![c] = [@ EXCEPT !.pc = pc, !.mgr = manager]]
    BY <1>2 DEF StopTakeManager
  <2> HIDE DEF pc
  <2>3. /\ proc' \in [Callers -> Commands]
        /\ proc'[c].pc = pc /\ proc'[c].mgr = manager
        /\ \A d \in Callers \ {c} : proc'[d] = proc[d]
    BY <2>1, <2>2, ProcMoves
  <2> QED BY <2>3 DEF pc
<1>3. ASSUME StopTakeTask(c)
      PROVE  /\ proc' \in [Callers -> Commands]
             /\ proc'[c].pc = IF transcriptionTask = None THEN "unload" ELSE "join"
             /\ proc'[c].mgr = proc[c].mgr /\ proc'[c].task = transcriptionTask
             /\ \A d \in Callers \ {c} : proc'[d] = proc[d]
  <2> DEFINE pc == IF transcriptionTask = None THEN "unload" ELSE "join"
  <2>1. pc \in Labels
    BY Given
  <2>2. proc' = [proc EXCEPT ![c] = [@ EXCEPT !.pc = pc, !.task = transcriptionTask]]
    BY <1>3 DEF StopTakeTask
  <2> HIDE DEF pc
  <2>3. /\ proc' \in [Callers -> Commands]
        /\ proc'[c].pc = pc /\ proc'[c].mgr = proc[c].mgr /\ proc'[c].task = transcriptionTask
        /\ \A d \in Callers \ {c} : proc'[d] = proc[d]
    BY <2>1, <2>2, ProcMoves
  <2> QED BY <2>3 DEF pc
<1>4. ASSUME NEW ok \in BOOLEAN, StopSave(c, ok)
      PROVE  /\ proc' \in [Callers -> Commands]
             /\ proc'[c].pc = "clear" /\ proc'[c].mgr = None
             /\ \A d \in Callers \ {c} : proc'[d] = proc[d]
  <2>1. proc' = [proc EXCEPT ![c] = [@ EXCEPT !.pc = "clear", !.mgr = None]]
    BY <1>4 DEF StopSave
  <2>2. None \in 0..MaxSessions
    BY Given DEF None
  <2> QED BY <2>1, <2>2, ProcMoves, Given
<1> QED BY <1>1, <1>2, <1>3, <1>4

TypeInv ==
    /\ ProcInv
    /\ isRecording \in BOOLEAN /\ cutOff \in BOOLEAN /\ overlapped \in BOOLEAN
    /\ manager \in 0..MaxSessions /\ transcriptionTask \in 0..MaxSessions
    /\ listenerId \in 0..MaxSessions

(* Caller c goes from one place to another, with the session it then holds. *)
Does(c, from, to, m) ==
    /\ proc[c].pc = from /\ proc'[c].pc = to /\ proc'[c].mgr = m
    /\ \A d \in Callers \ {c} : proc'[d] = proc[d]

(* Every step keeps the types.                                              *)
LEMMA TypeStep ==
    TypeInv /\ [Next]_vars => TypeInv'
<1> SUFFICES ASSUME TypeInv, [Next]_vars PROVE TypeInv'
  OBVIOUS
<1> USE Given DEF At, globals, audio, texts, history
<1>1. ASSUME NEW c \in Callers, InvokeStart(c) PROVE TypeInv'
  <2>1. proc' \in [Callers -> Commands] /\ UNCHANGED started
    BY <1>1, ProcMoves DEF InvokeStart, Invoke, TypeInv
  <2> QED BY <1>1, <2>1 DEF InvokeStart, Invoke, TypeInv, ProcInv, Commands, None
<1>2. ASSUME NEW c \in Callers, InvokeStop(c) PROVE TypeInv'
  <2>1. proc' \in [Callers -> Commands] /\ UNCHANGED started
    BY <1>2, ProcMoves DEF InvokeStop, Invoke, TypeInv
  <2> QED BY <1>2, <2>1 DEF InvokeStop, Invoke, TypeInv, ProcInv, Commands, None
<1>3. ASSUME NEW c \in Callers, StartCheck(c) PROVE TypeInv'
  <2>1. proc' \in [Callers -> Commands] /\ UNCHANGED started
    BY <1>3, ProcMoves DEF StartCheck, TypeInv
  <2> QED BY <1>3, <2>1 DEF StartCheck, TypeInv, ProcInv, Commands, None
<1>4. ASSUME NEW c \in Callers, StartRefused(c) PROVE TypeInv'
  <2>1. proc' \in [Callers -> Commands] /\ UNCHANGED started
    BY <1>4, ProcMoves DEF StartRefused, TypeInv
  <2> QED BY <1>4, <2>1 DEF StartRefused, TypeInv, ProcInv, Commands, None
<1>5. ASSUME NEW c \in Callers, StartManager(c) PROVE TypeInv'
  <2>1. started + 1 \in 0..MaxSessions /\ started' = started + 1
    BY <1>5 DEF StartManager, TypeInv, ProcInv
  <2> QED BY <1>5, <2>1, OwnSteps DEF StartManager, TypeInv, ProcInv
<1>6. ASSUME NEW c \in Callers, StartFails(c) PROVE TypeInv'
  <2>1. proc' \in [Callers -> Commands] /\ UNCHANGED started
    BY <1>6, ProcMoves DEF StartFails, Dropped, TypeInv
  <2> QED BY <1>6, <2>1 DEF StartFails, Dropped, TypeInv, ProcInv, Commands, None
<1>7. ASSUME NEW c \in Callers, StartPublish(c) PROVE TypeInv'
  <2>1. proc' \in [Callers -> Commands] /\ UNCHANGED started
    BY <1>7, ProcMoves DEF StartPublish, Dropped, TypeInv
  <2> QED BY <1>7, <2>1 DEF StartPublish, Dropped, TypeInv, ProcInv, Commands, None
<1>8. ASSUME NEW c \in Callers, StartSetFlag(c) PROVE TypeInv'
  <2>1. proc' \in [Callers -> Commands] /\ UNCHANGED started
    BY <1>8, ProcMoves DEF StartSetFlag, TypeInv
  <2> QED BY <1>8, <2>1 DEF StartSetFlag, TypeInv, ProcInv, Commands, None
<1>9. ASSUME NEW c \in Callers, StartSpawn(c) PROVE TypeInv'
  <2>1. proc' \in [Callers -> Commands] /\ UNCHANGED started
    BY <1>9, ProcMoves DEF StartSpawn, TypeInv
  <2> QED BY <1>9, <2>1 DEF StartSpawn, TypeInv, ProcInv, Commands, None
<1>10. ASSUME NEW c \in Callers, StartListen(c) PROVE TypeInv'
  <2>1. proc' \in [Callers -> Commands] /\ UNCHANGED started
    BY <1>10, ProcMoves DEF StartListen, TypeInv
  <2> QED BY <1>10, <2>1 DEF StartListen, TypeInv, ProcInv, Commands, None
<1>11. ASSUME NEW c \in Callers, StopCheck(c) PROVE TypeInv'
  <2>1. proc' \in [Callers -> Commands] /\ UNCHANGED started
    BY <1>11, ProcMoves DEF StopCheck, TypeInv
  <2> QED BY <1>11, <2>1 DEF StopCheck, TypeInv, ProcInv, Commands, None
<1>12. ASSUME NEW c \in Callers, StopTakeManager(c) PROVE TypeInv'
  BY <1>12, OwnSteps DEF StopTakeManager, TypeInv, ProcInv, None
<1>13. ASSUME NEW c \in Callers, StopStreams(c) PROVE TypeInv'
  <2>1. proc' \in [Callers -> Commands] /\ UNCHANGED started
    BY <1>13, ProcMoves DEF StopStreams, TypeInv
  <2> QED BY <1>13, <2>1 DEF StopStreams, TypeInv, ProcInv, Commands, None
<1>14. ASSUME NEW c \in Callers, StopFlushed(c) PROVE TypeInv'
  <2>1. proc' \in [Callers -> Commands] /\ UNCHANGED started
    BY <1>14, ProcMoves DEF StopFlushed, TypeInv
  <2> QED BY <1>14, <2>1 DEF StopFlushed, TypeInv, ProcInv, Commands, None
<1>15. ASSUME NEW c \in Callers, StopUnlisten(c) PROVE TypeInv'
  <2>1. proc' \in [Callers -> Commands] /\ UNCHANGED started
    BY <1>15, ProcMoves DEF StopUnlisten, TypeInv
  <2> QED BY <1>15, <2>1 DEF StopUnlisten, TypeInv, ProcInv, Commands, None
<1>16. ASSUME NEW c \in Callers, StopTakeTask(c) PROVE TypeInv'
  BY <1>16, OwnSteps DEF StopTakeTask, TypeInv, ProcInv, None
<1>17. ASSUME NEW c \in Callers, StopJoined(c) PROVE TypeInv'
  <2>1. proc' \in [Callers -> Commands] /\ UNCHANGED started
    BY <1>17, ProcMoves DEF StopJoined, TypeInv
  <2> QED BY <1>17, <2>1 DEF StopJoined, TypeInv, ProcInv, Commands, None
<1>18. ASSUME NEW c \in Callers, StopTimeout(c) PROVE TypeInv'
  <2>1. proc' \in [Callers -> Commands] /\ UNCHANGED started
    BY <1>18, ProcMoves DEF StopTimeout, TypeInv
  <2> QED BY <1>18, <2>1 DEF StopTimeout, TypeInv, ProcInv, Commands, None
<1>19. ASSUME NEW c \in Callers, NEW ok \in BOOLEAN, StopSave(c, ok) PROVE TypeInv'
  BY <1>19, OwnSteps DEF StopSave, TypeInv, ProcInv, None
<1>20. ASSUME NEW c \in Callers, StopClearFlag(c) PROVE TypeInv'
  <2>1. proc' \in [Callers -> Commands] /\ UNCHANGED started
    BY <1>20, ProcMoves DEF StopClearFlag, TypeInv
  <2> QED BY <1>20, <2>1 DEF StopClearFlag, TypeInv, ProcInv, Commands, None
<1>21. ASSUME NEW s \in Sessions, Speak(s) PROVE TypeInv'
  BY <1>21 DEF Speak, TypeInv, ProcInv
<1>22. ASSUME NEW s \in Sessions, AudioFails(s) PROVE TypeInv'
  BY <1>22 DEF AudioFails, TypeInv, ProcInv
<1>23. ASSUME NEW s \in Sessions, PipelineEnds(s) PROVE TypeInv'
  BY <1>23 DEF PipelineEnds, TypeInv, ProcInv
<1>24. ASSUME NEW s \in Sessions, EmitFinal(s) PROVE TypeInv'
  BY <1>24 DEF EmitFinal, TypeInv, ProcInv
<1>25. ASSUME NEW s \in Sessions, TaskEnds(s) PROVE TypeInv'
  BY <1>25 DEF TaskEnds, TypeInv, ProcInv
<1>26. CASE UNCHANGED vars
  BY <1>26 DEF vars, TypeInv, ProcInv
<1> QED
  BY <1>1, <1>2, <1>3, <1>4, <1>5, <1>6, <1>7, <1>8, <1>9, <1>10, <1>11, <1>12, <1>13,
     <1>14, <1>15, <1>16, <1>17, <1>18, <1>19, <1>20, <1>21, <1>22, <1>23, <1>24, <1>25,
     <1>26
  DEF Next, Start, Stop, Session

(* Where each step of a command leads.                                       *)
LEMMA Steps ==
    ASSUME TypeInv, NEW c \in Callers
    PROVE  /\ InvokeStart(c) => Does(c, "idle", "start", proc[c].mgr)
           /\ InvokeStop(c) => Does(c, "idle", "stop", proc[c].mgr)
           /\ StartCheck(c) => Does(c, "start",
                  IF isRecording THEN "idle" ELSE "validate",
                  IF isRecording THEN None ELSE proc[c].mgr)
           /\ StartRefused(c) => Does(c, "validate", "idle", None)
           /\ StartManager(c) => Does(c, "validate", "opening", started + 1)
           /\ StartFails(c) => Does(c, "opening", "idle", None)
           /\ StartPublish(c) => Does(c, "opening", "flag", proc[c].mgr)
           /\ StartSetFlag(c) => Does(c, "flag", "spawn", proc[c].mgr)
           /\ StartSpawn(c) => Does(c, "spawn", "listen", proc[c].mgr)
           /\ StartListen(c) => Does(c, "listen", "idle", None)
           /\ StopCheck(c) => Does(c, "stop",
                  IF isRecording THEN "take_manager" ELSE "idle",
                  IF isRecording THEN proc[c].mgr ELSE None)
           /\ StopTakeManager(c) => Does(c, "take_manager",
                  IF manager = None THEN "unlisten" ELSE "streams",
                  manager)
           /\ StopStreams(c) => Does(c, "streams", "flush", proc[c].mgr)
           /\ StopFlushed(c) => Does(c, "flush", "unlisten", proc[c].mgr)
           /\ StopUnlisten(c) => Does(c, "unlisten", "take_task", proc[c].mgr)
           /\ StopTakeTask(c) => Does(c, "take_task",
                  IF transcriptionTask = None THEN "unload" ELSE "join",
                  proc[c].mgr)
           /\ StopJoined(c) => Does(c, "join", "unload", proc[c].mgr)
           /\ StopTimeout(c) => Does(c, "join", "unload", proc[c].mgr)
           /\ \A ok \in BOOLEAN : StopSave(c, ok) => Does(c, "unload", "clear", None)
           /\ StopClearFlag(c) => Does(c, "clear", "idle", None)
<1> USE Given DEF At
<1>1. ASSUME InvokeStart(c)
      PROVE  Does(c, "idle", "start", proc[c].mgr)
  BY <1>1, ProcMoves DEF Does, InvokeStart, Invoke, TypeInv
<1>2. ASSUME InvokeStop(c)
      PROVE  Does(c, "idle", "stop", proc[c].mgr)
  BY <1>2, ProcMoves DEF Does, InvokeStop, Invoke, TypeInv
<1>3. ASSUME StartCheck(c)
      PROVE  Does(c, "start",
                   IF isRecording THEN "idle" ELSE "validate",
                   IF isRecording THEN None ELSE proc[c].mgr)
  BY <1>3, ProcMoves DEF Does, StartCheck, TypeInv
<1>4. ASSUME StartRefused(c)
      PROVE  Does(c, "validate", "idle", None)
  BY <1>4, ProcMoves DEF Does, StartRefused, TypeInv
<1>5. ASSUME StartManager(c)
      PROVE  Does(c, "validate", "opening", started + 1)
  BY <1>5, OwnSteps DEF Does, StartManager, TypeInv
<1>6. ASSUME StartFails(c)
      PROVE  Does(c, "opening", "idle", None)
  BY <1>6, ProcMoves DEF Does, StartFails, Dropped, TypeInv
<1>7. ASSUME StartPublish(c)
      PROVE  Does(c, "opening", "flag", proc[c].mgr)
  BY <1>7, ProcMoves DEF Does, StartPublish, Dropped, TypeInv
<1>8. ASSUME StartSetFlag(c)
      PROVE  Does(c, "flag", "spawn", proc[c].mgr)
  BY <1>8, ProcMoves DEF Does, StartSetFlag, TypeInv
<1>9. ASSUME StartSpawn(c)
      PROVE  Does(c, "spawn", "listen", proc[c].mgr)
  BY <1>9, ProcMoves DEF Does, StartSpawn, TypeInv
<1>10. ASSUME StartListen(c)
      PROVE  Does(c, "listen", "idle", None)
  BY <1>10, ProcMoves DEF Does, StartListen, TypeInv
<1>11. ASSUME StopCheck(c)
      PROVE  Does(c, "stop",
                   IF isRecording THEN "take_manager" ELSE "idle",
                   IF isRecording THEN proc[c].mgr ELSE None)
  BY <1>11, ProcMoves DEF Does, StopCheck, TypeInv
<1>12. ASSUME StopTakeManager(c)
      PROVE  Does(c, "take_manager",
                   IF manager = None THEN "unlisten" ELSE "streams",
                   manager)
  BY <1>12, OwnSteps DEF Does, StopTakeManager, TypeInv
<1>13. ASSUME StopStreams(c)
      PROVE  Does(c, "streams", "flush", proc[c].mgr)
  BY <1>13, ProcMoves DEF Does, StopStreams, TypeInv
<1>14. ASSUME StopFlushed(c)
      PROVE  Does(c, "flush", "unlisten", proc[c].mgr)
  BY <1>14, ProcMoves DEF Does, StopFlushed, TypeInv
<1>15. ASSUME StopUnlisten(c)
      PROVE  Does(c, "unlisten", "take_task", proc[c].mgr)
  BY <1>15, ProcMoves DEF Does, StopUnlisten, TypeInv
<1>16. ASSUME StopTakeTask(c)
      PROVE  Does(c, "take_task",
                   IF transcriptionTask = None THEN "unload" ELSE "join",
                   proc[c].mgr)
  BY <1>16, OwnSteps DEF Does, StopTakeTask, TypeInv
<1>17. ASSUME StopJoined(c)
      PROVE  Does(c, "join", "unload", proc[c].mgr)
  BY <1>17, ProcMoves DEF Does, StopJoined, TypeInv
<1>18. ASSUME StopTimeout(c)
      PROVE  Does(c, "join", "unload", proc[c].mgr)
  BY <1>18, ProcMoves DEF Does, StopTimeout, TypeInv
<1>19. ASSUME NEW ok \in BOOLEAN, StopSave(c, ok)
      PROVE  Does(c, "unload", "clear", None)
  BY <1>19, OwnSteps DEF Does, StopSave, TypeInv
<1>20. ASSUME StopClearFlag(c)
      PROVE  Does(c, "clear", "idle", None)
  BY <1>20, ProcMoves DEF Does, StopClearFlag, TypeInv
<1> QED BY <1>1, <1>2, <1>3, <1>4, <1>5, <1>6, <1>7, <1>8, <1>9, <1>10, <1>11, <1>12,
       <1>13, <1>14, <1>15, <1>16, <1>17, <1>18, <1>19, <1>20

(* Every step keeps the owners: a session is handed on, never shared.        *)
LEMMA OwnerStep ==
    TypeInv /\ OwnerInv /\ [Next]_vars => OwnerInv'
<1> SUFFICES ASSUME TypeInv, OwnerInv, [Next]_vars PROVE OwnerInv'
  OBVIOUS
<1> USE DEF At, globals, audio, texts, history
<1>1. ASSUME NEW c \in Callers, InvokeStart(c) PROVE OwnerInv'
  <2>1. Does(c, "idle", "start", proc[c].mgr)
    BY <1>1, Steps
  <2>2. Bounded'
    BY <1>1, <2>1, Given DEF Does, InvokeStart, Invoke, OwnerInv, Bounded, TypeInv,
       ProcInv, None
  <2>3. Single'
    BY <1>1, <2>1 DEF Does, InvokeStart, Invoke, OwnerInv, Bounded, Single, Holding,
       Late, None
  <2>4. Closed'
    BY <1>1, <2>1 DEF Does, InvokeStart, Invoke, OwnerInv, Bounded, Single, Closed,
       Holding, Late, None
  <2>5. Owned'
    BY <1>1, <2>1 DEF Does, InvokeStart, Invoke, OwnerInv, Bounded, Single, Closed,
       Owned, Holding, Late, None
  <2> QED BY <2>2, <2>3, <2>4, <2>5 DEF OwnerInv
<1>2. ASSUME NEW c \in Callers, InvokeStop(c) PROVE OwnerInv'
  <2>1. Does(c, "idle", "stop", proc[c].mgr)
    BY <1>2, Steps
  <2>2. Bounded'
    BY <1>2, <2>1, Given DEF Does, InvokeStop, Invoke, OwnerInv, Bounded, TypeInv,
       ProcInv, None
  <2>3. Single'
    BY <1>2, <2>1 DEF Does, InvokeStop, Invoke, OwnerInv, Bounded, Single, Holding,
       Late, None
  <2>4. Closed'
    BY <1>2, <2>1 DEF Does, InvokeStop, Invoke, OwnerInv, Bounded, Single, Closed,
       Holding, Late, None
  <2>5. Owned'
    BY <1>2, <2>1 DEF Does, InvokeStop, Invoke, OwnerInv, Bounded, Single, Closed,
       Owned, Holding, Late, None
  <2> QED BY <2>2, <2>3, <2>4, <2>5 DEF OwnerInv
<1>3. ASSUME NEW c \in Callers, StartCheck(c) PROVE OwnerInv'
  <2>1. Does(c, "start",
              IF isRecording THEN "idle" ELSE "validate",
              IF isRecording THEN None ELSE proc[c].mgr)
    BY <1>3, Steps
  <2>2. Bounded'
    BY <1>3, <2>1, Given DEF Does, StartCheck, OwnerInv, Bounded, TypeInv, ProcInv, None
  <2>3. Single'
    BY <1>3, <2>1 DEF Does, StartCheck, OwnerInv, Bounded, Single, Holding, Late, None
  <2>4. Closed'
    BY <1>3, <2>1 DEF Does, StartCheck, OwnerInv, Bounded, Single, Closed, Holding,
       Late, None
  <2>5. Owned'
    BY <1>3, <2>1 DEF Does, StartCheck, OwnerInv, Bounded, Single, Closed, Owned,
       Holding, Late, None
  <2> QED BY <2>2, <2>3, <2>4, <2>5 DEF OwnerInv
<1>4. ASSUME NEW c \in Callers, StartRefused(c) PROVE OwnerInv'
  <2>1. Does(c, "validate", "idle", None)
    BY <1>4, Steps
  <2>2. Bounded'
    BY <1>4, <2>1, Given DEF Does, StartRefused, OwnerInv, Bounded, TypeInv, ProcInv,
       None
  <2>3. Single'
    BY <1>4, <2>1 DEF Does, StartRefused, OwnerInv, Bounded, Single, Holding, Late, None
  <2>4. Closed'
    BY <1>4, <2>1 DEF Does, StartRefused, OwnerInv, Bounded, Single, Closed, Holding,
       Late, None
  <2>5. Owned'
    BY <1>4, <2>1 DEF Does, StartRefused, OwnerInv, Bounded, Single, Closed, Owned,
       Holding, Late, None
  <2> QED BY <2>2, <2>3, <2>4, <2>5 DEF OwnerInv
<1>5. ASSUME NEW c \in Callers, StartManager(c) PROVE OwnerInv'
  <2>1. Does(c, "validate", "opening", started + 1)
    BY <1>5, Steps
  <2>2. Bounded'
    BY <1>5, <2>1, Given DEF Does, StartManager, OwnerInv, Bounded, TypeInv, ProcInv,
       None
  <2>3. Single'
    BY <1>5, <2>1 DEF Does, StartManager, OwnerInv, Bounded, Single, Holding, Late,
       None, TypeInv, ProcInv
  <2>4. Closed'
    BY <1>5, <2>1 DEF Does, StartManager, OwnerInv, Bounded, Single, Closed, Holding,
       Late, None, TypeInv, ProcInv
  <2>5. Owned'
    BY <1>5, <2>1 DEF Does, StartManager, OwnerInv, Bounded, Single, Closed, Owned,
       Holding, Late, None, TypeInv, ProcInv
  <2> QED BY <2>2, <2>3, <2>4, <2>5 DEF OwnerInv
<1>6. ASSUME NEW c \in Callers, StartFails(c) PROVE OwnerInv'
  <2>1. Does(c, "opening", "idle", None)
    BY <1>6, Steps
  <2>2. Bounded'
    <3>1. 0 \in 0..started /\ proc'[c].mgr = 0
      BY <2>1 DEF Does, TypeInv, ProcInv, None
    <3>2. \A d \in Callers : proc'[d].mgr \in 0..started
      BY <2>1, <3>1 DEF Does, OwnerInv, Bounded
    <3> QED BY <1>6, <3>2 DEF StartFails, Dropped, OwnerInv, Bounded
  <2>3. Single'
    BY <1>6, <2>1 DEF Does, StartFails, Dropped, OwnerInv, Bounded, Single, Holding,
       Late, None
  <2>4. Closed'
    BY <1>6, <2>1 DEF Does, StartFails, Dropped, OwnerInv, Bounded, Single, Closed,
       Holding, Late, None
  <2>5. Owned'
    BY <1>6, <2>1 DEF Does, StartFails, Dropped, OwnerInv, Bounded, Single, Closed,
       Owned, Holding, Late, None
  <2> QED BY <2>2, <2>3, <2>4, <2>5 DEF OwnerInv
<1>7. ASSUME NEW c \in Callers, StartPublish(c) PROVE OwnerInv'
  <2>1. Does(c, "opening", "flag", proc[c].mgr)
    BY <1>7, Steps
  <2>2. Bounded'
    BY <1>7, <2>1, Given DEF Does, StartPublish, Dropped, OwnerInv, Bounded, TypeInv,
       ProcInv, None
  <2>3. Single'
    BY <1>7, <2>1 DEF Does, StartPublish, Dropped, OwnerInv, Bounded, Single, Holding,
       Late, None
  <2>4. Closed'
    BY <1>7, <2>1 DEF Does, StartPublish, Dropped, OwnerInv, Bounded, Single, Closed,
       Holding, Late, None
  <2>5. Owned'
    BY <1>7, <2>1 DEF Does, StartPublish, Dropped, OwnerInv, Bounded, Single, Closed,
       Owned, Holding, Late, None
  <2> QED BY <2>2, <2>3, <2>4, <2>5 DEF OwnerInv
<1>8. ASSUME NEW c \in Callers, StartSetFlag(c) PROVE OwnerInv'
  <2>1. Does(c, "flag", "spawn", proc[c].mgr)
    BY <1>8, Steps
  <2>2. Bounded'
    BY <1>8, <2>1, Given DEF Does, StartSetFlag, OwnerInv, Bounded, TypeInv, ProcInv,
       None
  <2>3. Single'
    BY <1>8, <2>1 DEF Does, StartSetFlag, OwnerInv, Bounded, Single, Holding, Late, None
  <2>4. Closed'
    BY <1>8, <2>1 DEF Does, StartSetFlag, OwnerInv, Bounded, Single, Closed, Holding,
       Late, None
  <2>5. Owned'
    BY <1>8, <2>1 DEF Does, StartSetFlag, OwnerInv, Bounded, Single, Closed, Owned,
       Holding, Late, None
  <2> QED BY <2>2, <2>3, <2>4, <2>5 DEF OwnerInv
<1>9. ASSUME NEW c \in Callers, StartSpawn(c) PROVE OwnerInv'
  <2>1. Does(c, "spawn", "listen", proc[c].mgr)
    BY <1>9, Steps
  <2>2. Bounded'
    BY <1>9, <2>1, Given DEF Does, StartSpawn, OwnerInv, Bounded, TypeInv, ProcInv, None
  <2>3. Single'
    BY <1>9, <2>1 DEF Does, StartSpawn, OwnerInv, Bounded, Single, Holding, Late, None
  <2>4. Closed'
    BY <1>9, <2>1 DEF Does, StartSpawn, OwnerInv, Bounded, Single, Closed, Holding,
       Late, None
  <2>5. Owned'
    BY <1>9, <2>1 DEF Does, StartSpawn, OwnerInv, Bounded, Single, Closed, Owned,
       Holding, Late, None
  <2> QED BY <2>2, <2>3, <2>4, <2>5 DEF OwnerInv
<1>10. ASSUME NEW c \in Callers, StartListen(c) PROVE OwnerInv'
  <2>1. Does(c, "listen", "idle", None)
    BY <1>10, Steps
  <2>2. Bounded'
    BY <1>10, <2>1, Given DEF Does, StartListen, OwnerInv, Bounded, TypeInv, ProcInv,
       None
  <2>3. Single'
    BY <1>10, <2>1 DEF Does, StartListen, OwnerInv, Bounded, Single, Holding, Late, None
  <2>4. Closed'
    BY <1>10, <2>1 DEF Does, StartListen, OwnerInv, Bounded, Single, Closed, Holding,
       Late, None
  <2>5. Owned'
    BY <1>10, <2>1 DEF Does, StartListen, OwnerInv, Bounded, Single, Closed, Owned,
       Holding, Late, None
  <2> QED BY <2>2, <2>3, <2>4, <2>5 DEF OwnerInv
<1>11. ASSUME NEW c \in Callers, StopCheck(c) PROVE OwnerInv'
  <2>1. Does(c, "stop",
              IF isRecording THEN "take_manager" ELSE "idle",
              IF isRecording THEN proc[c].mgr ELSE None)
    BY <1>11, Steps
  <2>2. Bounded'
    BY <1>11, <2>1, Given DEF Does, StopCheck, OwnerInv, Bounded, TypeInv, ProcInv, None
  <2>3. Single'
    BY <1>11, <2>1 DEF Does, StopCheck, OwnerInv, Bounded, Single, Holding, Late, None
  <2>4. Closed'
    BY <1>11, <2>1 DEF Does, StopCheck, OwnerInv, Bounded, Single, Closed, Holding,
       Late, None
  <2>5. Owned'
    BY <1>11, <2>1 DEF Does, StopCheck, OwnerInv, Bounded, Single, Closed, Owned,
       Holding, Late, None
  <2> QED BY <2>2, <2>3, <2>4, <2>5 DEF OwnerInv
<1>12. ASSUME NEW c \in Callers, StopTakeManager(c) PROVE OwnerInv'
  <2>1. Does(c, "take_manager",
              IF manager = None THEN "unlisten" ELSE "streams",
              manager)
    BY <1>12, Steps
  <2>2. Bounded'
    BY <1>12, <2>1, Given DEF Does, StopTakeManager, OwnerInv, Bounded, TypeInv,
       ProcInv, None
  <2>3. Single'
    BY <1>12, <2>1 DEF Does, StopTakeManager, OwnerInv, Bounded, Single, Holding, Late,
       None
  <2>4. Closed'
    BY <1>12, <2>1 DEF Does, StopTakeManager, OwnerInv, Bounded, Single, Closed,
       Holding, Late, None
  <2>5. Owned'
    BY <1>12, <2>1 DEF Does, StopTakeManager, OwnerInv, Bounded, Single, Closed, Owned,
       Holding, Late, None
  <2> QED BY <2>2, <2>3, <2>4, <2>5 DEF OwnerInv
<1>13. ASSUME NEW c \in Callers, StopStreams(c) PROVE OwnerInv'
  <2>1. Does(c, "streams", "flush", proc[c].mgr)
    BY <1>13, Steps
  <2>2. Bounded'
    BY <1>13, <2>1, Given DEF Does, StopStreams, OwnerInv, Bounded, TypeInv, ProcInv,
       None
  <2>3. Single'
    BY <1>13, <2>1 DEF Does, StopStreams, OwnerInv, Bounded, Single, Holding, Late, None
  <2>4. Closed'
    BY <1>13, <2>1 DEF Does, StopStreams, OwnerInv, Bounded, Single, Closed, Holding,
       Late, None
  <2>5. Owned'
    BY <1>13, <2>1 DEF Does, StopStreams, OwnerInv, Bounded, Single, Closed, Owned,
       Holding, Late, None
  <2> QED BY <2>2, <2>3, <2>4, <2>5 DEF OwnerInv
<1>14. ASSUME NEW c \in Callers, StopFlushed(c) PROVE OwnerInv'
  <2>1. Does(c, "flush", "unlisten", proc[c].mgr)
    BY <1>14, Steps
  <2>2. Bounded'
    BY <1>14, <2>1, Given DEF Does, StopFlushed, OwnerInv, Bounded, TypeInv, ProcInv,
       None
  <2>3. Single'
    BY <1>14, <2>1 DEF Does, StopFlushed, OwnerInv, Bounded, Single, Holding, Late, None
  <2>4. Closed'
    BY <1>14, <2>1 DEF Does, StopFlushed, OwnerInv, Bounded, Single, Closed, Holding,
       Late, None
  <2>5. Owned'
    BY <1>14, <2>1 DEF Does, StopFlushed, OwnerInv, Bounded, Single, Closed, Owned,
       Holding, Late, None
  <2> QED BY <2>2, <2>3, <2>4, <2>5 DEF OwnerInv
<1>15. ASSUME NEW c \in Callers, StopUnlisten(c) PROVE OwnerInv'
  <2>1. Does(c, "unlisten", "take_task", proc[c].mgr)
    BY <1>15, Steps
  <2>2. Bounded'
    BY <1>15, <2>1, Given DEF Does, StopUnlisten, OwnerInv, Bounded, TypeInv, ProcInv,
       None
  <2>3. Single'
    BY <1>15, <2>1 DEF Does, StopUnlisten, OwnerInv, Bounded, Single, Holding, Late,
       None
  <2>4. Closed'
    BY <1>15, <2>1 DEF Does, StopUnlisten, OwnerInv, Bounded, Single, Closed, Holding,
       Late, None
  <2>5. Owned'
    BY <1>15, <2>1 DEF Does, StopUnlisten, OwnerInv, Bounded, Single, Closed, Owned,
       Holding, Late, None
  <2> QED BY <2>2, <2>3, <2>4, <2>5 DEF OwnerInv
<1>16. ASSUME NEW c \in Callers, StopTakeTask(c) PROVE OwnerInv'
  <2>1. Does(c, "take_task",
              IF transcriptionTask = None THEN "unload" ELSE "join",
              proc[c].mgr)
    BY <1>16, Steps
  <2>2. Bounded'
    BY <1>16, <2>1, Given DEF Does, StopTakeTask, OwnerInv, Bounded, TypeInv, ProcInv,
       None
  <2>3. Single'
    BY <1>16, <2>1 DEF Does, StopTakeTask, OwnerInv, Bounded, Single, Holding, Late,
       None
  <2>4. Closed'
    BY <1>16, <2>1 DEF Does, StopTakeTask, OwnerInv, Bounded, Single, Closed, Holding,
       Late, None
  <2>5. Owned'
    BY <1>16, <2>1 DEF Does, StopTakeTask, OwnerInv, Bounded, Single, Closed, Owned,
       Holding, Late, None
  <2> QED BY <2>2, <2>3, <2>4, <2>5 DEF OwnerInv
<1>17. ASSUME NEW c \in Callers, StopJoined(c) PROVE OwnerInv'
  <2>1. Does(c, "join", "unload", proc[c].mgr)
    BY <1>17, Steps
  <2>2. Bounded'
    BY <1>17, <2>1, Given DEF Does, StopJoined, OwnerInv, Bounded, TypeInv, ProcInv,
       None
  <2>3. Single'
    BY <1>17, <2>1 DEF Does, StopJoined, OwnerInv, Bounded, Single, Holding, Late, None
  <2>4. Closed'
    BY <1>17, <2>1 DEF Does, StopJoined, OwnerInv, Bounded, Single, Closed, Holding,
       Late, None
  <2>5. Owned'
    BY <1>17, <2>1 DEF Does, StopJoined, OwnerInv, Bounded, Single, Closed, Owned,
       Holding, Late, None
  <2> QED BY <2>2, <2>3, <2>4, <2>5 DEF OwnerInv
<1>18. ASSUME NEW c \in Callers, StopTimeout(c) PROVE OwnerInv'
  <2>1. Does(c, "join", "unload", proc[c].mgr)
    BY <1>18, Steps
  <2>2. Bounded'
    BY <1>18, <2>1, Given DEF Does, StopTimeout, OwnerInv, Bounded, TypeInv, ProcInv,
       None
  <2>3. Single'
    BY <1>18, <2>1 DEF Does, StopTimeout, OwnerInv, Bounded, Single, Holding, Late, None
  <2>4. Closed'
    BY <1>18, <2>1 DEF Does, StopTimeout, OwnerInv, Bounded, Single, Closed, Holding,
       Late, None
  <2>5. Owned'
    BY <1>18, <2>1 DEF Does, StopTimeout, OwnerInv, Bounded, Single, Closed, Owned,
       Holding, Late, None
  <2> QED BY <2>2, <2>3, <2>4, <2>5 DEF OwnerInv
<1>19. ASSUME NEW c \in Callers, NEW ok \in BOOLEAN, StopSave(c, ok) PROVE OwnerInv'
  <2>1. Does(c, "unload", "clear", None)
    BY <1>19, Steps
  <2>2. Bounded'
    BY <1>19, <2>1, Given DEF Does, StopSave, OwnerInv, Bounded, TypeInv, ProcInv, None
  <2>3. Single'
    BY <1>19, <2>1 DEF Does, StopSave, OwnerInv, Bounded, Single, Holding, Late, None
  <2>4. Closed'
    BY <1>19, <2>1 DEF Does, StopSave, OwnerInv, Bounded, Single, Closed, Holding, Late,
       None
  <2>5. Owned'
    BY <1>19, <2>1 DEF Does, StopSave, OwnerInv, Bounded, Single, Closed, Owned,
       Holding, Late, None
  <2> QED BY <2>2, <2>3, <2>4, <2>5 DEF OwnerInv
<1>20. ASSUME NEW c \in Callers, StopClearFlag(c) PROVE OwnerInv'
  <2>1. Does(c, "clear", "idle", None)
    BY <1>20, Steps
  <2>2. Bounded'
    BY <1>20, <2>1, Given DEF Does, StopClearFlag, OwnerInv, Bounded, TypeInv, ProcInv,
       None
  <2>3. Single'
    BY <1>20, <2>1 DEF Does, StopClearFlag, OwnerInv, Bounded, Single, Holding, Late,
       None
  <2>4. Closed'
    BY <1>20, <2>1 DEF Does, StopClearFlag, OwnerInv, Bounded, Single, Closed, Holding,
       Late, None
  <2>5. Owned'
    BY <1>20, <2>1 DEF Does, StopClearFlag, OwnerInv, Bounded, Single, Closed, Owned,
       Holding, Late, None
  <2> QED BY <2>2, <2>3, <2>4, <2>5 DEF OwnerInv
<1>21. ASSUME NEW s \in Sessions, Speak(s) PROVE OwnerInv'
  BY <1>21 DEF Speak, OwnerInv, Bounded, Single, Closed, Owned, Holding, TypeInv,
     ProcInv
<1>22. ASSUME NEW s \in Sessions, AudioFails(s) PROVE OwnerInv'
  BY <1>22 DEF AudioFails, OwnerInv, Bounded, Single, Closed, Owned, Holding, TypeInv,
     ProcInv
<1>23. ASSUME NEW s \in Sessions, PipelineEnds(s) PROVE OwnerInv'
  BY <1>23 DEF PipelineEnds, OwnerInv, Bounded, Single, Closed, Owned, Holding, TypeInv,
     ProcInv
<1>24. ASSUME NEW s \in Sessions, EmitFinal(s) PROVE OwnerInv'
  BY <1>24 DEF EmitFinal, OwnerInv, Bounded, Single, Closed, Owned, Holding, TypeInv,
     ProcInv
<1>25. ASSUME NEW s \in Sessions, TaskEnds(s) PROVE OwnerInv'
  BY <1>25 DEF TaskEnds, OwnerInv, Bounded, Single, Closed, Owned, Holding, TypeInv,
     ProcInv
<1>26. CASE UNCHANGED vars
  BY <1>26 DEF vars, OwnerInv, Bounded, Single, Closed, Owned, Holding, TypeInv, ProcInv
<1> QED
  BY <1>1, <1>2, <1>3, <1>4, <1>5, <1>6, <1>7, <1>8, <1>9, <1>10, <1>11, <1>12, <1>13,
     <1>14, <1>15, <1>16, <1>17, <1>18, <1>19, <1>20, <1>21, <1>22, <1>23, <1>24, <1>25,
     <1>26
  DEF Next, Start, Stop, Session

(* Every step of a command that is alone keeps the globals in its phase.     *)
LEMMA PhaseStep ==
    TypeInv /\ PhaseInv /\ [Next]_vars => PhaseInv'
<1> SUFFICES ASSUME TypeInv, PhaseInv, [Next]_vars PROVE PhaseInv'
  OBVIOUS
<1> USE DEF At, globals, audio, texts, history
<1>1. ASSUME NEW c \in Callers, InvokeStart(c) PROVE PhaseInv'
  <2>1. Does(c, "idle", "start", proc[c].mgr)
    BY <1>1, Steps
  <2>2. Alone'
    <3>1. ~overlapped' => ~overlapped /\ \A d \in Callers \ {c} : At(d, "idle")
      BY <1>1 DEF InvokeStart, Invoke
    <3>2. ~overlapped' => \A d \in Callers \ {c} : At(d, "idle")'
      BY <2>1, <3>1 DEF Does
    <3> QED BY <3>2 DEF Alone
  <2>3. AtRest'
    BY <1>1, <2>1 DEF Does, InvokeStart, Invoke, PhaseInv, Alone, AtRest, Resting, Rest,
       Nothing, Publishing, Flagged, Unpublished, Holds, None
  <2>4. Unpublished'
    BY <1>1, <2>1 DEF Does, InvokeStart, Invoke, PhaseInv, Alone, Unpublished, AtRest,
       Resting, Rest, Nothing, Withdrawing, Publishing, None
  <2>5. Holds'
    BY <1>1, <2>1 DEF Does, InvokeStart, Invoke, PhaseInv, Alone, Holds, AtRest,
       Resting, Rest, Flagged, None
  <2>6. Publishing'
    BY <1>1, <2>1 DEF Does, InvokeStart, Invoke, PhaseInv, Alone, Publishing,
       Unpublished, Nothing, None
  <2>7. Withdrawing'
    BY <1>1, <2>1 DEF Does, InvokeStart, Invoke, PhaseInv, Alone, Withdrawing, AtRest,
       Resting, Rest, Flagged, None
  <2>8. Flagged'
    BY <1>1, <2>1 DEF Does, InvokeStart, Invoke, PhaseInv, Alone, Flagged, AtRest,
       Resting, Rest, None
  <2> QED BY <2>2, <2>3, <2>4, <2>5, <2>6, <2>7, <2>8 DEF PhaseInv
<1>2. ASSUME NEW c \in Callers, InvokeStop(c) PROVE PhaseInv'
  <2>1. Does(c, "idle", "stop", proc[c].mgr)
    BY <1>2, Steps
  <2>2. Alone'
    <3>1. ~overlapped' => ~overlapped /\ \A d \in Callers \ {c} : At(d, "idle")
      BY <1>2 DEF InvokeStop, Invoke
    <3>2. ~overlapped' => \A d \in Callers \ {c} : At(d, "idle")'
      BY <2>1, <3>1 DEF Does
    <3> QED BY <3>2 DEF Alone
  <2>3. AtRest'
    BY <1>2, <2>1 DEF Does, InvokeStop, Invoke, PhaseInv, Alone, AtRest, Resting, Rest,
       Nothing, Publishing, Flagged, Unpublished, Holds, None
  <2>4. Unpublished'
    BY <1>2, <2>1 DEF Does, InvokeStop, Invoke, PhaseInv, Alone, Unpublished, AtRest,
       Resting, Rest, Nothing, Withdrawing, Publishing, None
  <2>5. Holds'
    BY <1>2, <2>1 DEF Does, InvokeStop, Invoke, PhaseInv, Alone, Holds, AtRest, Resting,
       Rest, Flagged, None
  <2>6. Publishing'
    BY <1>2, <2>1 DEF Does, InvokeStop, Invoke, PhaseInv, Alone, Publishing,
       Unpublished, Nothing, None
  <2>7. Withdrawing'
    BY <1>2, <2>1 DEF Does, InvokeStop, Invoke, PhaseInv, Alone, Withdrawing, AtRest,
       Resting, Rest, Flagged, None
  <2>8. Flagged'
    BY <1>2, <2>1 DEF Does, InvokeStop, Invoke, PhaseInv, Alone, Flagged, AtRest,
       Resting, Rest, None
  <2> QED BY <2>2, <2>3, <2>4, <2>5, <2>6, <2>7, <2>8 DEF PhaseInv
<1>3. ASSUME NEW c \in Callers, StartCheck(c) PROVE PhaseInv'
  <2>1. Does(c, "start",
              IF isRecording THEN "idle" ELSE "validate",
              IF isRecording THEN None ELSE proc[c].mgr)
    BY <1>3, Steps
  <2>2. Alone'
    BY <1>3, <2>1 DEF Does, StartCheck, PhaseInv, Alone, None
  <2>3. AtRest'
    BY <1>3, <2>1 DEF Does, StartCheck, PhaseInv, Alone, AtRest, Resting, Rest, Nothing,
       Publishing, Flagged, Unpublished, Holds, None
  <2>4. Unpublished'
    BY <1>3, <2>1 DEF Does, StartCheck, PhaseInv, Alone, Unpublished, AtRest, Resting,
       Rest, Nothing, Withdrawing, Publishing, None
  <2>5. Holds'
    BY <1>3, <2>1 DEF Does, StartCheck, PhaseInv, Alone, Holds, AtRest, Resting, Rest,
       Flagged, None
  <2>6. Publishing'
    BY <1>3, <2>1 DEF Does, StartCheck, PhaseInv, Alone, Publishing, Unpublished,
       Nothing, None
  <2>7. Withdrawing'
    BY <1>3, <2>1 DEF Does, StartCheck, PhaseInv, Alone, Withdrawing, AtRest, Resting,
       Rest, Flagged, None
  <2>8. Flagged'
    BY <1>3, <2>1 DEF Does, StartCheck, PhaseInv, Alone, Flagged, AtRest, Resting, Rest,
       None
  <2> QED BY <2>2, <2>3, <2>4, <2>5, <2>6, <2>7, <2>8 DEF PhaseInv
<1>4. ASSUME NEW c \in Callers, StartRefused(c) PROVE PhaseInv'
  <2>1. Does(c, "validate", "idle", None)
    BY <1>4, Steps
  <2>2. Alone'
    BY <1>4, <2>1 DEF Does, StartRefused, PhaseInv, Alone, None
  <2>3. AtRest'
    BY <1>4, <2>1 DEF Does, StartRefused, PhaseInv, Alone, AtRest, Resting, Rest,
       Nothing, Publishing, Flagged, Unpublished, Holds, None
  <2>4. Unpublished'
    BY <1>4, <2>1 DEF Does, StartRefused, PhaseInv, Alone, Unpublished, AtRest, Resting,
       Rest, Nothing, Withdrawing, Publishing, None
  <2>5. Holds'
    BY <1>4, <2>1 DEF Does, StartRefused, PhaseInv, Alone, Holds, AtRest, Resting, Rest,
       Flagged, None
  <2>6. Publishing'
    BY <1>4, <2>1 DEF Does, StartRefused, PhaseInv, Alone, Publishing, Unpublished,
       Nothing, None
  <2>7. Withdrawing'
    BY <1>4, <2>1 DEF Does, StartRefused, PhaseInv, Alone, Withdrawing, AtRest, Resting,
       Rest, Flagged, None
  <2>8. Flagged'
    BY <1>4, <2>1 DEF Does, StartRefused, PhaseInv, Alone, Flagged, AtRest, Resting,
       Rest, None
  <2> QED BY <2>2, <2>3, <2>4, <2>5, <2>6, <2>7, <2>8 DEF PhaseInv
<1>5. ASSUME NEW c \in Callers, StartManager(c) PROVE PhaseInv'
  <2>1. Does(c, "validate", "opening", started + 1)
    BY <1>5, Steps
  <2>2. Alone'
    BY <1>5, <2>1 DEF Does, StartManager, PhaseInv, Alone, None
  <2>3. AtRest'
    BY <1>5, <2>1 DEF Does, StartManager, PhaseInv, Alone, AtRest, Resting, Rest,
       Nothing, Publishing, Flagged, Unpublished, Holds, None
  <2>4. Unpublished'
    BY <1>5, <2>1 DEF Does, StartManager, PhaseInv, Alone, Unpublished, AtRest, Resting,
       Rest, Nothing, Withdrawing, Publishing, None
  <2>5. Holds'
    BY <1>5, <2>1 DEF Does, StartManager, PhaseInv, Alone, Holds, AtRest, Resting, Rest,
       Flagged, None, TypeInv, ProcInv
  <2>6. Publishing'
    BY <1>5, <2>1 DEF Does, StartManager, PhaseInv, Alone, Publishing, Unpublished,
       Nothing, None
  <2>7. Withdrawing'
    BY <1>5, <2>1 DEF Does, StartManager, PhaseInv, Alone, Withdrawing, AtRest, Resting,
       Rest, Flagged, None
  <2>8. Flagged'
    BY <1>5, <2>1 DEF Does, StartManager, PhaseInv, Alone, Flagged, AtRest, Resting,
       Rest, None
  <2> QED BY <2>2, <2>3, <2>4, <2>5, <2>6, <2>7, <2>8 DEF PhaseInv
<1>6. ASSUME NEW c \in Callers, StartFails(c) PROVE PhaseInv'
  <2>1. Does(c, "opening", "idle", None)
    BY <1>6, Steps
  <2>2. Alone'
    BY <1>6, <2>1 DEF Does, StartFails, Dropped, PhaseInv, Alone, None
  <2>3. AtRest'
    BY <1>6, <2>1 DEF Does, StartFails, Dropped, PhaseInv, Alone, AtRest, Resting, Rest,
       Nothing, Publishing, Flagged, Unpublished, Holds, None
  <2>4. Unpublished'
    BY <1>6, <2>1 DEF Does, StartFails, Dropped, PhaseInv, Alone, Unpublished, AtRest,
       Resting, Rest, Nothing, Withdrawing, Publishing, None
  <2>5. Holds'
    BY <1>6, <2>1 DEF Does, StartFails, Dropped, PhaseInv, Alone, Holds, AtRest,
       Resting, Rest, Flagged, None
  <2>6. Publishing'
    BY <1>6, <2>1 DEF Does, StartFails, Dropped, PhaseInv, Alone, Publishing,
       Unpublished, Nothing, None
  <2>7. Withdrawing'
    BY <1>6, <2>1 DEF Does, StartFails, Dropped, PhaseInv, Alone, Withdrawing, AtRest,
       Resting, Rest, Flagged, None
  <2>8. Flagged'
    BY <1>6, <2>1 DEF Does, StartFails, Dropped, PhaseInv, Alone, Flagged, AtRest,
       Resting, Rest, None
  <2> QED BY <2>2, <2>3, <2>4, <2>5, <2>6, <2>7, <2>8 DEF PhaseInv
<1>7. ASSUME NEW c \in Callers, StartPublish(c) PROVE PhaseInv'
  <2>1. Does(c, "opening", "flag", proc[c].mgr)
    BY <1>7, Steps
  <2>2. Alone'
    BY <1>7, <2>1 DEF Does, StartPublish, Dropped, PhaseInv, Alone, None
  <2>3. AtRest'
    BY <1>7, <2>1 DEF Does, StartPublish, Dropped, PhaseInv, Alone, AtRest, Resting,
       Rest, Nothing, Publishing, Flagged, Unpublished, Holds, None
  <2>4. Unpublished'
    BY <1>7, <2>1 DEF Does, StartPublish, Dropped, PhaseInv, Alone, Unpublished, AtRest,
       Resting, Rest, Nothing, Withdrawing, Publishing, None
  <2>5. Holds'
    BY <1>7, <2>1 DEF Does, StartPublish, Dropped, PhaseInv, Alone, Holds, AtRest,
       Resting, Rest, Flagged, None
  <2>6. Publishing'
    BY <1>7, <2>1 DEF Does, StartPublish, Dropped, PhaseInv, Alone, Publishing,
       Unpublished, Nothing, None
  <2>7. Withdrawing'
    BY <1>7, <2>1 DEF Does, StartPublish, Dropped, PhaseInv, Alone, Withdrawing, AtRest,
       Resting, Rest, Flagged, None
  <2>8. Flagged'
    BY <1>7, <2>1 DEF Does, StartPublish, Dropped, PhaseInv, Alone, Flagged, AtRest,
       Resting, Rest, None
  <2> QED BY <2>2, <2>3, <2>4, <2>5, <2>6, <2>7, <2>8 DEF PhaseInv
<1>8. ASSUME NEW c \in Callers, StartSetFlag(c) PROVE PhaseInv'
  <2>1. Does(c, "flag", "spawn", proc[c].mgr)
    BY <1>8, Steps
  <2>2. Alone'
    BY <1>8, <2>1 DEF Does, StartSetFlag, PhaseInv, Alone, None
  <2>3. AtRest'
    BY <1>8, <2>1 DEF Does, StartSetFlag, PhaseInv, Alone, AtRest, Resting, Rest,
       Nothing, Publishing, Flagged, Unpublished, Holds, None
  <2>4. Unpublished'
    BY <1>8, <2>1 DEF Does, StartSetFlag, PhaseInv, Alone, Unpublished, AtRest, Resting,
       Rest, Nothing, Withdrawing, Publishing, None
  <2>5. Holds'
    BY <1>8, <2>1 DEF Does, StartSetFlag, PhaseInv, Alone, Holds, AtRest, Resting, Rest,
       Flagged, None
  <2>6. Publishing'
    BY <1>8, <2>1 DEF Does, StartSetFlag, PhaseInv, Alone, Publishing, Unpublished,
       Nothing, None
  <2>7. Withdrawing'
    BY <1>8, <2>1 DEF Does, StartSetFlag, PhaseInv, Alone, Withdrawing, AtRest, Resting,
       Rest, Flagged, None
  <2>8. Flagged'
    BY <1>8, <2>1 DEF Does, StartSetFlag, PhaseInv, Alone, Flagged, AtRest, Resting,
       Rest, None
  <2> QED BY <2>2, <2>3, <2>4, <2>5, <2>6, <2>7, <2>8 DEF PhaseInv
<1>9. ASSUME NEW c \in Callers, StartSpawn(c) PROVE PhaseInv'
  <2>1. Does(c, "spawn", "listen", proc[c].mgr)
    BY <1>9, Steps
  <2>2. Alone'
    BY <1>9, <2>1 DEF Does, StartSpawn, PhaseInv, Alone, None
  <2>3. AtRest'
    BY <1>9, <2>1 DEF Does, StartSpawn, PhaseInv, Alone, AtRest, Resting, Rest, Nothing,
       Publishing, Flagged, Unpublished, Holds, None
  <2>4. Unpublished'
    BY <1>9, <2>1 DEF Does, StartSpawn, PhaseInv, Alone, Unpublished, AtRest, Resting,
       Rest, Nothing, Withdrawing, Publishing, None
  <2>5. Holds'
    BY <1>9, <2>1 DEF Does, StartSpawn, PhaseInv, Alone, Holds, AtRest, Resting, Rest,
       Flagged, None
  <2>6. Publishing'
    BY <1>9, <2>1 DEF Does, StartSpawn, PhaseInv, Alone, Publishing, Unpublished,
       Nothing, None
  <2>7. Withdrawing'
    BY <1>9, <2>1 DEF Does, StartSpawn, PhaseInv, Alone, Withdrawing, AtRest, Resting,
       Rest, Flagged, None
  <2>8. Flagged'
    BY <1>9, <2>1 DEF Does, StartSpawn, PhaseInv, Alone, Flagged, AtRest, Resting, Rest,
       None
  <2> QED BY <2>2, <2>3, <2>4, <2>5, <2>6, <2>7, <2>8 DEF PhaseInv
<1>10. ASSUME NEW c \in Callers, StartListen(c) PROVE PhaseInv'
  <2>1. Does(c, "listen", "idle", None)
    BY <1>10, Steps
  <2>2. Alone'
    BY <1>10, <2>1 DEF Does, StartListen, PhaseInv, Alone, None
  <2>3. AtRest'
    BY <1>10, <2>1 DEF Does, StartListen, PhaseInv, Alone, AtRest, Resting, Rest,
       Nothing, Publishing, Flagged, Unpublished, Holds, None
  <2>4. Unpublished'
    BY <1>10, <2>1 DEF Does, StartListen, PhaseInv, Alone, Unpublished, AtRest, Resting,
       Rest, Nothing, Withdrawing, Publishing, None
  <2>5. Holds'
    BY <1>10, <2>1 DEF Does, StartListen, PhaseInv, Alone, Holds, AtRest, Resting, Rest,
       Flagged, None
  <2>6. Publishing'
    BY <1>10, <2>1 DEF Does, StartListen, PhaseInv, Alone, Publishing, Unpublished,
       Nothing, None
  <2>7. Withdrawing'
    BY <1>10, <2>1 DEF Does, StartListen, PhaseInv, Alone, Withdrawing, AtRest, Resting,
       Rest, Flagged, None
  <2>8. Flagged'
    BY <1>10, <2>1 DEF Does, StartListen, PhaseInv, Alone, Flagged, AtRest, Resting,
       Rest, None
  <2> QED BY <2>2, <2>3, <2>4, <2>5, <2>6, <2>7, <2>8 DEF PhaseInv
<1>11. ASSUME NEW c \in Callers, StopCheck(c) PROVE PhaseInv'
  <2>1. Does(c, "stop",
              IF isRecording THEN "take_manager" ELSE "idle",
              IF isRecording THEN proc[c].mgr ELSE None)
    BY <1>11, Steps
  <2>2. Alone'
    BY <1>11, <2>1 DEF Does, StopCheck, PhaseInv, Alone, None
  <2>3. AtRest'
    BY <1>11, <2>1 DEF Does, StopCheck, PhaseInv, Alone, AtRest, Resting, Rest, Nothing,
       Publishing, Flagged, Unpublished, Holds, None
  <2>4. Unpublished'
    BY <1>11, <2>1 DEF Does, StopCheck, PhaseInv, Alone, Unpublished, AtRest, Resting,
       Rest, Nothing, Withdrawing, Publishing, None
  <2>5. Holds'
    BY <1>11, <2>1 DEF Does, StopCheck, PhaseInv, Alone, Holds, AtRest, Resting, Rest,
       Flagged, None
  <2>6. Publishing'
    BY <1>11, <2>1 DEF Does, StopCheck, PhaseInv, Alone, Publishing, Unpublished,
       Nothing, None
  <2>7. Withdrawing'
    BY <1>11, <2>1 DEF Does, StopCheck, PhaseInv, Alone, Withdrawing, AtRest, Resting,
       Rest, Flagged, None
  <2>8. Flagged'
    BY <1>11, <2>1 DEF Does, StopCheck, PhaseInv, Alone, Flagged, AtRest, Resting, Rest,
       None
  <2> QED BY <2>2, <2>3, <2>4, <2>5, <2>6, <2>7, <2>8 DEF PhaseInv
<1>12. ASSUME NEW c \in Callers, StopTakeManager(c) PROVE PhaseInv'
  <2>1. Does(c, "take_manager",
              IF manager = None THEN "unlisten" ELSE "streams",
              manager)
    BY <1>12, Steps
  <2>2. Alone'
    BY <1>12, <2>1 DEF Does, StopTakeManager, PhaseInv, Alone, None
  <2>3. AtRest'
    BY <1>12, <2>1 DEF Does, StopTakeManager, PhaseInv, Alone, AtRest, Resting, Rest,
       Nothing, Publishing, Flagged, Unpublished, Holds, None
  <2>4. Unpublished'
    BY <1>12, <2>1 DEF Does, StopTakeManager, PhaseInv, Alone, Unpublished, AtRest,
       Resting, Rest, Nothing, Withdrawing, Publishing, None
  <2>5. Holds'
    BY <1>12, <2>1 DEF Does, StopTakeManager, PhaseInv, Alone, Holds, AtRest, Resting,
       Rest, Flagged, None
  <2>6. Publishing'
    BY <1>12, <2>1 DEF Does, StopTakeManager, PhaseInv, Alone, Publishing, Unpublished,
       Nothing, None
  <2>7. Withdrawing'
    BY <1>12, <2>1 DEF Does, StopTakeManager, PhaseInv, Alone, Withdrawing, AtRest,
       Resting, Rest, Flagged, None
  <2>8. Flagged'
    BY <1>12, <2>1 DEF Does, StopTakeManager, PhaseInv, Alone, Flagged, AtRest, Resting,
       Rest, None
  <2> QED BY <2>2, <2>3, <2>4, <2>5, <2>6, <2>7, <2>8 DEF PhaseInv
<1>13. ASSUME NEW c \in Callers, StopStreams(c) PROVE PhaseInv'
  <2>1. Does(c, "streams", "flush", proc[c].mgr)
    BY <1>13, Steps
  <2>2. Alone'
    BY <1>13, <2>1 DEF Does, StopStreams, PhaseInv, Alone, None
  <2>3. AtRest'
    BY <1>13, <2>1 DEF Does, StopStreams, PhaseInv, Alone, AtRest, Resting, Rest,
       Nothing, Publishing, Flagged, Unpublished, Holds, None
  <2>4. Unpublished'
    BY <1>13, <2>1 DEF Does, StopStreams, PhaseInv, Alone, Unpublished, AtRest, Resting,
       Rest, Nothing, Withdrawing, Publishing, None
  <2>5. Holds'
    BY <1>13, <2>1 DEF Does, StopStreams, PhaseInv, Alone, Holds, AtRest, Resting, Rest,
       Flagged, None
  <2>6. Publishing'
    BY <1>13, <2>1 DEF Does, StopStreams, PhaseInv, Alone, Publishing, Unpublished,
       Nothing, None
  <2>7. Withdrawing'
    BY <1>13, <2>1 DEF Does, StopStreams, PhaseInv, Alone, Withdrawing, AtRest, Resting,
       Rest, Flagged, None
  <2>8. Flagged'
    BY <1>13, <2>1 DEF Does, StopStreams, PhaseInv, Alone, Flagged, AtRest, Resting,
       Rest, None
  <2> QED BY <2>2, <2>3, <2>4, <2>5, <2>6, <2>7, <2>8 DEF PhaseInv
<1>14. ASSUME NEW c \in Callers, StopFlushed(c) PROVE PhaseInv'
  <2>1. Does(c, "flush", "unlisten", proc[c].mgr)
    BY <1>14, Steps
  <2>2. Alone'
    BY <1>14, <2>1 DEF Does, StopFlushed, PhaseInv, Alone, None
  <2>3. AtRest'
    BY <1>14, <2>1 DEF Does, StopFlushed, PhaseInv, Alone, AtRest, Resting, Rest,
       Nothing, Publishing, Flagged, Unpublished, Holds, None
  <2>4. Unpublished'
    BY <1>14, <2>1 DEF Does, StopFlushed, PhaseInv, Alone, Unpublished, AtRest, Resting,
       Rest, Nothing, Withdrawing, Publishing, None
  <2>5. Holds'
    BY <1>14, <2>1 DEF Does, StopFlushed, PhaseInv, Alone, Holds, AtRest, Resting, Rest,
       Flagged, None
  <2>6. Publishing'
    BY <1>14, <2>1 DEF Does, StopFlushed, PhaseInv, Alone, Publishing, Unpublished,
       Nothing, None
  <2>7. Withdrawing'
    BY <1>14, <2>1 DEF Does, StopFlushed, PhaseInv, Alone, Withdrawing, AtRest, Resting,
       Rest, Flagged, None
  <2>8. Flagged'
    BY <1>14, <2>1 DEF Does, StopFlushed, PhaseInv, Alone, Flagged, AtRest, Resting,
       Rest, None
  <2> QED BY <2>2, <2>3, <2>4, <2>5, <2>6, <2>7, <2>8 DEF PhaseInv
<1>15. ASSUME NEW c \in Callers, StopUnlisten(c) PROVE PhaseInv'
  <2>1. Does(c, "unlisten", "take_task", proc[c].mgr)
    BY <1>15, Steps
  <2>2. Alone'
    BY <1>15, <2>1 DEF Does, StopUnlisten, PhaseInv, Alone, None
  <2>3. AtRest'
    BY <1>15, <2>1 DEF Does, StopUnlisten, PhaseInv, Alone, AtRest, Resting, Rest,
       Nothing, Publishing, Flagged, Unpublished, Holds, None
  <2>4. Unpublished'
    BY <1>15, <2>1 DEF Does, StopUnlisten, PhaseInv, Alone, Unpublished, AtRest,
       Resting, Rest, Nothing, Withdrawing, Publishing, None
  <2>5. Holds'
    BY <1>15, <2>1 DEF Does, StopUnlisten, PhaseInv, Alone, Holds, AtRest, Resting,
       Rest, Flagged, None
  <2>6. Publishing'
    BY <1>15, <2>1 DEF Does, StopUnlisten, PhaseInv, Alone, Publishing, Unpublished,
       Nothing, None
  <2>7. Withdrawing'
    BY <1>15, <2>1 DEF Does, StopUnlisten, PhaseInv, Alone, Withdrawing, AtRest,
       Resting, Rest, Flagged, None
  <2>8. Flagged'
    BY <1>15, <2>1 DEF Does, StopUnlisten, PhaseInv, Alone, Flagged, AtRest, Resting,
       Rest, None
  <2> QED BY <2>2, <2>3, <2>4, <2>5, <2>6, <2>7, <2>8 DEF PhaseInv
<1>16. ASSUME NEW c \in Callers, StopTakeTask(c) PROVE PhaseInv'
  <2>1. Does(c, "take_task",
              IF transcriptionTask = None THEN "unload" ELSE "join",
              proc[c].mgr)
    BY <1>16, Steps
  <2>2. Alone'
    BY <1>16, <2>1 DEF Does, StopTakeTask, PhaseInv, Alone, None
  <2>3. AtRest'
    BY <1>16, <2>1 DEF Does, StopTakeTask, PhaseInv, Alone, AtRest, Resting, Rest,
       Nothing, Publishing, Flagged, Unpublished, Holds, None
  <2>4. Unpublished'
    BY <1>16, <2>1 DEF Does, StopTakeTask, PhaseInv, Alone, Unpublished, AtRest,
       Resting, Rest, Nothing, Withdrawing, Publishing, None
  <2>5. Holds'
    BY <1>16, <2>1 DEF Does, StopTakeTask, PhaseInv, Alone, Holds, AtRest, Resting,
       Rest, Flagged, None
  <2>6. Publishing'
    BY <1>16, <2>1 DEF Does, StopTakeTask, PhaseInv, Alone, Publishing, Unpublished,
       Nothing, None
  <2>7. Withdrawing'
    BY <1>16, <2>1 DEF Does, StopTakeTask, PhaseInv, Alone, Withdrawing, AtRest,
       Resting, Rest, Flagged, None
  <2>8. Flagged'
    BY <1>16, <2>1 DEF Does, StopTakeTask, PhaseInv, Alone, Flagged, AtRest, Resting,
       Rest, None
  <2> QED BY <2>2, <2>3, <2>4, <2>5, <2>6, <2>7, <2>8 DEF PhaseInv
<1>17. ASSUME NEW c \in Callers, StopJoined(c) PROVE PhaseInv'
  <2>1. Does(c, "join", "unload", proc[c].mgr)
    BY <1>17, Steps
  <2>2. Alone'
    BY <1>17, <2>1 DEF Does, StopJoined, PhaseInv, Alone, None
  <2>3. AtRest'
    BY <1>17, <2>1 DEF Does, StopJoined, PhaseInv, Alone, AtRest, Resting, Rest,
       Nothing, Publishing, Flagged, Unpublished, Holds, None
  <2>4. Unpublished'
    BY <1>17, <2>1 DEF Does, StopJoined, PhaseInv, Alone, Unpublished, AtRest, Resting,
       Rest, Nothing, Withdrawing, Publishing, None
  <2>5. Holds'
    BY <1>17, <2>1 DEF Does, StopJoined, PhaseInv, Alone, Holds, AtRest, Resting, Rest,
       Flagged, None
  <2>6. Publishing'
    BY <1>17, <2>1 DEF Does, StopJoined, PhaseInv, Alone, Publishing, Unpublished,
       Nothing, None
  <2>7. Withdrawing'
    BY <1>17, <2>1 DEF Does, StopJoined, PhaseInv, Alone, Withdrawing, AtRest, Resting,
       Rest, Flagged, None
  <2>8. Flagged'
    BY <1>17, <2>1 DEF Does, StopJoined, PhaseInv, Alone, Flagged, AtRest, Resting,
       Rest, None
  <2> QED BY <2>2, <2>3, <2>4, <2>5, <2>6, <2>7, <2>8 DEF PhaseInv
<1>18. ASSUME NEW c \in Callers, StopTimeout(c) PROVE PhaseInv'
  <2>1. Does(c, "join", "unload", proc[c].mgr)
    BY <1>18, Steps
  <2>2. Alone'
    BY <1>18, <2>1 DEF Does, StopTimeout, PhaseInv, Alone, None
  <2>3. AtRest'
    BY <1>18, <2>1 DEF Does, StopTimeout, PhaseInv, Alone, AtRest, Resting, Rest,
       Nothing, Publishing, Flagged, Unpublished, Holds, None
  <2>4. Unpublished'
    BY <1>18, <2>1 DEF Does, StopTimeout, PhaseInv, Alone, Unpublished, AtRest, Resting,
       Rest, Nothing, Withdrawing, Publishing, None
  <2>5. Holds'
    BY <1>18, <2>1 DEF Does, StopTimeout, PhaseInv, Alone, Holds, AtRest, Resting, Rest,
       Flagged, None
  <2>6. Publishing'
    BY <1>18, <2>1 DEF Does, StopTimeout, PhaseInv, Alone, Publishing, Unpublished,
       Nothing, None
  <2>7. Withdrawing'
    BY <1>18, <2>1 DEF Does, StopTimeout, PhaseInv, Alone, Withdrawing, AtRest, Resting,
       Rest, Flagged, None
  <2>8. Flagged'
    BY <1>18, <2>1 DEF Does, StopTimeout, PhaseInv, Alone, Flagged, AtRest, Resting,
       Rest, None
  <2> QED BY <2>2, <2>3, <2>4, <2>5, <2>6, <2>7, <2>8 DEF PhaseInv
<1>19. ASSUME NEW c \in Callers, NEW ok \in BOOLEAN, StopSave(c, ok) PROVE PhaseInv'
  <2>1. Does(c, "unload", "clear", None)
    BY <1>19, Steps
  <2>2. Alone'
    BY <1>19, <2>1 DEF Does, StopSave, PhaseInv, Alone, None
  <2>3. AtRest'
    BY <1>19, <2>1 DEF Does, StopSave, PhaseInv, Alone, AtRest, Resting, Rest, Nothing,
       Publishing, Flagged, Unpublished, Holds, None
  <2>4. Unpublished'
    BY <1>19, <2>1 DEF Does, StopSave, PhaseInv, Alone, Unpublished, AtRest, Resting,
       Rest, Nothing, Withdrawing, Publishing, None
  <2>5. Holds'
    BY <1>19, <2>1 DEF Does, StopSave, PhaseInv, Alone, Holds, AtRest, Resting, Rest,
       Flagged, None
  <2>6. Publishing'
    BY <1>19, <2>1 DEF Does, StopSave, PhaseInv, Alone, Publishing, Unpublished,
       Nothing, None
  <2>7. Withdrawing'
    BY <1>19, <2>1 DEF Does, StopSave, PhaseInv, Alone, Withdrawing, AtRest, Resting,
       Rest, Flagged, None
  <2>8. Flagged'
    BY <1>19, <2>1 DEF Does, StopSave, PhaseInv, Alone, Flagged, AtRest, Resting, Rest,
       None
  <2> QED BY <2>2, <2>3, <2>4, <2>5, <2>6, <2>7, <2>8 DEF PhaseInv
<1>20. ASSUME NEW c \in Callers, StopClearFlag(c) PROVE PhaseInv'
  <2>1. Does(c, "clear", "idle", None)
    BY <1>20, Steps
  <2>2. Alone'
    BY <1>20, <2>1 DEF Does, StopClearFlag, PhaseInv, Alone, None
  <2>3. AtRest'
    BY <1>20, <2>1 DEF Does, StopClearFlag, PhaseInv, Alone, AtRest, Resting, Rest,
       Nothing, Publishing, Flagged, Unpublished, Holds, None
  <2>4. Unpublished'
    BY <1>20, <2>1 DEF Does, StopClearFlag, PhaseInv, Alone, Unpublished, AtRest,
       Resting, Rest, Nothing, Withdrawing, Publishing, None
  <2>5. Holds'
    BY <1>20, <2>1 DEF Does, StopClearFlag, PhaseInv, Alone, Holds, AtRest, Resting,
       Rest, Flagged, None
  <2>6. Publishing'
    BY <1>20, <2>1 DEF Does, StopClearFlag, PhaseInv, Alone, Publishing, Unpublished,
       Nothing, None
  <2>7. Withdrawing'
    BY <1>20, <2>1 DEF Does, StopClearFlag, PhaseInv, Alone, Withdrawing, AtRest,
       Resting, Rest, Flagged, None
  <2>8. Flagged'
    BY <1>20, <2>1 DEF Does, StopClearFlag, PhaseInv, Alone, Flagged, AtRest, Resting,
       Rest, None
  <2> QED BY <2>2, <2>3, <2>4, <2>5, <2>6, <2>7, <2>8 DEF PhaseInv
<1>21. ASSUME NEW s \in Sessions, Speak(s) PROVE PhaseInv'
  BY <1>21 DEF Speak, PhaseInv, Alone, AtRest, Unpublished, Holds, Publishing,
     Withdrawing, Flagged, Resting, Rest, Nothing
<1>22. ASSUME NEW s \in Sessions, AudioFails(s) PROVE PhaseInv'
  BY <1>22 DEF AudioFails, PhaseInv, Alone, AtRest, Unpublished, Holds, Publishing,
     Withdrawing, Flagged, Resting, Rest, Nothing
<1>23. ASSUME NEW s \in Sessions, PipelineEnds(s) PROVE PhaseInv'
  BY <1>23 DEF PipelineEnds, PhaseInv, Alone, AtRest, Unpublished, Holds, Publishing,
     Withdrawing, Flagged, Resting, Rest, Nothing
<1>24. ASSUME NEW s \in Sessions, EmitFinal(s) PROVE PhaseInv'
  BY <1>24 DEF EmitFinal, PhaseInv, Alone, AtRest, Unpublished, Holds, Publishing,
     Withdrawing, Flagged, Resting, Rest, Nothing
<1>25. ASSUME NEW s \in Sessions, TaskEnds(s) PROVE PhaseInv'
  BY <1>25 DEF TaskEnds, PhaseInv, Alone, AtRest, Unpublished, Holds, Publishing,
     Withdrawing, Flagged, Resting, Rest, Nothing
<1>26. CASE UNCHANGED vars
  BY <1>26 DEF vars, PhaseInv, Alone, AtRest, Unpublished, Holds, Publishing,
     Withdrawing, Flagged, Resting, Rest, Nothing
<1> QED
  BY <1>1, <1>2, <1>3, <1>4, <1>5, <1>6, <1>7, <1>8, <1>9, <1>10, <1>11, <1>12, <1>13,
     <1>14, <1>15, <1>16, <1>17, <1>18, <1>19, <1>20, <1>21, <1>22, <1>23, <1>24, <1>25,
     <1>26
  DEF Next, Start, Stop, Session

(* Every step of a command that is alone keeps foreign tasks away.           *)
LEMMA RunningStep ==
    TypeInv /\ PhaseInv /\ RunningInv /\ [Next]_vars => RunningInv'
<1> SUFFICES ASSUME TypeInv, PhaseInv, RunningInv, [Next]_vars PROVE RunningInv'
  OBVIOUS
<1> USE DEF At, globals, audio, texts, history
<1>1. ASSUME NEW c \in Callers, InvokeStart(c) PROVE RunningInv'
  <2>1. Does(c, "idle", "start", proc[c].mgr)
    BY <1>1, Steps
  <2>2. RunningFree'
    BY <1>1, <2>1 DEF Does, InvokeStart, Invoke, RunningInv, PhaseInv, Alone, Resting,
       RunningFree, RunningNone, RunningOwn, AtRest, Rest, Holds, Withdrawing,
       Publishing, Unpublished, Nothing, Flagged, None
  <2>3. RunningNone'
    BY <1>1, <2>1 DEF Does, InvokeStart, Invoke, RunningInv, PhaseInv, Alone, Resting,
       RunningFree, RunningNone, RunningOwn, AtRest, Rest, Holds, Withdrawing,
       Publishing, Unpublished, Nothing, Flagged, None
  <2>4. RunningOwn'
    BY <1>1, <2>1 DEF Does, InvokeStart, Invoke, RunningInv, PhaseInv, Alone, Resting,
       RunningFree, RunningNone, RunningOwn, AtRest, Rest, Holds, Withdrawing,
       Publishing, Unpublished, Nothing, Flagged, None
  <2> QED BY <2>2, <2>3, <2>4 DEF RunningInv
<1>2. ASSUME NEW c \in Callers, InvokeStop(c) PROVE RunningInv'
  <2>1. Does(c, "idle", "stop", proc[c].mgr)
    BY <1>2, Steps
  <2>2. RunningFree'
    BY <1>2, <2>1 DEF Does, InvokeStop, Invoke, RunningInv, PhaseInv, Alone, Resting,
       RunningFree, RunningNone, RunningOwn, AtRest, Rest, Holds, Withdrawing,
       Publishing, Unpublished, Nothing, Flagged, None
  <2>3. RunningNone'
    BY <1>2, <2>1 DEF Does, InvokeStop, Invoke, RunningInv, PhaseInv, Alone, Resting,
       RunningFree, RunningNone, RunningOwn, AtRest, Rest, Holds, Withdrawing,
       Publishing, Unpublished, Nothing, Flagged, None
  <2>4. RunningOwn'
    BY <1>2, <2>1 DEF Does, InvokeStop, Invoke, RunningInv, PhaseInv, Alone, Resting,
       RunningFree, RunningNone, RunningOwn, AtRest, Rest, Holds, Withdrawing,
       Publishing, Unpublished, Nothing, Flagged, None
  <2> QED BY <2>2, <2>3, <2>4 DEF RunningInv
<1>3. ASSUME NEW c \in Callers, StartCheck(c) PROVE RunningInv'
  <2>1. Does(c, "start",
              IF isRecording THEN "idle" ELSE "validate",
              IF isRecording THEN None ELSE proc[c].mgr)
    BY <1>3, Steps
  <2>2. RunningFree'
    BY <1>3, <2>1 DEF Does, StartCheck, RunningInv, PhaseInv, Alone, Resting,
       RunningFree, RunningNone, RunningOwn, AtRest, Rest, Holds, Withdrawing,
       Publishing, Unpublished, Nothing, Flagged, None
  <2>3. RunningNone'
    BY <1>3, <2>1 DEF Does, StartCheck, RunningInv, PhaseInv, Alone, Resting,
       RunningFree, RunningNone, RunningOwn, AtRest, Rest, Holds, Withdrawing,
       Publishing, Unpublished, Nothing, Flagged, None
  <2>4. RunningOwn'
    BY <1>3, <2>1 DEF Does, StartCheck, RunningInv, PhaseInv, Alone, Resting,
       RunningFree, RunningNone, RunningOwn, AtRest, Rest, Holds, Withdrawing,
       Publishing, Unpublished, Nothing, Flagged, None
  <2> QED BY <2>2, <2>3, <2>4 DEF RunningInv
<1>4. ASSUME NEW c \in Callers, StartRefused(c) PROVE RunningInv'
  <2>1. Does(c, "validate", "idle", None)
    BY <1>4, Steps
  <2>2. RunningFree'
    BY <1>4, <2>1 DEF Does, StartRefused, RunningInv, PhaseInv, Alone, Resting,
       RunningFree, RunningNone, RunningOwn, AtRest, Rest, Holds, Withdrawing,
       Publishing, Unpublished, Nothing, Flagged, None
  <2>3. RunningNone'
    BY <1>4, <2>1 DEF Does, StartRefused, RunningInv, PhaseInv, Alone, Resting,
       RunningFree, RunningNone, RunningOwn, AtRest, Rest, Holds, Withdrawing,
       Publishing, Unpublished, Nothing, Flagged, None
  <2>4. RunningOwn'
    BY <1>4, <2>1 DEF Does, StartRefused, RunningInv, PhaseInv, Alone, Resting,
       RunningFree, RunningNone, RunningOwn, AtRest, Rest, Holds, Withdrawing,
       Publishing, Unpublished, Nothing, Flagged, None
  <2> QED BY <2>2, <2>3, <2>4 DEF RunningInv
<1>5. ASSUME NEW c \in Callers, StartManager(c) PROVE RunningInv'
  <2>1. Does(c, "validate", "opening", started + 1)
    BY <1>5, Steps
  <2>2. RunningFree'
    BY <1>5, <2>1 DEF Does, StartManager, RunningInv, PhaseInv, Alone, Resting,
       RunningFree, RunningNone, RunningOwn, AtRest, Rest, Holds, Withdrawing,
       Publishing, Unpublished, Nothing, Flagged, None
  <2>3. RunningNone'
    BY <1>5, <2>1 DEF Does, StartManager, RunningInv, PhaseInv, Alone, Resting,
       RunningFree, RunningNone, RunningOwn, AtRest, Rest, Holds, Withdrawing,
       Publishing, Unpublished, Nothing, Flagged, None
  <2>4. RunningOwn'
    BY <1>5, <2>1 DEF Does, StartManager, RunningInv, PhaseInv, Alone, Resting,
       RunningFree, RunningNone, RunningOwn, AtRest, Rest, Holds, Withdrawing,
       Publishing, Unpublished, Nothing, Flagged, None
  <2> QED BY <2>2, <2>3, <2>4 DEF RunningInv
<1>6. ASSUME NEW c \in Callers, StartFails(c) PROVE RunningInv'
  <2>1. Does(c, "opening", "idle", None)
    BY <1>6, Steps
  <2>2. RunningFree'
    BY <1>6, <2>1 DEF Does, StartFails, Dropped, RunningInv, PhaseInv, Alone, Resting,
       RunningFree, RunningNone, RunningOwn, AtRest, Rest, Holds, Withdrawing,
       Publishing, Unpublished, Nothing, Flagged, None
  <2>3. RunningNone'
    BY <1>6, <2>1 DEF Does, StartFails, Dropped, RunningInv, PhaseInv, Alone, Resting,
       RunningFree, RunningNone, RunningOwn, AtRest, Rest, Holds, Withdrawing,
       Publishing, Unpublished, Nothing, Flagged, None
  <2>4. RunningOwn'
    BY <1>6, <2>1 DEF Does, StartFails, Dropped, RunningInv, PhaseInv, Alone, Resting,
       RunningFree, RunningNone, RunningOwn, AtRest, Rest, Holds, Withdrawing,
       Publishing, Unpublished, Nothing, Flagged, None
  <2> QED BY <2>2, <2>3, <2>4 DEF RunningInv
<1>7. ASSUME NEW c \in Callers, StartPublish(c) PROVE RunningInv'
  <2>1. Does(c, "opening", "flag", proc[c].mgr)
    BY <1>7, Steps
  <2>2. RunningFree'
    BY <1>7, <2>1 DEF Does, StartPublish, Dropped, RunningInv, PhaseInv, Alone, Resting,
       RunningFree, RunningNone, RunningOwn, AtRest, Rest, Holds, Withdrawing,
       Publishing, Unpublished, Nothing, Flagged, None
  <2>3. RunningNone'
    BY <1>7, <2>1 DEF Does, StartPublish, Dropped, RunningInv, PhaseInv, Alone, Resting,
       RunningFree, RunningNone, RunningOwn, AtRest, Rest, Holds, Withdrawing,
       Publishing, Unpublished, Nothing, Flagged, None
  <2>4. RunningOwn'
    BY <1>7, <2>1 DEF Does, StartPublish, Dropped, RunningInv, PhaseInv, Alone, Resting,
       RunningFree, RunningNone, RunningOwn, AtRest, Rest, Holds, Withdrawing,
       Publishing, Unpublished, Nothing, Flagged, None
  <2> QED BY <2>2, <2>3, <2>4 DEF RunningInv
<1>8. ASSUME NEW c \in Callers, StartSetFlag(c) PROVE RunningInv'
  <2>1. Does(c, "flag", "spawn", proc[c].mgr)
    BY <1>8, Steps
  <2>2. RunningFree'
    BY <1>8, <2>1 DEF Does, StartSetFlag, RunningInv, PhaseInv, Alone, Resting,
       RunningFree, RunningNone, RunningOwn, AtRest, Rest, Holds, Withdrawing,
       Publishing, Unpublished, Nothing, Flagged, None
  <2>3. RunningNone'
    BY <1>8, <2>1 DEF Does, StartSetFlag, RunningInv, PhaseInv, Alone, Resting,
       RunningFree, RunningNone, RunningOwn, AtRest, Rest, Holds, Withdrawing,
       Publishing, Unpublished, Nothing, Flagged, None
  <2>4. RunningOwn'
    BY <1>8, <2>1 DEF Does, StartSetFlag, RunningInv, PhaseInv, Alone, Resting,
       RunningFree, RunningNone, RunningOwn, AtRest, Rest, Holds, Withdrawing,
       Publishing, Unpublished, Nothing, Flagged, None
  <2> QED BY <2>2, <2>3, <2>4 DEF RunningInv
<1>9. ASSUME NEW c \in Callers, StartSpawn(c) PROVE RunningInv'
  <2>1. Does(c, "spawn", "listen", proc[c].mgr)
    BY <1>9, Steps
  <2>2. RunningFree'
    BY <1>9, <2>1 DEF Does, StartSpawn, RunningInv, PhaseInv, Alone, Resting,
       RunningFree, RunningNone, RunningOwn, AtRest, Rest, Holds, Withdrawing,
       Publishing, Unpublished, Nothing, Flagged, None
  <2>3. RunningNone'
    BY <1>9, <2>1 DEF Does, StartSpawn, RunningInv, PhaseInv, Alone, Resting,
       RunningFree, RunningNone, RunningOwn, AtRest, Rest, Holds, Withdrawing,
       Publishing, Unpublished, Nothing, Flagged, None
  <2>4. RunningOwn'
    BY <1>9, <2>1 DEF Does, StartSpawn, RunningInv, PhaseInv, Alone, Resting,
       RunningFree, RunningNone, RunningOwn, AtRest, Rest, Holds, Withdrawing,
       Publishing, Unpublished, Nothing, Flagged, None
  <2> QED BY <2>2, <2>3, <2>4 DEF RunningInv
<1>10. ASSUME NEW c \in Callers, StartListen(c) PROVE RunningInv'
  <2>1. Does(c, "listen", "idle", None)
    BY <1>10, Steps
  <2>2. RunningFree'
    BY <1>10, <2>1 DEF Does, StartListen, RunningInv, PhaseInv, Alone, Resting,
       RunningFree, RunningNone, RunningOwn, AtRest, Rest, Holds, Withdrawing,
       Publishing, Unpublished, Nothing, Flagged, None
  <2>3. RunningNone'
    BY <1>10, <2>1 DEF Does, StartListen, RunningInv, PhaseInv, Alone, Resting,
       RunningFree, RunningNone, RunningOwn, AtRest, Rest, Holds, Withdrawing,
       Publishing, Unpublished, Nothing, Flagged, None
  <2>4. RunningOwn'
    BY <1>10, <2>1 DEF Does, StartListen, RunningInv, PhaseInv, Alone, Resting,
       RunningFree, RunningNone, RunningOwn, AtRest, Rest, Holds, Withdrawing,
       Publishing, Unpublished, Nothing, Flagged, None
  <2> QED BY <2>2, <2>3, <2>4 DEF RunningInv
<1>11. ASSUME NEW c \in Callers, StopCheck(c) PROVE RunningInv'
  <2>1. Does(c, "stop",
              IF isRecording THEN "take_manager" ELSE "idle",
              IF isRecording THEN proc[c].mgr ELSE None)
    BY <1>11, Steps
  <2>2. RunningFree'
    BY <1>11, <2>1 DEF Does, StopCheck, RunningInv, PhaseInv, Alone, Resting,
       RunningFree, RunningNone, RunningOwn, AtRest, Rest, Holds, Withdrawing,
       Publishing, Unpublished, Nothing, Flagged, None
  <2>3. RunningNone'
    BY <1>11, <2>1 DEF Does, StopCheck, RunningInv, PhaseInv, Alone, Resting,
       RunningFree, RunningNone, RunningOwn, AtRest, Rest, Holds, Withdrawing,
       Publishing, Unpublished, Nothing, Flagged, None
  <2>4. RunningOwn'
    BY <1>11, <2>1 DEF Does, StopCheck, RunningInv, PhaseInv, Alone, Resting,
       RunningFree, RunningNone, RunningOwn, AtRest, Rest, Holds, Withdrawing,
       Publishing, Unpublished, Nothing, Flagged, None
  <2> QED BY <2>2, <2>3, <2>4 DEF RunningInv
<1>12. ASSUME NEW c \in Callers, StopTakeManager(c) PROVE RunningInv'
  <2>1. Does(c, "take_manager",
              IF manager = None THEN "unlisten" ELSE "streams",
              manager)
    BY <1>12, Steps
  <2>2. RunningFree'
    BY <1>12, <2>1 DEF Does, StopTakeManager, RunningInv, PhaseInv, Alone, Resting,
       RunningFree, RunningNone, RunningOwn, AtRest, Rest, Holds, Withdrawing,
       Publishing, Unpublished, Nothing, Flagged, None
  <2>3. RunningNone'
    BY <1>12, <2>1 DEF Does, StopTakeManager, RunningInv, PhaseInv, Alone, Resting,
       RunningFree, RunningNone, RunningOwn, AtRest, Rest, Holds, Withdrawing,
       Publishing, Unpublished, Nothing, Flagged, None
  <2>4. RunningOwn'
    BY <1>12, <2>1 DEF Does, StopTakeManager, RunningInv, PhaseInv, Alone, Resting,
       RunningFree, RunningNone, RunningOwn, AtRest, Rest, Holds, Withdrawing,
       Publishing, Unpublished, Nothing, Flagged, None
  <2> QED BY <2>2, <2>3, <2>4 DEF RunningInv
<1>13. ASSUME NEW c \in Callers, StopStreams(c) PROVE RunningInv'
  <2>1. Does(c, "streams", "flush", proc[c].mgr)
    BY <1>13, Steps
  <2>2. RunningFree'
    BY <1>13, <2>1 DEF Does, StopStreams, RunningInv, PhaseInv, Alone, Resting,
       RunningFree, RunningNone, RunningOwn, AtRest, Rest, Holds, Withdrawing,
       Publishing, Unpublished, Nothing, Flagged, None
  <2>3. RunningNone'
    BY <1>13, <2>1 DEF Does, StopStreams, RunningInv, PhaseInv, Alone, Resting,
       RunningFree, RunningNone, RunningOwn, AtRest, Rest, Holds, Withdrawing,
       Publishing, Unpublished, Nothing, Flagged, None
  <2>4. RunningOwn'
    BY <1>13, <2>1 DEF Does, StopStreams, RunningInv, PhaseInv, Alone, Resting,
       RunningFree, RunningNone, RunningOwn, AtRest, Rest, Holds, Withdrawing,
       Publishing, Unpublished, Nothing, Flagged, None
  <2> QED BY <2>2, <2>3, <2>4 DEF RunningInv
<1>14. ASSUME NEW c \in Callers, StopFlushed(c) PROVE RunningInv'
  <2>1. Does(c, "flush", "unlisten", proc[c].mgr)
    BY <1>14, Steps
  <2>2. RunningFree'
    BY <1>14, <2>1 DEF Does, StopFlushed, RunningInv, PhaseInv, Alone, Resting,
       RunningFree, RunningNone, RunningOwn, AtRest, Rest, Holds, Withdrawing,
       Publishing, Unpublished, Nothing, Flagged, None
  <2>3. RunningNone'
    BY <1>14, <2>1 DEF Does, StopFlushed, RunningInv, PhaseInv, Alone, Resting,
       RunningFree, RunningNone, RunningOwn, AtRest, Rest, Holds, Withdrawing,
       Publishing, Unpublished, Nothing, Flagged, None
  <2>4. RunningOwn'
    BY <1>14, <2>1 DEF Does, StopFlushed, RunningInv, PhaseInv, Alone, Resting,
       RunningFree, RunningNone, RunningOwn, AtRest, Rest, Holds, Withdrawing,
       Publishing, Unpublished, Nothing, Flagged, None
  <2> QED BY <2>2, <2>3, <2>4 DEF RunningInv
<1>15. ASSUME NEW c \in Callers, StopUnlisten(c) PROVE RunningInv'
  <2>1. Does(c, "unlisten", "take_task", proc[c].mgr)
    BY <1>15, Steps
  <2>2. RunningFree'
    BY <1>15, <2>1 DEF Does, StopUnlisten, RunningInv, PhaseInv, Alone, Resting,
       RunningFree, RunningNone, RunningOwn, AtRest, Rest, Holds, Withdrawing,
       Publishing, Unpublished, Nothing, Flagged, None
  <2>3. RunningNone'
    BY <1>15, <2>1 DEF Does, StopUnlisten, RunningInv, PhaseInv, Alone, Resting,
       RunningFree, RunningNone, RunningOwn, AtRest, Rest, Holds, Withdrawing,
       Publishing, Unpublished, Nothing, Flagged, None
  <2>4. RunningOwn'
    BY <1>15, <2>1 DEF Does, StopUnlisten, RunningInv, PhaseInv, Alone, Resting,
       RunningFree, RunningNone, RunningOwn, AtRest, Rest, Holds, Withdrawing,
       Publishing, Unpublished, Nothing, Flagged, None
  <2> QED BY <2>2, <2>3, <2>4 DEF RunningInv
<1>16. ASSUME NEW c \in Callers, StopTakeTask(c) PROVE RunningInv'
  <2>1. Does(c, "take_task",
              IF transcriptionTask = None THEN "unload" ELSE "join",
              proc[c].mgr)
    BY <1>16, Steps
  <2>2. RunningFree'
    BY <1>16, <2>1 DEF Does, StopTakeTask, RunningInv, PhaseInv, Alone, Resting,
       RunningFree, RunningNone, RunningOwn, AtRest, Rest, Holds, Withdrawing,
       Publishing, Unpublished, Nothing, Flagged, None
  <2>3. RunningNone'
    BY <1>16, <2>1 DEF Does, StopTakeTask, RunningInv, PhaseInv, Alone, Resting,
       RunningFree, RunningNone, RunningOwn, AtRest, Rest, Holds, Withdrawing,
       Publishing, Unpublished, Nothing, Flagged, None
  <2>4. RunningOwn'
    BY <1>16, <2>1 DEF Does, StopTakeTask, RunningInv, PhaseInv, Alone, Resting,
       RunningFree, RunningNone, RunningOwn, AtRest, Rest, Holds, Withdrawing,
       Publishing, Unpublished, Nothing, Flagged, None
  <2> QED BY <2>2, <2>3, <2>4 DEF RunningInv
<1>17. ASSUME NEW c \in Callers, StopJoined(c) PROVE RunningInv'
  <2>1. Does(c, "join", "unload", proc[c].mgr)
    BY <1>17, Steps
  <2>2. RunningFree'
    BY <1>17, <2>1 DEF Does, StopJoined, RunningInv, PhaseInv, Alone, Resting,
       RunningFree, RunningNone, RunningOwn, AtRest, Rest, Holds, Withdrawing,
       Publishing, Unpublished, Nothing, Flagged, None
  <2>3. RunningNone'
    BY <1>17, <2>1 DEF Does, StopJoined, RunningInv, PhaseInv, Alone, Resting,
       RunningFree, RunningNone, RunningOwn, AtRest, Rest, Holds, Withdrawing,
       Publishing, Unpublished, Nothing, Flagged, None
  <2>4. RunningOwn'
    BY <1>17, <2>1 DEF Does, StopJoined, RunningInv, PhaseInv, Alone, Resting,
       RunningFree, RunningNone, RunningOwn, AtRest, Rest, Holds, Withdrawing,
       Publishing, Unpublished, Nothing, Flagged, None
  <2> QED BY <2>2, <2>3, <2>4 DEF RunningInv
<1>18. ASSUME NEW c \in Callers, StopTimeout(c) PROVE RunningInv'
  <2>1. Does(c, "join", "unload", proc[c].mgr)
    BY <1>18, Steps
  <2>2. RunningFree'
    BY <1>18, <2>1 DEF Does, StopTimeout, RunningInv, PhaseInv, Alone, Resting,
       RunningFree, RunningNone, RunningOwn, AtRest, Rest, Holds, Withdrawing,
       Publishing, Unpublished, Nothing, Flagged, None
  <2>3. RunningNone'
    BY <1>18, <2>1 DEF Does, StopTimeout, RunningInv, PhaseInv, Alone, Resting,
       RunningFree, RunningNone, RunningOwn, AtRest, Rest, Holds, Withdrawing,
       Publishing, Unpublished, Nothing, Flagged, None
  <2>4. RunningOwn'
    BY <1>18, <2>1 DEF Does, StopTimeout, RunningInv, PhaseInv, Alone, Resting,
       RunningFree, RunningNone, RunningOwn, AtRest, Rest, Holds, Withdrawing,
       Publishing, Unpublished, Nothing, Flagged, None
  <2> QED BY <2>2, <2>3, <2>4 DEF RunningInv
<1>19. ASSUME NEW c \in Callers, NEW ok \in BOOLEAN, StopSave(c, ok) PROVE RunningInv'
  <2>1. Does(c, "unload", "clear", None)
    BY <1>19, Steps
  <2>2. RunningFree'
    BY <1>19, <2>1 DEF Does, StopSave, RunningInv, PhaseInv, Alone, Resting,
       RunningFree, RunningNone, RunningOwn, AtRest, Rest, Holds, Withdrawing,
       Publishing, Unpublished, Nothing, Flagged, None
  <2>3. RunningNone'
    BY <1>19, <2>1 DEF Does, StopSave, RunningInv, PhaseInv, Alone, Resting,
       RunningFree, RunningNone, RunningOwn, AtRest, Rest, Holds, Withdrawing,
       Publishing, Unpublished, Nothing, Flagged, None
  <2>4. RunningOwn'
    BY <1>19, <2>1 DEF Does, StopSave, RunningInv, PhaseInv, Alone, Resting,
       RunningFree, RunningNone, RunningOwn, AtRest, Rest, Holds, Withdrawing,
       Publishing, Unpublished, Nothing, Flagged, None
  <2> QED BY <2>2, <2>3, <2>4 DEF RunningInv
<1>20. ASSUME NEW c \in Callers, StopClearFlag(c) PROVE RunningInv'
  <2>1. Does(c, "clear", "idle", None)
    BY <1>20, Steps
  <2>2. RunningFree'
    BY <1>20, <2>1 DEF Does, StopClearFlag, RunningInv, PhaseInv, Alone, Resting,
       RunningFree, RunningNone, RunningOwn, AtRest, Rest, Holds, Withdrawing,
       Publishing, Unpublished, Nothing, Flagged, None
  <2>3. RunningNone'
    BY <1>20, <2>1 DEF Does, StopClearFlag, RunningInv, PhaseInv, Alone, Resting,
       RunningFree, RunningNone, RunningOwn, AtRest, Rest, Holds, Withdrawing,
       Publishing, Unpublished, Nothing, Flagged, None
  <2>4. RunningOwn'
    BY <1>20, <2>1 DEF Does, StopClearFlag, RunningInv, PhaseInv, Alone, Resting,
       RunningFree, RunningNone, RunningOwn, AtRest, Rest, Holds, Withdrawing,
       Publishing, Unpublished, Nothing, Flagged, None
  <2> QED BY <2>2, <2>3, <2>4 DEF RunningInv
<1>21. ASSUME NEW s \in Sessions, Speak(s) PROVE RunningInv'
  BY <1>21 DEF Speak, RunningInv, RunningFree, RunningNone, RunningOwn, Resting
<1>22. ASSUME NEW s \in Sessions, AudioFails(s) PROVE RunningInv'
  BY <1>22 DEF AudioFails, RunningInv, RunningFree, RunningNone, RunningOwn, Resting
<1>23. ASSUME NEW s \in Sessions, PipelineEnds(s) PROVE RunningInv'
  BY <1>23 DEF PipelineEnds, RunningInv, RunningFree, RunningNone, RunningOwn, Resting
<1>24. ASSUME NEW s \in Sessions, EmitFinal(s) PROVE RunningInv'
  BY <1>24 DEF EmitFinal, RunningInv, RunningFree, RunningNone, RunningOwn, Resting
<1>25. ASSUME NEW s \in Sessions, TaskEnds(s) PROVE RunningInv'
  BY <1>25 DEF TaskEnds, RunningInv, RunningFree, RunningNone, RunningOwn, Resting
<1>26. CASE UNCHANGED vars
  BY <1>26 DEF vars, RunningInv, RunningFree, RunningNone, RunningOwn, Resting
<1> QED
  BY <1>1, <1>2, <1>3, <1>4, <1>5, <1>6, <1>7, <1>8, <1>9, <1>10, <1>11, <1>12, <1>13,
     <1>14, <1>15, <1>16, <1>17, <1>18, <1>19, <1>20, <1>21, <1>22, <1>23, <1>24, <1>25,
     <1>26
  DEF Next, Start, Stop, Session

(* Every step keeps finals with their meetings: a final that is filed at all  *)
(* finds its own manager.                                                    *)
LEMMA FiledStep ==
    TypeInv /\ PhaseInv /\ RunningInv /\ FiledInv /\ [Next]_vars => FiledInv'
<1> SUFFICES ASSUME TypeInv, PhaseInv, RunningInv, FiledInv, [Next]_vars PROVE FiledInv'
  OBVIOUS
<1> USE DEF At, globals, audio, texts, history
<1>1. ASSUME NEW c \in Callers, InvokeStart(c) PROVE FiledInv'
  BY <1>1 DEF InvokeStart, Invoke, FiledInv
<1>2. ASSUME NEW c \in Callers, InvokeStop(c) PROVE FiledInv'
  BY <1>2 DEF InvokeStop, Invoke, FiledInv
<1>3. ASSUME NEW c \in Callers, StartCheck(c) PROVE FiledInv'
  BY <1>3 DEF StartCheck, FiledInv
<1>4. ASSUME NEW c \in Callers, StartRefused(c) PROVE FiledInv'
  BY <1>4 DEF StartRefused, FiledInv
<1>5. ASSUME NEW c \in Callers, StartManager(c) PROVE FiledInv'
  BY <1>5 DEF StartManager, FiledInv
<1>6. ASSUME NEW c \in Callers, StartFails(c) PROVE FiledInv'
  BY <1>6 DEF StartFails, Dropped, FiledInv
<1>7. ASSUME NEW c \in Callers, StartPublish(c) PROVE FiledInv'
  BY <1>7 DEF StartPublish, Dropped, FiledInv
<1>8. ASSUME NEW c \in Callers, StartSetFlag(c) PROVE FiledInv'
  BY <1>8 DEF StartSetFlag, FiledInv
<1>9. ASSUME NEW c \in Callers, StartSpawn(c) PROVE FiledInv'
  BY <1>9 DEF StartSpawn, FiledInv
<1>10. ASSUME NEW c \in Callers, StartListen(c) PROVE FiledInv'
  BY <1>10 DEF StartListen, FiledInv
<1>11. ASSUME NEW c \in Callers, StopCheck(c) PROVE FiledInv'
  BY <1>11 DEF StopCheck, FiledInv
<1>12. ASSUME NEW c \in Callers, StopTakeManager(c) PROVE FiledInv'
  BY <1>12 DEF StopTakeManager, FiledInv
<1>13. ASSUME NEW c \in Callers, StopStreams(c) PROVE FiledInv'
  BY <1>13 DEF StopStreams, FiledInv
<1>14. ASSUME NEW c \in Callers, StopFlushed(c) PROVE FiledInv'
  BY <1>14 DEF StopFlushed, FiledInv
<1>15. ASSUME NEW c \in Callers, StopUnlisten(c) PROVE FiledInv'
  BY <1>15 DEF StopUnlisten, FiledInv
<1>16. ASSUME NEW c \in Callers, StopTakeTask(c) PROVE FiledInv'
  BY <1>16 DEF StopTakeTask, FiledInv
<1>17. ASSUME NEW c \in Callers, StopJoined(c) PROVE FiledInv'
  BY <1>17 DEF StopJoined, FiledInv
<1>18. ASSUME NEW c \in Callers, StopTimeout(c) PROVE FiledInv'
  BY <1>18 DEF StopTimeout, FiledInv
<1>19. ASSUME NEW c \in Callers, NEW ok \in BOOLEAN, StopSave(c, ok) PROVE FiledInv'
  BY <1>19 DEF StopSave, FiledInv
<1>20. ASSUME NEW c \in Callers, StopClearFlag(c) PROVE FiledInv'
  BY <1>20 DEF StopClearFlag, FiledInv
<1>21. ASSUME NEW s \in Sessions, Speak(s) PROVE FiledInv'
  BY <1>21 DEF Speak, FiledInv
<1>22. ASSUME NEW s \in Sessions, AudioFails(s) PROVE FiledInv'
  BY <1>22 DEF AudioFails, FiledInv
<1>23. ASSUME NEW s \in Sessions, PipelineEnds(s) PROVE FiledInv'
  BY <1>23 DEF PipelineEnds, FiledInv
<1>24. ASSUME NEW s \in Sessions, EmitFinal(s) PROVE FiledInv'
  <2>1. delivered' \in [Sessions -> Nat]
    BY <1>24 DEF EmitFinal, FiledInv
  <2>2. CASE listeners # {} /\ manager # None
    <3>1. manager \in Sessions
      BY <2>2 DEF TypeInv, Sessions, None
    <3>2. transcripts' = [transcripts EXCEPT ![manager] = @ \cup {<<s, delivered[s] + 1>>}]
      BY <1>24, <2>2 DEF EmitFinal
    <3>3. <<s, delivered[s] + 1>> \in Sessions \X Nat
      BY DEF FiledInv
    <3>4. transcripts' \in [Sessions -> SUBSET (Sessions \X Nat)]
      BY <3>1, <3>2, <3>3 DEF FiledInv
    <3>5. ~overlapped /\ ~cutOff => s = manager
      <4> SUFFICES ASSUME ~overlapped, ~cutOff PROVE s = manager
        OBVIOUS
      <4>1. ASSUME NEW c \in Callers PROVE Resting(c) \/ At(c, "take_manager")
        <5>1. proc[c].pc \in Labels
          BY DEF TypeInv, ProcInv, Commands
        <5>2. proc[c].pc \notin {"validate", "opening", "join", "unload", "clear"}
          BY <2>2 DEF PhaseInv, Unpublished, Nothing
        <5>3. proc[c].pc \notin {"flag", "spawn", "listen"}
          BY <2>2 DEF PhaseInv, Publishing
        <5>4. proc[c].pc \notin {"streams", "flush", "unlisten", "take_task"}
          BY <2>2 DEF PhaseInv, Withdrawing
        <5> QED BY <5>1, <5>2, <5>3, <5>4 DEF Labels, StartLabels, StopLabels, Resting, At
      <4>2. running \subseteq {manager}
        BY <4>1 DEF RunningInv, RunningFree
      <4> QED BY <1>24, <4>2 DEF EmitFinal
    <3>6. ~overlapped /\ ~cutOff => \A k \in Sessions : \A f \in transcripts'[k] : f[1] = k
      BY <3>1, <3>2, <3>5 DEF FiledInv
    <3> QED BY <1>24, <2>1, <3>4, <3>6 DEF EmitFinal, FiledInv
  <2>3. CASE ~(listeners # {} /\ manager # None)
    BY <1>24, <2>1, <2>3 DEF EmitFinal, FiledInv
  <2> QED BY <2>2, <2>3
<1>25. ASSUME NEW s \in Sessions, TaskEnds(s) PROVE FiledInv'
  BY <1>25 DEF TaskEnds, FiledInv
<1>26. CASE UNCHANGED vars
  BY <1>26 DEF vars, FiledInv
<1> QED
  BY <1>1, <1>2, <1>3, <1>4, <1>5, <1>6, <1>7, <1>8, <1>9, <1>10, <1>11, <1>12, <1>13,
     <1>14, <1>15, <1>16, <1>17, <1>18, <1>19, <1>20, <1>21, <1>22, <1>23, <1>24, <1>25,
     <1>26
  DEF Next, Start, Stop, Session

-----------------------------------------------------------------------------
IInv == TypeInv /\ OwnerInv /\ PhaseInv /\ RunningInv /\ FiledInv

LEMMA Invariance == Spec => []IInv
<1>1. Init => IInv
  <2> SUFFICES ASSUME Init PROVE IInv
    OBVIOUS
  <2>1. Idle \in Commands /\ Idle.pc = "idle" /\ Idle.mgr = None
    BY Given DEF Idle, Commands, None
  <2>2. TypeInv
    BY <2>1, Given DEF Init, TypeInv, ProcInv, None
  <2>3. OwnerInv
    BY <2>1 DEF Init, OwnerInv, Bounded, Single, Closed, Owned, Holding, Late, None
  <2>4. PhaseInv /\ RunningInv
    BY <2>1 DEF Init, PhaseInv, Alone, AtRest, Unpublished, Holds, Publishing, Withdrawing,
                  Flagged, RunningInv, RunningFree, RunningNone, RunningOwn, Rest, Nothing,
                  Resting, At, None
  <2>5. FiledInv
    BY DEF Init, FiledInv
  <2> QED BY <2>2, <2>3, <2>4, <2>5 DEF IInv
<1>2. IInv /\ [Next]_vars => IInv'
  BY TypeStep, OwnerStep, PhaseStep, RunningStep, FiledStep DEF IInv
<1> QED BY <1>1, <1>2, PTL DEF Spec

(* However many callers start and stop recordings at the same time, a       *)
(* session is flushed and saved by one of them at most, and a microphone    *)
(* that is open will be released by somebody.                               *)
THEOREM OneOwnerHolds == Spec => []OneOwner
<1>1. IInv => OneOwner
  <2> SUFFICES ASSUME IInv, NEW s \in Sessions
               PROVE  /\ Cardinality(Holders(s)) + (IF manager = s THEN 1 ELSE 0) <= 1
                      /\ s \in capturing => manager = s \/ Holders(s) # {}
    BY DEF OneOwner
  <2>1. s # None /\ s \in Nat
    BY DEF Sessions, None
  <2>2. \A c \in Callers : c \in Holders(s) <=> Holding(c) /\ proc[c].mgr = s
    BY DEF Holders, Holding, Late
  <2>3. Holders(s) \subseteq Callers
    BY DEF Holders
  <2>4. Cardinality(Holders(s)) + (IF manager = s THEN 1 ELSE 0) <= 1
    <3>1. CASE Holders(s) = {}
      BY <3>1, FS_EmptySet
    <3>2. CASE Holders(s) # {}
      <4>1. PICK c \in Callers : c \in Holders(s)
        BY <2>3, <3>2
      <4>2. manager # s /\ \A d \in Callers : d \in Holders(s) => d = c
        BY <2>1, <2>2, <4>1 DEF IInv, OwnerInv, Single
      <4>3. Holders(s) = {c}
        BY <2>3, <4>1, <4>2
      <4> QED BY SMTT(30), <4>2, <4>3, FS_Singleton
    <3> QED BY <3>1, <3>2
  <2>5. s \in capturing => manager = s \/ Holders(s) # {}
    BY <2>2 DEF IInv, OwnerInv, Owned
  <2> QED BY <2>4, <2>5
<1> QED BY <1>1, Invariance, PTL

(* As long as no two commands overlap, for any number of recordings: the    *)
(* flag tells whether there is one, and nothing of it outlives its stop.    *)
THEOREM OrderlyCommandsHolds == Spec => []OrderlyCommands
<1>1. IInv => OrderlyCommands
  <2> SUFFICES ASSUME IInv, ~overlapped, Quiet
               PROVE  /\ isRecording <=> manager # None
                      /\ capturing # {} => isRecording
                      /\ listeners # {} => isRecording
    BY DEF OrderlyCommands, FlagTracksRecording
  <2>1. Rest
    BY DEF IInv, PhaseInv, AtRest, Resting, Quiet, At
  <2>2. \A s \in capturing : manager = s /\ s # None
    <3>1. \A c \in Callers : ~Holding(c)
      BY DEF Quiet, At, Holding, Late
    <3>2. \A s \in capturing : s # None
      BY DEF IInv, OwnerInv, Bounded, TypeInv, ProcInv, None
    <3> QED BY <3>1, <3>2 DEF IInv, OwnerInv, Owned
  <2> QED BY <2>1, <2>2 DEF Rest
<1> QED BY <1>1, Invariance, PTL

(* As long as no two commands overlap and no wait is cut off, a final is    *)
(* filed with its own meeting or not at all, and the model is unloaded only *)
(* when no transcription runs.                                              *)
THEOREM OwnTranscriptsHolds == Spec => []OwnTranscripts
<1>1. IInv => OwnTranscripts
  BY DEF IInv, FiledInv, RunningInv, RunningNone, OwnTranscripts, At
<1> QED BY <1>1, Invariance, PTL
=============================================================================
