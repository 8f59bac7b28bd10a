------------------------ MODULE RecordingState_proofs ------------------------
(***************************************************************************)
(* Theorems about RecordingState, for every value of its limits and of its *)
(* bounds.  One inductive invariant, IInv, carries them all; its parts are *)
(* kept apart because each needs few of the others.                        *)
(***************************************************************************)
EXTENDS RecordingState, FiniteSetTheorems, SequenceTheorems, TLAPS

Idle(d) == CallbackAt(d, "idle")

\* A callback runs only while its stream exists, or while the stream is dropped.
CallbackInv ==
    /\ \A d \in Devices : Idle(d) \/ d \in streams \/ cmd.pc \in {"closing", "join"}
    /\ cmd.pc \in {"new", "pipeline", "join", "cleanup", "read", "saved", "aborted"}
           => streams = {}

\* Before the start nothing is set; once a callback has stopped the recording, it
\* stays stopped.
StartInv ==
    /\ cmd.pc = "new" =>
           /\ ~isRecording /\ ~isPaused /\ ~sender
           /\ pauseStart = None /\ totalPause = 0 /\ active = 0
    /\ cmd.pc = "pipeline" => isRecording
    /\ cmd.pc \in {"stop_clear", "stop_streams", "join", "cleanup", "read", "saved",
                  "aborted"} => ~isRecording
    /\ cmd.pc = "setting" => cmd.todo # <<>>
    /\ \A d \in Devices :
           cb[d].pc \in {"clear", "fallback"} \/ (cb[d].pc = "counted" /\ cb[d].over)
               => ~isRecording

\* The clock between the steps of pause and resume.
ClockInv ==
    isRecording =>
        /\ start <= now
        /\ IF pauseStart = None THEN start + totalPause + active = now
           ELSE pauseStart <= now /\ start + totalPause + active = pauseStart
        /\ pauseStart # None => isPaused
        /\ cmd.pc = "pause_clock" => isPaused
        /\ cmd.pc \in {"pause_flag", "pause_clock", "resume_flag"} => pauseStart = None

\* 1 if the callback of d has counted a recoverable error twice and is about to
\* stop; 1 if it has counted an error that the count of recoverable ones lacks.
Twice(d) == IF cb[d].pc = "flags" /\ cb[d].kind = "recoverable" THEN 1 ELSE 0
Once(d) ==
    IF cb[d].pc = "counted" \/ (cb[d].pc = "flags" /\ cb[d].kind = "fatal") THEN 1 ELSE 0

\* ErrorBudget with the reports under way told apart by what they have counted.
BudgetInv ==
    /\ \A d \in Devices : cb[d].pc = "flags" => cb[d].kind \in {"recoverable", "fatal"}
    /\ \A d \in Devices : cb[d].pc = "counted" => cb[d].kind = "recoverable"
    /\ isRecording =>
        /\ recoverable < MaxRecoverable + Twice("mic") + Twice("sys")
        /\ errorCount <= recoverable + Once("mic") + Once("sys")
        /\ lastError # "fatal"

\* The inductive invariant.
IInv == TypeOK /\ CallbackInv /\ StartInv /\ ClockInv /\ BudgetInv /\ ChannelCloses
            /\ NothingRemains

-----------------------------------------------------------------------------
\* The two devices, counted.
LEMMA DeviceCount == IsFiniteSet(Devices) /\ Cardinality(Devices) = 2
<1>1. IsFiniteSet({}) /\ Cardinality({}) = 0
  BY FS_EmptySet
<1>2. IsFiniteSet({"mic"}) /\ Cardinality({"mic"}) = 1
  BY FS_Singleton
<1>3. Devices = {"mic"} \cup {"sys"} /\ "sys" \notin {"mic"}
  BY DEF Devices
<1> QED BY <1>2, <1>3, FS_AddElement

\* Taking the first device off a list of devices.
LEMMA TodoRest ==
    ASSUME NEW s \in Seq(Devices), s # <<>>
    PROVE  Head(s) \in Devices /\ Tail(s) \in Seq(Devices)
BY HeadTailProperties

\* The values the clock and the counters are set to.
LEMMA ClearedTypes ==
    /\ None \in 0..None /\ 0 \in 0..MaxTime /\ 0 \in Nat
    /\ \A t \in 0..MaxTime : t \in 0..None
    /\ \A n \in Nat : n + 1 \in Nat
BY StateBoundsAssumption DEF None

\* A command or a callback that moves on keeps its type.
LEMMA CommandMoves ==
    ASSUME cmd \in CommandState, NEW label \in CommandLabels, CommandTo(label)
    PROVE  cmd' \in CommandState
BY DEF CommandState, CommandTo

LEMMA CommandSkips ==
    ASSUME cmd \in CommandState, cmd.todo # <<>>, NEW label \in CommandLabels,
           cmd' = [cmd EXCEPT !.pc = label, !.todo = Tail(@)]
    PROVE  cmd' \in CommandState
BY TodoRest DEF CommandState

LEMMA CallbackMoves ==
    ASSUME cb \in [Devices -> CallbackState], NEW d \in Devices,
           NEW label \in CallbackLabels, CallbackTo(d, label)
    PROVE  cb' \in [Devices -> CallbackState]
BY DEF CallbackState, CallbackTo

LEMMA CallbackEnds ==
    ASSUME cb \in [Devices -> CallbackState], NEW d \in Devices,
           cb' = [cb EXCEPT ![d] = CallbackIdle]
    PROVE  cb' \in [Devices -> CallbackState]
BY DEF CallbackState, CallbackIdle, CallbackLabels

\* Every action keeps the types.
LEMMA TypeStep == TypeOK /\ StartInv /\ ClockInv /\ NothingRemains /\ [Next]_vars => TypeOK'
<1> SUFFICES ASSUME TypeOK, StartInv, ClockInv, NothingRemains, [Next]_vars PROVE TypeOK'
  OBVIOUS
<1> USE ClearedTypes
    DEF TypeOK, CommandAt, CallbackAt, CommandLabels, CallbackLabels, flags, counts,
        clock, world
<1>1. CASE StartState  BY <1>1, CommandMoves DEF StartState
<1>2. CASE StartPipeline
  <2>1. cmd' \in CommandState
    <3>1. <<"mic", "sys">> \in Seq(Devices)
      BY DEF Devices
    <3> QED BY <1>2, <3>1 DEF StartPipeline, CommandState
  <2> QED BY <1>2, <2>1 DEF StartPipeline
<1>3. CASE OpenStream  BY <1>3, CommandMoves, TodoRest DEF OpenStream, CommandState
<1>4. CASE SetDevice
  <2>1. cmd' \in CommandState
    BY <1>4, CommandSkips DEF SetDevice, StartInv
  <2>2. cmd.todo \in Seq(Devices) /\ cmd.todo # <<>>
    BY <1>4 DEF SetDevice, StartInv, CommandState
  <2>3. Head(cmd.todo) \in Devices
    BY <2>2, TodoRest
  <2> QED BY <1>4, <2>1, <2>3 DEF SetDevice
<1>5. CASE SystemUnavailable
  <2>1. cmd' \in CommandState
    BY <1>5, TodoRest DEF SystemUnavailable, CommandState
  <2> QED BY <1>5, <2>1 DEF SystemUnavailable
<1>6. CASE OpenFails
  <2>1. CASE cmd.again = "none"
    BY <1>6, <2>1, CommandMoves DEF OpenFails, Cleanup, ClearFlags, ClearReferences
  <2>2. CASE cmd.again # "none"
    <3>1. cmd' \in CommandState
      <4>1. cmd' = [pc |-> "live", todo |-> <<>>, again |-> "none"]
        BY <1>6, <2>2 DEF OpenFails
      <4>2. <<>> \in Seq(Devices)
        OBVIOUS
      <4> QED BY <4>1, <4>2 DEF CommandState
    <3> QED BY <1>6, <2>2, <3>1 DEF OpenFails
  <2> QED BY <2>1, <2>2
<1>7. CASE OpenDone
  <2>1. cmd' \in CommandState
    BY <1>7 DEF OpenDone, CommandState
  <2> QED BY <1>7, <2>1 DEF OpenDone
<1>8. CASE PauseCheck  BY <1>8, CommandMoves DEF PauseCheck, Command
<1>9. CASE PauseFlag  BY <1>9, CommandMoves DEF PauseFlag
<1>10. CASE PauseClockStarts  BY <1>10, CommandMoves DEF PauseClockStarts
<1>11. CASE ResumeTakeClock
  <2>1. totalPause' \in 0..MaxTime
    <3>1. CASE isRecording /\ isPaused /\ pauseStart # None
      <4>1. totalPause <= pauseStart /\ pauseStart <= now
        BY <3>1, StateBoundsAssumption DEF ClockInv, None
      <4> QED BY <1>11, <3>1, <4>1, StateBoundsAssumption DEF ResumeTakeClock, None
    <3>2. CASE ~(isRecording /\ isPaused /\ pauseStart # None)
      BY <1>11, <3>2 DEF ResumeTakeClock
    <3> QED BY <3>1, <3>2
  <2>2. pauseStart' \in 0..None /\ cmd' \in CommandState
    BY <1>11, CommandMoves DEF ResumeTakeClock
  <2> QED BY <1>11, <2>1, <2>2 DEF ResumeTakeClock, Command
<1>12. CASE ResumeFlag  BY <1>12, CommandMoves DEF ResumeFlag
<1>13. ASSUME NEW d \in Devices, Reconnect(d) PROVE TypeOK'
  <2>1. <<"mic", "sys">> \in Seq(Devices) /\ <<d>> \in Seq(Devices)
    BY DEF Devices
  <2>2. cmd' \in CommandState
    BY <1>13, <2>1 DEF Reconnect, CommandState
  <2> QED BY <1>13, <2>2 DEF Reconnect, Command
<1>14. CASE Reopen  BY <1>14, CommandMoves DEF Reopen
<1>15. CASE StopFlags  BY <1>15, CommandMoves DEF StopFlags, ClearFlags
<1>16. CASE StopClear  BY <1>16, CommandMoves DEF StopClear, ClearReferences
<1>17. CASE StopStreams  BY <1>17, CommandMoves DEF StopStreams
<1>18. CASE StopJoined  BY <1>18, CommandMoves DEF StopJoined
<1>19. CASE StopCleanup
  BY <1>19, CommandMoves DEF StopCleanup, Cleanup, ClearFlags, ClearReferences
<1>20. CASE StopReadDuration
  <2>1. start = None
    BY <1>20 DEF StopReadDuration, NothingRemains
  <2> QED BY <1>20, <2>1, CommandMoves DEF StopReadDuration, ActiveDuration
<1>21. ASSUME NEW d \in Devices, ChunkArrives(d) PROVE TypeOK'
  BY <1>21, CallbackMoves DEF ChunkArrives
<1>22. ASSUME NEW d \in Devices, ChunkSend(d) PROVE TypeOK'
  BY <1>22, CallbackMoves DEF ChunkSend
<1>29. ASSUME NEW d \in Devices, ChunkProcessed(d) PROVE TypeOK'
  BY <1>29, CallbackMoves DEF ChunkProcessed
<1>23. ASSUME NEW d \in Devices, NEW kind \in {"recoverable", "fatal"}, ReportError(d, kind)
       PROVE  TypeOK'
  <2> DEFINE counted == [pc |-> IF kind = "fatal" THEN "flags" ELSE "counted",
                         kind |-> kind, over |-> errorCount' >= MaxTotal]
  <2>1. counted \in CallbackState
    BY DEF CallbackState
  <2>2. cb' = [cb EXCEPT ![d] = counted]
    BY <1>23 DEF ReportError
  <2>3. cb' \in [Devices -> CallbackState]
    <3> HIDE DEF counted
    <3> QED BY <2>1, <2>2
  <2>4. errorCount' \in Nat
    BY <1>23 DEF ReportError
  <2> QED BY <1>23, <2>3, <2>4 DEF ReportError
<1>30. ASSUME NEW d \in Devices, CountRecoverable(d) PROVE TypeOK'
  <2>1. cb' \in [Devices -> CallbackState]
    <3>1. CallbackTo(d, "flags") \/ CallbackTo(d, "fallback")
          \/ cb' = [cb EXCEPT ![d] = CallbackIdle]
      <4>1. CASE recoverable' >= MaxRecoverable
        BY <1>30, <4>1 DEF CountRecoverable
      <4>2. CASE ~(recoverable' >= MaxRecoverable) /\ cb[d].over
        BY <1>30, <4>2 DEF CountRecoverable, CallbackTo
      <4>3. CASE ~(recoverable' >= MaxRecoverable) /\ ~cb[d].over
        BY <1>30, <4>3 DEF CountRecoverable
      <4> QED BY <4>1, <4>2, <4>3
    <3>2. CASE CallbackTo(d, "flags")
      BY <3>2, CallbackMoves
    <3>3. CASE CallbackTo(d, "fallback")
      BY <3>3, CallbackMoves
    <3>4. CASE cb' = [cb EXCEPT ![d] = CallbackIdle]
      BY <3>4, CallbackEnds
    <3> QED BY <3>1, <3>2, <3>3, <3>4
  <2>2. recoverable' \in Nat /\ lastError' \in {"none", "recoverable", "fatal"}
    BY <1>30 DEF CountRecoverable, CallbackState
  <2> QED BY <1>30, <2>1, <2>2 DEF CountRecoverable
<1>24. ASSUME NEW d \in Devices, ErrorStopFlags(d) PROVE TypeOK'
  BY <1>24, CallbackMoves DEF ErrorStopFlags, ClearFlags
<1>25. ASSUME NEW d \in Devices, ErrorStopClear(d) PROVE TypeOK'
  <2>1. cb' \in [Devices -> CallbackState]
    BY <1>25 DEF ErrorStopClear, CallbackState, CallbackIdle
  <2>2. lastError' \in {"none", "recoverable", "fatal"}
    BY <1>25 DEF ErrorStopClear, CallbackState
  <2> QED BY <1>25, <2>1, <2>2 DEF ErrorStopClear, ClearReferences
<1>26. ASSUME NEW d \in Devices, ErrorFallback(d) PROVE TypeOK'
  BY <1>26, CallbackEnds DEF ErrorFallback, ClearFlags, ClearReferences
<1>27. CASE Tick
  <2>1. now' \in 0..MaxTime
    BY <1>27, StateBoundsAssumption DEF Tick
  <2>2. active' \in 0..MaxTime
    <3>1. CASE isRecording /\ pauseStart = None
      <4>1. active <= now
        BY <3>1, StateBoundsAssumption DEF ClockInv, None
      <4> QED BY <1>27, <3>1, <4>1, StateBoundsAssumption DEF Tick
    <3>2. CASE ~(isRecording /\ pauseStart = None)
      BY <1>27, <3>2 DEF Tick
    <3> QED BY <3>1, <3>2
  <2> QED BY <1>27, <2>1, <2>2 DEF Tick
<1>28. CASE UNCHANGED vars  BY <1>28 DEF vars
<1> QED
  BY <1>1, <1>2, <1>3, <1>4, <1>5, <1>6, <1>7, <1>8, <1>9, <1>10, <1>11, <1>12, <1>13,
     <1>14, <1>15, <1>16, <1>17, <1>18, <1>19, <1>20, <1>21, <1>22, <1>23, <1>24,
     <1>25, <1>26, <1>27, <1>28, <1>29, <1>30
  DEF Next, StartCommand, PauseCommands, StopCommand, Callback, Called

\* Every step keeps CallbackInv: a callback starts only on a stream that exists,
\* and the commands that drop the streams wait before they go on.
LEMMA CallbackStep ==
    TypeOK /\ CallbackInv /\ [Next]_vars => CallbackInv'
<1> SUFFICES ASSUME TypeOK, CallbackInv, [Next]_vars PROVE CallbackInv'
  OBVIOUS
<1> USE DEF TypeOK, CommandState, CallbackState, CallbackIdle, CommandAt, CommandTo,
        CallbackAt, CallbackTo,
        StreamsQuiet, CallbackInv, Idle, flags, counts, clock, world
<1>1. CASE StartState
  BY <1>1 DEF StartState
<1>2. CASE StartPipeline
  BY <1>2 DEF StartPipeline
<1>3. CASE OpenStream
  BY <1>3 DEF OpenStream
<1>4. CASE SetDevice
  BY <1>4 DEF SetDevice
<1>5. CASE SystemUnavailable
  BY <1>5 DEF SystemUnavailable
<1>6. CASE OpenFails
  BY <1>6 DEF OpenFails, Cleanup, ClearFlags, ClearReferences
<1>7. CASE OpenDone
  BY <1>7 DEF OpenDone
<1>8. CASE PauseCheck
  BY <1>8 DEF PauseCheck, Command
<1>9. CASE PauseFlag
  BY <1>9 DEF PauseFlag
<1>10. CASE PauseClockStarts
  BY <1>10 DEF PauseClockStarts
<1>11. CASE ResumeTakeClock
  BY <1>11 DEF ResumeTakeClock, Command
<1>12. CASE ResumeFlag
  BY <1>12 DEF ResumeFlag
<1>13. ASSUME NEW d \in Devices, Reconnect(d)
       PROVE  CallbackInv'
  BY <1>13 DEF Reconnect, Command
<1>14. CASE Reopen
  BY <1>14 DEF Reopen
<1>15. CASE StopFlags
  BY <1>15 DEF StopFlags, ClearFlags
<1>16. CASE StopClear
  BY <1>16 DEF StopClear, ClearReferences
<1>17. CASE StopStreams
  BY <1>17 DEF StopStreams
<1>18. CASE StopJoined
  BY <1>18 DEF StopJoined
<1>19. CASE StopCleanup
  BY <1>19 DEF StopCleanup, Cleanup, ClearFlags, ClearReferences
<1>20. CASE StopReadDuration
  BY <1>20 DEF StopReadDuration
<1>21. ASSUME NEW d \in Devices, ChunkArrives(d)
       PROVE  CallbackInv'
  BY <1>21 DEF ChunkArrives
<1>22. ASSUME NEW d \in Devices, ChunkSend(d)
       PROVE  CallbackInv'
  BY <1>22 DEF ChunkSend
<1>29. ASSUME NEW d \in Devices, ChunkProcessed(d)
       PROVE  CallbackInv'
  BY <1>29 DEF ChunkProcessed
<1>23. ASSUME NEW d \in Devices, NEW kind \in {"recoverable", "fatal"}, ReportError(d, kind)
       PROVE  CallbackInv'
  BY <1>23 DEF ReportError
<1>30. ASSUME NEW d \in Devices, CountRecoverable(d)
       PROVE  CallbackInv'
  BY <1>30 DEF CountRecoverable
<1>24. ASSUME NEW d \in Devices, ErrorStopFlags(d)
       PROVE  CallbackInv'
  BY <1>24 DEF ErrorStopFlags, ClearFlags
<1>25. ASSUME NEW d \in Devices, ErrorStopClear(d)
       PROVE  CallbackInv'
  BY <1>25 DEF ErrorStopClear, ClearReferences
<1>26. ASSUME NEW d \in Devices, ErrorFallback(d)
       PROVE  CallbackInv'
  BY <1>26 DEF ErrorFallback, ClearFlags, ClearReferences
<1>27. CASE Tick
  BY <1>27 DEF Tick
<1>28. CASE UNCHANGED vars
  BY <1>28 DEF vars
<1> QED
  BY <1>1, <1>2, <1>3, <1>4, <1>5, <1>6, <1>7, <1>8, <1>9, <1>10, <1>11, <1>12, <1>13,
     <1>14, <1>15, <1>16, <1>17, <1>18, <1>19, <1>20, <1>21, <1>22, <1>23, <1>24, <1>25,
     <1>26, <1>27, <1>28, <1>29, <1>30
  DEF Next, StartCommand, PauseCommands, StopCommand, Callback, Called

\* Every step keeps StartInv.  The budget is needed to see that the limit on all
\* errors is never reached while the recording is on.
LEMMA StartStep ==
    TypeOK /\ CallbackInv /\ BudgetInv /\ StartInv /\ [Next]_vars => StartInv'
<1> SUFFICES ASSUME TypeOK, CallbackInv, BudgetInv, StartInv, [Next]_vars PROVE StartInv'
  OBVIOUS
<1> USE DEF TypeOK, CommandState, CallbackState, CallbackIdle, CommandAt, CommandTo,
        CallbackAt, CallbackTo,
        StartInv, CallbackInv, Idle, flags, counts, clock, world
<1>1. CASE StartState
  BY <1>1 DEF StartState
<1>2. CASE StartPipeline
  BY <1>2 DEF StartPipeline
<1>3. CASE OpenStream
  BY <1>3 DEF OpenStream
<1>4. CASE SetDevice
  BY <1>4 DEF SetDevice
<1>5. CASE SystemUnavailable
  BY <1>5 DEF SystemUnavailable
<1>6. CASE OpenFails
  BY <1>6 DEF OpenFails, Cleanup, ClearFlags, ClearReferences
<1>7. CASE OpenDone
  BY <1>7 DEF OpenDone
<1>8. CASE PauseCheck
  BY <1>8 DEF PauseCheck, Command
<1>9. CASE PauseFlag
  BY <1>9 DEF PauseFlag
<1>10. CASE PauseClockStarts
  BY <1>10 DEF PauseClockStarts
<1>11. CASE ResumeTakeClock
  BY <1>11 DEF ResumeTakeClock, Command
<1>12. CASE ResumeFlag
  BY <1>12 DEF ResumeFlag
<1>13. ASSUME NEW d \in Devices, Reconnect(d)
       PROVE  StartInv'
  BY <1>13 DEF Reconnect, Command
<1>14. CASE Reopen
  BY <1>14 DEF Reopen
<1>15. CASE StopFlags
  BY <1>15 DEF StopFlags, ClearFlags
<1>16. CASE StopClear
  BY <1>16 DEF StopClear, ClearReferences
<1>17. CASE StopStreams
  BY <1>17 DEF StopStreams
<1>18. CASE StopJoined
  BY <1>18 DEF StopJoined
<1>19. CASE StopCleanup
  BY <1>19 DEF StopCleanup, Cleanup, ClearFlags, ClearReferences
<1>20. CASE StopReadDuration
  BY <1>20 DEF StopReadDuration
<1>21. ASSUME NEW d \in Devices, ChunkArrives(d)
       PROVE  StartInv'
  BY <1>21 DEF ChunkArrives
<1>22. ASSUME NEW d \in Devices, ChunkSend(d)
       PROVE  StartInv'
  BY <1>22 DEF ChunkSend
<1>29. ASSUME NEW d \in Devices, ChunkProcessed(d)
       PROVE  StartInv'
  BY <1>29 DEF ChunkProcessed
<1>23. ASSUME NEW d \in Devices, NEW kind \in {"recoverable", "fatal"}, ReportError(d, kind)
       PROVE  StartInv'
  <2>1. cmd' = cmd /\ isRecording' = isRecording /\ cmd.pc \notin {"new", "pipeline"}
    BY <1>23 DEF ReportError
  <2>2. ASSUME isRecording, kind = "recoverable" PROVE ~cb'[d].over
    <3>1. cb'[d].over <=> errorCount + 1 >= MaxTotal
      BY <1>23 DEF ReportError
    <3>2. /\ recoverable < MaxRecoverable + Twice("mic") + Twice("sys")
          /\ errorCount <= recoverable + Once("mic") + Once("sys")
      BY <2>2 DEF BudgetInv
    <3>3. \A e \in Devices : Twice(e) \in {0, 1} /\ Once(e) \in {0, 1} /\ Twice(e) + Once(e) <= 1
      BY DEF Twice, Once
    <3>4. Twice(d) = 0 /\ Once(d) = 0
      BY <1>23 DEF ReportError, Twice, Once
    <3>5. MaxTotal >= MaxRecoverable + 2
      BY LimitsAssumption, DeviceCount
    <3>6. Twice("mic") + Twice("sys") + Once("mic") + Once("sys") <= 1
      BY <3>3, <3>4 DEF Devices
    <3>7. errorCount + 1 < MaxTotal
      BY <3>2, <3>3, <3>5, <3>6, LimitsAssumption DEF Devices
    <3>8. ~(errorCount + 1 >= MaxTotal)
      BY <3>7, LimitsAssumption
    <3> QED BY <3>1, <3>8
  <2>3. /\ cb'[d].pc = IF kind = "fatal" THEN "flags" ELSE "counted"
        /\ \A e \in Devices \ {d} : cb'[e] = cb[e]
    BY <1>23 DEF ReportError
  <2> QED BY <1>23, <2>1, <2>2, <2>3 DEF ReportError
<1>30. ASSUME NEW d \in Devices, CountRecoverable(d)
       PROVE  StartInv'
  <2>1. cb'[d].pc = "fallback" => cb[d].over
    BY <1>30 DEF CountRecoverable
  <2>2. cb'[d].pc \in {"flags", "fallback", "idle"} /\ \A e \in Devices \ {d} : cb'[e] = cb[e]
    BY <1>30 DEF CountRecoverable
  <2> QED BY <1>30, <2>1, <2>2 DEF CountRecoverable
<1>24. ASSUME NEW d \in Devices, ErrorStopFlags(d)
       PROVE  StartInv'
  BY <1>24 DEF ErrorStopFlags, ClearFlags
<1>25. ASSUME NEW d \in Devices, ErrorStopClear(d)
       PROVE  StartInv'
  BY <1>25 DEF ErrorStopClear, ClearReferences
<1>26. ASSUME NEW d \in Devices, ErrorFallback(d)
       PROVE  StartInv'
  BY <1>26 DEF ErrorFallback, ClearFlags, ClearReferences
<1>27. CASE Tick
  BY <1>27 DEF Tick
<1>28. CASE UNCHANGED vars
  BY <1>28 DEF vars
<1> QED
  BY <1>1, <1>2, <1>3, <1>4, <1>5, <1>6, <1>7, <1>8, <1>9, <1>10, <1>11, <1>12, <1>13,
     <1>14, <1>15, <1>16, <1>17, <1>18, <1>19, <1>20, <1>21, <1>22, <1>23, <1>24, <1>25,
     <1>26, <1>27, <1>28, <1>29, <1>30
  DEF Next, StartCommand, PauseCommands, StopCommand, Callback, Called

\* Every step keeps ClockInv; a stop in the middle of a pause ends its concern.
LEMMA ClockStep ==
    TypeOK /\ CallbackInv /\ StartInv /\ ClockInv /\ [Next]_vars => ClockInv'
<1> SUFFICES ASSUME TypeOK, CallbackInv, StartInv, ClockInv, [Next]_vars PROVE ClockInv'
  OBVIOUS
<1> USE StateBoundsAssumption
    DEF TypeOK, CommandState, CallbackState, CallbackIdle, CommandAt, CommandTo,
        CallbackAt, CallbackTo,
        ClockInv, StartInv, None, flags, counts, clock, world
<1>1. CASE StartState
  BY <1>1 DEF StartState
<1>2. CASE StartPipeline
  BY <1>2 DEF StartPipeline
<1>3. CASE OpenStream
  BY <1>3 DEF OpenStream
<1>4. CASE SetDevice
  BY <1>4 DEF SetDevice
<1>5. CASE SystemUnavailable
  BY <1>5 DEF SystemUnavailable
<1>6. CASE OpenFails
  <2>1. CASE cmd.again = "none"
    BY <1>6, <2>1 DEF OpenFails, Cleanup, ClearFlags
  <2>2. CASE cmd.again # "none"
    <3>1. cmd'.pc = "live"
      BY <1>6, <2>2 DEF OpenFails
    <3> QED BY <1>6, <2>2, <3>1 DEF OpenFails
  <2> QED BY <2>1, <2>2
<1>7. CASE OpenDone
  BY <1>7 DEF OpenDone
<1>8. CASE PauseCheck
  BY <1>8 DEF PauseCheck, Command
<1>9. CASE PauseFlag
  BY <1>9 DEF PauseFlag
<1>10. CASE PauseClockStarts
  BY <1>10 DEF PauseClockStarts
<1>11. CASE ResumeTakeClock
  <2>1. CASE ~(isRecording /\ isPaused)
    BY <1>11, <2>1 DEF ResumeTakeClock
  <2>2. CASE isRecording /\ isPaused
    <3>1. pauseStart' = None /\ cmd'.pc = "resume_flag" /\ UNCHANGED <<start, now, active>>
      BY <1>11, <2>2 DEF ResumeTakeClock
    <3>2. start + totalPause' + active = now
      <4>1. CASE pauseStart = None
        BY <1>11, <2>2, <4>1 DEF ResumeTakeClock
      <4>2. CASE pauseStart # None
        <5>1. totalPause' = totalPause + (now - pauseStart)
          BY <1>11, <2>2, <4>2 DEF ResumeTakeClock
        <5> QED BY <2>2, <4>2, <5>1
      <4> QED BY <4>1, <4>2
    <3>3. start <= now
      BY <2>2
    <3> QED BY <3>1, <3>2, <3>3
  <2> QED BY <2>1, <2>2
<1>12. CASE ResumeFlag
  BY <1>12 DEF ResumeFlag
<1>13. ASSUME NEW d \in Devices, Reconnect(d)
       PROVE  ClockInv'
  BY <1>13 DEF Reconnect, Command
<1>14. CASE Reopen
  BY <1>14 DEF Reopen
<1>15. CASE StopFlags
  BY <1>15 DEF StopFlags, ClearFlags
<1>16. CASE StopClear
  BY <1>16 DEF StopClear, ClearReferences
<1>17. CASE StopStreams
  BY <1>17 DEF StopStreams
<1>18. CASE StopJoined
  BY <1>18 DEF StopJoined
<1>19. CASE StopCleanup
  BY <1>19 DEF StopCleanup, Cleanup, ClearFlags, ClearReferences
<1>20. CASE StopReadDuration
  BY <1>20 DEF StopReadDuration
<1>21. ASSUME NEW d \in Devices, ChunkArrives(d)
       PROVE  ClockInv'
  BY <1>21 DEF ChunkArrives
<1>22. ASSUME NEW d \in Devices, ChunkSend(d)
       PROVE  ClockInv'
  BY <1>22 DEF ChunkSend
<1>29. ASSUME NEW d \in Devices, ChunkProcessed(d)
       PROVE  ClockInv'
  BY <1>29 DEF ChunkProcessed
<1>23. ASSUME NEW d \in Devices, NEW kind \in {"recoverable", "fatal"}, ReportError(d, kind)
       PROVE  ClockInv'
  BY <1>23 DEF ReportError
<1>30. ASSUME NEW d \in Devices, CountRecoverable(d)
       PROVE  ClockInv'
  BY <1>30 DEF CountRecoverable
<1>24. ASSUME NEW d \in Devices, ErrorStopFlags(d)
       PROVE  ClockInv'
  BY <1>24 DEF ErrorStopFlags, ClearFlags
<1>25. ASSUME NEW d \in Devices, ErrorStopClear(d)
       PROVE  ClockInv'
  BY <1>25 DEF ErrorStopClear, ClearReferences
<1>26. ASSUME NEW d \in Devices, ErrorFallback(d)
       PROVE  ClockInv'
  BY <1>26 DEF ErrorFallback, ClearFlags, ClearReferences
<1>27. CASE Tick
  BY <1>27 DEF Tick
<1>28. CASE UNCHANGED vars
  BY <1>28 DEF vars
<1> QED
  BY <1>1, <1>2, <1>3, <1>4, <1>5, <1>6, <1>7, <1>8, <1>9, <1>10, <1>11, <1>12, <1>13,
     <1>14, <1>15, <1>16, <1>17, <1>18, <1>19, <1>20, <1>21, <1>22, <1>23, <1>24, <1>25,
     <1>26, <1>27, <1>28, <1>29, <1>30
  DEF Next, StartCommand, PauseCommands, StopCommand, Callback, Called

\* Every step keeps BudgetInv: a report past a limit is about to stop.
LEMMA BudgetStep ==
    TypeOK /\ CallbackInv /\ StartInv /\ BudgetInv /\ [Next]_vars => BudgetInv'
<1> SUFFICES ASSUME TypeOK, CallbackInv, StartInv, BudgetInv, [Next]_vars PROVE BudgetInv'
  OBVIOUS
<1> USE LimitsAssumption
    DEF TypeOK, CommandState, CallbackState, CallbackIdle, CommandAt, CommandTo,
        CallbackAt, CallbackTo,
        BudgetInv, StartInv, CallbackInv, Idle, Once, Twice, Devices, flags, counts, clock, world
<1>1. CASE StartState
  BY <1>1 DEF StartState
<1>2. CASE StartPipeline
  BY <1>2 DEF StartPipeline
<1>3. CASE OpenStream
  BY <1>3 DEF OpenStream
<1>4. CASE SetDevice
  BY <1>4 DEF SetDevice
<1>5. CASE SystemUnavailable
  BY <1>5 DEF SystemUnavailable
<1>6. CASE OpenFails
  BY <1>6 DEF OpenFails, Cleanup, ClearFlags, ClearReferences
<1>7. CASE OpenDone
  BY <1>7 DEF OpenDone
<1>8. CASE PauseCheck
  BY <1>8 DEF PauseCheck, Command
<1>9. CASE PauseFlag
  BY <1>9 DEF PauseFlag
<1>10. CASE PauseClockStarts
  BY <1>10 DEF PauseClockStarts
<1>11. CASE ResumeTakeClock
  BY <1>11 DEF ResumeTakeClock, Command
<1>12. CASE ResumeFlag
  BY <1>12 DEF ResumeFlag
<1>13. ASSUME NEW d \in Devices, Reconnect(d)
       PROVE  BudgetInv'
  BY <1>13 DEF Reconnect, Command
<1>14. CASE Reopen
  BY <1>14 DEF Reopen
<1>15. CASE StopFlags
  BY <1>15 DEF StopFlags, ClearFlags
<1>16. CASE StopClear
  BY <1>16 DEF StopClear, ClearReferences
<1>17. CASE StopStreams
  BY <1>17 DEF StopStreams
<1>18. CASE StopJoined
  BY <1>18 DEF StopJoined
<1>19. CASE StopCleanup
  BY <1>19 DEF StopCleanup, Cleanup, ClearFlags, ClearReferences
<1>20. CASE StopReadDuration
  BY <1>20 DEF StopReadDuration
<1>21. ASSUME NEW d \in Devices, ChunkArrives(d)
       PROVE  BudgetInv'
  BY <1>21 DEF ChunkArrives
<1>22. ASSUME NEW d \in Devices, ChunkSend(d)
       PROVE  BudgetInv'
  BY <1>22 DEF ChunkSend
<1>29. ASSUME NEW d \in Devices, ChunkProcessed(d)
       PROVE  BudgetInv'
  <2>1. PICK label \in {"idle", "sending"} : CallbackTo(d, label)
    BY <1>29, Zenon DEF ChunkProcessed
  <2>2. UNCHANGED <<flags, device, sender, counts, chunks, clock, streams, cmd, duration>>
    BY <1>29 DEF ChunkProcessed
  <2>3. cb[d].pc = "processing"
    BY <1>29 DEF ChunkProcessed
  <2> QED BY <2>1, <2>2, <2>3
<1>23. ASSUME NEW d \in Devices, NEW kind \in {"recoverable", "fatal"}, ReportError(d, kind)
       PROVE  BudgetInv'
  <2>1. /\ isRecording' = isRecording /\ recoverable' = recoverable /\ lastError' = lastError
        /\ errorCount' = errorCount + 1 /\ cb[d].pc = "idle"
        /\ \A e \in Devices \ {d} : cb'[e] = cb[e]
    BY <1>23 DEF ReportError
  <2>2. cb'[d].pc = (IF kind = "fatal" THEN "flags" ELSE "counted") /\ cb'[d].kind = kind
    BY <1>23 DEF ReportError
  <2>3. Once(d) = 0 /\ Twice(d) = 0 /\ Once(d)' = 1 /\ Twice(d)' = 0
    BY <2>1, <2>2
  <2>4. \A e \in Devices \ {d} : Once(e)' = Once(e) /\ Twice(e)' = Twice(e)
    BY <2>1
  <2>5. \A e \in Devices : Once(e) \in {0, 1} /\ Twice(e) \in {0, 1}
    OBVIOUS
  <2>6. \A e \in Devices : Once(e)' \in {0, 1} /\ Twice(e)' \in {0, 1}
    OBVIOUS
  <2>7. /\ \A e \in Devices : cb'[e].pc = "flags" => cb'[e].kind \in {"recoverable", "fatal"}
        /\ \A e \in Devices : cb'[e].pc = "counted" => cb'[e].kind = "recoverable"
    BY <2>1, <2>2
  <2> HIDE DEF Once, Twice
  <2>8. ASSUME Twice("mic")' + Twice("sys")' = Twice("mic") + Twice("sys"),
               Once("mic")' + Once("sys")' = Once("mic") + Once("sys") + 1
        PROVE  BudgetInv'
    <3>1. isRecording => errorCount <= recoverable + Once("mic") + Once("sys")
      BY DEF BudgetInv
    <3>2. errorCount \in Nat /\ recoverable \in Nat
      OBVIOUS
    <3>3. isRecording => errorCount + 1 <= recoverable + Once("mic")' + Once("sys")'
      <4> HIDE DEF BudgetInv, TypeOK
      <4> QED BY <3>1, <3>2, <2>5, <2>8, <2>6
    <3>4. isRecording' => errorCount' <= recoverable' + Once("mic")' + Once("sys")'
      BY <2>1, <3>3
    <3>5. isRecording' => recoverable' < MaxRecoverable + Twice("mic")' + Twice("sys")'
      BY <2>1, <2>5, <2>8, <2>6
    <3> QED BY <2>1, <2>7, <3>4, <3>5
  <2>9. CASE d = "mic"
    <3>1. Twice("mic")' + Twice("sys")' = Twice("mic") + Twice("sys")
          /\ Once("mic")' + Once("sys")' = Once("mic") + Once("sys") + 1
      BY <2>3, <2>4, <2>5, <2>9
    <3> QED BY <2>8, <3>1
  <2>10. CASE d = "sys"
    <3>1. Twice("mic")' + Twice("sys")' = Twice("mic") + Twice("sys")
          /\ Once("mic")' + Once("sys")' = Once("mic") + Once("sys") + 1
      BY <2>3, <2>4, <2>5, <2>10
    <3> QED BY <2>8, <3>1
  <2> QED BY <2>9, <2>10
<1>30. ASSUME NEW d \in Devices, CountRecoverable(d)
       PROVE  BudgetInv'
  <2>1. /\ isRecording' = isRecording /\ recoverable' = recoverable + 1
        /\ errorCount' = errorCount /\ cb[d].pc = "counted" /\ cb[d].kind = "recoverable"
        /\ \A e \in Devices \ {d} : cb'[e] = cb[e]
    BY <1>30 DEF CountRecoverable
  <2>2. Once(d) = 1 /\ Twice(d) = 0
    BY <2>1
  <2>3. \A e \in Devices \ {d} : Once(e)' = Once(e) /\ Twice(e)' = Twice(e)
    BY <2>1
  <2>4. \A e \in Devices : Once(e) \in {0, 1} /\ Twice(e) \in {0, 1}
    OBVIOUS
  <2>5. CASE recoverable + 1 >= MaxRecoverable
    <3>1. cb'[d].pc = "flags" /\ cb'[d].kind = "recoverable" /\ lastError' = lastError
      BY <1>30, <2>1, <2>5 DEF CountRecoverable
    <3>2. Once(d)' = 0 /\ Twice(d)' = 1
      BY <3>1
    <3>3. \A e \in Devices : cb'[e].pc = "flags" => cb'[e].kind \in {"recoverable", "fatal"}
      BY <2>1, <3>1
    <3>4. \A e \in Devices : cb'[e].pc = "counted" => cb'[e].kind = "recoverable"
      BY <2>1, <3>1
    <3> HIDE DEF Once, Twice
    <3>5. /\ Twice("mic")' + Twice("sys")' = Twice("mic") + Twice("sys") + 1
          /\ Once("mic")' + Once("sys")' + 1 = Once("mic") + Once("sys")
      <4>1. CASE d = "mic"
        BY <2>2, <2>3, <2>4, <3>2, <4>1
      <4>2. CASE d = "sys"
        BY <2>2, <2>3, <2>4, <3>2, <4>2
      <4> QED BY <4>1, <4>2
    <3>6. Once("mic") \in {0, 1} /\ Once("sys") \in {0, 1} /\ Twice("mic") \in {0, 1}
          /\ Twice("sys") \in {0, 1} /\ (Once("mic") \in {0, 1})' /\ (Once("sys") \in {0, 1})'
          /\ (Twice("mic") \in {0, 1})' /\ (Twice("sys") \in {0, 1})'
      BY DEF Once, Twice
    <3>7. /\ isRecording => recoverable < MaxRecoverable + Twice("mic") + Twice("sys")
          /\ isRecording => errorCount <= recoverable + Once("mic") + Once("sys")
      BY DEF BudgetInv
    <3>8. errorCount \in Nat /\ recoverable \in Nat /\ MaxRecoverable \in Nat
      BY LimitsAssumption
    <3>9. isRecording => errorCount <= recoverable + 1 + Once("mic")' + Once("sys")'
      <4> HIDE DEF BudgetInv, TypeOK
      <4> QED BY <3>5, <3>6, <3>7, <3>8
    <3>10. isRecording => recoverable + 1 < MaxRecoverable + Twice("mic")' + Twice("sys")'
      <4> HIDE DEF BudgetInv, TypeOK
      <4> QED BY <3>5, <3>6, <3>7, <3>8
    <3>11. isRecording' => errorCount' <= recoverable' + Once("mic")' + Once("sys")'
      BY <2>1, <3>9
    <3>12. isRecording' => recoverable' < MaxRecoverable + Twice("mic")' + Twice("sys")'
      BY <2>1, <3>10
    <3> QED BY <2>1, <3>1, <3>3, <3>4, <3>11, <3>12
  <2>6. CASE ~(recoverable + 1 >= MaxRecoverable)
    <3>1. cb'[d].pc \in {"fallback", "idle"} /\ lastError' = "recoverable"
      BY <1>30, <2>1, <2>6 DEF CountRecoverable
    <3>2. Once(d)' = 0 /\ Twice(d)' = 0
      BY <3>1
    <3>3. \A e \in Devices : cb'[e].pc = "flags" => cb'[e].kind \in {"recoverable", "fatal"}
      BY <2>1, <3>1
    <3>4. \A e \in Devices : cb'[e].pc = "counted" => cb'[e].kind = "recoverable"
      BY <2>1, <3>1
    <3> HIDE DEF Once, Twice
    <3>5. /\ Twice("mic")' + Twice("sys")' = Twice("mic") + Twice("sys")
          /\ Once("mic")' + Once("sys")' + 1 = Once("mic") + Once("sys")
      <4>1. CASE d = "mic"
        BY <2>2, <2>3, <2>4, <3>2, <4>1
      <4>2. CASE d = "sys"
        BY <2>2, <2>3, <2>4, <3>2, <4>2
      <4> QED BY <4>1, <4>2
    <3>6. Once("mic") \in {0, 1} /\ Once("sys") \in {0, 1} /\ Twice("mic") \in {0, 1}
          /\ Twice("sys") \in {0, 1} /\ (Once("mic") \in {0, 1})' /\ (Once("sys") \in {0, 1})'
          /\ (Twice("mic") \in {0, 1})' /\ (Twice("sys") \in {0, 1})'
      BY DEF Once, Twice
    <3>7. /\ isRecording => recoverable < MaxRecoverable + Twice("mic") + Twice("sys")
          /\ isRecording => errorCount <= recoverable + Once("mic") + Once("sys")
      BY DEF BudgetInv
    <3>8. errorCount \in Nat /\ recoverable \in Nat /\ MaxRecoverable \in Nat
      BY LimitsAssumption
    <3>9. isRecording => errorCount <= recoverable + 1 + Once("mic")' + Once("sys")'
      <4> HIDE DEF BudgetInv, TypeOK
      <4> QED BY <3>5, <3>6, <3>7, <3>8
    <3>10. isRecording => recoverable + 1 < MaxRecoverable + Twice("mic")' + Twice("sys")'
      <4> HIDE DEF BudgetInv, TypeOK
      <4> QED BY <2>6, <3>5, <3>6, <3>7, <3>8
    <3>11. isRecording' => errorCount' <= recoverable' + Once("mic")' + Once("sys")'
      BY <2>1, <3>9
    <3>12. isRecording' => recoverable' < MaxRecoverable + Twice("mic")' + Twice("sys")'
      BY <2>1, <3>10
    <3> QED BY <2>1, <3>1, <3>3, <3>4, <3>11, <3>12
  <2> QED BY <2>5, <2>6
<1>24. ASSUME NEW d \in Devices, ErrorStopFlags(d)
       PROVE  BudgetInv'
  BY <1>24 DEF ErrorStopFlags, ClearFlags
<1>25. ASSUME NEW d \in Devices, ErrorStopClear(d)
       PROVE  BudgetInv'
  BY <1>25 DEF ErrorStopClear, ClearReferences
<1>26. ASSUME NEW d \in Devices, ErrorFallback(d)
       PROVE  BudgetInv'
  BY <1>26 DEF ErrorFallback, ClearFlags, ClearReferences
<1>27. CASE Tick
  BY <1>27 DEF Tick
<1>28. CASE UNCHANGED vars
  BY <1>28 DEF vars
<1> QED
  BY <1>1, <1>2, <1>3, <1>4, <1>5, <1>6, <1>7, <1>8, <1>9, <1>10, <1>11, <1>12, <1>13,
     <1>14, <1>15, <1>16, <1>17, <1>18, <1>19, <1>20, <1>21, <1>22, <1>23, <1>24, <1>25,
     <1>26, <1>27, <1>28, <1>29, <1>30
  DEF Next, StartCommand, PauseCommands, StopCommand, Callback, Called

\* Every step keeps ChannelCloses: the sender is set only before there is anyone
\* to stop the recording.
LEMMA ChannelStep ==
    TypeOK /\ StartInv /\ ChannelCloses /\ [Next]_vars => ChannelCloses'
<1> SUFFICES ASSUME TypeOK, StartInv, ChannelCloses, [Next]_vars PROVE ChannelCloses'
  OBVIOUS
<1> USE DEF TypeOK, CommandState, CallbackState, CallbackIdle, CommandAt, CommandTo,
        CallbackAt, CallbackTo,
        ChannelCloses, StartInv, flags, counts, clock, world
<1>1. CASE StartState
  BY <1>1 DEF StartState
<1>2. CASE StartPipeline
  BY <1>2 DEF StartPipeline
<1>3. CASE OpenStream
  BY <1>3 DEF OpenStream
<1>4. CASE SetDevice
  BY <1>4 DEF SetDevice
<1>5. CASE SystemUnavailable
  BY <1>5 DEF SystemUnavailable
<1>6. CASE OpenFails
  BY <1>6 DEF OpenFails, Cleanup, ClearFlags, ClearReferences
<1>7. CASE OpenDone
  BY <1>7 DEF OpenDone
<1>8. CASE PauseCheck
  BY <1>8 DEF PauseCheck, Command
<1>9. CASE PauseFlag
  BY <1>9 DEF PauseFlag
<1>10. CASE PauseClockStarts
  BY <1>10 DEF PauseClockStarts
<1>11. CASE ResumeTakeClock
  BY <1>11 DEF ResumeTakeClock, Command
<1>12. CASE ResumeFlag
  BY <1>12 DEF ResumeFlag
<1>13. ASSUME NEW d \in Devices, Reconnect(d)
       PROVE  ChannelCloses'
  BY <1>13 DEF Reconnect, Command
<1>14. CASE Reopen
  BY <1>14 DEF Reopen
<1>15. CASE StopFlags
  BY <1>15 DEF StopFlags, ClearFlags
<1>16. CASE StopClear
  BY <1>16 DEF StopClear, ClearReferences
<1>17. CASE StopStreams
  BY <1>17 DEF StopStreams
<1>18. CASE StopJoined
  BY <1>18 DEF StopJoined
<1>19. CASE StopCleanup
  BY <1>19 DEF StopCleanup, Cleanup, ClearFlags, ClearReferences
<1>20. CASE StopReadDuration
  BY <1>20 DEF StopReadDuration
<1>21. ASSUME NEW d \in Devices, ChunkArrives(d)
       PROVE  ChannelCloses'
  BY <1>21 DEF ChunkArrives
<1>22. ASSUME NEW d \in Devices, ChunkSend(d)
       PROVE  ChannelCloses'
  BY <1>22 DEF ChunkSend
<1>29. ASSUME NEW d \in Devices, ChunkProcessed(d)
       PROVE  ChannelCloses'
  BY <1>29 DEF ChunkProcessed
<1>23. ASSUME NEW d \in Devices, NEW kind \in {"recoverable", "fatal"}, ReportError(d, kind)
       PROVE  ChannelCloses'
  BY <1>23 DEF ReportError
<1>30. ASSUME NEW d \in Devices, CountRecoverable(d)
       PROVE  ChannelCloses'
  BY <1>30 DEF CountRecoverable
<1>24. ASSUME NEW d \in Devices, ErrorStopFlags(d)
       PROVE  ChannelCloses'
  BY <1>24 DEF ErrorStopFlags, ClearFlags
<1>25. ASSUME NEW d \in Devices, ErrorStopClear(d)
       PROVE  ChannelCloses'
  BY <1>25 DEF ErrorStopClear, ClearReferences
<1>26. ASSUME NEW d \in Devices, ErrorFallback(d)
       PROVE  ChannelCloses'
  BY <1>26 DEF ErrorFallback, ClearFlags, ClearReferences
<1>27. CASE Tick
  BY <1>27 DEF Tick
<1>28. CASE UNCHANGED vars
  BY <1>28 DEF vars
<1> QED
  BY <1>1, <1>2, <1>3, <1>4, <1>5, <1>6, <1>7, <1>8, <1>9, <1>10, <1>11, <1>12, <1>13,
     <1>14, <1>15, <1>16, <1>17, <1>18, <1>19, <1>20, <1>21, <1>22, <1>23, <1>24, <1>25,
     <1>26, <1>27, <1>28, <1>29, <1>30
  DEF Next, StartCommand, PauseCommands, StopCommand, Callback, Called

\* Every step keeps NothingRemains: without streams no callback is left to act.
LEMMA RemainsStep ==
    TypeOK /\ CallbackInv /\ NothingRemains /\ [Next]_vars => NothingRemains'
<1> SUFFICES ASSUME TypeOK, CallbackInv, NothingRemains, [Next]_vars PROVE NothingRemains'
  OBVIOUS
<1> USE DEF TypeOK, CommandState, CallbackState, CallbackIdle, CommandAt, CommandTo,
        CallbackAt, CallbackTo,
        NothingRemains, CallbackInv, Idle, StreamsQuiet, flags, counts, clock, world
<1>1. CASE StartState
  BY <1>1 DEF StartState
<1>2. CASE StartPipeline
  BY <1>2 DEF StartPipeline
<1>3. CASE OpenStream
  BY <1>3 DEF OpenStream
<1>4. CASE SetDevice
  BY <1>4 DEF SetDevice
<1>5. CASE SystemUnavailable
  BY <1>5 DEF SystemUnavailable
<1>6. CASE OpenFails
  BY <1>6 DEF OpenFails, Cleanup, ClearFlags, ClearReferences
<1>7. CASE OpenDone
  BY <1>7 DEF OpenDone
<1>8. CASE PauseCheck
  BY <1>8 DEF PauseCheck, Command
<1>9. CASE PauseFlag
  BY <1>9 DEF PauseFlag
<1>10. CASE PauseClockStarts
  BY <1>10 DEF PauseClockStarts
<1>11. CASE ResumeTakeClock
  BY <1>11 DEF ResumeTakeClock, Command
<1>12. CASE ResumeFlag
  BY <1>12 DEF ResumeFlag
<1>13. ASSUME NEW d \in Devices, Reconnect(d)
       PROVE  NothingRemains'
  BY <1>13 DEF Reconnect, Command
<1>14. CASE Reopen
  BY <1>14 DEF Reopen
<1>15. CASE StopFlags
  BY <1>15 DEF StopFlags, ClearFlags
<1>16. CASE StopClear
  BY <1>16 DEF StopClear, ClearReferences
<1>17. CASE StopStreams
  BY <1>17 DEF StopStreams
<1>18. CASE StopJoined
  BY <1>18 DEF StopJoined
<1>19. CASE StopCleanup
  BY <1>19 DEF StopCleanup, Cleanup, ClearFlags, ClearReferences
<1>20. CASE StopReadDuration
  BY <1>20 DEF StopReadDuration
<1>21. ASSUME NEW d \in Devices, ChunkArrives(d)
       PROVE  NothingRemains'
  BY <1>21 DEF ChunkArrives
<1>22. ASSUME NEW d \in Devices, ChunkSend(d)
       PROVE  NothingRemains'
  BY <1>22 DEF ChunkSend
<1>29. ASSUME NEW d \in Devices, ChunkProcessed(d)
       PROVE  NothingRemains'
  BY <1>29 DEF ChunkProcessed
<1>23. ASSUME NEW d \in Devices, NEW kind \in {"recoverable", "fatal"}, ReportError(d, kind)
       PROVE  NothingRemains'
  BY <1>23 DEF ReportError
<1>30. ASSUME NEW d \in Devices, CountRecoverable(d)
       PROVE  NothingRemains'
  BY <1>30 DEF CountRecoverable
<1>24. ASSUME NEW d \in Devices, ErrorStopFlags(d)
       PROVE  NothingRemains'
  BY <1>24 DEF ErrorStopFlags, ClearFlags
<1>25. ASSUME NEW d \in Devices, ErrorStopClear(d)
       PROVE  NothingRemains'
  BY <1>25 DEF ErrorStopClear, ClearReferences
<1>26. ASSUME NEW d \in Devices, ErrorFallback(d)
       PROVE  NothingRemains'
  BY <1>26 DEF ErrorFallback, ClearFlags, ClearReferences
<1>27. CASE Tick
  BY <1>27 DEF Tick
<1>28. CASE UNCHANGED vars
  BY <1>28 DEF vars
<1> QED
  BY <1>1, <1>2, <1>3, <1>4, <1>5, <1>6, <1>7, <1>8, <1>9, <1>10, <1>11, <1>12, <1>13,
     <1>14, <1>15, <1>16, <1>17, <1>18, <1>19, <1>20, <1>21, <1>22, <1>23, <1>24, <1>25,
     <1>26, <1>27, <1>28, <1>29, <1>30
  DEF Next, StartCommand, PauseCommands, StopCommand, Callback, Called

-----------------------------------------------------------------------------
\* The initial states satisfy the invariant.
LEMMA Initially == Init => IInv
<1> USE StateBoundsAssumption, LimitsAssumption
    DEF Init, IInv, TypeOK, None, CallbackIdle, CallbackAt, CommandAt
<1> SUFFICES ASSUME Init PROVE IInv
  OBVIOUS
<1>1. TypeOK
  <2>1. cmd \in CommandState
    BY DEF CommandState, CommandLabels
  <2>2. cb \in [Devices -> CallbackState]
    BY DEF CallbackState, CallbackLabels
  <2>3. start \in 0..None /\ pauseStart \in 0..None /\ duration \in 0..None
        /\ totalPause \in 0..MaxTime /\ now \in 0..MaxTime /\ active \in 0..MaxTime
    OBVIOUS
  <2> QED BY <2>1, <2>2, <2>3
<1>2. CallbackInv /\ StartInv
  BY DEF CallbackInv, StartInv, Idle
<1>3. ClockInv /\ BudgetInv
  BY DEF ClockInv, BudgetInv
<1>4. ChannelCloses /\ NothingRemains
  BY DEF ChannelCloses, NothingRemains
<1> QED BY <1>1, <1>2, <1>3, <1>4

\* The invariant is inductive, so it holds in every reachable state.
LEMMA Always == Spec => []IInv
<1>1. IInv /\ [Next]_vars => IInv'
  BY TypeStep, CallbackStep, StartStep, ClockStep, BudgetStep, ChannelStep, RemainsStep
  DEF IInv
<1> QED BY Initially, <1>1, PTL DEF Spec

\* A set of devices is counted by its members.
LEMMA DevicesIn ==
    ASSUME NEW X, X \subseteq Devices
    PROVE  Cardinality(X) = (IF "mic" \in X THEN 1 ELSE 0) + (IF "sys" \in X THEN 1 ELSE 0)
<1>1. CASE "mic" \in X /\ "sys" \in X
  <2>1. X = Devices
    BY <1>1 DEF Devices
  <2> QED BY <1>1, <2>1, DeviceCount
<1>2. CASE "mic" \in X /\ "sys" \notin X
  <2>1. X = {"mic"}
    BY <1>2 DEF Devices
  <2>2. Cardinality(X) = 1
    BY <2>1, FS_Singleton
  <2> QED BY <1>2, <2>2
<1>3. CASE "mic" \notin X /\ "sys" \in X
  <2>1. X = {"sys"}
    BY <1>3 DEF Devices
  <2>2. Cardinality(X) = 1
    BY <2>1, FS_Singleton
  <2> QED BY <1>3, <2>2
<1>4. CASE "mic" \notin X /\ "sys" \notin X
  <2>1. X = {}
    BY <1>4 DEF Devices
  <2> QED BY <1>4, <2>1, FS_EmptySet
<1> QED BY <1>1, <1>2, <1>3, <1>4

\* The reports about to stop are at least those that have counted twice, and the
\* reports under way at least those that have counted once.
LEMMA ReportsCount ==
    /\ Cardinality(Stopping) \in Nat /\ Cardinality(Reporting) \in Nat
    /\ Twice("mic") + Twice("sys") <= Cardinality(Stopping)
    /\ Once("mic") + Once("sys") <= Cardinality(Reporting)
    /\ Twice("mic") + Twice("sys") + Once("mic") + Once("sys") <= 2
<1>1. Stopping \subseteq Devices /\ Reporting \subseteq Devices
  BY DEF Stopping, Reporting
<1>2. /\ Cardinality(Stopping) = (IF "mic" \in Stopping THEN 1 ELSE 0)
                                 + (IF "sys" \in Stopping THEN 1 ELSE 0)
      /\ Cardinality(Reporting) = (IF "mic" \in Reporting THEN 1 ELSE 0)
                                  + (IF "sys" \in Reporting THEN 1 ELSE 0)
  BY <1>1, DevicesIn
<1>3. \A d \in Devices :
          /\ Twice(d) \in {0, 1} /\ Once(d) \in {0, 1} /\ Twice(d) + Once(d) <= 1
          /\ Twice(d) <= (IF d \in Stopping THEN 1 ELSE 0)
          /\ Once(d) <= (IF d \in Reporting THEN 1 ELSE 0)
  BY DEF Twice, Once, Stopping, Reporting
<1>4. "mic" \in Devices /\ "sys" \in Devices
  BY DEF Devices
<1> QED BY <1>2, <1>3, <1>4

\* Every variable of the shared state keeps its type, whatever commands and
\* callbacks do to it (recording_state.rs).
THEOREM TypeCorrect == Spec => []TypeOK
<1>1. IInv => TypeOK
  BY DEF IInv
<1> QED BY Always, <1>1, PTL

\* A recording that is still on is within both of the limits of report_error,
\* however the reports of two streams overlap.
THEOREM ErrorBudgetHolds == Spec => []ErrorBudget
<1>1. IInv => ErrorBudget
  <2> SUFFICES ASSUME IInv, isRecording PROVE
        /\ recoverable < MaxRecoverable + Cardinality(Stopping)
        /\ errorCount <= recoverable + Cardinality(Reporting)
        /\ lastError # "fatal"
        /\ errorCount < MaxTotal
    BY DEF ErrorBudget
  <2>1. /\ recoverable < MaxRecoverable + Twice("mic") + Twice("sys")
        /\ errorCount <= recoverable + Once("mic") + Once("sys")
        /\ lastError # "fatal" /\ recoverable \in Nat /\ errorCount \in Nat
    BY DEF IInv, BudgetInv, TypeOK
  <2>2. \A d \in Devices : Twice(d) \in {0, 1} /\ Once(d) \in {0, 1}
    BY DEF Twice, Once
  <2>3. MaxTotal >= MaxRecoverable + 2 /\ MaxRecoverable \in Nat /\ MaxTotal \in Nat
    BY LimitsAssumption, DeviceCount
  <2> QED BY <2>1, <2>2, <2>3, ReportsCount DEF Devices
<1> QED BY Always, <1>1, PTL

\* The active duration is exact at every instant of a pause or a resume.
THEOREM PauseClockHolds == Spec => []PauseClock
<1>1. IInv => PauseClock
  BY StateBoundsAssumption DEF IInv, TypeOK, ClockInv, PauseClock, ActiveDuration, None
<1> QED BY Always, <1>1, PTL

\* A recording whose stops have all run to their end holds no sender of the
\* pipeline's channel.
THEOREM ChannelClosesHolds == Spec => []ChannelCloses
<1>1. IInv => ChannelCloses
  BY DEF IInv
<1> QED BY Always, <1>1, PTL

\* After the cleanup nothing is left in the state and no callback runs.
THEOREM NothingRemainsHolds == Spec => []NothingRemains
<1>1. IInv => NothingRemains
  BY DEF IInv
<1> QED BY Always, <1>1, PTL
=============================================================================
