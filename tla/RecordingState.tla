--------------------------- MODULE RecordingState ---------------------------
(***************************************************************************)
(* The state one recording shares between its commands and the callbacks   *)
(* of its audio streams (audio/recording_state.rs), driven the way         *)
(* RecordingManager drives it: start, pause, resume, reconnect and stop    *)
(* run one at a time under the mutex of RECORDING_MANAGER; the callbacks   *)
(* run on threads of the audio library whenever they like.                 *)
(*                                                                         *)
(* Flags, counters and options are atomics and mutexes of their own, so    *)
(* every operation is cut where another thread can see it half done.       *)
(* start_reconnecting is never called and is left out.                     *)
(***************************************************************************)
EXTENDS Naturals, Sequences, FiniteSets

CONSTANTS
    MaxRecoverable,  \* recoverable errors that stop a recording (10)
    MaxTotal,        \* errors of any kind that stop it (15)
    MaxErrors,       \* bound: errors the streams report
    MaxChunks,       \* bound: audio chunks
    MaxTime,         \* bound: ticks of the clock
    MaxCommands      \* bound: pauses, resumes and reconnects

Devices == {"mic", "sys"}

ASSUME LimitsAssumption ==
    /\ MaxRecoverable \in Nat \ {0} /\ MaxTotal \in Nat
    /\ MaxTotal >= MaxRecoverable + Cardinality(Devices)
ASSUME StateBoundsAssumption ==
    MaxErrors \in Nat /\ MaxChunks \in Nat /\ MaxTime \in Nat /\ MaxCommands \in Nat

VARIABLES
    isRecording,  \* is_recording
    isPaused,     \* is_paused
    device,       \* microphone_device and system_device: which are Some
    sender,       \* audio_sender is Some
    errorCount,   \* error_count
    recoverable,  \* recoverable_error_count
    lastError,    \* last_error: "none", "recoverable" or "fatal"
    chunks,       \* stats.chunks_processed
    start,        \* recording_start
    pauseStart,   \* pause_start
    totalPause,   \* total_pause_duration
    streams,      \* the streams that exist and call back
    cmd,          \* the command: program counter, devices still to open, and the
                  \* device a reconnect is about
    cb,           \* per stream: its callback's program counter and locals
    duration,     \* the duration save_recording_only hands to the saver
    now,          \* the clock
    active,       \* ticks in which the recording was not paused (history)
    commands      \* commands so far (history)

flags  == <<isRecording, isPaused>>
counts == <<errorCount, recoverable, lastError>>
clock  == <<start, pauseStart, totalPause>>
world  == <<now, active>>
vars == <<flags, device, sender, counts, chunks, clock, streams, cmd, cb, duration,
          world, commands>>

None == MaxTime + 1    \* an Option<Instant> that is None

-----------------------------------------------------------------------------
CallbackIdle == [pc |-> "idle", kind |-> "none", over |-> FALSE]

Init ==
    /\ isRecording = FALSE /\ isPaused = FALSE
    /\ device = {} /\ sender = FALSE
    /\ errorCount = 0 /\ recoverable = 0 /\ lastError = "none" /\ chunks = 0
    /\ start = None /\ pauseStart = None /\ totalPause = 0
    /\ streams = {}
    /\ cmd = [pc |-> "new", todo |-> <<>>, again |-> "none"]
    /\ cb = [d \in Devices |-> CallbackIdle]
    /\ duration = None
    /\ now = 0 /\ active = 0 /\ commands = 0

\* get_active_recording_duration.
ActiveDuration ==
    IF start = None THEN None
    ELSE now - start - totalPause
         - (IF isPaused /\ pauseStart # None THEN now - pauseStart ELSE 0)

CommandAt(label) == cmd.pc = label
CommandTo(label) == cmd' = [cmd EXCEPT !.pc = label]
CallbackAt(d, label) == cb[d].pc = label
CallbackTo(d, label) == cb' = [cb EXCEPT ![d].pc = label]

\* The next command the user gives, once the recording is under way.
Command == CommandAt("live") /\ commands < MaxCommands /\ commands' = commands + 1

(***************************************************************************)
(* stop_recording and cleanup, the parts shared by commands and callbacks. *)
(***************************************************************************)
ClearFlags == isRecording' = FALSE /\ isPaused' = FALSE

\* Mutant: the sender stays in the state.
KeepSender == pauseStart' = None /\ device' = {} /\ UNCHANGED sender

ClearReferences == pauseStart' = None /\ sender' = FALSE /\ device' = {}

Cleanup ==
    /\ ClearFlags /\ ClearReferences
    /\ errorCount' = 0 /\ recoverable' = 0 /\ lastError' = "none" /\ chunks' = 0
    /\ start' = None /\ totalPause' = 0

(***************************************************************************)
(* Start.                                                                  *)
(***************************************************************************)
StartState ==
    /\ CommandAt("new")
    /\ isRecording' = TRUE
    /\ start' = now
    /\ errorCount' = 0 /\ recoverable' = 0 /\ lastError' = "none"
    /\ CommandTo("pipeline")
    /\ UNCHANGED <<isPaused, device, sender, chunks, pauseStart, totalPause, streams,
                   cb, duration, world, commands>>

\* AudioPipelineManager::start sets the sender; then the streams are opened.
StartPipeline ==
    /\ CommandAt("pipeline")
    /\ sender' = TRUE
    /\ cmd' = [cmd EXCEPT !.pc = "opening", !.todo = <<"mic", "sys">>]
    /\ UNCHANGED <<flags, device, counts, chunks, clock, streams, cb, duration,
                   world, commands>>

\* AudioStream::create returns a stream that is already playing ...
OpenStream ==
    /\ CommandAt("opening") /\ cmd.todo # <<>>
    /\ streams' = streams \cup {Head(cmd.todo)}
    /\ CommandTo("setting")
    /\ UNCHANGED <<flags, device, sender, counts, chunks, clock, cb, duration,
                   world, commands>>

\* ... and only then the device is recorded in the state.
SetDevice ==
    /\ CommandAt("setting")
    /\ device' = device \cup {Head(cmd.todo)}
    /\ cmd' = [cmd EXCEPT !.pc = "opening", !.todo = Tail(@)]
    /\ UNCHANGED <<flags, sender, counts, chunks, clock, streams, cb, duration,
                   world, commands>>

\* System audio that cannot be opened is only a warning.
SystemUnavailable ==
    /\ CommandAt("opening") /\ cmd.todo # <<>> /\ Head(cmd.todo) = "sys"
    /\ cmd' = [cmd EXCEPT !.todo = Tail(@)]
    /\ UNCHANGED <<flags, device, sender, counts, chunks, clock, streams, cb,
                   duration, world, commands>>

\* The microphone cannot be opened, or nothing could: a start drops its manager,
\* which cleans up; a reconnect returns and leaves the streams it had stopped.
OpenFails ==
    /\ CommandAt("opening") /\ streams = {}
    /\ IF cmd.again = "none"
       THEN Cleanup /\ CommandTo("aborted")
       ELSE /\ cmd' = [pc |-> "live", todo |-> <<>>, again |-> "none"]
            /\ UNCHANGED <<flags, device, sender, counts, chunks, clock>>
    /\ UNCHANGED <<streams, cb, duration, world, commands>>

\* A reconnect records its device again, opened or not.
OpenDone ==
    /\ CommandAt("opening") /\ cmd.todo = <<>> /\ streams # {}
    /\ device' = device \cup ({cmd.again} \cap Devices)
    /\ cmd' = [cmd EXCEPT !.pc = "live", !.again = "none"]
    /\ UNCHANGED <<flags, sender, counts, chunks, clock, streams, cb, duration,
                   world, commands>>

(***************************************************************************)
(* Pause, resume, reconnect.                                               *)
(***************************************************************************)
PauseCheck ==
    /\ Command
    /\ IF isRecording /\ ~isPaused THEN CommandTo("pause_flag") ELSE UNCHANGED cmd
    /\ UNCHANGED <<flags, device, sender, counts, chunks, clock, streams, cb,
                   duration, world>>

PauseFlag ==
    /\ CommandAt("pause_flag")
    /\ isPaused' = TRUE
    /\ CommandTo("pause_clock")
    /\ UNCHANGED <<isRecording, device, sender, counts, chunks, clock, streams, cb,
                   duration, world, commands>>

PauseClockStarts ==
    /\ CommandAt("pause_clock")
    /\ pauseStart' = now
    /\ CommandTo("live")
    /\ UNCHANGED <<flags, device, sender, counts, chunks, start, totalPause, streams,
                   cb, duration, world, commands>>

\* Mutant: the pause is taken but not added to the total.
ResumeForgets ==
    /\ Command
    /\ IF isRecording /\ isPaused
       THEN pauseStart' = None /\ CommandTo("resume_flag")
       ELSE UNCHANGED <<pauseStart, cmd>>
    /\ UNCHANGED <<flags, device, sender, counts, chunks, start, totalPause, streams,
                   cb, duration, world>>

\* pause_start is taken and its length added to the total.
ResumeTakeClock ==
    /\ Command
    /\ IF isRecording /\ isPaused
       THEN /\ totalPause' = IF pauseStart = None THEN totalPause
                             ELSE totalPause + (now - pauseStart)
            /\ pauseStart' = None
            /\ CommandTo("resume_flag")
       ELSE UNCHANGED <<totalPause, pauseStart, cmd>>
    /\ UNCHANGED <<flags, device, sender, counts, chunks, start, streams, cb,
                   duration, world>>

ResumeFlag ==
    /\ CommandAt("resume_flag")
    /\ isPaused' = FALSE
    /\ CommandTo("live")
    /\ UNCHANGED <<isRecording, device, sender, counts, chunks, clock, streams, cb,
                   duration, world, commands>>

\* A stream that is dropped calls back no more, and its drop waits for the
\* callback that runs.
StreamsQuiet == \A d \in Devices : CallbackAt(d, "idle")

\* attempt_device_reconnect: look up the other device, stop both streams, then open
\* the one asked for and the other if the state knew it.  The mutex is held
\* throughout, but a callback may clear the devices meanwhile.
Reconnect(d) ==
    /\ Command
    /\ streams' = {}
    /\ cmd' = [pc |-> "closing", again |-> d,
               todo |-> IF Devices \ {d} \subseteq device THEN <<"mic", "sys">> ELSE <<d>>]
    /\ UNCHANGED <<flags, device, sender, counts, chunks, clock, cb, duration, world>>

Reopen ==
    /\ CommandAt("closing") /\ StreamsQuiet
    /\ CommandTo("opening")
    /\ UNCHANGED <<flags, device, sender, counts, chunks, clock, streams, cb,
                   duration, world, commands>>

(***************************************************************************)
(* stop_streams_and_force_flush, then save_recording_only.                 *)
(***************************************************************************)
StopFlags ==
    /\ CommandAt("live")
    /\ ClearFlags
    /\ CommandTo("stop_clear")
    /\ UNCHANGED <<device, sender, counts, chunks, clock, streams, cb, duration,
                   world, commands>>

StopClear ==
    /\ CommandAt("stop_clear")
    /\ ClearReferences
    /\ CommandTo("stop_streams")
    /\ UNCHANGED <<flags, counts, chunks, start, totalPause, streams, cb, duration,
                   world, commands>>

StopStreams ==
    /\ CommandAt("stop_streams")
    /\ streams' = {}
    /\ CommandTo("join")
    /\ UNCHANGED <<flags, device, sender, counts, chunks, clock, cb, duration, world,
                   commands>>

\* Mutant: the streams are let go without waiting for their callbacks.
StopDetached ==
    /\ CommandAt("join")
    /\ CommandTo("cleanup")
    /\ UNCHANGED <<flags, device, sender, counts, chunks, clock, streams, cb,
                   duration, world, commands>>

StopJoined ==
    /\ CommandAt("join") /\ StreamsQuiet
    /\ CommandTo("cleanup")
    /\ UNCHANGED <<flags, device, sender, counts, chunks, clock, streams, cb,
                   duration, world, commands>>

\* The pipeline has been flushed and the state is cleaned up.
StopCleanup ==
    /\ CommandAt("cleanup")
    /\ Cleanup
    /\ CommandTo("read")
    /\ UNCHANGED <<streams, cb, duration, world, commands>>

\* Later save_recording_only reads the duration from the state.
StopReadDuration ==
    /\ CommandAt("read")
    /\ duration' = ActiveDuration
    /\ CommandTo("saved")
    /\ UNCHANGED <<flags, device, sender, counts, chunks, clock, streams, cb, world,
                   commands>>

(***************************************************************************)
(* The callbacks of a stream: audio data, and errors.                      *)
(***************************************************************************)

\* process_audio_data: nothing is taken once the recording is off ...
ChunkArrives(d) ==
    /\ d \in streams /\ CallbackAt(d, "idle") /\ isRecording /\ chunks < MaxChunks
    /\ CallbackTo(d, "processing")
    /\ UNCHANGED <<flags, device, sender, counts, chunks, clock, streams, cmd,
                   duration, world, commands>>

\* ... the samples stay in the resampler's buffer until it is full, and what comes
\* out, enhanced and stamped, is discarded while paused ...
ChunkProcessed(d) ==
    /\ CallbackAt(d, "processing")
    /\ \/ CallbackTo(d, "idle")
       \/ ~isPaused /\ CallbackTo(d, "sending")
    /\ UNCHANGED <<flags, device, sender, counts, chunks, clock, streams, cmd,
                   duration, world, commands>>

\* ... and skipped without a sender ("pipeline not ready"), else sent and counted.
ChunkSend(d) ==
    /\ CallbackAt(d, "sending")
    /\ chunks' = IF sender THEN chunks + 1 ELSE chunks
    /\ CallbackTo(d, "idle")
    /\ UNCHANGED <<flags, device, sender, counts, clock, streams, cmd, duration,
                   world, commands>>

\* report_error: every error is counted; a fatal one (permission, closed channel)
\* stops the recording at once ...
ReportError(d, kind) ==
    /\ d \in streams /\ CallbackAt(d, "idle") /\ errorCount < MaxErrors
    /\ errorCount' = errorCount + 1
    /\ cb' = [cb EXCEPT ![d] = [pc |-> IF kind = "fatal" THEN "flags" ELSE "counted",
                                kind |-> kind, over |-> errorCount' >= MaxTotal]]
    /\ UNCHANGED <<flags, device, sender, recoverable, lastError, chunks, clock,
                   streams, cmd, duration, world, commands>>

\* Mutant: the limit is tested with > instead of >=.
CountRecoverableLate(d) ==
    /\ CallbackAt(d, "counted")
    /\ recoverable' = recoverable + 1
    /\ IF recoverable' > MaxRecoverable
       THEN /\ CallbackTo(d, "flags")
            /\ UNCHANGED lastError
       ELSE /\ lastError' = cb[d].kind
            /\ cb' = [cb EXCEPT ![d] = IF cb[d].over THEN [@ EXCEPT !.pc = "fallback"]
                                       ELSE CallbackIdle]
    /\ UNCHANGED <<flags, device, sender, errorCount, chunks, clock, streams, cmd,
                   duration, world, commands>>

\* ... a recoverable one (device, stream, processing) has a count of its own, and
\* stops it at the limit.  After that last_error is set, the error callback emits
\* its event, and after too many errors of any kind the recording is stopped again.
CountRecoverable(d) ==
    /\ CallbackAt(d, "counted")
    /\ recoverable' = recoverable + 1
    /\ IF recoverable' >= MaxRecoverable
       THEN /\ CallbackTo(d, "flags")
            /\ UNCHANGED lastError
       ELSE /\ lastError' = cb[d].kind
            /\ cb' = [cb EXCEPT ![d] = IF cb[d].over THEN [@ EXCEPT !.pc = "fallback"]
                                       ELSE CallbackIdle]
    /\ UNCHANGED <<flags, device, sender, errorCount, chunks, clock, streams, cmd,
                   duration, world, commands>>

ErrorStopFlags(d) ==
    /\ CallbackAt(d, "flags")
    /\ ClearFlags
    /\ CallbackTo(d, "clear")
    /\ UNCHANGED <<device, sender, counts, chunks, clock, streams, cmd, duration,
                   world, commands>>

ErrorStopClear(d) ==
    /\ CallbackAt(d, "clear")
    /\ ClearReferences
    /\ lastError' = cb[d].kind
    /\ cb' = [cb EXCEPT ![d] = IF cb[d].over THEN [@ EXCEPT !.pc = "fallback"]
                               ELSE CallbackIdle]
    /\ UNCHANGED <<flags, errorCount, recoverable, chunks, start, totalPause,
                   streams, cmd, duration, world, commands>>

ErrorFallback(d) ==
    /\ CallbackAt(d, "fallback")
    /\ ClearFlags /\ ClearReferences
    /\ cb' = [cb EXCEPT ![d] = CallbackIdle]
    /\ UNCHANGED <<counts, chunks, start, totalPause, streams, cmd, duration, world,
                   commands>>

Tick ==
    /\ now < MaxTime
    /\ now' = now + 1
    /\ active' = IF isRecording /\ pauseStart = None THEN active + 1 ELSE active
    /\ UNCHANGED <<flags, device, sender, counts, chunks, clock, streams, cmd, cb,
                   duration, commands>>

-----------------------------------------------------------------------------
StartCommand ==
    \/ StartState \/ StartPipeline \/ OpenStream \/ SetDevice \/ SystemUnavailable
    \/ OpenFails \/ OpenDone

PauseCommands ==
    \/ PauseCheck \/ PauseFlag \/ PauseClockStarts \/ ResumeTakeClock \/ ResumeFlag
    \/ (\E d \in Devices : Reconnect(d)) \/ Reopen

StopCommand ==
    \/ StopClear \/ StopStreams \/ StopJoined \/ StopCleanup \/ StopReadDuration

Callback(d) ==
    \/ ChunkProcessed(d) \/ ChunkSend(d)
    \/ CountRecoverable(d) \/ ErrorStopFlags(d) \/ ErrorStopClear(d) \/ ErrorFallback(d)

Called(d) == ChunkArrives(d) \/ \E kind \in {"recoverable", "fatal"} : ReportError(d, kind)

Next ==
    \/ StartCommand \/ PauseCommands \/ StopFlags \/ StopCommand
    \/ \E d \in Devices : Callback(d) \/ Called(d)
    \/ Tick

Spec == Init /\ [][Next]_vars

\* The command that stops, and every callback, is polled or run to its end.
FairSpec == Spec /\ WF_vars(StopCommand) /\ \A d \in Devices : WF_vars(Callback(d))

-----------------------------------------------------------------------------
(***************************************************************************)
(* Properties.                                                             *)
(***************************************************************************)
CommandLabels == {"new", "pipeline", "opening", "setting", "live", "aborted",
                  "pause_flag", "pause_clock", "resume_flag", "closing",
                  "stop_clear", "stop_streams", "join", "cleanup", "read", "saved"}
CallbackLabels == {"idle", "processing", "sending", "counted", "flags", "clear",
                   "fallback"}

CommandState ==
    [pc : CommandLabels, todo : Seq(Devices), again : Devices \cup {"none"}]
CallbackState ==
    [pc : CallbackLabels, kind : {"none", "recoverable", "fatal"}, over : BOOLEAN]

\* Every variable stays in its type.
TypeOK ==
    /\ isRecording \in BOOLEAN /\ isPaused \in BOOLEAN /\ sender \in BOOLEAN
    /\ device \subseteq Devices /\ streams \subseteq Devices
    /\ errorCount \in Nat /\ recoverable \in Nat /\ chunks \in Nat
    /\ lastError \in {"none", "recoverable", "fatal"}
    /\ start \in 0..None /\ pauseStart \in 0..None /\ totalPause \in 0..MaxTime
    /\ duration \in 0..None /\ now \in 0..MaxTime /\ active \in 0..MaxTime
    /\ cmd \in CommandState /\ cb \in [Devices -> CallbackState]
    /\ commands \in Nat

\* The callbacks that have counted an error, and those about to stop the recording.
Reporting == {d \in Devices : cb[d].pc \in {"counted", "flags"}}
Stopping  == {d \in Devices : cb[d].pc = "flags"}

\* A recording that is still on is within its error limits, however the error
\* reports of two streams interleave, between their two counts as well: the limit
\* of recoverable errors is passed only by reports that are about to stop it, no
\* fatal error has been recorded, and the limit on errors of any kind is never
\* what stops it.
ErrorBudget ==
    isRecording =>
        /\ recoverable < MaxRecoverable + Cardinality(Stopping)
        /\ errorCount <= recoverable + Cardinality(Reporting)
        /\ lastError # "fatal"
        /\ errorCount < MaxTotal

\* The clock of a recording that is on counts exactly the time it was not paused,
\* at every instant of a pause or a resume.
PauseClock == isRecording => ActiveDuration = active

\* When the recording is off and every stop has run to its end, the sender is
\* gone, so the pipeline can see its channel close: a callback that gives up
\* while a start, a pause or a reconnect is under way leaves none behind.
ChannelCloses ==
    ~isRecording /\ ~CommandAt("stop_clear") /\ (\A d \in Devices : ~CallbackAt(d, "clear"))
        => ~sender

\* After the cleanup nothing of the recording is left in its state, the report of
\* an error that was under way when the streams were stopped included.
NothingRemains ==
    cmd.pc \in {"read", "saved", "aborted"} =>
        /\ ~isRecording /\ ~isPaused /\ ~sender /\ device = {} /\ streams = {}
        /\ errorCount = 0 /\ recoverable = 0 /\ lastError = "none" /\ chunks = 0
        /\ start = None /\ pauseStart = None /\ totalPause = 0
        /\ StreamsQuiet

\* Once the flags are cleared, the stop goes through to the save, whatever the
\* callbacks were doing.
StopGoesThrough == CommandAt("stop_clear") ~> CommandAt("saved")

\* What save_recording_only says it does, "get actual recording duration from
\* state": the saver is given the time the recording was on.
DurationFromState == CommandAt("saved") => duration # None
=============================================================================
