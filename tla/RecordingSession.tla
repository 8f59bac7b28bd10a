-------------------------- MODULE RecordingSession --------------------------
(***************************************************************************)
(* Starting and stopping recordings: the commands of                       *)
(* audio/recording_commands.rs over the process-wide globals IS_RECORDING, *)
(* RECORDING_MANAGER, TRANSCRIPTION_TASK and TRANSCRIPT_LISTENER_ID, and   *)
(* the RecordingManager they drive (audio/recording_manager.rs).  The      *)
(* window and the tray invoke them; each command is an async function, so  *)
(* two invocations interleave wherever a step ends below.                  *)
(*                                                                         *)
(* A recording is a numbered session.  Its transcription task is seen from *)
(* outside: it emits the finals of its session in order and ends when its  *)
(* input has closed and every final is out (TranscriptionWorker).          *)
(***************************************************************************)
EXTENDS Naturals, FiniteSets

CONSTANTS
    Callers,       \* who invokes commands: the window, the tray
    Starters,      \* those that may start a recording (the tray only stops)
    MaxSessions,   \* bound: recordings started
    MaxFinals      \* bound: final transcripts per recording

ASSUME SessionAssumption ==
    /\ Starters \subseteq Callers
    /\ MaxSessions \in Nat /\ MaxFinals \in Nat

VARIABLES
    isRecording,       \* IS_RECORDING
    manager,           \* RECORDING_MANAGER: a session, or 0
    transcriptionTask, \* TRANSCRIPTION_TASK: a session, or 0
    listenerId,        \* TRANSCRIPT_LISTENER_ID: a session, or 0
    listeners,         \* the transcript-update listeners registered
    proc,              \* per caller: where its command is, and its locals
    started,           \* sessions created so far
    capturing,         \* sessions whose audio flows
    inputOpen,         \* sessions whose pipeline still runs
    running,           \* sessions whose transcription task runs
    produced,          \* per session: finals the pipeline has sent
    delivered,         \* per session: finals emitted as transcript-update
    transcripts,       \* per session: the finals its saver holds
    saved,             \* sessions whose saver has finished (history)
    cutOff,            \* a wait for transcription was cut off (history)
    overlapped         \* two commands have run at once (history)

globals == <<isRecording, manager, transcriptionTask, listenerId, listeners>>
audio   == <<capturing, inputOpen, produced>>
texts   == <<running, delivered, transcripts>>
history == <<saved, cutOff, overlapped>>
vars == <<globals, proc, started, audio, texts, history>>

Sessions == 1..MaxSessions
None == 0

-----------------------------------------------------------------------------
Idle == [pc |-> "idle", mgr |-> None, task |-> None]

Init ==
    /\ isRecording = FALSE /\ manager = None /\ transcriptionTask = None
    /\ listenerId = None /\ listeners = {}
    /\ proc = [c \in Callers |-> Idle]
    /\ started = 0 /\ capturing = {} /\ inputOpen = {} /\ running = {}
    /\ produced = [s \in Sessions |-> 0] /\ delivered = [s \in Sessions |-> 0]
    /\ transcripts = [s \in Sessions |-> {}]
    /\ saved = {} /\ cutOff = FALSE /\ overlapped = FALSE

At(c, label) == proc[c].pc = label
Goto(c, label) == proc' = [proc EXCEPT ![c].pc = label]
Return(c) == proc' = [proc EXCEPT ![c] = Idle]

\* Drop of a RecordingManager: its state is cleaned up and its streams closed.
Dropped(s) == capturing \ {s}

\* A command is invoked.
Invoke(c, label) ==
    /\ At(c, "idle")
    /\ Goto(c, label)
    /\ overlapped' = (overlapped \/ \E d \in Callers \ {c} : ~At(d, "idle"))
    /\ UNCHANGED <<globals, started, audio, texts, saved, cutOff>>

(***************************************************************************)
(* start_recording_with_meeting_name, and with devices.                    *)
(***************************************************************************)
InvokeStart(c) == c \in Starters /\ started < MaxSessions /\ Invoke(c, "start")

\* IS_RECORDING is tested here and set only after the streams have opened.
StartCheck(c) ==
    /\ At(c, "start")
    /\ IF isRecording THEN Return(c) ELSE Goto(c, "validate")
    /\ UNCHANGED <<globals, started, audio, texts, history>>

\* The model is not ready, or no microphone is found.
StartRefused(c) ==
    /\ At(c, "validate")
    /\ Return(c)
    /\ UNCHANGED <<globals, started, audio, texts, history>>

\* manager.start_recording: saver, state, pipeline and streams of a new session.
StartManager(c) ==
    /\ At(c, "validate") /\ started < MaxSessions
    /\ LET s == started + 1 IN
       /\ started' = s
       /\ proc' = [proc EXCEPT ![c] = [@ EXCEPT !.pc = "opening", !.mgr = s]]
       /\ capturing' = capturing \cup {s}
       /\ inputOpen' = inputOpen \cup {s}
    /\ UNCHANGED <<globals, produced, texts, history>>

\* start_streams fails: the local manager is dropped.
StartFails(c) ==
    /\ At(c, "opening")
    /\ capturing' = Dropped(proc[c].mgr)
    /\ Return(c)
    /\ UNCHANGED <<globals, started, inputOpen, produced, texts, history>>

\* RECORDING_MANAGER := manager, which drops a manager that was still there.
StartPublish(c) ==
    /\ At(c, "opening")
    /\ capturing' = Dropped(manager)
    /\ manager' = proc[c].mgr
    /\ Goto(c, "flag")
    /\ UNCHANGED <<isRecording, transcriptionTask, listenerId, listeners, started,
                   inputOpen, produced, texts, history>>

StartSetFlag(c) ==
    /\ At(c, "flag")
    /\ isRecording' = TRUE
    /\ Goto(c, "spawn")
    /\ UNCHANGED <<manager, transcriptionTask, listenerId, listeners, started,
                   audio, texts, history>>

\* start_transcription_task; a handle that is overwritten is detached.
StartSpawn(c) ==
    /\ At(c, "spawn")
    /\ transcriptionTask' = proc[c].mgr
    /\ running' = running \cup {proc[c].mgr}
    /\ Goto(c, "listen")
    /\ UNCHANGED <<isRecording, manager, listenerId, listeners, started, audio,
                   delivered, transcripts, history>>

\* app.listen; a listener id that is overwritten is never unlistened.
StartListen(c) ==
    /\ At(c, "listen")
    /\ listeners' = listeners \cup {proc[c].mgr}
    /\ listenerId' = proc[c].mgr
    /\ Return(c)
    /\ UNCHANGED <<isRecording, manager, transcriptionTask, started, audio, texts,
                   history>>

(***************************************************************************)
(* stop_recording.                                                         *)
(***************************************************************************)
InvokeStop(c) == Invoke(c, "stop")

StopCheck(c) ==
    /\ At(c, "stop")
    /\ IF isRecording THEN Goto(c, "take_manager") ELSE Return(c)
    /\ UNCHANGED <<globals, started, audio, texts, history>>

\* Mutant: the manager is used in place, not taken out of the global.
StopBorrowManager(c) ==
    /\ At(c, "take_manager")
    /\ proc' = [proc EXCEPT ![c] =
          [@ EXCEPT !.pc = IF manager = None THEN "unlisten" ELSE "streams",
                    !.mgr = manager]]
    /\ UNCHANGED <<globals, started, audio, texts, history>>

\* Take the manager; without one the command goes on all the same.
StopTakeManager(c) ==
    /\ At(c, "take_manager")
    /\ proc' = [proc EXCEPT ![c] =
          [@ EXCEPT !.pc = IF manager = None THEN "unlisten" ELSE "streams",
                    !.mgr = manager]]
    /\ manager' = None
    /\ UNCHANGED <<isRecording, transcriptionTask, listenerId, listeners, started,
                   audio, texts, history>>

\* Mutant: the streams are not stopped before the pipeline is awaited.
StopStreamsLater(c) ==
    /\ At(c, "streams")
    /\ Goto(c, "flush")
    /\ UNCHANGED <<globals, started, audio, texts, history>>

\* stop_streams_and_force_flush: no more audio, then wait for the pipeline.
StopStreams(c) ==
    /\ At(c, "streams")
    /\ capturing' = capturing \ {proc[c].mgr}
    /\ Goto(c, "flush")
    /\ UNCHANGED <<globals, started, inputOpen, produced, texts, history>>

StopFlushed(c) ==
    /\ At(c, "flush") /\ proc[c].mgr \notin inputOpen
    /\ Goto(c, "unlisten")
    /\ UNCHANGED <<globals, started, audio, texts, history>>

\* The listener goes before the transcription task has been waited for.
StopUnlisten(c) ==
    /\ At(c, "unlisten")
    /\ listeners' = listeners \ {listenerId}
    /\ listenerId' = None
    /\ Goto(c, "take_task")
    /\ UNCHANGED <<isRecording, manager, transcriptionTask, started, audio, texts,
                   history>>

StopTakeTask(c) ==
    /\ At(c, "take_task")
    /\ proc' = [proc EXCEPT ![c] =
          [@ EXCEPT !.pc = IF transcriptionTask = None THEN "unload" ELSE "join",
                    !.task = transcriptionTask]]
    /\ transcriptionTask' = None
    /\ UNCHANGED <<isRecording, manager, listenerId, listeners, started, audio,
                   texts, history>>

\* Mutant: the handle is dropped instead of awaited.
StopDetached(c) ==
    /\ At(c, "join")
    /\ Goto(c, "unload")
    /\ UNCHANGED <<globals, started, audio, texts, history>>

\* The transcription task has ended ...
StopJoined(c) ==
    /\ At(c, "join") /\ proc[c].task \notin running
    /\ Goto(c, "unload")
    /\ UNCHANGED <<globals, started, audio, texts, history>>

\* ... or 10 minutes have passed.
StopTimeout(c) ==
    /\ At(c, "join")
    /\ cutOff' = TRUE
    /\ Goto(c, "unload")
    /\ UNCHANGED <<globals, started, audio, texts, saved, overlapped>>

\* Unload the model, then save_recording_only, which swallows its errors and is
\* given 5 minutes; then the manager is dropped.
StopSave(c, ok) ==
    /\ At(c, "unload")
    /\ saved' = IF ok /\ proc[c].mgr # None THEN saved \cup {proc[c].mgr} ELSE saved
    /\ proc' = [proc EXCEPT ![c] = [@ EXCEPT !.pc = "clear", !.mgr = None]]
    /\ UNCHANGED <<globals, started, audio, texts, cutOff, overlapped>>

\* IS_RECORDING := false and recording-stopped is emitted.
StopClearFlag(c) ==
    /\ At(c, "clear")
    /\ isRecording' = FALSE
    /\ Return(c)
    /\ UNCHANGED <<manager, transcriptionTask, listenerId, listeners, started,
                   audio, texts, history>>

(***************************************************************************)
(* The audio and transcription of a session.                               *)
(***************************************************************************)

\* The VAD finishes a segment, in the stream or in the final flush.
Speak(s) ==
    /\ s \in inputOpen /\ produced[s] < MaxFinals
    /\ produced' = [produced EXCEPT ![s] = @ + 1]
    /\ UNCHANGED <<globals, proc, started, capturing, inputOpen, texts, history>>

\* report_error gives up on the audio: state.stop_recording, while IS_RECORDING
\* and the manager stay.
AudioFails(s) ==
    /\ s \in capturing
    /\ capturing' = capturing \ {s}
    /\ UNCHANGED <<globals, proc, started, inputOpen, produced, texts, history>>

\* The pipeline manager keeps a sender of its own, beside the state's, until
\* force_flush_and_stop or the drop of its RecordingManager.
SenderHeld(s) ==
    \/ manager = s
    \/ \E c \in Callers : proc[c].mgr = s /\ proc[c].pc \in {"opening", "streams"}

\* Every sender of the pipeline's channel is gone.
PipelineEnds(s) ==
    /\ s \in inputOpen \ capturing /\ ~SenderHeld(s)
    /\ inputOpen' = inputOpen \ {s}
    /\ UNCHANGED <<globals, proc, started, capturing, produced, texts, history>>

\* A final is emitted; every listener still registered files it with whatever
\* manager is published at that moment (by sequence id, so once).
EmitFinal(s) ==
    /\ s \in running /\ delivered[s] < produced[s]
    /\ delivered' = [delivered EXCEPT ![s] = @ + 1]
    /\ transcripts' =
          IF listeners # {} /\ manager # None
          THEN [transcripts EXCEPT ![manager] = @ \cup {<<s, delivered[s] + 1>>}]
          ELSE transcripts
    /\ UNCHANGED <<globals, proc, started, audio, running, history>>

TaskEnds(s) ==
    /\ s \in running \ inputOpen /\ delivered[s] = produced[s]
    /\ running' = running \ {s}
    /\ UNCHANGED <<globals, proc, started, audio, delivered, transcripts, history>>

-----------------------------------------------------------------------------
Start(c) ==
    \/ StartCheck(c) \/ StartRefused(c) \/ StartManager(c) \/ StartFails(c)
    \/ StartPublish(c) \/ StartSetFlag(c) \/ StartSpawn(c) \/ StartListen(c)

Stop(c) ==
    \/ StopCheck(c) \/ StopTakeManager(c) \/ StopStreams(c) \/ StopFlushed(c)
    \/ StopUnlisten(c) \/ StopTakeTask(c) \/ StopJoined(c) \/ StopTimeout(c)
    \/ (\E ok \in BOOLEAN : StopSave(c, ok)) \/ StopClearFlag(c)

Session(s) == PipelineEnds(s) \/ EmitFinal(s) \/ TaskEnds(s)

Next ==
    \/ \E c \in Callers : InvokeStart(c) \/ InvokeStop(c) \/ Start(c) \/ Stop(c)
    \/ \E s \in Sessions : Speak(s) \/ AudioFails(s) \/ Session(s)

Spec == Init /\ [][Next]_vars

\* The runtime polls the commands and the tasks and its timers fire, so a wait of
\* ten minutes ends; nobody has to invoke a command, speak or fail.
FairSpec ==
    /\ Spec
    /\ \A c \in Callers : WF_vars(Start(c) \/ Stop(c))
    /\ \A s \in Sessions : WF_vars(Session(s))

-----------------------------------------------------------------------------
(***************************************************************************)
(* Properties.                                                             *)
(***************************************************************************)
StartLabels == {"start", "validate", "opening", "flag", "spawn", "listen"}
StopLabels  == {"stop", "take_manager", "streams", "flush", "unlisten", "take_task",
                "join", "unload", "clear"}

\* Every variable stays in its type.
TypeOK ==
    /\ isRecording \in BOOLEAN /\ cutOff \in BOOLEAN /\ overlapped \in BOOLEAN
    /\ manager \in 0..MaxSessions /\ transcriptionTask \in 0..MaxSessions
    /\ listenerId \in 0..MaxSessions
    /\ listeners \subseteq Sessions /\ capturing \subseteq Sessions
    /\ inputOpen \subseteq Sessions /\ running \subseteq Sessions
    /\ saved \subseteq Sessions
    /\ proc \in [Callers -> [pc : {"idle"} \cup StartLabels \cup StopLabels,
                             mgr : 0..MaxSessions, task : 0..MaxSessions]]
    /\ started \in 0..MaxSessions
    /\ produced \in [Sessions -> 0..MaxFinals]
    /\ delivered \in [Sessions -> 0..MaxFinals]
    /\ transcripts \in [Sessions -> SUBSET (Sessions \X (1..MaxFinals))]

\* The commands that hold session s as a local value they may still use.
Holders(s) == {c \in Callers : proc[c].mgr = s
                   /\ proc[c].pc \in {"opening", "streams", "flush", "unlisten",
                                      "take_task", "join", "unload"}}

\* However commands overlap, a session belongs to one place at a time, the global
\* or one command, so it is never flushed or saved twice; and a session whose
\* audio flows belongs to somebody, so no microphone is left without an owner
\* that will release it.
OneOwner ==
    \A s \in Sessions :
        /\ Cardinality(Holders(s)) + (IF manager = s THEN 1 ELSE 0) <= 1
        /\ s \in capturing => manager = s \/ Holders(s) # {}

Quiet == \A c \in Callers : At(c, "idle")

\* As long as commands do not overlap, between commands the flag tells whether a
\* recording exists, audio flows only then, and no listener outlives it.
FlagTracksRecording ==
    Quiet => /\ isRecording <=> manager # None
             /\ capturing # {} => isRecording
             /\ listeners # {} => isRecording

OrderlyCommands == ~overlapped => FlagTracksRecording

\* As long as commands do not overlap and no wait was cut off, a meeting's
\* transcript holds finals of that meeting only, and the model is unloaded only
\* after every transcription task has ended.
OwnTranscripts ==
    ~overlapped /\ ~cutOff =>
        /\ \A s \in Sessions : \A t \in transcripts[s] : t[1] = s
        /\ \A c \in Callers : At(c, "unload") => running = {}

\* A stop returns, even when another stop took its manager or its task.
StopReturns == \A c \in Callers : At(c, "stop") ~> At(c, "idle")

\* What stop_recording says of itself, "ensuring NO transcript chunks are lost":
\* a saved recording whose task was waited for to the end holds every final of
\* its session.
TranscriptsPreserved ==
    ~cutOff => \A s \in saved : transcripts[s] = {s} \X (1..produced[s])
=============================================================================
