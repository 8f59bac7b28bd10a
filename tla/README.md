# A TLA+ model of FRIDAY, the meeting recorder

FRIDAY is a desktop program (Tauri: Rust in `frontend/src-tauri/src`, a
TypeScript window in `frontend/src`) that records a meeting from the microphone
and the system output, transcribes it live with a local model, saves audio and
transcript in a meeting folder, and lets the user summarise the meeting, link it
to a calendar event and follow it up afterwards. This directory models the parts
of the program where several threads, tasks, callbacks and processes share state,
checks them with TLC, and proves the most important of their properties with the
TLA+ proof system.

Paths below are relative to `src/frontend/src-tauri/src/` unless they start
with `src/`.

## The system: an inventory

A recording goes through these parts:

    streams --chunks--> pipeline --segments--> transcription task --updates--> window
       |                   |                                          |          |
       v                   v                                          v          v
    recording state     recording saver <--- transcript listener <----+      IndexedDB
       ^                   |                                                     |
       |                   v                                                     v
    session commands    meeting folder --------------(after a crash)-------> recovery

and what it leaves is used by these:

    import, retranscription --+                  +-- summary processes -- sidecar
    model downloads ----------+-- speech engine  |
    recording ----------------+                  +-- agent -- calendar -- Google
                                     database ---+

| Component | State it keeps | Operations | Interacts by | Hard behaviours | What makes it correct | Module |
| --- | --- | --- | --- | --- | --- | --- |
| session commands (`audio/recording_commands.rs`, `recording_manager.rs`, `lib.rs`, `tray.rs`) | globals `IS_RECORDING`, `RECORDING_MANAGER`, `TRANSCRIPTION_TASK`, `TRANSCRIPT_LISTENER_ID` | start (two variants), stop, pause, resume, reconnect | async commands of two callers over shared globals; event listener | commands interleave at every await; waits with and without timeouts | one owner per recording; flag, manager and listener agree; a stop returns; a transcript belongs to its meeting | `RecordingSession` |
| recording state (`audio/recording_state.rs`) | flags, pause clock, error counters, device handles, the audio sender | start, stop, pause, resume, `send_audio_chunk`, `report_error`, `cleanup`, durations | mutexes and atomics shared by stream callbacks and commands | check and set are separate; errors stop the recording from a callback | counters bound the errors; a stopped state sends nothing; the clock counts active time | `RecordingState` |
| audio streams (`audio/pipeline.rs` `AudioCapture`, `stream.rs`) | device handles, chunk counter | open, stop, reconnect, data and error callbacks | the state's sender | callbacks on OS threads | the sender goes with the recording | `RecordingState` |
| audio pipeline and VAD lanes (`audio/pipeline.rs`, `vad.rs`) | one lane per device with VAD, segment id and preview marks; mixing ring buffer | chunk, preview, final, flush signals, close | channel in, transcription channel and saver channel out | two lanes over one channel, flush by magic chunk ids, buffer overflow | each speech ends in one final; all audio is mixed once; the pipeline ends | `AudioPipeline` |
| transcription task (`audio/transcription/worker.rs`, `engine.rs`) | work channel, counters, preview table, per-worker live text | dispatch, transcribe, skip, emit, verify | channels, atomics, `transcript-update` events | counters shared by tasks; model unloaded underneath; panic | nothing is lost silently; updates in order; the task ends | `TranscriptionWorker` |
| recording saver (`audio/recording_saver.rs`, `incremental_saver.rs`, `encode.rs`) | accumulation task, buffer, checkpoints, segments, metadata | add chunk, checkpoint, stop and save, merge | channel, meeting folder, ffmpeg | failing encodes, crash at any instant | every accepted chunk once; completed means saved | `RecordingSaver` |
| recovery (`src/frontend/src/hooks/useTranscriptRecovery.ts`, `incremental_saver.rs`) | IndexedDB mark, files of the folder | recover audio, save meeting, clean up | commands on the folder | partial failure between steps | recovery loses nothing it could read | `RecordingSaver`, `TranscriptWindow` |
| window (`src/frontend/src/contexts/TranscriptContext.tsx`, `services/indexedDBService.ts`, `hooks/useRecordingStop.ts`) | transcript list, meeting ids, listeners, IndexedDB copy, session storage | on update, reload, stop handlers, save, mark, clear | events, IndexedDB, commands | closures with old ids, two uses of the stop hook, timers, reload, a copy and marks that fail in silence | saved is marked only when saved; what is shown is kept; once and in one meeting | `TranscriptWindow` |
| import and retranscription (`audio/import.rs`, `retranscription.rs`, `common.rs`) | in-progress and cancel flags, meeting folder, database rows, `transcripts.json` | start, cancel, transcribe, save, unload | commands, database, the one speech engine | cancel at any step, a recording that shares the engine | a cancelled job saves nothing, the folder follows the outcome, the engine is not taken from a recording | `BatchJobs`, `SpeechPieces` |
| model downloads (`whisper_engine/`, `parakeet_engine/`, `summary/summary_engine/model_manager.rs`) | active downloads, cancel slot, model status, partial files | scan, download, resume, cancel, delete, retry | commands, disk, network | cancel against completion, two commands for a model | one download of a model; "available" only over a complete file | `ModelDownloads` |
| local summary engine (`summary/summary_engine/sidecar.rs`, `client.rs`, `src/llama-helper`) | child process, its pipes, health flag, active requests | ensure running, request, health check, idle sweep, shutdown | lines over stdin and stdout | three slots under three locks; late answers; death of the helper | an answer reaches its own request; ready means wired | `Sidecar` |
| summary processes (`summary/service.rs`, `processor.rs`, `commands.rs`, `database/repositories/summary.rs`) | a status row per meeting with a backup, cancellation tokens | start, stop, complete, fail, edit, delete | database, tokens, a language model | stop against a late answer, two runs of a meeting | a run that does not succeed gives the old summary back; nothing pends for ever | `SummaryProcesses`, `SummaryRecord`, `TextChunks` |
| calendar (`calendar/service.rs`, `database/repositories/calendar.rs`) | account, keychain tokens, event cache, pending link, links | connect, sync, refresh, disconnect, create, match and link | HTTP, keychain, database | disconnect under a sync, one pending link for all recordings | links resolve, and to the recording's own event; disconnected stays so | `Calendar` |
| agent (`agent/service.rs`, `database/repositories/agent.rs`) | `is_running`, runs, tasks, drafts | heartbeat, accept, dismiss, set task | a language model, database, calendar | heartbeats from four triggers, a failure or restart between event and status, links that change | no twin drafts of a meeting and event; what the user settled stays; every meeting is looked at within its week | `Agent` |
| database and API (`database/`, `api/api.rs`) | SQLite tables | thin SQL wrappers | SQL | transactions are SQLite's | - | not modelled |
| device monitor, signal processing, codecs, parallel transcription of files, notifications, analytics, onboarding, cloud clients, legacy backend | - | - | - | - | - | not modelled (see the end) |

`PROJECT.json` lists each part with the modules that model it, under `hazards`
each place in this code that is hard to test with the properties that would catch
it going wrong, and under `map` the lines behind every definition.

## How the project is laid out

Every component has a module with its state, one action per step of the code
between two awaits (or two effects another thread can see), and its properties.
The configuration of the same name instantiates it for TLC; one with a longer
name states a claim of the repository that the code does not keep. A module whose
name ends in `_proofs` holds the theorems about the one it is named after, and
`SummaryProcesses_proofs` also those about `Sidecar`, `RecordingSaver_proofs` those
about `BatchJobs`, `Agent_proofs` those about `TranscriptWindow`, `Calendar_proofs`
those about `AudioPipeline`: the guest's names are chosen apart from its host's. Bounds
are CONSTANTS with named assumptions; no module has a RECURSIVE operator, so any
can be proved about.

What is composed of what: `SummaryProcesses` implements `SummaryRecord` under a
refinement mapping, which is model-checked and proved. `BatchJobs` EXTENDS
`SpeechPieces` and `SummaryProcesses` EXTENDS `TextChunks`, two pure algorithms
that TLC compares with what they promise over all small inputs. `BatchJobs`
composes the users of the speech engine: both batch jobs, a recording, and the
settings. `RecordingSession` sees a pipeline and a transcription task from outside
as `AudioPipeline` and `TranscriptionWorker` show them inside; `TranscriptWindow`
sees the stop command from outside as `RecordingSession` shows it.

## The modules and the code

**`TranscriptionWorker`** is the task started by
`worker.rs:start_transcription_task`. `inbox` is the channel from the pipeline,
`work` the channel to the workers, `queued`, `completed` and `inputFinished` the
shared atomics, `previewState` the table behind `should_skip_stale_preview`,
`live[w]` a worker's map for `should_emit_segment_update`. The dispatcher's three
effects (publish the end time, count, send) are three steps because workers run
on other threads; a worker's steps are cut where it awaits. The engine is
external: it answers a text, nothing, an error, or panics. Chunk and segment
payloads are reduced to a segment id, an end time and the final mark. `fate`
and `sent` are history.

**`RecordingSaver`** is one recording's way to the disk and back. `task` is the
accumulation task of `start_accumulation`, `buffer`/`count` the fields of
`IncrementalAudioSaver`, `files`/`contents`/`audio`/`transcripts`/`status` the
meeting folder, `phase` the place in `stop_and_save`, `recovery` the place in
the window's `recoverMeeting`. ffmpeg is two steps, because it creates its output
before it completes it and a crash may come in between; `Crash` is possible in
every state. Audio is a set of numbered chunks per checkpoint. Checkpoint names
keep the property that matters: `{:03}` names sort as strings (`NameKey`).

**`RecordingSession`** is the interleaving of the commands. Each command is a
program counter and its local values (`proc[c]`); each step ends where the code
awaits or lets a lock go. A recording is a numbered session whose pipeline and
transcription task are seen from outside: finals are produced while the pipeline
runs, and delivered in order by the task. A listener files a final with the
manager that is global at that moment, as the closure in
`recording_commands.rs:274` does.

**`RecordingState`** is the state of `recording_state.rs` under its users. The
commands of a `RecordingManager` (start, stop, pause, resume, a reconnection in
its steps, cleanup) are one program counter (`cmd`), because they run one at a
time under the mutex of `RECORDING_MANAGER`; each device's stream has its callback
(`cb[d]`), which sends audio or reports errors whenever the stream exists.
`stop_recording` and `pause_recording` are cut between their atomics and their
locks, `report_error` between its two counts and between counting and stopping
(`ReportError`, `CountRecoverable`, `ErrorStopFlags`). A stream is playing before
`start_streams` has recorded its device; dropping it waits for its callback
(`StreamsQuiet`), which is what cpal promises. Errors are recoverable or fatal; a
device is there (`Some`) or not.

**`AudioPipeline`** is the task `AudioPipeline::run` with the two
`ContinuousVadProcessor`s. One action takes one item of the channel, because the
loop awaits nothing in between. Time is counted in frames of the detector and
audio by its length: a chunk is a lane and a length, a lane is the fields of
`ContinuousVadProcessor` and `LaneStreamingState`, the ring buffer is how many
frames each side holds. After every frame the detector may change its mind
(`Frame`). `FlushLane` ends a speech without telling the session, as `flush`
does. `emitted` is what was sent to transcription, with the number of the speech
each came from, which the code does not have. Whether the session's start times
count from the beginning or from the frame is the library's choice
(`Relative`).

**`TranscriptWindow`** is the window's side. A recording and its IndexedDB
meeting share a number and a final is a pair. `shown` is the list of the
transcript context; `mid`, `stored` and `listening` are the three places a meeting
id lives (state, session storage, closures of registered listeners), `pending`
the listeners whose registration has not returned. A final is shown by one step and
filed by another: `writes` are the calls of `saveTranscript`, for which nobody
waits, and each ends (`Filed`), fails with nothing but a warning (`FilingFails`,
which puts the final into `unfiled`) or goes with the page. A recovery reads a
meeting without waiting for them (`late`). `handler` is each of the two
uses of `useRecordingStop` (home page and provider), with the guard that belongs
to one use; `sync` the history that a reload asks the backend for; `recovery` the
dialog. The mark that ends a save may fail for either (`MarkLost`,
`RecoverMarkLost`), with the meeting in the database and still to be recovered. `Reload` and `Crash` forget the page, and keep the databases.

**`BatchJobs`** has a job per import, retranscription, recording or load of the
settings page. A batch passes its stages (`pc`), each followed by a look at
`cancelled[kind]`; `folders`, `rows` and `json` are what it leaves on disk and in
the database. A folder is named by title and minute, so an import may be given
that of an earlier one (`place`), and one that cannot be removed stays (`stuck`).
The engine is `ctx` and `name`, because Whisper keeps the loaded
model and its name under two locks: `load_model`, `unload_model` and
`transcribe_audio` are cut where they wait for one, and `NameRead` is the read
guard that `load_model` keeps. **`SpeechPieces`** is `split_segment_at_silence`
as a recursive function over sample positions.

**`ModelDownloads`** is the three managers at once; `flavour` says which one a
behaviour is about, and an action that only one of them has says so in its guard.
A task is one command with its place between awaits. Files are inodes: a command
unlinks a path while a download still writes to what it had opened. A file is as
long as the number of chunks written.

**`Sidecar`** has the slots of `SidecarManager` as variables and the two pipes of
every helper process as queues of lines. Generations, the health check and the
idle sweep are tasks; every one of them can be in `shutdown`, and a generation in
`spawn`. The helper answers in order, dies at any moment (`HelperCrash`), and leaves
when its input closes.

**`SummaryProcesses`** is the row of one meeting (status, result, backup), the
registry of cancellation tokens and up to `Runs` generations of it. A generation
asks for each chunk, the combination and the report; a stop is two steps because
it cancels the token before it writes the row. Every update of the row may fail:
the program logs it and does not try again. **`TextChunks`** is `chunk_text`.
**`SummaryRecord`** is what the user is promised, with three variables: what the
summary is said to be, what is shown, and what a generation that gives up comes
back to.

**`Calendar`** has the account's row, the keychain, the cache and the links.
Callers are syncs of the loop or the button, the connect flow and the creation of
an event, cut at each await; a disconnect has its three steps. A recording's match
is reset, looked up and held in the one `pending` slot, while the recording may
be stopped and the next one begin; a meeting is linked when it is saved, which
comes some time after the stop or by a recovery, to whatever is pending by then.
A score is one below, at or between the two thresholds of the code.

**`Agent`** has heartbeats (`beat`) from the timer, the button, a sync or a saved
meeting, the tables of runs (`done`), tasks and drafts, and the user's clicks,
each cut between its queries, any of which may fail. The user links meetings to
calendar events (`linked`), which a heartbeat reads with its list and which a draft
is searched by; meetings grow older than the week in which they are listed
(`old`). The answer of the language model is external: a task, with or without an
event draft, or nothing.

## What the runs check

All of these pass, with every action and disjunct taken:

| Run | What it shows | Bounds |
| --- | --- | --- |
| `worker` | `Accounting`: queued chunks are completed or in flight at every instant; `VerdictTruthful`: the task announces "zero lost" only when every chunk was dealt with, and a loss only after a panic; `EmissionInOrder`; `Terminates` | one worker (the code's constant), three chunks over two segments with two end times, two texts, one retry of the ten |
| `saver` | `AcceptedExactlyOnce`: buffer and checkpoints partition what was accepted, encode failures included; `CheckpointedOnDisk`: a finished checkpoint can be read until a recovery starts, whenever the process dies; `CompletedMeansSaved` | four chunks, two per checkpoint, one transcript segment, both outcomes of each external step |
| `session` | `OneOwner`: a session has one owner and no microphone is left without one, for every overlap of commands; `OwnTranscripts` | two callers, two sessions, one final each |
| `state` | `ErrorBudget`: however two streams report, a recording that is on is within its limits, and the limit on all errors is never what stops it; `PauseClock`: the active duration is exact at every instant of a pause; `ChannelCloses`: when every stop has run to its end the sender is gone | recoverable limit 2, total limit 4, four errors, one chunk, one tick, two commands besides start and stop |
| `pipeline` | `SpeechOnce`: a speech becomes one final whether the detector, a flush signal or the close ends it; `MixConserves`: less than a window of each lane waits, so the buffer's limit is never met and only a tail can be missing; `SegmentDiscipline`: per segment id, previews grow and nothing follows the final; `PipelineEnds` | three chunks of one or two frames, windows of three, previews from two, two flush signals |
| `downloads` | `OneDownloadPerModel`; `AvailableIsComplete`: what the cache calls available is a file long enough; `DownloadsEnd`: with a read timeout, an admitted download ends | two commands of any kind over two models of each manager, files of two chunks |
| `jobs` | `CancelHonoured`: a job cancelled before its last look at the flag saves nothing; `FolderFollowsOutcome`: a meeting keeps the folder that is its own, and a cancelled import leaves none; `EngineAgrees`: a loaded model can be found by a name, whatever loads and unloads crossed; `RecordingKeepsModel`; `JobsEnd` | two jobs of any kind, two models, one piece of speech |
| `sidecar` | `LoneAnswer`: a generation that has the helper to itself returns the answer to its own prompt, whatever earlier ones left in the pipes; `ReadyIsWired` | two generations, two helper processes, one crash, cancellation or idle shutdown |
| `summaries` | `KeepsRecord`: every behaviour is one of `SummaryRecord`; `StopFindsRun`: while a run has the row to itself, a stop finds its token; `PendingHasRun`: a row says PENDING only while the run that reset it is under way; `PendingEnds` | two runs, two chunks, one stop, one edit, a deletion and a crash |
| `calendar` | `OwnEvent`: a recording gets its own match, however its lookup and its save lie to the next recording; `StaysDisconnected` | one caller, one event, three scores, two recordings, one link by hand |
| `agent` | `NoTwinDrafts`: no two drafts of one meeting and calendar event are offered or accepted; `AcceptedSettled`: a draft with an event is not offered again; `ClosedStaysClosed`; `EveryMeetingDone`: a saved meeting is looked at, or has grown too old | two heartbeats, two commands at once, two meetings, one per heartbeat, one calendar event, two drafts, one failure, restart or heartbeat by hand, two commands, new links or weeks gone by |
| `window` | `SavedMeansSaved`: a mark is set only over a saved meeting; `CopyComplete`: what is shown is in the copy or being filed there, unless its filing failed; `SavedOnce`; `OneRecordingPerSave` | two recordings, one final each, two reloads, crashes or marks that fail, `Brief` |

Why these bounds are enough: three chunks are the smallest number that has a
stale preview, a newer one and a final, or two segments of which one is
interrupted. Four audio chunks with an interval of two give two full checkpoints,
a failed one that is merged into the next, and a tail flushed by `finalize`. Two
sessions and two callers are what an overlap of commands needs. In `state`, limits
of two and four keep the distance between them that the code's ten and fifteen
have (more than the number of streams), and four errors reach both. In `pipeline`,
three chunks give two previews and a final of one speech, or two speeches of which
one is cut by a flush; a chunk is no longer than the shortest preview
(`PipelineAssumption`), as device buffers of some ten milliseconds are against
420. In `downloads`, two commands on two models are a race for one and a
cancellation of the other through the one slot; a file of two chunks can be
missing, short of its tolerance and complete. In `jobs`, two jobs are every pair
of users of the engine. In `sidecar`, a second helper is what a restart needs. In
`summaries`, the second run finds what the first left in the row, the registry and
the backup. In `calendar`, the second recording meets the first one's pending
link, lookup and save, and the one event comes and goes; the one caller meets the
disconnect, and any number of callers is the subject of the theorems. In `agent`, a
limit below the number of meetings makes a heartbeat leave one out, one calendar
event gives a meeting two different links (to it, or to none), and two commands can
accept a draft twice or dismiss it under its accept. In `window`,
the second recording meets every leftover of the first. Its action constraint
`Brief` leaves two things out. Nothing is followed once every recording that has
begun has met a hazard, since no other begins then and the invariants speak of the
rest. And what is being filed of a recording that has met one is settled at once. A
recovery that reads while a final is being filed (`late`) needs a second final of
the recording, which one final each does not give: that case is left to the proof,
and to the same configuration with `MaxRecordings = 1` and `MaxSegments = 2`.

### What the properties except

Some properties hold only outside a window that the code leaves open. The window
is then named by a history variable, set by the step that opens it, and by nothing
else:

- `overlapped` (`RecordingSession`): a command was invoked while another ran.
  `OneOwner` does not need it. `cutOff`: the ten minutes ran out.
- `overlapped` (`ModelDownloads`): two downloads of a model had both looked at the
  list before either was in it, or a cancellation or retry took the entry from one
  that was running.
- `clashed` (`BatchJobs`): another load, or an unload, wrote the model between the
  two writes of a load. Only the second half of `EngineAgrees` (the name is the
  model's own) and `RecordingKeepsModel` need it. `stuck`: a folder could not be
  removed; and `Sharing`: two imports have one title and minute, hence one folder.
  `raced`: a recording began while a batch was unloading. `NameRead` in `JobsEnd`: a job that
  asked for another model than the loaded one never returns, see below.
- `shared` (`Sidecar`): since the slots were last emptied by a shutdown that met
  nobody, two tasks have been at work at once. It is not enough that nothing
  overlaps the generation itself: two requests that overlapped may have left an
  answer in the pipe of a helper that still runs, and every later request then
  reads the answer to the one before it, until a shutdown.
- `lone` (`SummaryProcesses`): the latest run has had the row to itself. `lost`: the
  runs that ended without updating the row, because the program was closed, the
  text could not be saved, or the run's last update failed and was only logged;
  `keeper` is the run that reset the row, and a row whose keeper is lost stays
  PENDING until another run. The refinement needs none of them.
- `gone = "busy"` (`Calendar`): a command was inside the service when the account
  was disconnected.
  `mixed`: the recording's meeting was saved when the next recording had begun or
  before its own reset of what is pending, or the lookup of another recording ended
  after that reset: `CalendarOwnEvent`.
- `unclear` (`Agent`): an accept failed or was cut off by a restart when Google had
  made the event: the last update failed, or Google's answer was lost or could not
  be read. `revived`: a draft was dismissed while its accept was at work, and then
  executed. Both are named by the step itself, not by what it leads to. A meeting
  that is linked to another event counts as another one for `NoTwinDrafts`, as it
  does for the code, see `AgentTwins`; and `EveryMeetingDone` excepts the meetings
  that grew older than a week first, as all do while the agent is disabled, which is
  how it is installed.
- `excused` (`TranscriptWindow`): the recording met a start while the last stop
  was being worked on, a `recording-started` that no listener heard, a final during
  the change of listeners, an answer of the history that was older than the list, a
  second stop, a clearing timer of the stop before, an id in the session storage
  that a failed save had left, a recovery offered while it was being saved, a reload
  or crash in the middle of it, or a mark that failed. After one, no further recording is started:
  `Start` has the guard `excused = {}`, a bound, because a recording after it would
  only show the same hazard again. `unfiled` and `late`: `CopyComplete` speaks of the
  finals whose filing has not failed, and `SavedMeansSaved` of those that were not
  being filed when a recovery read their meeting; a reload or a crash loses what is
  being filed at that instant.

### Claims the code does not keep

Each of these configurations is on disk, and TLC finds the counterexample when it
is run by hand (`tlc -config RecordingSaverCleanup.cfg RecordingSaver`, and so on
for the module named at the front). The runs above except exactly these.

| Configuration | Claim | What the code does |
| --- | --- | --- |
| `TranscriptionWorkerZeroLost` | "ALL chunks processed successfully - ZERO chunks lost!" (`audio/transcription/worker.rs:531`) | the model is unloaded by another command; the chunk is counted as completed without being transcribed |
| `RecordingSaverFinalChunks` | "Give time for final chunks" (`audio/recording_saver.rs:416`) | `is_saving` is already false, so the task drops what arrives in that time |
| `RecordingSaverCleanup` | "Clean up checkpoint files after successful recording or recovery" (`audio/incremental_saver.rs:414`) | `recoverMeeting` cleans up whatever the audio status was |
| `RecordingSaverOrder` | "Sort by filename (audio_chunk_000.mp4, audio_chunk_001.mp4, etc.)" (`audio/incremental_saver.rs:314`) | with `NameLimit` scaled down from 1000 to 2: the first name with more digits sorts among the earlier ones, and the recovered audio is out of order |
| `RecordingStateDuration` | "Get actual recording duration from state" (`audio/recording_manager.rs:315`) | the state was cleaned up before, so the duration is always absent |
| `AudioPipelineIdentity` | "Stable live segment identity" (`src/frontend/src/services/indexedDBService.ts:28`) | the preview step of the chunk that ends a speech clears the id before the final is named |
| `RecordingSessionOverlap` | "Simple recording state tracking" (`audio/recording_commands.rs:35`) | two commands pass the same test of the flag |
| `RecordingSessionTranscripts` | "ensuring NO transcript chunks are lost" (`audio/recording_commands.rs:509`) | the manager and the listener are taken away before the transcription task is awaited |
| `BatchJobsSwitch` | "Unload current model before loading new one" (`whisper_engine/whisper_engine.rs:289`) | `load_model` keeps the read guard of `current_model` while `unload_model` waits to write it: the load never returns |
| `BatchJobsName` | "Check if this model is already loaded" (`whisper_engine/whisper_engine.rs:288`) | the check compares the name, which two loads that cross leave with the other's model |
| `BatchJobsFolder` | "Cleanup: remove the meeting folder" (`audio/import.rs:353`) | an import of the same title and minute has the same folder; when it is cancelled, the meeting imported before loses its audio |
| `BatchJobsErased` | "Wrap delete+insert+update in a transaction to prevent data loss" (`audio/retranscription.rs:494`) | a retranscription that heard no text commits the deletion |
| `SidecarAnswers` | "Send a request to the sidecar and wait for response" (`summary/summary_engine/sidecar.rs:419`) | two requests write and read under separate locks, so answers may be swapped |
| `CalendarDisconnect` | "disconnection fully removes active account access" (`src/docs/google-calendar-heartbeat-plan.md:480`) | a refresh that was waiting for Google stores its tokens afterwards |
| `CalendarOwnEvent` | "automatic match when confidence is high" (`src/docs/google-calendar-heartbeat-plan.md:311`) | a meeting is saved seconds after its stop, when the next recording has put its own match into the one slot, and is linked to that |
| `AgentTwins` | "no duplicate work from repeated wakes" (`src/docs/google-calendar-heartbeat-plan.md:337`) | a heartbeat asked for by hand finds no draft of a meeting that has been linked to another event since, and offers a second one |

`TypeOK` of every module and these invariants are defined but not in a run, and
hold when they are added to the configuration: `StaleIsSuperseded`,
`OrderlyCommands`, `NothingRemains`, `EntriesAccountedFor`,
`FilesFollowDatabase`, `LinksResolve`, `LoneOutcome`, `OneSync`; and the
liveness properties `StopGoesThrough` and `StopReturns` of `RecordingSession` and
`RecordingSaver`.

### Fairness

Weak fairness is stated of what the runtime polls (dispatcher, workers,
accumulation task, commands in progress, stream callbacks that have begun,
pipelines, batch jobs, generations, heartbeats) and of the external answers they
await (ffmpeg, the engine, a language model), which time out or which their
callers await without a way out. Timers fire: a wait with a timeout ends, and the
agent's loop beats for ever. Whisper's download reads the network without a
timeout, so it is given no fairness there and `DownloadsEnd` is not about it.
Nothing is assumed of the user, of the sound in the room, of failures, or of the
process dying. Strong fairness is nowhere needed. `Sidecar`, `Calendar` and
`TranscriptWindow` state safety only.

`CHECK_DEADLOCK FALSE` appears where the system may really stop: a saved (or dead
and recovered) recording has no next step, in `state` no command follows the save,
all commands of `downloads`, jobs of `jobs` and runs of `summaries` may be over,
both generations of `sidecar` answered, and the window at rest after its last
recording.

## What is proved

TLC checks the instances above; the theorems below hold for every value of the
constants, so no bound of a run bounds them. `tlapm M.tla` checks each module from
nothing. Each rests on one inductive invariant (`IInv`), found with TLC on the
run's instance and then proved; what it adds to the property is said here.

- **`TranscriptionWorker_proofs`**: `TypeCorrect`; `AccountingHolds`, for which
  the types suffice but for the fact that no worker is born before the engine is
  ready (the steps that touch the four terms of the sum move one chunk from one
  term to the next); `CompletedNeverAhead`, the reason why the `u64` subtraction at
  `worker.rs:554` cannot wrap; `VerdictIsTruthful`, which needs to know where a
  pending chunk can be (`PendingLocated`), that a chunk whose fate is "panic" is
  held by its dead worker (`PanicHeld`), and what each phase of the dispatcher says
  about the channels (`Phases`); `StaleIsSupersededHolds`, for which every update
  that was accepted must be in the history (`VInv`); and `OneWorkerEmitsInOrder`,
  whose hypothesis is the code's `NUM_WORKERS = 1` (`worker.rs:160`; with two workers
  the order is lost, as TLC shows): what is queued, in the worker's hand and
  emitted is one ascending sequence of chunks (`OInv`).
- **`RecordingState_proofs`**: `TypeCorrect`, `ErrorBudgetHolds`,
  `PauseClockHolds`, `ChannelClosesHolds`, `NothingRemainsHolds`. The pause total
  is bounded by the clock only because start, total and active time add up to the
  present or to the start of the pause (`ClockInv`). The limit on all errors is out
  of reach only if the reports under way are told apart by what they have counted
  (`BudgetInv`): a fatal report adds to one counter, a recoverable one first to that
  and then to the other. Each may be one too many in the one only while it has not
  come to the second count (`Once`), in the other only while it is about to stop
  (`Twice`). That a report after the limit finds the
  recording off, and a cleanup no callback, rest on `StartInv` and `CallbackInv`.
- **`RecordingSession_proofs`**: `OneOwnerHolds`, for every overlap of any number
  of callers, because a session is handed on and never shared (`Single`), a stop
  past its streams has closed them (`Closed`), and what captures has an owner
  (`Owned`). `OrderlyCommandsHolds` and `OwnTranscriptsHolds`, for commands that do
  not overlap: `PhaseInv` says what the one command at work may find in the
  globals at each of its places, and `RunningInv` whose transcription task runs.
- **`SummaryProcesses_proofs`**: `TypeCorrect`; `StopFindsRunHolds`, because no
  other run is past its beginning while one has the row to itself (`LoneInv`);
  `PendingHasRunHolds`, because a row that is reset has the run that reset it as its
  keeper, and no run ends without an update of the row but as a lost one; and
  `KeepsRecordHolds`, `Spec => Record!Spec`: the initial states map to initial
  states, and every step to a step of `SummaryRecord` or to none. The step
  simulation needs `RowInv`: there is a backup only while the row is PENDING, and
  without one a pending row shows nothing or an edit. `SummaryKept` is what the
  user gets of it: a meeting that has a summary has one through every reset,
  failure, stop and crash, as long as its row exists.
  The second half of the module is about `Sidecar`: `SidecarTypeCorrect`,
  `ReadyIsWiredHolds`, and `LoneAnswerHolds`, because a task that is alone at work
  has, at each of its places, done its part and left nothing in the pipes but its
  own line (`Stage`, `Peace`), a dead process reads nothing and one that was not
  started says nothing (`Pipes`), and what is locked cannot be unplugged
  (`Locked`). A shutdown that meets nobody restores the peace from any state.
- **`Calendar_proofs`**: `LinksResolveHolds`; `OwnEventHolds`, because what is
  pending after a recording's reset is its own match, and what a meeting is being
  linked to its own, unless they are `mixed` (`MatchInv`); `StaysDisconnectedHolds`, because after a quiet disconnect no caller
  gets past the tokens (`QuietInv`); `OneSyncHolds`.
  The second half of the module is about `AudioPipeline`: `PipelineTypeCorrect`,
  `SpeechOnceHolds`, `MixConservesHolds` and `SegmentDisciplineHolds`. The finals
  sent of a lane are those of its first speeches, each once, all but the one under
  way, until a flush after which no audio comes (`LanesInv`), because flush signals
  follow all audio in the channel (`ItemsInv`). A chunk no longer than a window
  completes one window at most, so the mixer is always drained (`MixInv`). The id in
  a lane is that of the speech under way; a final that was sent is named before the
  speech that is under way or next, and a preview that was sent is not ahead of the
  lane's marks (`NamesInv`). That a chunk in which one speech ends may begin the
  next does no harm because such a chunk is too short for a preview of the second.
  The frames of a chunk are stepped through by a recursive function; what a chunk
  does to a lane is proved of `0..n` through the least number that would fail
  (`LeastNumber`), which also gives that the function is defined
  (`RecursionDefines`).
- **`Agent_proofs`**: `NoTwinDraftsHolds`, because the flag belongs to the one
  heartbeat at work (`OneBeat`) and between its search and its insertion no draft
  of what it was searched by comes to life but a `revived` one (`InsertInv`);
  `ClosedStaysClosedHolds`; `AcceptedSettledHolds`, because a draft with an event is
  marked, about to be, or `unclear` (`CreatedInv`).
  The second half of the module is about `TranscriptWindow`: `WindowTypeCorrect`,
  `SavedMeansSavedHolds`, `CopyCompleteHolds`, `SavedOnceHolds` and
  `OneRecordingPerSaveHolds`. `WindowInv` says of a recording that has met no hazard
  (`Fine`): one stop drains it while it records, then one of the two handlers is at
  work on it, with nothing on its way after the waits (`StopInv`); the start is the
  first event in the queue and the call of the provider the last (`QueueInv`); the
  ids in the closures are its own, or those of the recording before while its start
  is the next event (`MidInv`); so the list, what the handler takes and the copy are
  of one recording (`ShownInv`), the copy, with what is being filed (`given`), has
  nothing that the list, the handler's take or, before the mark, the database lacks
  (`CopyInv`), and the list has nothing
  that is neither on its way nor in the copy (`KeptInv`). `SavesInv` and
  `RecoveryInv` say who may save a recording, the handler or a recovery: a meeting is
  offered only when its recording is over, and is in the database only if it is
  marked or about to be. Each part has a lemma of its own (`…Step`), in which a step
  is used through what it does to the state (`…Does`) and the steps that write
  nothing the part reads are left to `Writers`. A mark that fails excuses its
  recording, and has one lemma for all parts (`MarkLostStep`, `RecoverMarkLostStep`).
- **`ModelDownloads_proofs`**: `TypeCorrect`; `OneDownloadPerModelHolds`, because a
  running download keeps its entry and the others from having looked before it was
  there (`EntryInv`); `RunningIsListed`; `EveryEntryAccountedFor`;
  `WritersKeepApart`, because a file belongs to the model of the command that made it
  (`OwnInv`); `AvailableIsCompleteHolds`, because the path of a model nobody has
  touched leads to the file its only writer writes, as far as the writer has come,
  and no scan that has yet to publish calls a copy complete that is about to be
  replaced (`CopyInv`): Parakeet's scan holds the list while it looks, the summary
  manager's looks at the cache when there is an entry, and a download of either
  replaces only what neither would call complete.
- **`RecordingSaver_proofs`**: `AcceptedExactlyOnceHolds`, because a chunk on its way
  is not yet accepted (`QueueInv`, `HandInv`), the checkpoint being encoded holds the
  buffer, and every finished one has audio of its own, so that there is room for
  the next (`FileInv`); `CheckpointedOnDiskHolds`, because the checkpoints are there
  until they have been merged (`DiskInv`); `CompletedMeansSavedHolds`, which adds
  that the buffer is empty from the merge on, because the task and the stop do not
  meet (`PlaceInv`), and when transcripts and metadata are written (`MetaInv`).
  `RecoveredInOrderHolds`, for recordings of at most `NameLimit` full checkpoints,
  because the number in a file's name says how much audio was checkpointed before
  it (`SizeInv`): 1000 checkpoints of 30 s are more than eight hours.
  The second half of the module is about `BatchJobs`: `JobsTypeCorrect`,
  `CancelHonouredHolds`, `FolderFollowsOutcomeHolds`, `EngineAgreesHolds`,
  `RecordingKeepsModelHolds` and `FilesFollowDatabaseHolds`. The guard makes a batch
  the only one of its kind (`OneEach`), so that nobody resets the cancellation it
  has still to look at or saves into its meeting; a job that was told is either
  over or still before a look, with the flag up (`BatchInv`). An import has a folder
  from its first look on, and only a cancelled one that has the same removes it
  (`FolderInv`). A model without a name is about to have one, and a load between
  its writes has written the model it names unless somebody else wrote it since
  (`WritingInv`); who takes the model's
  name back has taken the model first, and a batch is between the two beside a
  recording only if it was there when the recording began (`ModelInv`, `Named`); and the
  database is ahead of the file only while a retranscription is at its files
  (`Written`). What a step does to the other jobs is one lemma (`SilentStep`) for the
  steps that change nothing but their own job, and what it does to folders and to
  the two writes of a load another (`QuietStore`, `QuietEngine`).

Assumptions: the two error limits are further apart than there are streams
(`LimitsAssumption`; 10 and 15 in the code); workers are a finite non-empty pool
(`WorkersAssumption`); meetings are numbered in their order
(`MeetingsAssumption`); a model file has more than one chunk (`FullAssumption`); the
window has room for a recording with a final (`WindowAssumption`); a buffer of a
device is no longer than the shortest preview (420 ms) and a window of the mixer
(`PipelineAssumption`);
sentinels are none of the values they stand beside (`NoneAssumption`,
`SentinelAssumption`); bounds are naturals. TLC evaluates them in every run.

Only model-checked: all liveness properties (fairness and ENABLED are out of the
prover's reach), and what the recursive functions of `SpeechPieces` and `TextChunks`
compute, which TLC compares with what they promise on every small input. The
prover has no induction over data; a proof would have to go through the least
number that fails, as that of `AudioPipeline` does for the frames of a chunk.

## What is not modelled, and why

- The 200 ms sleep of `stop_and_save` is taken to be longer than the instant
  between the task's test of `is_saving` and its lock; the timeout around
  `save_recording_only` (5 minutes) is not distinguished from its failure. The
  waits of the window's stop handler (4.5 s) are taken to be longer than an event
  takes to arrive.
- Commands of `RecordingState` are serialised by the manager's mutex; the
  overlaps of commands are the subject of `RecordingSession`. The reconnecting
  mode and the buffer pool of `RecordingState` are left out: no code enters the
  one, and the other holds no audio.
- A voice detector that fails in the middle of a chunk takes the segments with it
  that had already ended in this chunk (`audio/vad.rs:110`).
- Samples: the VAD's decisions, resampling, mixing, normalisation and codecs are
  numerics; Silero, Whisper, Parakeet, ffmpeg, cpal, SQLite, Google and the
  language models are external.
- `audio/device_monitor.rs` polls the operating system and fills a queue that the
  window never asks for; `audio/recording_preferences.rs` and the detectors of
  system audio are reads of the operating system.
- Parallel transcription of files (`whisper_engine/parallel_processor.rs`) is
  started by no component of the window.
- Database wrappers and cloud clients are stateless or leave their atomicity to
  SQLite, whose queries are taken to succeed in the syncs of `Calendar`, where
  a meeting is saved once; notifications, analytics and onboarding keep no state another part reads; the Python backend,
  the website and the build scripts are not part of the program.
- Memory rows of the agent, which only its prompt reads; more than one task for a
  meeting, and more than one title of a draft: the code searches a draft by its
  title as well, so that one the model words differently is a draft of its own;
  templates and texts of summaries.

Hazards seen while modelling that no property is about, besides those of
`PROJECT.json`:

- checkpoints are named with three digits and read back in the order of their
  names (`audio/incremental_saver.rs:315`): the thousand-and-first sorts between
  the hundredth and the hundred-and-first. `NameLimit` is the hypothesis of
  `RecoveredInOrderHolds`, and `RecordingSaverOrder` shows what happens past it.
- a recovery after a crash inside the removal of the checkpoints overwrites a
  complete `audio.mp4` (`audio/incremental_saver.rs:361`); `CheckpointedOnDisk` is
  stated up to the start of a recovery. A crash between the window's save and its
  mark, or a mark that fails, lets the meeting be recovered a second time.
- the folder of a meeting is named by the minute (`audio/audio_processing.rs:40`):
  two recordings of one name in a minute share their checkpoints (of two imports,
  see `BatchJobsFolder`).
- a failure to spawn ffmpeg panics inside the accumulation task
  (`audio/encode.rs:77`), and the recording goes on without it.
- `attempt_device_reconnect` holds the std mutex of `RECORDING_MANAGER` across
  awaits (`audio/recording_commands.rs:1233`).
- `split_segment_at_silence` promises an overlap of one second
  (`audio/common.rs:100`) and its pieces do not overlap; `chunk_text` leaves text
  out where a chunk is cut back by more than the overlap
  (`summary/processor.rs:71`), which is why `SoundChunks` has a condition.
- `get_transcription_status` answers that nothing is in progress, whatever the
  task does.
- the connect flow waits for its callback without a timeout, keeps tokens when a
  later step fails, and reads one page of events only (`calendar/service.rs`).
- a run row of the agent stays "running" after a failure, a meeting that fails puts
  the older ones of the heartbeat off, and a dismissed draft is proposed again.
- the tray's start item loads the page anew, and with it goes the handler of a stop
  that is at work; a start from the sidebar in the seconds after a stop finds its
  list cleared.
