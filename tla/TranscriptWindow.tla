-------------------------- MODULE TranscriptWindow --------------------------
(***************************************************************************)
(* The window's side of a recording: the transcript it shows, the copy it  *)
(* keeps in IndexedDB for a recovery, and the save to the database, which  *)
(* is the window's to make once the recording has been stopped.            *)
(*                                                                         *)
(* A recording and its IndexedDB meeting have the same number, a final     *)
(* segment is a pair of recording and number.  Previews are left out: they *)
(* are neither stored nor, once their final is there, shown.  The          *)
(* interleaving inside the stop command is the subject of RecordingSession *)
(* and appears here as an owner, which drains the transcription, and a     *)
(* second caller, which finds the manager gone and does not.  The bounds   *)
(* are MaxRecordings, MaxSegments (finals of a recording) and MaxBreaks    *)
(* (reloads of the page, crashes of the program, marks that fail).         *)
(***************************************************************************)
EXTENDS Naturals, Sequences

CONSTANTS MaxRecordings, MaxSegments, MaxBreaks

ASSUME WindowAssumption ==
    /\ MaxRecordings \in Nat \ {0}
    /\ MaxSegments \in Nat \ {0}
    /\ MaxBreaks \in Nat

Recordings == 1..MaxRecordings
Finals     == Recordings \X (1..MaxSegments)
Callers    == {"controls", "tray"}       \* who calls stop_recording
Handlers   == {"home", "provider"}       \* the two uses of useRecordingStop
Nothing    == 0                          \* no recording, no meeting id

VARIABLES
    rec,        \* recordings begun so far; the last one is the current one
    on,         \* IS_RECORDING
    manager,    \* is there a recording manager (and with it the history)
    said,       \* finals emitted by the current recording
    stop,       \* per caller: where its stop_recording is
    clicked,    \* the window's meeting id when the stop button was pressed
    events,     \* events on their way to the window, in order
    shown,      \* the finals in the window's transcript list
    mid,        \* currentMeetingId
    stored,     \* the meeting id in sessionStorage
    listening,  \* the meeting ids in the closures of the registered listeners
    pending,    \* the meeting ids in the closures of listeners being registered
    isRecording,\* recordingState.isRecording
    resting,    \* recordingState.status is none of stopping, processing, saving
    starting,   \* a start command has returned and the page goes on
    sync,       \* the reload synchronisation of the transcript list
    handler,    \* per use of useRecordingStop: its handleRecordingStop
    timers,     \* the clears that wait for their two seconds
    meta,       \* IndexedDB: the meetings' marks
    copy,       \* IndexedDB: the finals filed under each meeting
    writes,     \* calls of saveTranscript under way: a meeting and a final
    unfiled,    \* history: finals that one of these calls failed to file
    late,       \* history: finals on which one was at work when a recovery read
    saves,      \* the meetings saved to SQLite, as sets of finals
    offered,    \* the meetings of the recovery dialog
    recovery,   \* the recovery under way
    breaks,     \* reloads and crashes so far
    excused     \* history: recordings that met one of the hazards listed below

backend == <<rec, on, manager, said, stop, clicked>>
page    == <<shown, mid, listening, pending, isRecording, resting, starting, sync,
             handler, timers, offered, recovery>>
filing  == <<copy, writes, unfiled, late>>
disk    == <<stored, meta, filing, saves>>
windowVars    == <<backend, events, page, disk, breaks, excused>>

Resting  == [pc |-> "idle", id |-> Nothing, take |-> {}]
Silent   == [pc |-> "none", take |-> {}]
Busy(h)  == handler[h].pc # "idle"
Draining(c) == stop[c] # "idle"

WindowInit ==
    /\ rec = 0 /\ on = FALSE /\ manager = FALSE /\ said = 0
    /\ stop = [c \in Callers |-> "idle"] /\ clicked = Nothing
    /\ events = <<>>
    /\ shown = {} /\ mid = Nothing /\ stored = Nothing
    /\ listening = {Nothing} /\ pending = {}
    /\ isRecording = FALSE /\ resting = TRUE /\ starting = FALSE /\ sync = Silent
    /\ handler = [h \in Handlers |-> Resting] /\ timers = 0
    /\ meta = [r \in Recordings |-> "absent"]
    /\ copy = [r \in Recordings |-> {}] /\ writes = {} /\ unfiled = {}
    /\ late = {}
    /\ saves = <<>> /\ offered = {}
    /\ recovery = [pc |-> "idle", id |-> Nothing, take |-> {}]
    /\ breaks = 0 /\ excused = {}

-----------------------------------------------------------------------------
(* The transcript list and the effects that follow a change of it.          *)

\* The list changes; an empty one in a recording asks for the history again.
Show(items) ==
    /\ shown' = items
    /\ sync' = IF isRecording /\ items = {} /\ shown # {}
               THEN [pc |-> "due", take |-> {}] ELSE sync

\* The meeting id changes: the effects let their listeners go and register
\* new ones.  What is still being registered cannot be let go.
SwitchTo(id) ==
    /\ mid' = id
    /\ IF id = mid THEN UNCHANGED <<listening, pending>>
       ELSE /\ listening' = listening \ {mid}
            /\ pending' = pending \cup {id}

\* mutant: the listener keeps the meeting id it was first made with.
RegisteredStale(id) ==
    /\ id \in pending
    /\ pending' = pending \ {id}
    /\ listening' = listening \cup {Nothing}
    /\ UNCHANGED <<backend, events, shown, mid, isRecording, resting, starting, sync,
                   handler, timers, offered, recovery, disk, breaks, excused>>

Registered(id) ==
    /\ id \in pending
    /\ pending' = pending \ {id}
    /\ listening' = listening \cup {id}
    /\ UNCHANGED <<backend, events, shown, mid, isRecording, resting, starting, sync,
                   handler, timers, offered, recovery, disk, breaks, excused>>

\* syncFromBackend asks the backend, which answers from its manager.
SyncRead ==
    /\ sync.pc = "due"
    /\ sync' = [pc |-> "read",
                take |-> IF manager THEN {<<rec, s>> : s \in 1..said} ELSE {}]
    /\ UNCHANGED <<backend, events, shown, mid, listening, pending, isRecording,
                   resting, starting, handler, timers, offered, recovery, disk, breaks,
                   excused>>

\* The answer replaces the list, with whatever has been added meanwhile.
SyncSet ==
    /\ sync.pc = "read"
    /\ shown' = sync.take
    /\ sync' = IF isRecording /\ sync.take = {} /\ shown # {}
               THEN [pc |-> "due", take |-> {}] ELSE Silent
    /\ excused' = IF shown \subseteq sync.take THEN excused ELSE excused \cup {rec}
    /\ UNCHANGED <<backend, events, mid, listening, pending, isRecording, resting,
                   starting, handler, timers, offered, recovery, disk, breaks>>

-----------------------------------------------------------------------------
(* Starting and transcribing.                                               *)

\* The stop of the last recording is not done with: the window has yet to be
\* told, or is at work on it.
StopComing == \E i \in DOMAIN events : events[i].kind \in {"stopped", "stop-complete"}
StartComing == \E i \in DOMAIN events : events[i].kind = "started"
Saving      == StopComing \/ \E h \in Handlers : Busy(h)

\* The page has settled after a start or a reload, which takes moments: the
\* user does nothing before.
Quiet == pending = {} /\ sync.pc = "none" /\ ~starting /\ ~StartComing

\* start_recording succeeds: the event is on its way before the answer.  The
\* start button of the sidebar looks at isRecording and at nothing else.
Start ==
    /\ ~on /\ ~manager /\ ~isRecording /\ Quiet
    /\ rec < MaxRecordings
    /\ excused = {}    \* a bound: what follows a hazard that was met is not explored
    /\ \A c \in Callers : ~Draining(c)
    /\ rec' = rec + 1 /\ on' = TRUE /\ manager' = TRUE /\ said' = 0
    /\ starting' = TRUE /\ resting' = TRUE
    /\ events' = Append(events, [kind |-> "started", rec |-> rec + 1, seg |-> 0])
    /\ excused' = IF Saving THEN excused \cup {rec, rec + 1} ELSE excused
    /\ UNCHANGED <<stop, clicked, shown, mid, listening, pending, isRecording, sync,
                   handler, timers, offered, recovery, disk, breaks>>

\* mutant: the list is left as it was.
StartKeepsList ==
    /\ starting
    /\ starting' = FALSE
    /\ UNCHANGED <<backend, events, shown, mid, listening, pending, isRecording,
                   resting, sync, handler, timers, offered, recovery, disk, breaks,
                   excused>>

\* The command has returned: the previous transcript is cleared.
StartReturned ==
    /\ starting
    /\ starting' = FALSE
    /\ Show({})
    /\ UNCHANGED <<backend, events, mid, listening, pending, isRecording, resting,
                   handler, timers, offered, recovery, disk, breaks, excused>>

\* The transcription emits a final, not so soon that the start's answer is
\* still under way; it may do so until its stop has drained it.
Emit ==
    /\ on \/ \E c \in Callers : stop[c] \in {"owner", "lost"}
    /\ ~starting
    /\ said < MaxSegments
    /\ said' = said + 1
    /\ events' = Append(events, [kind |-> "final", rec |-> rec, seg |-> said + 1])
    /\ UNCHANGED <<rec, on, manager, stop, clicked, page, disk, breaks, excused>>

-----------------------------------------------------------------------------
(* Events reach the window.                                                 *)

Next1(kind) == events # <<>> /\ Head(events).kind = kind /\ events' = Tail(events)

\* recording-started: a new meeting in IndexedDB, unless nobody listens.
Started ==
    /\ Next1("started")
    /\ isRecording' = TRUE /\ resting' = TRUE
    /\ sync' = IF shown = {} /\ ~isRecording THEN [pc |-> "due", take |-> {}] ELSE sync
    /\ LET r == Head(events).rec
       IN IF listening = {}
          THEN /\ excused' = excused \cup {r}
               /\ UNCHANGED <<mid, listening, pending, stored, meta>>
          ELSE /\ SwitchTo(r)
               /\ stored' = r
               /\ meta' = [meta EXCEPT ![r] = "unsaved"]
               /\ UNCHANGED excused
    /\ UNCHANGED <<backend, shown, starting, handler, timers, offered, recovery, filing,
                   saves, breaks>>

\* transcript-update: every listener adds it to the list, and has it filed
\* under the meeting of its closure, for which it does not wait.
Update ==
    /\ Next1("final")
    /\ LET f == <<Head(events).rec, Head(events).seg>>
       IN /\ IF listening = {} THEN UNCHANGED <<shown, sync>> ELSE Show(shown \cup {f})
          /\ writes' = writes \cup {<<r, f>> : r \in listening \ {Nothing}}
          /\ excused' = IF pending = {} THEN excused ELSE excused \cup {f[1]}
    /\ UNCHANGED <<backend, mid, listening, pending, isRecording, resting, starting,
                   handler, timers, offered, recovery, stored, meta, copy, unfiled, late,
                   saves, breaks>>

\* saveTranscript comes to its end, or fails without a word to anyone.
Filed(w) ==
    /\ w \in writes /\ writes' = writes \ {w}
    /\ copy' = [copy EXCEPT ![w[1]] = @ \cup {w[2]}]
    /\ UNCHANGED <<backend, events, page, stored, meta, unfiled, late, saves, breaks,
                   excused>>
FilingFails(w) ==
    /\ w \in writes
    /\ writes' = writes \ {w}
    /\ unfiled' = unfiled \cup {w[2]}
    /\ UNCHANGED <<backend, events, page, stored, meta, copy, late, saves, breaks,
                   excused>>

\* recording-stopped.
Stopped ==
    /\ Next1("stopped")
    /\ isRecording' = FALSE /\ resting' = FALSE
    /\ UNCHANGED <<backend, shown, mid, listening, pending, starting, sync, handler,
                   timers, offered, recovery, disk, breaks, excused>>

\* The state is also polled while it records, and fetched by a new page.
SyncState ==
    /\ isRecording # on /\ (isRecording \/ breaks > 0)
    /\ isRecording' = on
    /\ sync' = IF on /\ shown = {} THEN [pc |-> "due", take |-> {}] ELSE sync
    /\ UNCHANGED <<backend, events, shown, mid, listening, pending, starting, handler,
                   timers, offered, recovery, disk, breaks, excused, resting>>

-----------------------------------------------------------------------------
(* Stopping.                                                                *)

\* handleRecordingStop is called; only its own guard can refuse it.
Call(h, id) ==
    IF Busy(h) THEN UNCHANGED <<handler, resting>>
    ELSE /\ handler' = [handler EXCEPT ![h] = [pc |-> "waiting", id |-> id, take |-> {}]]
         /\ resting' = FALSE

\* The controls or the tray call stop_recording.  The first takes the manager.
StopBegin(c) ==
    /\ ~Draining(c)
    /\ on /\ Quiet
    /\ c = "controls" => isRecording /\ ~Busy("home")
    /\ stop' = [stop EXCEPT ![c] = IF manager THEN "owner" ELSE "second"]
    /\ manager' = FALSE
    /\ clicked' = IF c = "controls" THEN mid ELSE clicked
    /\ excused' = IF manager THEN excused ELSE excused \cup {rec}
    /\ UNCHANGED <<rec, on, said, events, page, disk, breaks>>

\* It returns; the flag is down and the window is told.  The controls go on
\* in the page, the tray by one more event.
StopEnd(c) ==
    /\ stop[c] \in {"owner", "second"}
    /\ stop' = [stop EXCEPT ![c] = "idle"]
    /\ on' = FALSE
    /\ LET told == Append(events, [kind |-> "stopped", rec |-> rec, seg |-> 0])
       IN IF c = "controls"
          THEN events' = told /\ Call("home", clicked)
          ELSE events' = Append(told, [kind |-> "stop-complete", rec |-> rec, seg |-> 0])
               /\ UNCHANGED <<handler, resting>>
    /\ UNCHANGED <<rec, manager, said, clicked, shown, mid, listening, pending,
                   isRecording, starting, sync, timers, offered, recovery, disk, breaks,
                   excused>>

\* The tray's stop item is still there after the end of a recording: the
\* command returns at once, and the provider is told all the same.  One
\* such stop is enough.
StopAgain ==
    /\ ~on /\ stop["tray"] = "idle" /\ Quiet
    /\ rec \notin excused
    /\ \E h \in Handlers : Busy(h)
    /\ \A i \in DOMAIN events : events[i].kind # "stop-complete"
    /\ events' = Append(events, [kind |-> "stop-complete", rec |-> rec, seg |-> 0])
    /\ excused' = excused \cup {rec}
    /\ UNCHANGED <<backend, page, disk, breaks>>

\* recording-stop-complete reaches the provider.
StopComplete ==
    /\ Next1("stop-complete")
    /\ Call("provider", mid)
    /\ UNCHANGED <<backend, shown, mid, listening, pending, isRecording, starting, sync,
                   timers, offered, recovery, disk, breaks, excused>>

\* The waits of four and a half seconds: long enough for what was on its way.
Settled == events = <<>> /\ pending = {} /\ sync.pc = "none" /\ ~starting

\* mutant: no wait for what is still on its way.
WaitedNot(h) ==
    /\ handler[h].pc = "waiting"
    /\ handler' = [handler EXCEPT ![h].pc = "saving", ![h].take = shown]
    /\ resting' = FALSE
    /\ UNCHANGED <<backend, events, shown, mid, listening, pending, isRecording,
                   starting, sync, timers, offered, recovery, disk, breaks, excused>>

\* The status reads "not processing" at the first poll; after the waits the
\* list is taken as it is then.
Waited(h) ==
    /\ handler[h].pc = "waiting"
    /\ Settled
    /\ handler' = [handler EXCEPT ![h].pc = "saving", ![h].take = shown]
    /\ resting' = FALSE
    /\ UNCHANGED <<backend, events, shown, mid, listening, pending, isRecording,
                   starting, sync, timers, offered, recovery, disk, breaks, excused>>

\* api_save_transcript: one transaction with a new meeting and its segments.
Save(h) ==
    /\ handler[h].pc = "saving"
    /\ saves' = Append(saves, handler[h].take)
    /\ handler' = [handler EXCEPT ![h].pc = "marking"]
    /\ UNCHANGED <<backend, events, shown, mid, listening, pending, isRecording,
                   resting, starting, sync, timers, offered, recovery, stored, meta,
                   filing, breaks, excused>>

\* The transaction fails: an error, and the guard is free again.
SaveFails(h) ==
    /\ handler[h].pc = "saving"
    /\ handler' = [handler EXCEPT ![h] = Resting]
    /\ resting' = TRUE
    /\ UNCHANGED <<backend, events, shown, mid, listening, pending, isRecording,
                   starting, sync, timers, offered, recovery, disk, breaks, excused>>

MarkSaved(id) ==
    [meta EXCEPT ![id] = IF @ = "absent" THEN @ ELSE "saved"]

\* markMeetingAsSaved with the id of the closure, or else the one of the
\* session; then the list is cleared two seconds later.
Mark(h) ==
    /\ handler[h].pc = "marking"
    /\ LET id == IF handler[h].id # Nothing THEN handler[h].id ELSE stored
       IN IF id = Nothing
          THEN UNCHANGED <<meta, mid, listening, pending>>
          ELSE meta' = MarkSaved(id) /\ SwitchTo(Nothing)
    /\ stored' = Nothing
    /\ handler' = [handler EXCEPT ![h] = Resting]
    /\ timers' = timers + 1 /\ resting' = TRUE
    /\ excused' = IF handler[h].id = Nothing /\ stored \notin {Nothing, rec}
                  THEN excused \cup {stored} ELSE excused
    /\ UNCHANGED <<backend, events, shown, isRecording, starting, sync, offered,
                   recovery, filing, saves, breaks>>

\* The mark fails, which is only logged, and by markMeetingSaved itself if there is
\* no transaction: the meeting is in the database and its copy is still one to
\* recover.  The id of the session goes all the same.
MarkLost(h) ==
    /\ handler[h].pc = "marking"
    /\ {handler[h].id, stored} # {Nothing}
    /\ breaks < MaxBreaks
    /\ breaks' = breaks + 1
    /\ stored' = Nothing
    /\ handler' = [handler EXCEPT ![h] = Resting]
    /\ timers' = timers + 1 /\ resting' = TRUE
    /\ SwitchTo(Nothing) \/ UNCHANGED <<mid, listening, pending>>
    /\ excused' = excused \cup {rec}
    /\ UNCHANGED <<backend, events, shown, isRecording, starting, sync, offered,
                   recovery, meta, filing, saves>>

\* The timer of an earlier stop clears whatever is shown by now.
ClearLater ==
    /\ timers > 0
    /\ timers' = timers - 1 /\ resting' = TRUE
    /\ Show({})
    /\ excused' = IF on \/ Saving THEN excused \cup {rec} ELSE excused
    /\ UNCHANGED <<backend, events, mid, listening, pending, isRecording, starting,
                   handler, offered, recovery, disk, breaks>>

-----------------------------------------------------------------------------
(* Recovery.                                                                *)

\* mutant: the check does not look at the status.
CheckAnyhow ==
    /\ ~isRecording
    /\ offered' = {r \in Recordings : meta[r] = "unsaved"}
    /\ offered' # offered
    /\ excused' = excused \cup {r \in offered' : r = rec /\ (on \/ StopComing)}
    /\ UNCHANGED <<backend, events, shown, mid, listening, pending, isRecording,
                   resting, starting, sync, handler, timers, recovery, disk, breaks>>

\* The check of the home page, unless it knows of a recording or of a stop.
\* The deletions by age are left out: they come a day or a week later.
Check ==
    /\ ~isRecording /\ resting
    /\ offered' = {r \in Recordings : meta[r] = "unsaved"}
    /\ offered' # offered
    /\ excused' = excused \cup {r \in offered' : r = rec /\ (on \/ StopComing)}
    /\ UNCHANGED <<backend, events, shown, mid, listening, pending, isRecording,
                   resting, starting, sync, handler, timers, recovery, disk, breaks>>

\* recoverMeeting reads the meeting and its segments, in their own order, also
\* while one of them is still being filed.
RecoverRead(r) ==
    /\ r \in offered /\ recovery.pc = "idle" /\ Quiet
    /\ meta[r] # "absent" /\ copy[r] # {}
    /\ recovery' = [pc |-> "read", id |-> r, take |-> copy[r]]
    /\ late' = late \cup {f \in Finals : <<r, f>> \in writes}
    /\ UNCHANGED <<backend, events, shown, mid, listening, pending, isRecording,
                   resting, starting, sync, handler, timers, offered, stored, meta, copy,
                   writes, unfiled, saves, breaks, excused>>

RecoverSave ==
    /\ recovery.pc = "read"
    /\ saves' = Append(saves, recovery.take)
    /\ recovery' = [recovery EXCEPT !.pc = "saved"]
    /\ UNCHANGED <<backend, events, shown, mid, listening, pending, isRecording,
                   resting, starting, sync, handler, timers, offered, stored, meta,
                   filing, breaks, excused>>

RecoverFails ==
    /\ recovery.pc = "read"
    /\ recovery' = Resting
    /\ UNCHANGED <<backend, events, shown, mid, listening, pending, isRecording,
                   resting, starting, sync, handler, timers, offered, disk, breaks,
                   excused>>

\* The meeting is saved and its mark fails: it stays in the dialog, or leaves it if
\* the failure is not reported.
RecoverMarkLost ==
    /\ recovery.pc = "saved"
    /\ breaks < MaxBreaks
    /\ breaks' = breaks + 1
    /\ recovery' = Resting
    /\ offered' \in {offered, offered \ {recovery.id}}
    /\ excused' = excused \cup {recovery.id}
    /\ UNCHANGED <<backend, events, shown, mid, listening, pending, isRecording,
                   resting, starting, sync, handler, timers, disk>>

RecoverMark ==
    /\ recovery.pc = "saved"
    /\ meta' = MarkSaved(recovery.id)
    /\ offered' = offered \ {recovery.id}
    /\ recovery' = Resting
    /\ UNCHANGED <<backend, events, shown, mid, listening, pending, isRecording,
                   resting, starting, sync, handler, timers, stored, filing, saves,
                   breaks, excused>>

\* The user deletes a meeting of the dialog.
Remove(r) ==
    /\ r \in offered /\ recovery.pc = "idle" /\ Quiet
    /\ offered' = offered \ {r}
    /\ meta' = [meta EXCEPT ![r] = "absent"]
    /\ copy' = [copy EXCEPT ![r] = {}]
    /\ UNCHANGED <<backend, events, shown, mid, listening, pending, isRecording,
                   resting, starting, sync, handler, timers, recovery, stored, writes,
                   unfiled, late, saves, breaks, excused>>

-----------------------------------------------------------------------------
(* Reloads and crashes.                                                     *)

\* The recordings whose saving or recovering is cut short.
Interrupted ==
    (IF on \/ \E h \in Handlers : Busy(h) THEN {rec} ELSE {})
        \cup (IF recovery.pc = "saved" THEN {recovery.id} ELSE {})
        \cup {events[i].rec : i \in DOMAIN events}

\* What is being filed goes with the page, or has just been filed.
FreshPage ==
    /\ writes' = {} /\ events' = <<>> /\ shown' = {} /\ mid' = Nothing
    /\ listening' = {} /\ pending' = {Nothing}
    /\ isRecording' = FALSE /\ resting' = TRUE /\ starting' = FALSE /\ sync' = Silent
    /\ handler' = [h \in Handlers |-> Resting] /\ timers' = 0
    /\ offered' = {} /\ recovery' = Resting

\* The page is loaded anew: by the user, or by the tray, whose start item
\* navigates to the home page.  The commands under way go on in the backend.
Reload ==
    /\ breaks < MaxBreaks
    /\ breaks' = breaks + 1
    /\ FreshPage
    /\ stop' = [stop EXCEPT !["controls"] = IF @ = "idle" THEN @ ELSE "lost"]
    /\ excused' = excused \cup (Interrupted \ {Nothing})
    /\ UNCHANGED <<rec, on, manager, said, clicked, stored, meta, copy, unfiled, late,
                   saves>>

\* The stop of a page that is gone ends with nobody to take its answer.
StopLost ==
    /\ stop["controls"] = "lost"
    /\ stop' = [stop EXCEPT !["controls"] = "idle"]
    /\ on' = FALSE
    /\ events' = Append(events, [kind |-> "stopped", rec |-> rec, seg |-> 0])
    /\ UNCHANGED <<rec, manager, said, clicked, page, disk, breaks, excused>>

\* The program ends at any moment; the databases remain.
Crash ==
    /\ breaks < MaxBreaks
    /\ breaks' = breaks + 1
    /\ FreshPage
    /\ on' = FALSE /\ manager' = FALSE /\ said' = 0
    /\ stop' = [c \in Callers |-> "idle"] /\ clicked' = Nothing
    /\ stored' = Nothing
    /\ excused' = excused \cup (Interrupted \ {Nothing})
    /\ UNCHANGED <<rec, meta, copy, unfiled, late, saves>>

-----------------------------------------------------------------------------

Deliver == Started \/ Update \/ Stopped \/ StopComplete
Filing  == \E w \in writes : Filed(w) \/ FilingFails(w)
Listen  == SyncRead \/ SyncSet \/ SyncState \/ \E id \in 0..MaxRecordings : Registered(id)
Stopping ==
    \/ StopAgain \/ StopLost
    \/ \E c \in Callers : StopBegin(c) \/ StopEnd(c)
    \/ \E h \in Handlers : Waited(h) \/ Save(h) \/ SaveFails(h)
                              \/ Mark(h) \/ MarkLost(h)
Recovering ==
    \/ Check \/ RecoverSave \/ RecoverFails \/ RecoverMark \/ RecoverMarkLost
    \/ \E r \in Recordings : RecoverRead(r) \/ Remove(r)

WindowNext ==
    \/ Start \/ StartReturned \/ Emit
    \/ Deliver \/ Filing \/ Listen \/ Stopping \/ ClearLater
    \/ Recovering \/ Reload \/ Crash

WindowSpec == WindowInit /\ [][WindowNext]_windowVars

-----------------------------------------------------------------------------

\* Bounds of the run, the ACTION_CONSTRAINT of its configuration.  Nothing is
\* followed once every recording has met a hazard, for no other begins then and
\* the invariants speak of the rest.  A final of a recording that has met one is
\* filed, lost or failed to be filed before anything else happens.
Brief ==
    /\ rec = 0 \/ ~(1..rec \subseteq excused)
    /\ (\E w \in writes : w[1] \in excused) => writes' \subseteq writes /\ writes' # writes

-----------------------------------------------------------------------------

Saved == UNION {saves[i] : i \in DOMAIN saves}

\* Recordings, finals and meeting ids are those of the program.
WindowTypeOK ==
    /\ rec \in 0..MaxRecordings /\ said \in 0..MaxSegments
    /\ {on, manager, isRecording, resting, starting} \subseteq BOOLEAN
    /\ shown \subseteq Finals
    /\ mid \in 0..MaxRecordings /\ stored \in 0..MaxRecordings
    /\ \A r \in Recordings : copy[r] \subseteq Finals
    /\ writes \subseteq Recordings \X Finals /\ unfiled \cup late \subseteq Finals
    /\ excused \subseteq Recordings

\* The mark savedToSQLite, which takes a meeting out of the recovery dialog and
\* lets its copy be deleted, is set only on a meeting whose finals are all in
\* the database: whoever saves it, and whatever page is reloaded meanwhile.  Only
\* a final that was still being filed when a recovery read the meeting may lack.
SavedMeansSaved ==
    \A r \in Recordings \ excused : meta[r] = "saved" => copy[r] \subseteq Saved \cup late

\* What the window shows it also keeps: a final in the list that no event still
\* on its way can bring again is filed under its own meeting or is being filed
\* there, so that a crash loses nothing that the user has seen but what is being
\* filed at that instant, and the finals whose filing has failed in silence.
Coming == {<<events[i].rec, events[i].seg>> : i \in DOMAIN events}
CopyComplete ==
    \A f \in shown \ (Coming \cup unfiled) :
        \/ f[1] \in excused \/ meta[f[1]] = "absent"
        \/ f \in copy[f[1]] \/ <<f[1], f>> \in writes

\* No final is written to the database twice: not by two stops of a recording,
\* not by a recovery of a meeting that the stop has saved.
SavedOnce ==
    \A i, j \in DOMAIN saves :
        i # j => \A f \in saves[i] \cap saves[j] : f[1] \in excused

\* A meeting of the database holds the finals of one recording: the list that
\* the stop handler saves has nothing of the recording before or after.
OneRecordingPerSave ==
    \A i \in DOMAIN saves : \A f, g \in saves[i] :
        f[1] = g[1] \/ {f[1], g[1]} \cap excused # {}

=============================================================================
