------------------------------ MODULE Calendar ------------------------------
(* The Google Calendar of calendar/service.rs: the account's row and its    *)
(* tokens in the system keychain, the events cached in the database, the    *)
(* syncs that keep them (one at a time, whoever asks), and the link from a  *)
(* meeting to the event it was recorded in.  Every await lets the other     *)
(* commands in; the queries of a sync are assumed to succeed.               *)
EXTENDS Integers, TLC

CONSTANTS Callers,       \* commands and loops that may be in the service at once
          Events,        \* events of the window that is synced
          Scores,        \* scores an event may get, in percent
          MaxRecordings, \* bound: recordings
          MaxManual,     \* bound: links set or cleared by hand
          None

ASSUME CallersAssumption == Callers # {}
ASSUME ScoresAssumption == Scores \subseteq 0..100
ASSUME BoundsAssumption == MaxRecordings \in Nat /\ MaxManual \in Nat
ASSUME NoneAssumption == None \notin Events

VARIABLES account,   \* connection_status of the row, "none" before there is one
          keychain,  \* the tokens: none, an access token that is good, one that expired
          syncing,   \* is_sync_in_progress
          task,      \* the callers
          dropping,  \* how far disconnect_google is
          cache,     \* calendar_events of the window
          pending,   \* pending_recording_link
          link,      \* meeting_event_links
          recording, \* how many recordings were started, and whether one is on
          prepare,   \* prepare_pending_recording_match, by recording
          save,      \* persist_pending_link_for_meeting, by meeting
          manual,
          gone,      \* history: "no", or disconnected when a command was at work or none
          mixed      \* history: recordings whose place in pending_recording_link another had

links == <<link, pending, recording, prepare, save, manual, mixed>>
tokens == <<account, keychain, dropping, gone>>
sync == <<syncing, task>>
vars == <<links, tokens, sync, cache>>

(* A meeting is known by the recording it was made from.                    *)
Recordings == 1..MaxRecordings
Meetings == Recordings
Idle == [pc |-> "idle", kind |-> "sync", got |-> {}]
Pcs == {"idle", "authorize", "primary", "flag", "account", "tokens", "refresh",
        "fetch", "store", "mark", "clear", "insert"}
(* What is kept for a recording: the event, and whose recording it is.      *)
Match == [event : Events, of : Recordings]
NoMatch == [pc |-> "idle", match |-> None]
NoSave == [pc |-> "idle", seen |-> None]
Saved == [pc |-> "saved", seen |-> None]

Init ==
    /\ account = "none" /\ keychain = "none" /\ dropping = "idle" /\ gone = "no"
    /\ syncing = FALSE /\ task = [c \in Callers |-> Idle]
    /\ cache = {}
    /\ pending = None /\ link = [m \in Meetings |-> None]
    /\ recording = [n |-> 0, on |-> FALSE]
    /\ prepare = [r \in Recordings |-> NoMatch]
    /\ save = [m \in Meetings |-> NoSave]
    /\ manual = 0 /\ mixed = {}

-----------------------------------------------------------------------------
At(c, pc) == task[c].pc = pc
Goto(c, pc) == task' = [task EXCEPT ![c].pc = pc]
Leaves(c) == task' = [task EXCEPT ![c] = Idle]
InService(c) == task[c].pc # "idle"

(* sync_google_calendar, for the user, the background loop, a recording     *)
(* that starts, or as the end of another command.                           *)
Enter(c) == task' = [task EXCEPT ![c] = [Idle EXCEPT !.pc = "flag"]]
SyncNow(c) ==
    /\ At(c, "idle")
    /\ Enter(c)
    /\ UNCHANGED <<syncing, tokens, links, cache>>
(* start_background_sync_loop: a tick asks only when the account is connected.*)
Tick(c) ==
    /\ At(c, "idle") /\ account = "connected"
    /\ Enter(c)
    /\ UNCHANGED <<syncing, tokens, links, cache>>
(* set_sync_in_progress(true): a second sync is refused.                    *)
SetFlag(c) ==
    /\ At(c, "flag")
    /\ IF syncing THEN Leaves(c) /\ UNCHANGED syncing
                  ELSE syncing' = TRUE /\ Goto(c, "account")
    /\ UNCHANGED <<tokens, links, cache>>
ClearFlag(c) ==
    /\ At(c, "clear")
    /\ syncing' = FALSE /\ Leaves(c)
    /\ UNCHANGED <<tokens, links, cache>>

(* sync_google_calendar_inner.                                              *)
ReadAccount(c) ==
    /\ At(c, "account")
    /\ Goto(c, IF account = "connected" THEN "tokens" ELSE "clear")
    /\ UNCHANGED <<syncing, tokens, links, cache>>
(* ensure_access_token, of a sync and of an event that is created.          *)
HasToken(c) == IF task[c].kind = "create" THEN "insert" ELSE "fetch"
TokenMissing(c) ==
    /\ At(c, "tokens") /\ keychain = "none"
    /\ IF task[c].kind = "create" THEN Leaves(c) /\ UNCHANGED account
       ELSE account' = "disconnected" /\ Goto(c, "clear")
    /\ UNCHANGED <<syncing, keychain, dropping, gone, links, cache>>
TokenRead(c) ==
    /\ At(c, "tokens") /\ keychain # "none"
    /\ Goto(c, IF keychain = "good" THEN HasToken(c) ELSE "refresh")
    /\ UNCHANGED <<syncing, tokens, links, cache>>
Refreshed(c) ==
    /\ At(c, "refresh")
    /\ keychain' = "good"
    /\ Goto(c, HasToken(c))
    /\ UNCHANGED <<syncing, account, dropping, gone, links, cache>>
Failed(c) ==
    /\ account' = "error"
    /\ Goto(c, "clear")
    /\ UNCHANGED <<syncing, keychain, dropping, gone, links, cache>>
RefreshFails(c) ==
    /\ At(c, "refresh")
    /\ \/ task[c].kind = "sync" /\ Failed(c)
       \/ task[c].kind = "create" /\ Leaves(c) /\ UNCHANGED <<syncing, tokens, links, cache>>
(* fetch_events: whatever Google lists, cancelled events left out.          *)
Fetched(c) ==
    /\ At(c, "fetch")
    /\ \E listed \in SUBSET Events :
           task' = [task EXCEPT ![c].pc = "store", ![c].got = listed]
    /\ UNCHANGED <<syncing, tokens, links, cache>>
FetchFails(c) == At(c, "fetch") /\ Failed(c)
(* upsert_events_for_window: the events that are no longer listed go, and   *)
(* with each the links to it.                                               *)
Cascade(kept) ==
    [m \in Meetings |-> IF link[m] # None /\ link[m].event \in kept THEN link[m] ELSE None]
Store(c) ==
    /\ At(c, "store")
    /\ cache' = task[c].got /\ link' = Cascade(task[c].got)
    /\ Goto(c, "mark")
    /\ UNCHANGED <<syncing, tokens, pending, recording, prepare, save, manual, mixed>>
MarkSynced(c) ==
    /\ At(c, "mark")
    /\ account' = "connected"
    /\ Goto(c, "clear")
    /\ UNCHANGED <<syncing, keychain, dropping, gone, links, cache>>

-----------------------------------------------------------------------------
(* connect_google: the user in the browser, the tokens, the calendar, the   *)
(* account, and a sync.  What fails after the tokens leaves them there.     *)
Connect(c) ==
    /\ At(c, "idle")
    /\ Goto(c, "authorize")
    /\ UNCHANGED <<syncing, tokens, links, cache>>
Refused(c) ==
    /\ task[c].pc \in {"authorize", "primary"}
    /\ Leaves(c)
    /\ UNCHANGED <<syncing, tokens, links, cache>>
Authorized(c) ==
    /\ At(c, "authorize")
    /\ keychain' = "good" /\ gone' = "no"
    /\ Goto(c, "primary")
    /\ UNCHANGED <<syncing, account, dropping, links, cache>>
Connected(c) ==
    /\ At(c, "primary")
    /\ account' = "connected"
    /\ Enter(c)
    /\ UNCHANGED <<syncing, keychain, dropping, gone, links, cache>>

(* create_google_calendar_event_from_agent, for an accepted recommendation. *)
CreateEvent(c) ==
    /\ At(c, "idle") /\ account = "connected"
    /\ task' = [task EXCEPT ![c].pc = "tokens", ![c].kind = "create"]
    /\ UNCHANGED <<syncing, tokens, links, cache>>
Inserted(c) ==
    /\ At(c, "insert")
    /\ Enter(c)
    /\ UNCHANGED <<syncing, tokens, links, cache>>
InsertFails(c) ==
    /\ At(c, "insert")
    /\ Leaves(c)
    /\ UNCHANGED <<syncing, tokens, links, cache>>

(* disconnect_google.                                                       *)
Forget ==
    /\ dropping = "idle" /\ account # "none"
    /\ keychain' = "none" /\ dropping' = "status"
    /\ gone' = IF \A c \in Callers : ~InService(c) THEN "quiet" ELSE "busy"
    /\ UNCHANGED <<account, sync, links, cache>>
ForgetTokensOnly ==
    /\ dropping = "status"
    /\ dropping' = "pending"
    /\ UNCHANGED <<account, keychain, gone, sync, links, cache>>
MarkDisconnected ==
    /\ dropping = "status"
    /\ account' = "disconnected" /\ dropping' = "pending"
    /\ UNCHANGED <<keychain, gone, sync, links, cache>>
DropPending ==
    /\ dropping = "pending"
    /\ pending' = None /\ dropping' = "idle"
    /\ UNCHANGED <<account, keychain, gone, sync, link, recording, prepare, save, manual, mixed, cache>>

-----------------------------------------------------------------------------
(* A recording starts; once it has, its start command prepares the match:   *)
(* prepare_pending_recording_match.  Nobody waits for it: the recording may *)
(* be stopped, and the next one begin, before it ends.                      *)
StartRecording ==
    /\ ~recording.on /\ recording.n < MaxRecordings
    /\ recording' = [n |-> recording.n + 1, on |-> TRUE]
    /\ prepare' = [prepare EXCEPT ![recording.n + 1].pc = "reset"]
    /\ UNCHANGED <<pending, link, save, manual, mixed, tokens, sync, cache>>
(* Mutant: what is pending is left for the next match to replace.           *)
ResetNothing(r) ==
    /\ prepare[r].pc = "reset"
    /\ prepare' = [prepare EXCEPT ![r].pc = "look"]
    /\ UNCHANGED <<pending, link, recording, save, manual, mixed, tokens, sync, cache>>
ResetPending(r) ==
    /\ prepare[r].pc = "reset"
    /\ pending' = None
    /\ prepare' = [prepare EXCEPT ![r].pc = "look"]
    /\ UNCHANGED <<link, recording, save, manual, mixed, tokens, sync, cache>>
(* choose_best_match: at least 60, and 15 more than every other.            *)
BestMatches(score) ==
    {e \in cache : score[e] >= 60 /\ \A o \in cache \ {e} : score[e] - score[o] >= 15}
Candidates == UNION {BestMatches(score) : score \in [Events -> Scores]}
LookUp(r) ==
    /\ prepare[r].pc = "look"
    /\ \/ prepare' = [prepare EXCEPT ![r] = NoMatch]
       \/ /\ account = "connected"
          /\ \E e \in Candidates :
                 prepare' = [prepare EXCEPT ![r] = [pc |-> "set", match |-> [event |-> e, of |-> r]]]
    /\ \/ UNCHANGED sync
       \/ /\ account = "connected"
          /\ \E c \in Callers : At(c, "idle") /\ Enter(c) /\ UNCHANGED syncing
    /\ UNCHANGED <<link, pending, recording, save, manual, mixed, tokens, cache>>
(* A match that was found late takes the place of the recording that has    *)
(* begun and reset what was pending since.                                  *)
SetPending(r) ==
    /\ prepare[r].pc = "set"
    /\ pending' = prepare[r].match /\ prepare' = [prepare EXCEPT ![r] = NoMatch]
    /\ mixed' = IF r # recording.n /\ prepare[recording.n].pc # "reset"
                THEN mixed \cup {recording.n} ELSE mixed
    /\ UNCHANGED <<link, recording, save, manual, tokens, sync, cache>>
StopRecording ==
    /\ recording.on
    /\ recording' = [recording EXCEPT !.on = FALSE]
    /\ UNCHANGED <<link, pending, prepare, save, manual, mixed, tokens, sync, cache>>

(* The meeting of a recording is saved, if it is, some time after its stop  *)
(* or by a recovery: persist_pending_link_for_meeting takes what is pending *)
(* by then, which may be what a later recording has put there or an earlier *)
(* one has left.  Bound: once for a recording.                              *)
Recorded(m) == m < recording.n \/ (m = recording.n /\ ~recording.on)
SaveMeeting(m) ==
    /\ save[m].pc = "idle" /\ Recorded(m)
    /\ save' = [save EXCEPT ![m] = IF pending = None THEN Saved
                                   ELSE [pc |-> "validate", seen |-> pending]]
    /\ mixed' = IF m # recording.n \/ prepare[m].pc = "reset" THEN mixed \cup {m} ELSE mixed
    /\ UNCHANGED <<link, pending, recording, prepare, manual, tokens, sync, cache>>
DropStale(m) ==
    /\ save[m].pc = "validate"
    /\ save' = [save EXCEPT ![m].pc = "clear"]
    /\ UNCHANGED <<link, pending, recording, prepare, manual, mixed, tokens, sync, cache>>
Validate(m) ==
    /\ save[m].pc = "validate"
    /\ save' = [save EXCEPT ![m].pc = IF save[m].seen.event \in cache THEN "link" ELSE "clear"]
    /\ UNCHANGED <<link, pending, recording, prepare, manual, mixed, tokens, sync, cache>>
(* The link refers to the event's row: without it the insert fails, as any  *)
(* query may, and what is pending stays.                                    *)
Link(m) ==
    /\ save[m].pc = "link" /\ save[m].seen.event \in cache
    /\ link' = [link EXCEPT ![m] = save[m].seen]
    /\ save' = [save EXCEPT ![m].pc = "clear"]
    /\ UNCHANGED <<pending, recording, prepare, manual, mixed, tokens, sync, cache>>
LinkFails(m) ==
    /\ save[m].pc \in {"validate", "link"}
    /\ save' = [save EXCEPT ![m] = Saved]
    /\ UNCHANGED <<link, pending, recording, prepare, manual, mixed, tokens, sync, cache>>
(* clear_pending_link: whatever is pending by now.                          *)
ClearPending(m) ==
    /\ save[m].pc = "clear"
    /\ pending' = None
    /\ save' = [save EXCEPT ![m] = Saved]
    /\ UNCHANGED <<link, recording, prepare, manual, mixed, tokens, sync, cache>>

(* set_meeting_link and clear_meeting_link_for_meeting, from the meeting's page.*)
SetLink(m, e) ==
    /\ save[m].pc = "saved" /\ manual < MaxManual /\ account # "none" /\ e \in cache
    /\ link' = [link EXCEPT ![m] = [event |-> e, of |-> None]]
    /\ manual' = manual + 1
    /\ UNCHANGED <<pending, recording, prepare, save, mixed, tokens, sync, cache>>
ClearLink(m) ==
    /\ link[m] # None /\ manual < MaxManual
    /\ link' = [link EXCEPT ![m] = None]
    /\ manual' = manual + 1
    /\ UNCHANGED <<pending, recording, prepare, save, mixed, tokens, sync, cache>>

(* Outside: an access token expires.                                        *)
Expire ==
    /\ keychain = "good"
    /\ keychain' = "expired"
    /\ UNCHANGED <<account, dropping, gone, links, sync, cache>>

-----------------------------------------------------------------------------
(* The steps a caller takes by itself once its command is called.           *)
Step(c) ==
    \/ SetFlag(c) \/ ReadAccount(c) \/ TokenMissing(c) \/ TokenRead(c)
    \/ Refreshed(c) \/ RefreshFails(c) \/ Fetched(c) \/ FetchFails(c)
    \/ Store(c) \/ MarkSynced(c) \/ ClearFlag(c)
Next ==
    \/ \E c \in Callers :
           \/ Step(c) \/ SyncNow(c) \/ Tick(c) \/ Connect(c) \/ Refused(c)
           \/ Authorized(c) \/ Connected(c) \/ CreateEvent(c) \/ Inserted(c) \/ InsertFails(c)
    \/ Forget \/ MarkDisconnected \/ DropPending
    \/ StartRecording \/ StopRecording
    \/ \E r \in Recordings : ResetPending(r) \/ LookUp(r) \/ SetPending(r)
    \/ \E m \in Meetings :
           \/ SaveMeeting(m) \/ DropStale(m) \/ Validate(m) \/ Link(m) \/ LinkFails(m)
           \/ ClearPending(m) \/ ClearLink(m) \/ \E e \in Events : SetLink(m, e)
    \/ Expire

Spec == Init /\ [][Next]_vars

-----------------------------------------------------------------------------
TypeOK ==
    /\ account \in {"none", "connected", "disconnected", "error"}
    /\ keychain \in {"none", "good", "expired"}
    /\ dropping \in {"idle", "status", "pending"}
    /\ syncing \in BOOLEAN /\ gone \in {"no", "quiet", "busy"}
    /\ task \in [Callers -> [pc : Pcs, kind : {"sync", "create"}, got : SUBSET Events]]
    /\ cache \subseteq Events
    /\ pending \in Match \cup {None}
    /\ \A m \in Meetings : link[m] = None \/ link[m] \in Match
                           \/ link[m] \in [event : Events, of : {None}]
    /\ recording \in [n : 0..MaxRecordings, on : BOOLEAN]
    /\ prepare \in [Recordings -> [pc : {"idle", "reset", "look", "set"},
                                  match : Match \cup {None}]]
    /\ save \in [Meetings -> [pc : {"idle", "validate", "link", "clear", "saved"},
                              seen : Match \cup {None}]]
    /\ manual \in 0..MaxManual /\ mixed \subseteq Recordings

(* A link always leads to an event that is in the cache, whatever syncs     *)
(* removed since the event was matched: get_meeting_link joins the two, and *)
(* a link without its event would be a meeting that can neither show its    *)
(* event nor be linked anew.                                                *)
LinksResolve == \A m \in Meetings : link[m] # None => link[m].event \in cache

(* A meeting is linked by itself only to the event matched for its own      *)
(* recording, although one pending link serves all recordings and the next  *)
(* one may begin while the last meeting is being linked, unless its         *)
(* transcript was saved when the next one had begun, or the lookup of       *)
(* another recording ended after its own had begun.                         *)
OwnEvent ==
    \A m \in Recordings \ mixed : link[m] # None => link[m].of \in {m, None}

(* "automatic match when confidence is high": a meeting is never linked by  *)
(* itself to an event that was matched for another recording.               *)
OwnEventAlways == \A m \in Meetings : link[m] # None => link[m].of \in {m, None}

(* Once the account is disconnected with no command under way, nothing that *)
(* starts afterwards brings its tokens or its status back, short of the     *)
(* user connecting again.                                                   *)
StaysDisconnected == gone = "quiet" /\ dropping = "idle" => account = "disconnected" /\ keychain = "none"

(* "Disconnection fully removes active account access": after               *)
(* disconnect_google has returned there are tokens only if the user has     *)
(* connected again.                                                         *)
DisconnectRemovesAccess == gone # "no" /\ dropping = "idle" => keychain = "none"

(* The flag that refuses a second sync belongs to the one sync at work: no   *)
(* two are, and however a sync ends it lets the next one in.                *)
Syncing(c) == task[c].kind = "sync"
              /\ task[c].pc \in {"account", "tokens", "refresh", "fetch", "store", "mark", "clear"}
OneSync ==
    /\ syncing <=> \E c \in Callers : Syncing(c)
    /\ \A c, d \in Callers : Syncing(c) /\ Syncing(d) => c = d

Symmetry == Permutations(Callers)
=============================================================================
