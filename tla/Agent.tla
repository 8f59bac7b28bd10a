------------------------------- MODULE Agent -------------------------------
(* The follow-up agent of agent/service.rs.  A heartbeat, started by a      *)
(* timer, a saved meeting, a calendar sync or the user, shows the           *)
(* transcripts of recent meetings to a language model and stores the task   *)
(* and the draft of a calendar event it proposes for each; the user accepts *)
(* or dismisses the drafts and links the meetings to calendar events        *)
(* meanwhile.  The program may be closed at any point and started again.    *)
EXTENDS Integers, Sequences, FiniteSets

CONSTANTS Beats,       \* heartbeats that may be triggered at once
          Clicks,      \* commands of the user that may be in flight at once
          Meetings,    \* meetings, in the order of their creation
          Entries,     \* calendar events that a meeting may be linked to
          Limit,       \* MAX_MEETINGS_PER_HEARTBEAT
          MaxDrafts,   \* bound: drafts
          MaxTroubles, \* bound: failures, restarts and heartbeats that the user asks for
          MaxMoves,    \* bound: what else the user does, and weeks that go by
          None

ASSUME BeatsAssumption == Beats \subseteq Nat /\ Clicks \subseteq Nat
ASSUME MeetingsAssumption == IsFiniteSet(Meetings) /\ Meetings = 1..Cardinality(Meetings)
ASSUME LimitAssumption == Limit \in Nat \ {0}
ASSUME BoundsAssumption == MaxDrafts \in Nat /\ MaxTroubles \in Nat /\ MaxMoves \in Nat
ASSUME NoneAssumption == None \notin Entries

VARIABLES running,   \* is_running
          beat,      \* the heartbeats
          saved,     \* how many meetings are saved
          old,       \* how many of them are older than MEETING_LOOKBACK_DAYS
          linked,    \* meeting_event_links: the calendar event of each meeting
          fresh,     \* saved meetings whose own heartbeat has not been tried
          done,      \* meetings with a completed row in agent_runs
          task,      \* the meeting's row in agent_tasks: open, or closed in one way or another
          draft,     \* agent_recommendations, in the order of insertion
          click,     \* accept_recommendation and dismiss_recommendation
          created,   \* drafts of which Google has an event
          troubles, moves,
          closed,    \* history: meetings whose task the user closed last
          unclear,   \* history: drafts whose accept failed or was cut off with the event made
          revived    \* history: drafts that were executed after they had been dismissed

store == <<done, task, draft>>
counts == <<troubles, moves>>
history == <<closed, unclear, revived>>
vars == <<running, beat, saved, old, linked, fresh, store, click, created, counts, history>>

Drafts == 1..MaxDrafts
Idle == [pc |-> "idle", mode |-> "auto", asked |-> 0, todo |-> <<>>]
Calm == [pc |-> "idle", draft |-> None]

Init ==
    /\ running = FALSE /\ beat = [b \in Beats |-> Idle]
    /\ saved = 0 /\ old = 0 /\ linked = [m \in Meetings |-> None] /\ fresh = {}
    /\ done = {} /\ task = [m \in Meetings |-> "none"] /\ draft = <<>>
    /\ click = [u \in Clicks |-> Calm] /\ created = {}
    /\ troubles = 0 /\ moves = 0 /\ closed = {} /\ unclear = {} /\ revived = {}

-----------------------------------------------------------------------------
At(b, pc) == beat[b].pc = pc
Goto(b, pc) == beat' = [beat EXCEPT ![b].pc = pc]
UserPart == <<saved, old, linked, click, created, history>>
Trouble == troubles < MaxTroubles /\ troubles' = troubles + 1 /\ UNCHANGED moves
Move == moves < MaxMoves /\ moves' = moves + 1 /\ UNCHANGED troubles
Recent(ms) == {m \in ms : Cardinality({n \in ms : n > m}) < Limit}
NewestFirst(ms) ==
    {s \in [1..Cardinality(ms) -> ms] : \A i, j \in DOMAIN s : i < j => s[i] > s[j]}

(* Heartbeats and commands are alike: the first one that is not at work.    *)
Free(b) == At(b, "idle") /\ \A a \in Beats : a < b => ~At(a, "idle")

(* set_running(true): a heartbeat that finds another one running is dropped.*)
BeginsAnyway(b, mode, asked) ==
    /\ Free(b)
    /\ running' = TRUE
    /\ beat' = [beat EXCEPT ![b] = [Idle EXCEPT !.pc = "load", !.mode = mode, !.asked = asked]]
    /\ UNCHANGED <<UserPart, store>>
Begins(b, mode, asked) ==
    /\ Free(b) /\ ~running
    /\ running' = TRUE
    /\ beat' = [beat EXCEPT ![b] = [Idle EXCEPT !.pc = "load", !.mode = mode, !.asked = asked]]
    /\ UNCHANGED <<UserPart, store>>
(* start_heartbeat_loop and trigger_calendar_sync; run_heartbeat_now; and   *)
(* trigger_meeting_saved, which asks for that meeting alone.                *)
Beat(b) == Begins(b, "auto", 0) /\ UNCHANGED <<fresh, counts>>
BeatNow(b) == Begins(b, "manual", 0) /\ Trouble /\ UNCHANGED fresh
BeatSaved(b, m) ==
    m \in fresh /\ Begins(b, "saved", m) /\ fresh' = fresh \ {m} /\ UNCHANGED counts
Dropped(m) ==
    /\ m \in fresh /\ running
    /\ fresh' = fresh \ {m}
    /\ UNCHANGED <<running, beat, counts, UserPart, store>>

(* The settings: the agent switched off, or without an API key.             *)
NotConfigured(b) ==
    /\ At(b, "load") /\ Trouble
    /\ Goto(b, "end")
    /\ UNCHANGED <<running, fresh, UserPart, store>>
(* list_recent_meetings: the newest of the last days that no run has        *)
(* completed, or simply the newest of them when the user asks.              *)
Lately == old + 1 .. saved
ListRecent(mode) == NewestFirst(Recent(Lately))
List(mode) == NewestFirst(Recent(IF mode = "manual" THEN Lately ELSE Lately \ done))
(* Each meeting comes with the calendar event it is linked to by now.       *)
Context(m) == [meeting |-> m, event |-> linked[m]]
Configured(b) ==
    /\ At(b, "load")
    /\ \E list \in IF beat[b].mode = "saved" THEN {<<beat[b].asked>>} ELSE List(beat[b].mode) :
           beat' = [beat EXCEPT ![b] = [Idle EXCEPT !.pc = "meeting",
                                                    !.todo = [i \in DOMAIN list |-> Context(list[i])]]]
    /\ UNCHANGED <<running, fresh, counts, UserPart, store>>

(* analyze_meeting, for one meeting after the other.                        *)
Current(b) == Head(beat[b].todo)
NextMeeting(b) == [beat EXCEPT ![b].pc = "meeting", ![b].todo = Tail(@)]
(* A meeting may have no transcript, and its run is completed as well.      *)
NoTranscript(b) ==
    /\ At(b, "meeting") /\ beat[b].todo # <<>>
    /\ done' = done \cup {Current(b).meeting}
    /\ beat' = NextMeeting(b)
    /\ UNCHANGED <<running, task, draft, fresh, counts, UserPart>>
(* The first failure of the model or of a query ends the heartbeat: what it *)
(* has stored stays, and so does the run's row, as "running".               *)
CallFails(b) ==
    /\ beat[b].pc \in {"meeting", "tasks", "dedupe", "insert", "finish"}
    /\ beat[b].todo # <<>> /\ Trouble
    /\ Goto(b, "end")
    /\ UNCHANGED <<running, fresh, UserPart, store>>
Answered(b) ==
    /\ At(b, "meeting") /\ beat[b].todo # <<>>
    /\ Goto(b, "tasks")
    /\ UNCHANGED <<running, fresh, counts, UserPart, store>>
(* upsert_task: a task that is there keeps its status.                      *)
UpsertTaskOpen(b) ==
    /\ At(b, "tasks")
    /\ \/ UNCHANGED task
       \/ task' = [task EXCEPT ![Current(b).meeting] = "open"]
    /\ Goto(b, "dedupe")
    /\ UNCHANGED <<running, done, draft, fresh, counts, UserPart>>
UpsertTask(b) ==
    /\ At(b, "tasks")
    /\ \/ UNCHANGED task
       \/ task' = [task EXCEPT ![Current(b).meeting] = IF @ = "none" THEN "open" ELSE @]
    /\ Goto(b, "dedupe")
    /\ UNCHANGED <<running, done, draft, fresh, counts, UserPart>>
(* find_existing_recommendation: of the meeting and its calendar event; one *)
(* that was dismissed does not count.                                       *)
Existing(context) ==
    \E d \in DOMAIN draft : draft[d].of = context /\ draft[d].status # "dismissed"
NoDraft(b) ==
    /\ At(b, "dedupe")
    /\ Goto(b, "finish")
    /\ UNCHANGED <<running, fresh, counts, UserPart, store>>
NewDraft(b) ==
    /\ At(b, "dedupe") /\ ~Existing(Current(b)) /\ Len(draft) < MaxDrafts
    /\ Goto(b, "insert")
    /\ UNCHANGED <<running, fresh, counts, UserPart, store>>
Insert(b) ==
    /\ At(b, "insert")
    /\ IF Len(draft) < MaxDrafts
       THEN draft' = Append(draft, [of |-> Current(b), status |-> "pending"])
       ELSE UNCHANGED draft
    /\ Goto(b, "finish")
    /\ UNCHANGED <<running, done, task, fresh, counts, UserPart>>
FinishRun(b) ==
    /\ At(b, "finish")
    /\ done' = done \cup {Current(b).meeting}
    /\ beat' = NextMeeting(b)
    /\ UNCHANGED <<running, task, draft, fresh, counts, UserPart>>

(* notify_new_recommendations, whose log nothing else reads.                *)
Notify(b) ==
    /\ At(b, "meeting") /\ beat[b].todo = <<>>
    /\ Goto(b, "end")
    /\ UNCHANGED <<running, fresh, counts, UserPart, store>>
(* set_running(false), however the heartbeat ended.                         *)
End(b) ==
    /\ At(b, "end")
    /\ running' = FALSE
    /\ beat' = [beat EXCEPT ![b] = Idle]
    /\ UNCHANGED <<fresh, counts, UserPart, store>>

-----------------------------------------------------------------------------
(* api_save_transcript, as far as the agent sees it.                        *)
SaveMeeting ==
    /\ saved + 1 \in Meetings
    /\ saved' = saved + 1 /\ fresh' = fresh \cup {saved + 1}
    /\ UNCHANGED <<running, beat, old, linked, store, click, created, counts, history>>
(* A week goes by.                                                          *)
Age ==
    /\ old < saved /\ Move
    /\ old' = old + 1
    /\ UNCHANGED <<running, beat, saved, linked, fresh, store, click, created, history>>
(* A meeting is linked to a calendar event, to another one, or to none.     *)
Relink(m, e) ==
    /\ m <= saved /\ e # linked[m] /\ Move
    /\ linked' = [linked EXCEPT ![m] = e]
    /\ UNCHANGED <<running, beat, saved, old, fresh, store, click, created, history>>

FreeHand(u) == click[u].pc = "idle" /\ \A v \in Clicks : v < u => click[v].pc # "idle"
AgentPart == <<running, beat, saved, old, linked, fresh, done>>
(* accept_recommendation: the event, then the draft's status.  Nothing      *)
(* looks at the status first, and the page lets a draft be clicked again    *)
(* while another one is busy.                                               *)
AcceptAtOnce(u, d) ==
    /\ FreeHand(u) /\ d \in DOMAIN draft /\ Move
    /\ draft' = [draft EXCEPT ![d].status = "executed"]
    /\ click' = [click EXCEPT ![u] = [pc |-> "create", draft |-> d]]
    /\ UNCHANGED <<AgentPart, task, created, history>>
Accept(u, d) ==
    /\ FreeHand(u) /\ d \in DOMAIN draft /\ Move
    /\ click' = [click EXCEPT ![u] = [pc |-> "create", draft |-> d]]
    /\ UNCHANGED <<AgentPart, task, draft, created, history>>
(* The request may fail before Google has made the event or, as when its    *)
(* answer is lost or cannot be read, after.                                 *)
CreateFails(u) ==
    /\ click[u].pc = "create"
    /\ \/ UNCHANGED <<created, unclear, counts>>
       \/ /\ created' = created \cup {click[u].draft} /\ unclear' = unclear \cup {click[u].draft}
          /\ Trouble
    /\ click' = [click EXCEPT ![u] = Calm]
    /\ UNCHANGED <<AgentPart, task, draft, closed, revived>>
Create(u, d) ==
    /\ click[u].pc = "create" /\ d = click[u].draft
    /\ created' = created \cup {d}
    /\ click' = [click EXCEPT ![u].pc = "mark"]
    /\ UNCHANGED <<AgentPart, counts, task, draft, history>>
MarkExecuted(u, d) ==
    /\ click[u].pc = "mark" /\ d = click[u].draft
    /\ draft' = [draft EXCEPT ![d].status = "executed"]
    /\ revived' = IF draft[d].status = "dismissed" THEN revived \cup {d} ELSE revived
    /\ click' = [click EXCEPT ![u] = Calm]
    /\ UNCHANGED <<AgentPart, counts, task, created, closed, unclear>>
(* The event is there, and the draft remains as it was.                     *)
MarkFails(u) ==
    /\ click[u].pc = "mark" /\ Trouble
    /\ unclear' = unclear \cup {click[u].draft}
    /\ click' = [click EXCEPT ![u] = Calm]
    /\ UNCHANGED <<AgentPart, task, draft, created, closed, revived>>
(* dismiss_recommendation: the draft, then the task it came with.           *)
Dismiss(u, d) ==
    /\ FreeHand(u) /\ d \in DOMAIN draft /\ Move
    /\ draft' = [draft EXCEPT ![d].status = "dismissed"]
    /\ click' = [click EXCEPT ![u] = [pc |-> "task", draft |-> d]]
    /\ UNCHANGED <<AgentPart, task, created, history>>
DismissTask(u) ==
    /\ click[u].pc = "task"
    /\ LET m == draft[click[u].draft].of.meeting IN
       \/ UNCHANGED <<task, closed>>
       \/ /\ task[m] # "none"
          /\ task' = [task EXCEPT ![m] = "closed"] /\ closed' = closed \cup {m}
    /\ click' = [click EXCEPT ![u] = Calm]
    /\ UNCHANGED <<AgentPart, counts, draft, created, unclear, revived>>
(* update_task_status.                                                      *)
SetTask(m, status) ==
    /\ task[m] # "none" /\ Move
    /\ task' = [task EXCEPT ![m] = status]
    /\ closed' = IF status = "open" THEN closed \ {m} ELSE closed \cup {m}
    /\ UNCHANGED <<AgentPart, draft, click, created, unclear, revived>>

(* The program is closed and started again: the database stays, and Google  *)
(* may make the event of a request that nobody waits for any more.          *)
Clicked(pc) == {click[u].draft : u \in {v \in Clicks : click[v].pc = pc}}
Restart ==
    /\ Trouble
    /\ running' = FALSE /\ beat' = [b \in Beats |-> Idle] /\ fresh' = {}
    /\ \E made \in SUBSET Clicked("create") :
           created' = created \cup made /\ unclear' = unclear \cup made \cup Clicked("mark")
    /\ click' = [u \in Clicks |-> Calm]
    /\ UNCHANGED <<saved, old, linked, store, closed, revived>>

-----------------------------------------------------------------------------
Work(b) ==
    \/ Configured(b) \/ NoTranscript(b) \/ Answered(b)
    \/ UpsertTask(b) \/ NoDraft(b) \/ NewDraft(b) \/ Insert(b) \/ FinishRun(b)
    \/ Notify(b) \/ End(b)
Next ==
    \/ \E b \in Beats :
           \/ Beat(b) \/ BeatNow(b) \/ Work(b)
           \/ \E m \in Meetings : BeatSaved(b, m)
           \/ NotConfigured(b) \/ CallFails(b)
    \/ \E m \in Meetings : Dropped(m)
    \/ SaveMeeting \/ Age \/ Restart
    \/ \E m \in Meetings, e \in Entries \cup {None} : Relink(m, e)
    \/ \E u \in Clicks :
           \/ \E d \in Drafts : \/ Accept(u, d) \/ Create(u, d) \/ MarkExecuted(u, d)
                                \/ Dismiss(u, d)
           \/ CreateFails(u) \/ MarkFails(u) \/ DismissTask(u)
    \/ \E m \in Meetings, s \in {"open", "closed"} : SetTask(m, s)

(* The loop beats for ever, and the runtime runs every task.                *)
Fairness == WF_vars(\E b \in Beats : Beat(b)) /\ WF_vars(\E b \in Beats : Work(b))
Spec == Init /\ [][Next]_vars /\ Fairness

-----------------------------------------------------------------------------
Contexts == [meeting : Meetings, event : Entries \cup {None}]
TypeOK ==
    /\ running \in BOOLEAN
    /\ saved \in Meetings \cup {0} /\ old \in 0..saved /\ linked \in [Meetings -> Entries \cup {None}]
    /\ fresh \subseteq 1..saved /\ done \subseteq 1..saved
    /\ \A b \in Beats :
           /\ beat[b].pc \in {"idle", "load", "meeting", "tasks", "dedupe", "insert", "finish", "end"}
           /\ beat[b].mode \in {"auto", "manual", "saved"} /\ beat[b].asked \in 0..saved
           /\ beat[b].todo \in Seq(Contexts) /\ Len(beat[b].todo) <= Limit
           /\ beat[b].pc \in {"tasks", "dedupe", "insert", "finish"} => beat[b].todo # <<>>
    /\ task \in [Meetings -> {"none", "open", "closed"}]
    /\ draft \in Seq([of : Contexts, status : {"pending", "executed", "dismissed"}])
    /\ \A u \in Clicks : click[u] \in [pc : {"create", "mark", "task"}, draft : DOMAIN draft]
                                      \cup {Calm}
    /\ created \subseteq Drafts /\ unclear \subseteq Drafts /\ revived \subseteq Drafts
    /\ troubles \in 0..MaxTroubles /\ moves \in 0..MaxMoves

(* No two drafts of one meeting and calendar event are both offered to the  *)
(* user or accepted, however heartbeats, relinking, dismissals and troubles *)
(* interleave: the search for an existing draft and its insertion are apart,*)
(* and only is_running keeps two heartbeats from both finding nothing.      *)
(* Except a draft whose accept was still at work when it was dismissed.     *)
Live(d) == draft[d].status # "dismissed"
NoTwinDrafts ==
    \A d, e \in DOMAIN draft \ revived :
        Live(d) /\ Live(e) /\ draft[d].of = draft[e].of => d = e

(* "no duplicate work from repeated wakes": the user is never offered two   *)
(* drafts of one meeting.                                                   *)
OneDraftPerMeeting ==
    \A d, e \in {f \in DOMAIN draft : draft[f].status = "pending"} :
        draft[d].of.meeting = draft[e].of.meeting => d = e

(* A draft of which Google has an event is not offered to the user again,   *)
(* once every command on it has returned; unless an accept of it failed, or *)
(* was cut off by a restart, when Google had the event.  And one that is    *)
(* executed has its event.                                                  *)
AcceptedSettled ==
    \A d \in DOMAIN draft :
        /\ d \in created /\ d \notin unclear /\ (\A u \in Clicks : click[u].draft # d)
            => draft[d].status # "pending"
        /\ draft[d].status = "executed" => d \in created

(* What the user closed last, by completing or dismissing the task or its   *)
(* draft, no later heartbeat opens again, although it stores the same task  *)
(* once more.                                                               *)
ClosedStaysClosed == \A m \in closed : task[m] # "open"

(* Every saved meeting is looked at in the end, or is more than a week old: *)
(* failures, dropped triggers, newer meetings and restarts only put it off, *)
(* as long as they end and the agent is configured before the week is over. *)
EveryMeetingDone == []<>(1..saved \subseteq done \cup 1..old)
=============================================================================
