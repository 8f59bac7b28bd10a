----------------------------- MODULE Agent_proofs -----------------------------
(* Theorems about Agent, for any number of heartbeats, commands, meetings,  *)
(* calendar events and drafts: heartbeats exclude each other, so that no    *)
(* event is offered twice; what the user closed stays closed; and an        *)
(* accepted draft is not offered again.                                     *)
EXTENDS Agent, TranscriptWindow, FiniteSetTheorems, TLAPS

Pcs == {"idle", "load", "meeting", "tasks", "dedupe", "insert", "finish", "end"}
Modes == {"auto", "manual", "saved"}
Beating == [pc : Pcs, mode : Modes, asked : Meetings \cup {0}, todo : Seq(Contexts)]
Proposals == [of : Contexts, status : {"pending", "executed", "dismissed"}]
Commands == [pc : {"idle", "create", "mark", "task"}, draft : Nat \cup {None}]

(* The types, and that a heartbeat has a meeting while it is at work on one.*)
BeatInv ==
    /\ beat \in [Beats -> Beating]
    /\ \A b \in Beats :
           /\ beat[b].pc \in {"tasks", "dedupe", "insert", "finish"} => beat[b].todo # <<>>
           /\ beat[b].mode = "saved" => beat[b].asked \in Meetings
SavedInv ==
    /\ 1..saved \subseteq Meetings /\ saved \in Nat /\ old \in Nat
    /\ linked \in [Meetings -> Entries \cup {None}]
DraftInv == draft \in Seq(Proposals)
ClickInv ==
    /\ click \in [Clicks -> Commands]
    /\ \A u \in Clicks : click[u].pc # "idle" => click[u].draft \in DOMAIN draft
TaskInv ==
    /\ task \in [Meetings -> {"none", "open", "closed"}]
    /\ closed \subseteq Meetings
    /\ \A m \in closed : task[m] = "closed"

(* The flag belongs to the one heartbeat that is at work.                   *)
OneBeat ==
    /\ running \in BOOLEAN
    /\ \A b \in Beats : ~At(b, "idle") => running
    /\ \A a, b \in Beats : ~At(a, "idle") /\ ~At(b, "idle") => a = b

(* Between the search for a draft and its insertion none comes to life, but *)
(* for one that is executed although it has been dismissed.                 *)
InsertInv ==
    \A b \in Beats : At(b, "insert") =>
        \A d \in DOMAIN draft \ revived : Live(d) => draft[d].of # Current(b)

(* A draft of which Google has an event is marked, about to be marked, or   *)
(* one whose accept did not come to its end.                                *)
CreatedInv ==
    /\ created \subseteq DOMAIN draft
    /\ \A u \in Clicks : click[u].pc = "mark" => click[u].draft \in created
    /\ \A d \in created :
           \/ draft[d].status # "pending" \/ d \in unclear
           \/ \E u \in Clicks : click[u].pc = "mark" /\ click[u].draft = d
    /\ \A d \in DOMAIN draft : draft[d].status = "executed" => d \in created

-----------------------------------------------------------------------------
(* What the steps of a heartbeat do to it, once and for all.                *)
LEMMA BeatMoves ==
    ASSUME BeatInv, NEW b \in Beats
    PROVE  /\ \A pc \in Pcs : Goto(b, pc) =>
                  /\ beat' \in [Beats -> Beating]
                  /\ beat'[b].pc = pc /\ beat'[b].mode = beat[b].mode
                  /\ beat'[b].asked = beat[b].asked /\ beat'[b].todo = beat[b].todo
                  /\ \A a \in Beats : a # b => beat'[a] = beat[a]
           /\ beat[b].todo # <<>> /\ beat' = NextMeeting(b) =>
                  /\ beat' \in [Beats -> Beating]
                  /\ beat'[b].pc = "meeting" /\ beat'[b].mode = beat[b].mode
                  /\ beat'[b].asked = beat[b].asked
                  /\ \A a \in Beats : a # b => beat'[a] = beat[a]
<1> USE DEF BeatInv, Beating
<1>1. \A pc \in Pcs : Goto(b, pc) =>
          /\ beat' \in [Beats -> Beating]
          /\ beat'[b].pc = pc /\ beat'[b].mode = beat[b].mode
          /\ beat'[b].asked = beat[b].asked /\ beat'[b].todo = beat[b].todo
          /\ \A a \in Beats : a # b => beat'[a] = beat[a]
  BY DEF Goto
<1>2. ASSUME beat[b].todo # <<>>, beat' = NextMeeting(b)
      PROVE  /\ beat' \in [Beats -> Beating]
             /\ beat'[b].pc = "meeting" /\ beat'[b].mode = beat[b].mode
             /\ beat'[b].asked = beat[b].asked
             /\ \A a \in Beats : a # b => beat'[a] = beat[a]
  <2>1. Tail(beat[b].todo) \in Seq(Contexts)
    BY <1>2
  <2> DEFINE r == [beat[b] EXCEPT !.pc = "meeting", !.todo = Tail(@)]
  <2>2. beat' = [beat EXCEPT ![b] = r]
    BY <1>2 DEF NextMeeting
  <2>3. r \in Beating
    BY <2>1 DEF Pcs
  <2>4. r.pc = "meeting" /\ r.mode = beat[b].mode /\ r.asked = beat[b].asked
    OBVIOUS
  <2> HIDE DEF Beating, r
  <2> QED BY <2>2, <2>3, <2>4
<1> QED BY <1>1, <1>2

(* A list of recent meetings is a sequence of saved ones.                   *)
LEMMA Listed ==
    ASSUME SavedInv, NEW mode \in Modes, NEW list \in List(mode)
    PROVE  list \in Seq(Meetings)
<1> DEFINE ms == Recent(IF mode = "manual" THEN Lately ELSE Lately \ done)
<1>1. ms \subseteq Meetings
  BY DEF Recent, Lately, SavedInv
<1>2. IsFiniteSet(ms)
  BY <1>1, FS_Subset, MeetingsAssumption
<1>3. Cardinality(ms) \in Nat
  BY <1>2, FS_CardinalityType
<1>4. list \in [1..Cardinality(ms) -> ms]
  BY DEF List, NewestFirst
<1> HIDE DEF ms
<1>5. list \in [1..Cardinality(ms) -> Meetings]
  BY <1>1, <1>4
<1> QED BY <1>3, <1>5

(* The meetings of a list, each with its calendar event.                    *)
LEMMA Linked ==
    ASSUME SavedInv, NEW list \in Seq(Meetings)
    PROVE  [i \in DOMAIN list |-> Context(list[i])] \in Seq(Contexts)
<1>1. \A i \in DOMAIN list : Context(list[i]) \in Contexts
  BY DEF SavedInv, Context, Contexts
<1>2. Len(list) \in Nat /\ DOMAIN list = 1..Len(list)
  OBVIOUS
<1> QED BY <1>1, <1>2

(* A heartbeat that begins, and one that has its list.                      *)
LEMMA Beginning ==
    ASSUME BeatInv, NEW b \in Beats, NEW mode \in Modes, NEW asked \in Meetings \cup {0},
           Begins(b, mode, asked)
    PROVE  /\ beat' \in [Beats -> Beating]
           /\ beat'[b].pc = "load" /\ beat'[b].mode = mode /\ beat'[b].asked = asked
           /\ \A a \in Beats : a # b => beat'[a] = beat[a]
<1> DEFINE r == [Idle EXCEPT !.pc = "load", !.mode = mode, !.asked = asked]
<1>1. Idle \in Beating /\ "load" \in Pcs
  BY DEF Idle, Beating, Pcs, Modes
<1>2. r \in Beating /\ r.pc = "load" /\ r.mode = mode /\ r.asked = asked
  BY <1>1 DEF Beating
<1>3. beat' = [beat EXCEPT ![b] = r]
  BY DEF Begins
<1> HIDE DEF r
<1> QED BY <1>2, <1>3 DEF BeatInv
LEMMA Listing ==
    ASSUME BeatInv, SavedInv, NEW b \in Beats, Configured(b)
    PROVE  /\ beat' \in [Beats -> Beating]
           /\ beat'[b].pc = "meeting" /\ beat'[b].mode = "auto"
           /\ \A a \in Beats : a # b => beat'[a] = beat[a]
<1>1. PICK list \in IF beat[b].mode = "saved" THEN {<<beat[b].asked>>} ELSE List(beat[b].mode) :
          beat' = [beat EXCEPT ![b] = [Idle EXCEPT !.pc = "meeting",
                                                  !.todo = [i \in DOMAIN list |-> Context(list[i])]]]
  BY DEF Configured
<1>2. beat[b].mode \in Modes
  BY DEF BeatInv, Beating
<1>3. list \in Seq(Meetings)
  <2>1. CASE beat[b].mode = "saved"
    <3>1. list = <<beat[b].asked>> /\ beat[b].asked \in Meetings
      BY <1>1, <2>1 DEF BeatInv
    <3> QED BY <3>1
  <2>2. CASE beat[b].mode # "saved"
    <3>1. list \in List(beat[b].mode)
      BY <1>1, <2>2
    <3> QED BY <1>2, <3>1, Listed
  <2> QED BY <2>1, <2>2
<1> DEFINE todo == [i \in DOMAIN list |-> Context(list[i])]
           r == [Idle EXCEPT !.pc = "meeting", !.todo = todo]
<1>4. todo \in Seq(Contexts)
  BY <1>3, Linked
<1>5. beat' = [beat EXCEPT ![b] = r]
  BY <1>1
<1> HIDE DEF todo
<1>6. Idle \in Beating /\ Idle.mode = "auto" /\ "meeting" \in Pcs
  BY DEF Idle, Beating, Pcs, Modes
<1>7. r \in Beating /\ r.pc = "meeting" /\ r.mode = "auto"
  BY <1>4, <1>6 DEF Beating
<1> HIDE DEF r
<1> QED BY <1>5, <1>7 DEF BeatInv

(* What a change of one draft's status does to the drafts.                  *)
LEMMA DraftMoves ==
    ASSUME DraftInv, NEW d \in DOMAIN draft, NEW s \in {"executed", "dismissed"},
           draft' = [draft EXCEPT ![d].status = s]
    PROVE  /\ DraftInv' /\ DOMAIN draft' = DOMAIN draft
           /\ draft'[d].status = s /\ draft'[d].of = draft[d].of
           /\ \A e \in DOMAIN draft : e # d => draft'[e] = draft[e]
<1>1. draft[d] \in Proposals /\ Len(draft) \in Nat /\ DOMAIN draft = 1..Len(draft)
  BY DEF DraftInv
<1>2. [draft[d] EXCEPT !.status = s] \in Proposals
  BY <1>1 DEF Proposals
<1>3. draft' = [draft EXCEPT ![d] = [draft[d] EXCEPT !.status = s]]
  OBVIOUS
<1>4. DraftInv' /\ DOMAIN draft' = DOMAIN draft
  BY <1>1, <1>2, <1>3 DEF DraftInv
<1>5. \A e \in DOMAIN draft : e # d => draft'[e] = draft[e]
  BY <1>3
<1>6. draft'[d] = [draft[d] EXCEPT !.status = s]
  BY <1>3
<1> QED BY <1>1, <1>4, <1>5, <1>6 DEF Proposals

(* What the insertion of a draft does to them.                              *)
LEMMA DraftAdded ==
    ASSUME DraftInv, NEW c \in Contexts,
           draft' = Append(draft, [of |-> c, status |-> "pending"])
    PROVE  /\ DraftInv' /\ DOMAIN draft' = DOMAIN draft \cup {Len(draft) + 1}
           /\ Len(draft) + 1 \notin DOMAIN draft
           /\ draft'[Len(draft) + 1] = [of |-> c, status |-> "pending"]
           /\ \A e \in DOMAIN draft : draft'[e] = draft[e]
<1>1. [of |-> c, status |-> "pending"] \in Proposals
  BY DEF Proposals
<1> QED BY <1>1 DEF DraftInv

(* The meeting that a heartbeat is at work on, with its calendar event.     *)
LEMMA CurrentContext ==
    ASSUME BeatInv, NEW b \in Beats, beat[b].todo # <<>>
    PROVE  Current(b) \in Contexts /\ Current(b).meeting \in Meetings
<1>1. Current(b) \in Contexts
  BY DEF BeatInv, Beating, Current
<1> QED BY <1>1 DEF Contexts

(* Every step keeps the heartbeats in order.                                *)
LEMMA BeatStep ==
    BeatInv /\ SavedInv /\ [Next]_vars => BeatInv'
<1> SUFFICES ASSUME BeatInv, SavedInv, [Next]_vars PROVE BeatInv'
  OBVIOUS
<1> USE BeatMoves DEF BeatInv, At, Pcs, store, counts, history, UserPart, AgentPart
<1>1. ASSUME NEW b \in Beats, Beat(b) PROVE BeatInv'
  <2>1. Begins(b, "auto", 0)
    BY <1>1 DEF Beat
  <2>2. "auto" \in Modes
    BY DEF Modes
  <2> QED BY <2>1, <2>2, Beginning
<1>2. ASSUME NEW b \in Beats, BeatNow(b) PROVE BeatInv'
  <2>1. Begins(b, "manual", 0)
    BY <1>2 DEF BeatNow
  <2>2. "manual" \in Modes
    BY DEF Modes
  <2> QED BY <2>1, <2>2, Beginning
<1>3. ASSUME NEW b \in Beats, NEW m \in Meetings, BeatSaved(b, m) PROVE BeatInv'
  <2>1. Begins(b, "saved", m)
    BY <1>3 DEF BeatSaved
  <2>2. "saved" \in Modes
    BY DEF Modes
  <2> QED BY <2>1, <2>2, Beginning
<1>4. ASSUME NEW b \in Beats, Configured(b) PROVE BeatInv'
  <2>1. /\ beat' \in [Beats -> Beating]
        /\ beat'[b].pc = "meeting" /\ beat'[b].mode = "auto"
        /\ \A a \in Beats : a # b => beat'[a] = beat[a]
    BY <1>4, Listing
  <2> QED BY <2>1
<1>5. ASSUME NEW b \in Beats, NoTranscript(b) PROVE BeatInv'
  BY <1>5 DEF NoTranscript
<1>6. ASSUME NEW u \in Clicks, MarkFails(u) PROVE BeatInv'
  BY <1>6 DEF MarkFails
<1>7. ASSUME NEW b \in Beats, Answered(b) PROVE BeatInv'
  BY <1>7 DEF Answered
<1>8. ASSUME NEW b \in Beats, UpsertTask(b) PROVE BeatInv'
  BY <1>8 DEF UpsertTask
<1>9. ASSUME NEW b \in Beats, NoDraft(b) PROVE BeatInv'
  BY <1>9 DEF NoDraft
<1>10. ASSUME NEW b \in Beats, NewDraft(b) PROVE BeatInv'
  BY <1>10 DEF NewDraft
<1>11. ASSUME NEW b \in Beats, Insert(b) PROVE BeatInv'
  BY <1>11 DEF Insert
<1>12. ASSUME NEW b \in Beats, FinishRun(b) PROVE BeatInv'
  BY <1>12 DEF FinishRun
<1>13. ASSUME NEW b \in Beats, Notify(b) PROVE BeatInv'
  BY <1>13 DEF Notify
<1>14. ASSUME NEW b \in Beats, End(b) PROVE BeatInv'
  <2>1. Idle \in Beating /\ Idle.pc = "idle" /\ Idle.mode = "auto"
    BY DEF Idle, Beating, Pcs, Modes
  <2> QED BY <1>14, <2>1 DEF End
<1>15. ASSUME NEW b \in Beats, NotConfigured(b) PROVE BeatInv'
  BY <1>15 DEF NotConfigured
<1>16. ASSUME NEW b \in Beats, CallFails(b) PROVE BeatInv'
  BY <1>16 DEF CallFails
<1>17. ASSUME NEW m \in Meetings, Dropped(m) PROVE BeatInv'
  BY <1>17 DEF Dropped
<1>18. CASE SaveMeeting
  BY <1>18 DEF SaveMeeting
<1>19. CASE Restart
  <2>1. Idle \in Beating /\ Idle.pc = "idle" /\ Idle.mode = "auto"
    BY DEF Idle, Beating, Pcs, Modes
  <2> QED BY <1>19, <2>1 DEF Restart
<1>20. ASSUME NEW u \in Clicks, NEW d \in Drafts, Accept(u, d) PROVE BeatInv'
  BY <1>20 DEF Accept
<1>21. ASSUME NEW u \in Clicks, NEW d \in Drafts, Create(u, d) PROVE BeatInv'
  BY <1>21 DEF Create
<1>22. ASSUME NEW u \in Clicks, NEW d \in Drafts, MarkExecuted(u, d) PROVE BeatInv'
  BY <1>22 DEF MarkExecuted
<1>23. ASSUME NEW u \in Clicks, NEW d \in Drafts, Dismiss(u, d) PROVE BeatInv'
  BY <1>23 DEF Dismiss
<1>24. ASSUME NEW u \in Clicks, CreateFails(u) PROVE BeatInv'
  BY <1>24 DEF CreateFails
<1>25. ASSUME NEW u \in Clicks, DismissTask(u) PROVE BeatInv'
  BY <1>25 DEF DismissTask
<1>26. ASSUME NEW m \in Meetings, NEW s \in {"open", "closed"}, SetTask(m, s) PROVE BeatInv'
  BY <1>26 DEF SetTask
<1>27. CASE UNCHANGED vars
  BY <1>27 DEF vars
<1>28. CASE Age
  BY <1>28 DEF Age
<1>29. ASSUME NEW m \in Meetings, NEW e \in Entries \cup {None}, Relink(m, e) PROVE BeatInv'
  BY <1>29 DEF Relink
<1> QED
  BY <1>1, <1>2, <1>3, <1>4, <1>5, <1>6, <1>7, <1>8, <1>9, <1>10, <1>11, <1>12, <1>13,
     <1>14, <1>15, <1>16, <1>17, <1>18, <1>19, <1>20, <1>21, <1>22, <1>23, <1>24, <1>25,
     <1>26, <1>27, <1>28, <1>29
  DEF Next, Work

(* Every step keeps the meetings.                                           *)
LEMMA SavedStep ==
    SavedInv /\ [Next]_vars => SavedInv'
<1> SUFFICES ASSUME SavedInv, [Next]_vars PROVE SavedInv'
  OBVIOUS
<1> USE MeetingsAssumption DEF SavedInv, store, counts, history, UserPart, AgentPart
<1>1. ASSUME NEW b \in Beats, Beat(b) PROVE SavedInv'
  BY <1>1 DEF Beat, Begins
<1>2. ASSUME NEW b \in Beats, BeatNow(b) PROVE SavedInv'
  BY <1>2 DEF BeatNow, Begins
<1>3. ASSUME NEW b \in Beats, NEW m \in Meetings, BeatSaved(b, m) PROVE SavedInv'
  BY <1>3 DEF BeatSaved, Begins
<1>4. ASSUME NEW b \in Beats, Configured(b) PROVE SavedInv'
  BY <1>4 DEF Configured
<1>5. ASSUME NEW b \in Beats, NoTranscript(b) PROVE SavedInv'
  BY <1>5 DEF NoTranscript, NextMeeting
<1>6. ASSUME NEW u \in Clicks, MarkFails(u) PROVE SavedInv'
  BY <1>6 DEF MarkFails
<1>7. ASSUME NEW b \in Beats, Answered(b) PROVE SavedInv'
  BY <1>7 DEF Answered
<1>8. ASSUME NEW b \in Beats, UpsertTask(b) PROVE SavedInv'
  BY <1>8 DEF UpsertTask
<1>9. ASSUME NEW b \in Beats, NoDraft(b) PROVE SavedInv'
  BY <1>9 DEF NoDraft
<1>10. ASSUME NEW b \in Beats, NewDraft(b) PROVE SavedInv'
  BY <1>10 DEF NewDraft
<1>11. ASSUME NEW b \in Beats, Insert(b) PROVE SavedInv'
  BY <1>11 DEF Insert
<1>12. ASSUME NEW b \in Beats, FinishRun(b) PROVE SavedInv'
  BY <1>12 DEF FinishRun, NextMeeting
<1>13. ASSUME NEW b \in Beats, Notify(b) PROVE SavedInv'
  BY <1>13 DEF Notify
<1>14. ASSUME NEW b \in Beats, End(b) PROVE SavedInv'
  BY <1>14 DEF End
<1>15. ASSUME NEW b \in Beats, NotConfigured(b) PROVE SavedInv'
  BY <1>15 DEF NotConfigured
<1>16. ASSUME NEW b \in Beats, CallFails(b) PROVE SavedInv'
  BY <1>16 DEF CallFails
<1>17. ASSUME NEW m \in Meetings, Dropped(m) PROVE SavedInv'
  BY <1>17 DEF Dropped
<1>18. CASE SaveMeeting
  <2>1. saved + 1 \in Meetings /\ saved' = saved + 1 /\ UNCHANGED <<old, linked>>
    BY <1>18 DEF SaveMeeting
  <2>2. 1..saved' \subseteq Meetings
    BY <2>1
  <2> QED BY <2>1, <2>2
<1>19. CASE Restart
  BY <1>19 DEF Restart
<1>20. ASSUME NEW u \in Clicks, NEW d \in Drafts, Accept(u, d) PROVE SavedInv'
  BY <1>20 DEF Accept
<1>21. ASSUME NEW u \in Clicks, NEW d \in Drafts, Create(u, d) PROVE SavedInv'
  BY <1>21 DEF Create
<1>22. ASSUME NEW u \in Clicks, NEW d \in Drafts, MarkExecuted(u, d) PROVE SavedInv'
  BY <1>22 DEF MarkExecuted
<1>23. ASSUME NEW u \in Clicks, NEW d \in Drafts, Dismiss(u, d) PROVE SavedInv'
  BY <1>23 DEF Dismiss
<1>24. ASSUME NEW u \in Clicks, CreateFails(u) PROVE SavedInv'
  BY <1>24 DEF CreateFails
<1>25. ASSUME NEW u \in Clicks, DismissTask(u) PROVE SavedInv'
  BY <1>25 DEF DismissTask
<1>26. ASSUME NEW m \in Meetings, NEW s \in {"open", "closed"}, SetTask(m, s) PROVE SavedInv'
  BY <1>26 DEF SetTask
<1>27. CASE UNCHANGED vars
  BY <1>27 DEF vars
<1>28. CASE Age
  BY <1>28 DEF Age
<1>29. ASSUME NEW m \in Meetings, NEW e \in Entries \cup {None}, Relink(m, e) PROVE SavedInv'
  BY <1>29 DEF Relink
<1> QED
  BY <1>1, <1>2, <1>3, <1>4, <1>5, <1>6, <1>7, <1>8, <1>9, <1>10, <1>11, <1>12, <1>13,
     <1>14, <1>15, <1>16, <1>17, <1>18, <1>19, <1>20, <1>21, <1>22, <1>23, <1>24, <1>25,
     <1>26, <1>27, <1>28, <1>29
  DEF Next, Work

(* Every step keeps the drafts.                                             *)
LEMMA DraftStep ==
    BeatInv /\ ClickInv /\ DraftInv /\ [Next]_vars => DraftInv'
<1> SUFFICES ASSUME BeatInv, ClickInv, DraftInv, [Next]_vars PROVE DraftInv'
  OBVIOUS
<1> USE DEF DraftInv, store, counts, history, UserPart, AgentPart
<1>1. ASSUME NEW b \in Beats, Beat(b) PROVE DraftInv'
  BY <1>1 DEF Beat, Begins
<1>2. ASSUME NEW b \in Beats, BeatNow(b) PROVE DraftInv'
  BY <1>2 DEF BeatNow, Begins
<1>3. ASSUME NEW b \in Beats, NEW m \in Meetings, BeatSaved(b, m) PROVE DraftInv'
  BY <1>3 DEF BeatSaved, Begins
<1>4. ASSUME NEW b \in Beats, Configured(b) PROVE DraftInv'
  BY <1>4 DEF Configured
<1>5. ASSUME NEW b \in Beats, NoTranscript(b) PROVE DraftInv'
  BY <1>5 DEF NoTranscript, NextMeeting
<1>6. ASSUME NEW u \in Clicks, MarkFails(u) PROVE DraftInv'
  BY <1>6 DEF MarkFails
<1>7. ASSUME NEW b \in Beats, Answered(b) PROVE DraftInv'
  BY <1>7 DEF Answered
<1>8. ASSUME NEW b \in Beats, UpsertTask(b) PROVE DraftInv'
  BY <1>8 DEF UpsertTask
<1>9. ASSUME NEW b \in Beats, NoDraft(b) PROVE DraftInv'
  BY <1>9 DEF NoDraft
<1>10. ASSUME NEW b \in Beats, NewDraft(b) PROVE DraftInv'
  BY <1>10 DEF NewDraft
<1>11. ASSUME NEW b \in Beats, Insert(b) PROVE DraftInv'
  <2>1. CASE Len(draft) < MaxDrafts
    <3>1. draft' = Append(draft, [of |-> Current(b), status |-> "pending"])
      BY <1>11, <2>1 DEF Insert
    <3>2. Current(b) \in Contexts
      BY <1>11, CurrentContext DEF Insert, BeatInv, At
    <3> QED BY <1>11, <3>1, <3>2, DraftAdded DEF Insert
  <2>2. CASE ~(Len(draft) < MaxDrafts)
    BY <1>11, <2>2 DEF Insert
  <2> QED BY <2>1, <2>2
<1>12. ASSUME NEW b \in Beats, FinishRun(b) PROVE DraftInv'
  BY <1>12 DEF FinishRun, NextMeeting
<1>13. ASSUME NEW b \in Beats, Notify(b) PROVE DraftInv'
  BY <1>13 DEF Notify
<1>14. ASSUME NEW b \in Beats, End(b) PROVE DraftInv'
  BY <1>14 DEF End
<1>15. ASSUME NEW b \in Beats, NotConfigured(b) PROVE DraftInv'
  BY <1>15 DEF NotConfigured
<1>16. ASSUME NEW b \in Beats, CallFails(b) PROVE DraftInv'
  BY <1>16 DEF CallFails
<1>17. ASSUME NEW m \in Meetings, Dropped(m) PROVE DraftInv'
  BY <1>17 DEF Dropped
<1>18. CASE SaveMeeting
  BY <1>18 DEF SaveMeeting
<1>19. CASE Restart
  BY <1>19 DEF Restart
<1>20. ASSUME NEW u \in Clicks, NEW d \in Drafts, Accept(u, d) PROVE DraftInv'
  BY <1>20 DEF Accept
<1>21. ASSUME NEW u \in Clicks, NEW d \in Drafts, Create(u, d) PROVE DraftInv'
  BY <1>21 DEF Create
<1>22. ASSUME NEW u \in Clicks, NEW d \in Drafts, MarkExecuted(u, d) PROVE DraftInv'
  BY <1>22, DraftMoves DEF MarkExecuted, ClickInv
<1>23. ASSUME NEW u \in Clicks, NEW d \in Drafts, Dismiss(u, d) PROVE DraftInv'
  BY <1>23, DraftMoves DEF Dismiss
<1>24. ASSUME NEW u \in Clicks, CreateFails(u) PROVE DraftInv'
  BY <1>24 DEF CreateFails
<1>25. ASSUME NEW u \in Clicks, DismissTask(u) PROVE DraftInv'
  BY <1>25 DEF DismissTask
<1>26. ASSUME NEW m \in Meetings, NEW s \in {"open", "closed"}, SetTask(m, s) PROVE DraftInv'
  BY <1>26 DEF SetTask
<1>27. CASE UNCHANGED vars
  BY <1>27 DEF vars
<1>28. CASE Age
  BY <1>28 DEF Age
<1>29. ASSUME NEW m \in Meetings, NEW e \in Entries \cup {None}, Relink(m, e) PROVE DraftInv'
  BY <1>29 DEF Relink
<1> QED
  BY <1>1, <1>2, <1>3, <1>4, <1>5, <1>6, <1>7, <1>8, <1>9, <1>10, <1>11, <1>12, <1>13,
     <1>14, <1>15, <1>16, <1>17, <1>18, <1>19, <1>20, <1>21, <1>22, <1>23, <1>24, <1>25,
     <1>26, <1>27, <1>28, <1>29
  DEF Next, Work

(* Every step keeps the commands, each with a draft that exists.            *)
LEMMA ClickStep ==
    BeatInv /\ DraftInv /\ ClickInv /\ [Next]_vars => ClickInv'
<1> SUFFICES ASSUME BeatInv, DraftInv, ClickInv, [Next]_vars PROVE ClickInv'
  OBVIOUS
<1> USE DEF ClickInv, store, counts, history, UserPart, AgentPart
<1>1. ASSUME NEW b \in Beats, Beat(b) PROVE ClickInv'
  BY <1>1 DEF Beat, Begins
<1>2. ASSUME NEW b \in Beats, BeatNow(b) PROVE ClickInv'
  BY <1>2 DEF BeatNow, Begins
<1>3. ASSUME NEW b \in Beats, NEW m \in Meetings, BeatSaved(b, m) PROVE ClickInv'
  BY <1>3 DEF BeatSaved, Begins
<1>4. ASSUME NEW b \in Beats, Configured(b) PROVE ClickInv'
  BY <1>4 DEF Configured
<1>5. ASSUME NEW b \in Beats, NoTranscript(b) PROVE ClickInv'
  BY <1>5 DEF NoTranscript, NextMeeting
<1>6. ASSUME NEW u \in Clicks, MarkFails(u) PROVE ClickInv'
  <2>1. /\ click' = [click EXCEPT ![u] = Calm]
        /\ draft' = draft
    BY <1>6 DEF MarkFails
  <2>2. Calm \in Commands /\ Calm.pc = "idle"
    BY DEF Commands, Calm
  <2> QED BY <2>1, <2>2
<1>7. ASSUME NEW b \in Beats, Answered(b) PROVE ClickInv'
  BY <1>7 DEF Answered
<1>8. ASSUME NEW b \in Beats, UpsertTask(b) PROVE ClickInv'
  BY <1>8 DEF UpsertTask
<1>9. ASSUME NEW b \in Beats, NoDraft(b) PROVE ClickInv'
  BY <1>9 DEF NoDraft
<1>10. ASSUME NEW b \in Beats, NewDraft(b) PROVE ClickInv'
  BY <1>10 DEF NewDraft
<1>11. ASSUME NEW b \in Beats, Insert(b) PROVE ClickInv'
  <2>1. CASE Len(draft) < MaxDrafts
    <3>1. draft' = Append(draft, [of |-> Current(b), status |-> "pending"])
      BY <1>11, <2>1 DEF Insert
    <3>2. Current(b) \in Contexts
      BY <1>11, CurrentContext DEF Insert, BeatInv, At
    <3> QED BY <1>11, <3>1, <3>2, DraftAdded DEF Insert
  <2>2. CASE ~(Len(draft) < MaxDrafts)
    BY <1>11, <2>2 DEF Insert
  <2> QED BY <2>1, <2>2
<1>12. ASSUME NEW b \in Beats, FinishRun(b) PROVE ClickInv'
  BY <1>12 DEF FinishRun, NextMeeting
<1>13. ASSUME NEW b \in Beats, Notify(b) PROVE ClickInv'
  BY <1>13 DEF Notify
<1>14. ASSUME NEW b \in Beats, End(b) PROVE ClickInv'
  BY <1>14 DEF End
<1>15. ASSUME NEW b \in Beats, NotConfigured(b) PROVE ClickInv'
  BY <1>15 DEF NotConfigured
<1>16. ASSUME NEW b \in Beats, CallFails(b) PROVE ClickInv'
  BY <1>16 DEF CallFails
<1>17. ASSUME NEW m \in Meetings, Dropped(m) PROVE ClickInv'
  BY <1>17 DEF Dropped
<1>18. CASE SaveMeeting
  BY <1>18 DEF SaveMeeting
<1>19. CASE Restart
  <2>1. Calm \in Commands /\ Calm.pc = "idle"
    BY DEF Calm, Commands
  <2> QED BY <1>19, <2>1 DEF Restart
<1>20. ASSUME NEW u \in Clicks, NEW d \in Drafts, Accept(u, d) PROVE ClickInv'
  <2>1. /\ click' = [click EXCEPT ![u] = [pc |-> "create", draft |-> d]]
        /\ draft' = draft
    BY <1>20 DEF Accept
  <2>2. [pc |-> "create", draft |-> d] \in Commands
    BY <1>20 DEF Commands, Accept, DraftInv
  <2> QED BY <1>20, <2>1, <2>2 DEF Accept
<1>21. ASSUME NEW u \in Clicks, NEW d \in Drafts, Create(u, d) PROVE ClickInv'
  <2>1. /\ click' = [click EXCEPT ![u].pc = "mark"] /\ draft' = draft
        /\ click[u].pc = "create"
    BY <1>21 DEF Create
  <2>2. /\ click' \in [Clicks -> Commands]
        /\ click'[u].draft = click[u].draft
        /\ \A v \in Clicks : v # u => click'[v] = click[v]
    BY <2>1 DEF Commands
  <2> QED BY <2>1, <2>2
<1>22. ASSUME NEW u \in Clicks, NEW d \in Drafts, MarkExecuted(u, d) PROVE ClickInv'
  <2>1. /\ d \in DOMAIN draft
        /\ draft' = [draft EXCEPT ![d].status = "executed"]
        /\ click' = [click EXCEPT ![u] = Calm]
    BY <1>22 DEF MarkExecuted
  <2>2. DOMAIN draft' = DOMAIN draft
    BY <2>1, DraftMoves
  <2>3. Calm \in Commands /\ Calm.pc = "idle"
    BY DEF Commands, Calm
  <2> QED BY <2>1, <2>2, <2>3
<1>23. ASSUME NEW u \in Clicks, NEW d \in Drafts, Dismiss(u, d) PROVE ClickInv'
  <2>1. /\ d \in DOMAIN draft
        /\ draft' = [draft EXCEPT ![d].status = "dismissed"]
        /\ click' = [click EXCEPT ![u] = [pc |-> "task", draft |-> d]]
    BY <1>23 DEF Dismiss
  <2>2. DOMAIN draft' = DOMAIN draft
    BY <2>1, DraftMoves
  <2>3. [pc |-> "task", draft |-> d] \in Commands
    BY <2>1 DEF Commands, DraftInv
  <2> QED BY <2>1, <2>2, <2>3
<1>24. ASSUME NEW u \in Clicks, CreateFails(u) PROVE ClickInv'
  <2>1. /\ click' = [click EXCEPT ![u] = Calm]
        /\ draft' = draft
    BY <1>24 DEF CreateFails
  <2>2. Calm \in Commands /\ Calm.pc = "idle"
    BY DEF Commands, Calm
  <2> QED BY <2>1, <2>2
<1>25. ASSUME NEW u \in Clicks, DismissTask(u) PROVE ClickInv'
  <2>1. /\ click' = [click EXCEPT ![u] = Calm]
        /\ draft' = draft
    BY <1>25 DEF DismissTask
  <2>2. Calm \in Commands /\ Calm.pc = "idle"
    BY DEF Commands, Calm
  <2> QED BY <2>1, <2>2
<1>26. ASSUME NEW m \in Meetings, NEW s \in {"open", "closed"}, SetTask(m, s) PROVE ClickInv'
  BY <1>26 DEF SetTask
<1>27. CASE UNCHANGED vars
  BY <1>27 DEF vars
<1>28. CASE Age
  BY <1>28 DEF Age
<1>29. ASSUME NEW m \in Meetings, NEW e \in Entries \cup {None}, Relink(m, e) PROVE ClickInv'
  BY <1>29 DEF Relink
<1> QED
  BY <1>1, <1>2, <1>3, <1>4, <1>5, <1>6, <1>7, <1>8, <1>9, <1>10, <1>11, <1>12, <1>13,
     <1>14, <1>15, <1>16, <1>17, <1>18, <1>19, <1>20, <1>21, <1>22, <1>23, <1>24, <1>25,
     <1>26, <1>27, <1>28, <1>29
  DEF Next, Work

(* Every step keeps what the user closed: a heartbeat opens only a task that *)
(* is new.                                                                   *)
LEMMA TaskStep ==
    BeatInv /\ DraftInv /\ ClickInv /\ TaskInv /\ [Next]_vars => TaskInv'
<1> SUFFICES ASSUME BeatInv, DraftInv, ClickInv, TaskInv, [Next]_vars PROVE TaskInv'
  OBVIOUS
<1> USE DEF TaskInv, store, counts, history, UserPart, AgentPart
<1>1. ASSUME NEW b \in Beats, Beat(b) PROVE TaskInv'
  BY <1>1 DEF Beat, Begins
<1>2. ASSUME NEW b \in Beats, BeatNow(b) PROVE TaskInv'
  BY <1>2 DEF BeatNow, Begins
<1>3. ASSUME NEW b \in Beats, NEW m \in Meetings, BeatSaved(b, m) PROVE TaskInv'
  BY <1>3 DEF BeatSaved, Begins
<1>4. ASSUME NEW b \in Beats, Configured(b) PROVE TaskInv'
  BY <1>4 DEF Configured
<1>5. ASSUME NEW b \in Beats, NoTranscript(b) PROVE TaskInv'
  BY <1>5 DEF NoTranscript, NextMeeting
<1>6. ASSUME NEW u \in Clicks, MarkFails(u) PROVE TaskInv'
  BY <1>6 DEF MarkFails
<1>7. ASSUME NEW b \in Beats, Answered(b) PROVE TaskInv'
  BY <1>7 DEF Answered
<1>8. ASSUME NEW b \in Beats, UpsertTask(b) PROVE TaskInv'
  <2>1. Current(b).meeting \in Meetings
    BY <1>8, CurrentContext DEF UpsertTask, BeatInv, At
  <2> QED BY <1>8, <2>1 DEF UpsertTask
<1>9. ASSUME NEW b \in Beats, NoDraft(b) PROVE TaskInv'
  BY <1>9 DEF NoDraft
<1>10. ASSUME NEW b \in Beats, NewDraft(b) PROVE TaskInv'
  BY <1>10 DEF NewDraft
<1>11. ASSUME NEW b \in Beats, Insert(b) PROVE TaskInv'
  BY <1>11 DEF Insert
<1>12. ASSUME NEW b \in Beats, FinishRun(b) PROVE TaskInv'
  BY <1>12 DEF FinishRun, NextMeeting
<1>13. ASSUME NEW b \in Beats, Notify(b) PROVE TaskInv'
  BY <1>13 DEF Notify
<1>14. ASSUME NEW b \in Beats, End(b) PROVE TaskInv'
  BY <1>14 DEF End
<1>15. ASSUME NEW b \in Beats, NotConfigured(b) PROVE TaskInv'
  BY <1>15 DEF NotConfigured
<1>16. ASSUME NEW b \in Beats, CallFails(b) PROVE TaskInv'
  BY <1>16 DEF CallFails
<1>17. ASSUME NEW m \in Meetings, Dropped(m) PROVE TaskInv'
  BY <1>17 DEF Dropped
<1>18. CASE SaveMeeting
  BY <1>18 DEF SaveMeeting
<1>19. CASE Restart
  BY <1>19 DEF Restart
<1>20. ASSUME NEW u \in Clicks, NEW d \in Drafts, Accept(u, d) PROVE TaskInv'
  BY <1>20 DEF Accept
<1>21. ASSUME NEW u \in Clicks, NEW d \in Drafts, Create(u, d) PROVE TaskInv'
  BY <1>21 DEF Create
<1>22. ASSUME NEW u \in Clicks, NEW d \in Drafts, MarkExecuted(u, d) PROVE TaskInv'
  BY <1>22 DEF MarkExecuted
<1>23. ASSUME NEW u \in Clicks, NEW d \in Drafts, Dismiss(u, d) PROVE TaskInv'
  BY <1>23 DEF Dismiss
<1>24. ASSUME NEW u \in Clicks, CreateFails(u) PROVE TaskInv'
  BY <1>24 DEF CreateFails
<1>25. ASSUME NEW u \in Clicks, DismissTask(u) PROVE TaskInv'
  <2>1. draft[click[u].draft].of.meeting \in Meetings
    <3>1. click[u].draft \in DOMAIN draft
      BY <1>25 DEF DismissTask, ClickInv
    <3>2. draft[click[u].draft] \in Proposals
      BY <3>1 DEF DraftInv
    <3> QED BY <3>2 DEF Proposals, Contexts
  <2> QED BY <1>25, <2>1 DEF DismissTask
<1>26. ASSUME NEW m \in Meetings, NEW s \in {"open", "closed"}, SetTask(m, s) PROVE TaskInv'
  BY <1>26 DEF SetTask
<1>27. CASE UNCHANGED vars
  BY <1>27 DEF vars
<1>28. CASE Age
  BY <1>28 DEF Age
<1>29. ASSUME NEW m \in Meetings, NEW e \in Entries \cup {None}, Relink(m, e) PROVE TaskInv'
  BY <1>29 DEF Relink
<1> QED
  BY <1>1, <1>2, <1>3, <1>4, <1>5, <1>6, <1>7, <1>8, <1>9, <1>10, <1>11, <1>12, <1>13,
     <1>14, <1>15, <1>16, <1>17, <1>18, <1>19, <1>20, <1>21, <1>22, <1>23, <1>24, <1>25,
     <1>26, <1>27, <1>28, <1>29
  DEF Next, Work

(* Every step keeps the flag with the heartbeat that is at work.            *)
LEMMA RunningStep ==
    BeatInv /\ SavedInv /\ OneBeat /\ [Next]_vars => OneBeat'
<1> SUFFICES ASSUME BeatInv, SavedInv, OneBeat, [Next]_vars PROVE OneBeat'
  OBVIOUS
<1> USE BeatMoves DEF BeatInv, OneBeat, At, Pcs, store, counts, history, UserPart, AgentPart, Free
<1>1. ASSUME NEW b \in Beats, Beat(b) PROVE OneBeat'
  <2>1. Begins(b, "auto", 0) /\ "auto" \in Modes
    BY <1>1 DEF Beat, Modes
  <2>2. beat'[b].pc = "load" /\ \A a \in Beats : a # b => beat'[a] = beat[a]
    BY <2>1, Beginning
  <2> QED BY <2>1, <2>2 DEF Begins
<1>2. ASSUME NEW b \in Beats, BeatNow(b) PROVE OneBeat'
  <2>1. Begins(b, "manual", 0) /\ "manual" \in Modes
    BY <1>2 DEF BeatNow, Modes
  <2>2. beat'[b].pc = "load" /\ \A a \in Beats : a # b => beat'[a] = beat[a]
    BY <2>1, Beginning
  <2> QED BY <2>1, <2>2 DEF Begins
<1>3. ASSUME NEW b \in Beats, NEW m \in Meetings, BeatSaved(b, m) PROVE OneBeat'
  <2>1. Begins(b, "saved", m) /\ "saved" \in Modes
    BY <1>3 DEF BeatSaved, Modes
  <2>2. beat'[b].pc = "load" /\ \A a \in Beats : a # b => beat'[a] = beat[a]
    BY <2>1, Beginning
  <2> QED BY <2>1, <2>2 DEF Begins
<1>4. ASSUME NEW b \in Beats, Configured(b) PROVE OneBeat'
  <2>1. beat'[b].pc = "meeting" /\ \A a \in Beats : a # b => beat'[a] = beat[a]
    BY <1>4, Listing
  <2>2. beat[b].pc = "load" /\ UNCHANGED running
    BY <1>4 DEF Configured
  <2> QED BY <2>1, <2>2
<1>5. ASSUME NEW b \in Beats, NoTranscript(b) PROVE OneBeat'
  BY <1>5 DEF NoTranscript
<1>6. ASSUME NEW u \in Clicks, MarkFails(u) PROVE OneBeat'
  BY <1>6 DEF MarkFails
<1>7. ASSUME NEW b \in Beats, Answered(b) PROVE OneBeat'
  BY <1>7 DEF Answered
<1>8. ASSUME NEW b \in Beats, UpsertTask(b) PROVE OneBeat'
  BY <1>8 DEF UpsertTask
<1>9. ASSUME NEW b \in Beats, NoDraft(b) PROVE OneBeat'
  BY <1>9 DEF NoDraft
<1>10. ASSUME NEW b \in Beats, NewDraft(b) PROVE OneBeat'
  BY <1>10 DEF NewDraft
<1>11. ASSUME NEW b \in Beats, Insert(b) PROVE OneBeat'
  BY <1>11 DEF Insert
<1>12. ASSUME NEW b \in Beats, FinishRun(b) PROVE OneBeat'
  BY <1>12 DEF FinishRun
<1>13. ASSUME NEW b \in Beats, Notify(b) PROVE OneBeat'
  BY <1>13 DEF Notify
<1>14. ASSUME NEW b \in Beats, End(b) PROVE OneBeat'
  <2>1. Idle.pc = "idle"
    BY DEF Idle
  <2>2. beat'[b] = Idle /\ running' = FALSE /\ ~At(b, "idle")
    BY <1>14 DEF End
  <2>3. \A a \in Beats : a # b => beat'[a] = beat[a] /\ beat[a].pc = "idle"
    BY <1>14, <2>2 DEF End
  <2> QED BY ZenonT(30), <2>1, <2>2, <2>3
<1>15. ASSUME NEW b \in Beats, NotConfigured(b) PROVE OneBeat'
  BY <1>15 DEF NotConfigured
<1>16. ASSUME NEW b \in Beats, CallFails(b) PROVE OneBeat'
  BY <1>16 DEF CallFails
<1>17. ASSUME NEW m \in Meetings, Dropped(m) PROVE OneBeat'
  BY <1>17 DEF Dropped
<1>18. CASE SaveMeeting
  BY <1>18 DEF SaveMeeting
<1>19. CASE Restart
  BY <1>19 DEF Restart, Idle
<1>20. ASSUME NEW u \in Clicks, NEW d \in Drafts, Accept(u, d) PROVE OneBeat'
  BY <1>20 DEF Accept
<1>21. ASSUME NEW u \in Clicks, NEW d \in Drafts, Create(u, d) PROVE OneBeat'
  BY <1>21 DEF Create
<1>22. ASSUME NEW u \in Clicks, NEW d \in Drafts, MarkExecuted(u, d) PROVE OneBeat'
  BY <1>22 DEF MarkExecuted
<1>23. ASSUME NEW u \in Clicks, NEW d \in Drafts, Dismiss(u, d) PROVE OneBeat'
  BY <1>23 DEF Dismiss
<1>24. ASSUME NEW u \in Clicks, CreateFails(u) PROVE OneBeat'
  BY <1>24 DEF CreateFails
<1>25. ASSUME NEW u \in Clicks, DismissTask(u) PROVE OneBeat'
  BY <1>25 DEF DismissTask
<1>26. ASSUME NEW m \in Meetings, NEW s \in {"open", "closed"}, SetTask(m, s) PROVE OneBeat'
  BY <1>26 DEF SetTask
<1>27. CASE UNCHANGED vars
  BY <1>27 DEF vars
<1>28. CASE Age
  BY <1>28 DEF Age
<1>29. ASSUME NEW m \in Meetings, NEW e \in Entries \cup {None}, Relink(m, e) PROVE OneBeat'
  BY <1>29 DEF Relink
<1> QED
  BY <1>1, <1>2, <1>3, <1>4, <1>5, <1>6, <1>7, <1>8, <1>9, <1>10, <1>11, <1>12, <1>13,
     <1>14, <1>15, <1>16, <1>17, <1>18, <1>19, <1>20, <1>21, <1>22, <1>23, <1>24, <1>25,
     <1>26, <1>27, <1>28, <1>29
  DEF Next, Work

(* What the search for a draft has found stays so while no draft changes.   *)
LEMMA InsertKept ==
    ASSUME InsertInv, UNCHANGED <<draft, revived>>,
           \A a \in Beats : At(a, "insert")' => At(a, "insert") /\ beat'[a].todo = beat[a].todo
    PROVE  InsertInv'
BY DEF InsertInv, Current, Live

(* Every step keeps the search for a draft true until it is inserted: only   *)
(* the one heartbeat inserts, and a draft that was dismissed comes to life   *)
(* only by an accept that was at work.                                       *)
LEMMA InsertStep ==
    BeatInv /\ SavedInv /\ OneBeat /\ DraftInv /\ ClickInv /\ InsertInv /\ [Next]_vars => InsertInv'
<1> SUFFICES ASSUME BeatInv, SavedInv, OneBeat, DraftInv, ClickInv, InsertInv, [Next]_vars
             PROVE  InsertInv'
  OBVIOUS
<1> USE DEF At, Pcs, BeatInv, store, counts, history, UserPart, AgentPart
<1>1. ASSUME NEW b \in Beats, Beat(b) PROVE InsertInv'
  <2>1. \A a \in Beats : At(a, "insert")' => At(a, "insert") /\ beat'[a].todo = beat[a].todo
    <3>1. Begins(b, "auto", 0) /\ "auto" \in Modes
      BY <1>1 DEF Beat, Modes
    <3>2. beat'[b].pc = "load" /\ \A a \in Beats : a # b => beat'[a] = beat[a]
      BY <3>1, Beginning
    <3> QED BY <3>2
  <2>2. UNCHANGED <<draft, revived>>
    BY <1>1 DEF Beat, Begins
  <2> QED BY <2>1, <2>2, InsertKept
<1>2. ASSUME NEW b \in Beats, BeatNow(b) PROVE InsertInv'
  <2>1. \A a \in Beats : At(a, "insert")' => At(a, "insert") /\ beat'[a].todo = beat[a].todo
    <3>1. Begins(b, "manual", 0) /\ "manual" \in Modes
      BY <1>2 DEF BeatNow, Modes
    <3>2. beat'[b].pc = "load" /\ \A a \in Beats : a # b => beat'[a] = beat[a]
      BY <3>1, Beginning
    <3> QED BY <3>2
  <2>2. UNCHANGED <<draft, revived>>
    BY <1>2 DEF BeatNow, Begins
  <2> QED BY <2>1, <2>2, InsertKept
<1>3. ASSUME NEW b \in Beats, NEW m \in Meetings, BeatSaved(b, m) PROVE InsertInv'
  <2>1. \A a \in Beats : At(a, "insert")' => At(a, "insert") /\ beat'[a].todo = beat[a].todo
    <3>1. Begins(b, "saved", m) /\ "saved" \in Modes
      BY <1>3 DEF BeatSaved, Modes
    <3>2. beat'[b].pc = "load" /\ \A a \in Beats : a # b => beat'[a] = beat[a]
      BY <3>1, Beginning
    <3> QED BY <3>2
  <2>2. UNCHANGED <<draft, revived>>
    BY <1>3 DEF BeatSaved, Begins
  <2> QED BY <2>1, <2>2, InsertKept
<1>4. ASSUME NEW b \in Beats, Configured(b) PROVE InsertInv'
  <2>1. \A a \in Beats : At(a, "insert")' => At(a, "insert") /\ beat'[a].todo = beat[a].todo
    BY <1>4, Listing
  <2>2. UNCHANGED <<draft, revived>>
    BY <1>4 DEF Configured
  <2> QED BY <2>1, <2>2, InsertKept
<1>5. ASSUME NEW b \in Beats, NoTranscript(b) PROVE InsertInv'
  <2>1. \A a \in Beats : At(a, "insert")' => At(a, "insert") /\ beat'[a].todo = beat[a].todo
    BY <1>5, BeatMoves DEF NoTranscript, NextMeeting
  <2>2. UNCHANGED <<draft, revived>>
    BY <1>5 DEF NoTranscript, NextMeeting
  <2> QED BY <2>1, <2>2, InsertKept
<1>6. ASSUME NEW u \in Clicks, MarkFails(u) PROVE InsertInv'
  <2>1. UNCHANGED <<beat, draft, revived>>
    BY <1>6 DEF MarkFails
  <2> QED BY <2>1, InsertKept
<1>7. ASSUME NEW b \in Beats, Answered(b) PROVE InsertInv'
  <2>1. \A a \in Beats : At(a, "insert")' => At(a, "insert") /\ beat'[a].todo = beat[a].todo
    BY <1>7, BeatMoves DEF Answered
  <2>2. UNCHANGED <<draft, revived>>
    BY <1>7 DEF Answered
  <2> QED BY <2>1, <2>2, InsertKept
<1>8. ASSUME NEW b \in Beats, UpsertTask(b) PROVE InsertInv'
  <2>1. \A a \in Beats : At(a, "insert")' => At(a, "insert") /\ beat'[a].todo = beat[a].todo
    BY <1>8, BeatMoves DEF UpsertTask
  <2>2. UNCHANGED <<draft, revived>>
    BY <1>8 DEF UpsertTask
  <2> QED BY <2>1, <2>2, InsertKept
<1>9. ASSUME NEW b \in Beats, NoDraft(b) PROVE InsertInv'
  <2>1. \A a \in Beats : At(a, "insert")' => At(a, "insert") /\ beat'[a].todo = beat[a].todo
    BY <1>9, BeatMoves DEF NoDraft
  <2>2. UNCHANGED <<draft, revived>>
    BY <1>9 DEF NoDraft
  <2> QED BY <2>1, <2>2, InsertKept
<1>10. ASSUME NEW b \in Beats, NewDraft(b) PROVE InsertInv'
  <2>1. \A a \in Beats :
            /\ beat'[a].todo = beat[a].todo
            /\ At(a, "insert")' => At(a, "insert") \/ a = b
    BY <1>10, BeatMoves DEF NewDraft
  <2>2. ~Existing(Current(b)) /\ UNCHANGED <<draft, revived>>
    BY <1>10 DEF NewDraft
  <2>3. \A d \in DOMAIN draft : Live(d) => draft[d].of # Current(b)
    BY <2>2 DEF Existing, Live
  <2> QED BY <2>1, <2>2, <2>3 DEF InsertInv, Current, Live
<1>11. ASSUME NEW b \in Beats, Insert(b) PROVE InsertInv'
  <2>1. ASSUME NEW a \in Beats, At(a, "insert")'
        PROVE  a # b /\ ~At(a, "idle") /\ ~At(b, "idle")
    BY <1>11, <2>1, BeatMoves DEF Insert, BeatInv, At, Pcs
  <2> QED BY <2>1 DEF OneBeat, InsertInv
<1>12. ASSUME NEW b \in Beats, FinishRun(b) PROVE InsertInv'
  <2>1. \A a \in Beats : At(a, "insert")' => At(a, "insert") /\ beat'[a].todo = beat[a].todo
    BY <1>12, BeatMoves DEF FinishRun, NextMeeting
  <2>2. UNCHANGED <<draft, revived>>
    BY <1>12 DEF FinishRun, NextMeeting
  <2> QED BY <2>1, <2>2, InsertKept
<1>13. ASSUME NEW b \in Beats, Notify(b) PROVE InsertInv'
  <2>1. \A a \in Beats : At(a, "insert")' => At(a, "insert") /\ beat'[a].todo = beat[a].todo
    BY <1>13, BeatMoves DEF Notify
  <2>2. UNCHANGED <<draft, revived>>
    BY <1>13 DEF Notify
  <2> QED BY <2>1, <2>2, InsertKept
<1>14. ASSUME NEW b \in Beats, End(b) PROVE InsertInv'
  <2>1. \A a \in Beats : At(a, "insert")' => At(a, "insert") /\ beat'[a].todo = beat[a].todo
    BY <1>14, BeatMoves DEF End, Idle
  <2>2. UNCHANGED <<draft, revived>>
    BY <1>14 DEF End
  <2> QED BY <2>1, <2>2, InsertKept
<1>15. ASSUME NEW b \in Beats, NotConfigured(b) PROVE InsertInv'
  <2>1. \A a \in Beats : At(a, "insert")' => At(a, "insert") /\ beat'[a].todo = beat[a].todo
    BY <1>15, BeatMoves DEF NotConfigured
  <2>2. UNCHANGED <<draft, revived>>
    BY <1>15 DEF NotConfigured
  <2> QED BY <2>1, <2>2, InsertKept
<1>16. ASSUME NEW b \in Beats, CallFails(b) PROVE InsertInv'
  <2>1. \A a \in Beats : At(a, "insert")' => At(a, "insert") /\ beat'[a].todo = beat[a].todo
    BY <1>16, BeatMoves DEF CallFails
  <2>2. UNCHANGED <<draft, revived>>
    BY <1>16 DEF CallFails
  <2> QED BY <2>1, <2>2, InsertKept
<1>17. ASSUME NEW m \in Meetings, Dropped(m) PROVE InsertInv'
  <2>1. UNCHANGED <<beat, draft, revived>>
    BY <1>17 DEF Dropped
  <2> QED BY <2>1, InsertKept
<1>18. CASE SaveMeeting
  <2>1. UNCHANGED <<beat, draft, revived>>
    BY <1>18 DEF SaveMeeting
  <2> QED BY <2>1, InsertKept
<1>19. CASE Restart
  BY <1>19 DEF Restart, Idle, InsertInv
<1>20. ASSUME NEW u \in Clicks, NEW d \in Drafts, Accept(u, d) PROVE InsertInv'
  <2>1. UNCHANGED <<beat, draft, revived>>
    BY <1>20 DEF Accept
  <2> QED BY <2>1, InsertKept
<1>21. ASSUME NEW u \in Clicks, NEW d \in Drafts, Create(u, d) PROVE InsertInv'
  <2>1. UNCHANGED <<beat, draft, revived>>
    BY <1>21 DEF Create
  <2> QED BY <2>1, InsertKept
<1>22. ASSUME NEW u \in Clicks, NEW d \in Drafts, MarkExecuted(u, d) PROVE InsertInv'
  <2>1. /\ d \in DOMAIN draft /\ draft' = [draft EXCEPT ![d].status = "executed"]
        /\ UNCHANGED beat
    BY <1>22 DEF MarkExecuted, ClickInv
  <2>2. /\ DOMAIN draft' = DOMAIN draft
        /\ draft'[d].status = "executed" /\ draft'[d].of = draft[d].of
        /\ \A e \in DOMAIN draft : e # d => draft'[e] = draft[e]
    BY <2>1, DraftMoves
  <2>3. revived \subseteq revived' /\ (d \in revived' \/ Live(d))
    BY <1>22 DEF MarkExecuted, Live
  <2> QED BY <2>1, <2>2, <2>3 DEF InsertInv, Current, Live
<1>23. ASSUME NEW u \in Clicks, NEW d \in Drafts, Dismiss(u, d) PROVE InsertInv'
  <2>1. /\ d \in DOMAIN draft /\ draft' = [draft EXCEPT ![d].status = "dismissed"]
        /\ UNCHANGED beat
    BY <1>23 DEF Dismiss, ClickInv
  <2>2. /\ DOMAIN draft' = DOMAIN draft
        /\ draft'[d].status = "dismissed" /\ draft'[d].of = draft[d].of
        /\ \A e \in DOMAIN draft : e # d => draft'[e] = draft[e]
    BY <2>1, DraftMoves
  <2>3. UNCHANGED revived
    BY <1>23 DEF Dismiss, Live
  <2> QED BY <2>1, <2>2, <2>3 DEF InsertInv, Current, Live
<1>24. ASSUME NEW u \in Clicks, CreateFails(u) PROVE InsertInv'
  <2>1. UNCHANGED <<beat, draft, revived>>
    BY <1>24 DEF CreateFails
  <2> QED BY <2>1, InsertKept
<1>25. ASSUME NEW u \in Clicks, DismissTask(u) PROVE InsertInv'
  <2>1. UNCHANGED <<beat, draft, revived>>
    BY <1>25 DEF DismissTask
  <2> QED BY <2>1, InsertKept
<1>26. ASSUME NEW m \in Meetings, NEW s \in {"open", "closed"}, SetTask(m, s) PROVE InsertInv'
  <2>1. UNCHANGED <<beat, draft, revived>>
    BY <1>26 DEF SetTask
  <2> QED BY <2>1, InsertKept
<1>27. CASE UNCHANGED vars
  <2>1. UNCHANGED <<beat, draft, revived>>
    BY <1>27 DEF vars
  <2> QED BY <2>1, InsertKept
<1>28. CASE Age
  <2>1. UNCHANGED <<beat, draft, revived>>
    BY <1>28 DEF Age
  <2> QED BY <2>1, InsertKept
<1>29. ASSUME NEW m \in Meetings, NEW e \in Entries \cup {None}, Relink(m, e) PROVE InsertInv'
  <2>1. UNCHANGED <<beat, draft, revived>>
    BY <1>29 DEF Relink
  <2> QED BY <2>1, InsertKept
<1> QED
  BY <1>1, <1>2, <1>3, <1>4, <1>5, <1>6, <1>7, <1>8, <1>9, <1>10, <1>11, <1>12, <1>13,
     <1>14, <1>15, <1>16, <1>17, <1>18, <1>19, <1>20, <1>21, <1>22, <1>23, <1>24, <1>25,
     <1>26, <1>27, <1>28, <1>29
  DEF Next, Work

LEMMA TwinKept ==
    NoTwinDrafts /\ UNCHANGED <<draft, revived>> => NoTwinDrafts'
BY DEF NoTwinDrafts, Live

(* Every step keeps the drafts apart.                                       *)
LEMMA TwinStep ==
    BeatInv /\ DraftInv /\ ClickInv /\ InsertInv /\ NoTwinDrafts /\ [Next]_vars => NoTwinDrafts'
<1> SUFFICES ASSUME BeatInv, DraftInv, ClickInv, InsertInv, NoTwinDrafts, [Next]_vars
             PROVE  NoTwinDrafts'
  OBVIOUS
<1>1. ASSUME NEW b \in Beats, Beat(b) PROVE NoTwinDrafts'
  BY <1>1, TwinKept DEF Beat, Begins, store, counts, history, UserPart, AgentPart
<1>2. ASSUME NEW b \in Beats, BeatNow(b) PROVE NoTwinDrafts'
  BY <1>2, TwinKept DEF BeatNow, Begins, store, counts, history, UserPart, AgentPart
<1>3. ASSUME NEW b \in Beats, NEW m \in Meetings, BeatSaved(b, m) PROVE NoTwinDrafts'
  BY <1>3, TwinKept DEF BeatSaved, Begins, store, counts, history, UserPart, AgentPart
<1>4. ASSUME NEW b \in Beats, Configured(b) PROVE NoTwinDrafts'
  BY <1>4, TwinKept DEF Configured, store, counts, history, UserPart, AgentPart
<1>5. ASSUME NEW b \in Beats, NoTranscript(b) PROVE NoTwinDrafts'
  BY <1>5, TwinKept DEF NoTranscript, NextMeeting, store, counts, history, UserPart, AgentPart
<1>6. ASSUME NEW u \in Clicks, MarkFails(u) PROVE NoTwinDrafts'
  BY <1>6, TwinKept DEF MarkFails, store, counts, history, UserPart, AgentPart
<1>7. ASSUME NEW b \in Beats, Answered(b) PROVE NoTwinDrafts'
  BY <1>7, TwinKept DEF Answered, store, counts, history, UserPart, AgentPart
<1>8. ASSUME NEW b \in Beats, UpsertTask(b) PROVE NoTwinDrafts'
  BY <1>8, TwinKept DEF UpsertTask, store, counts, history, UserPart, AgentPart
<1>9. ASSUME NEW b \in Beats, NoDraft(b) PROVE NoTwinDrafts'
  BY <1>9, TwinKept DEF NoDraft, store, counts, history, UserPart, AgentPart
<1>10. ASSUME NEW b \in Beats, NewDraft(b) PROVE NoTwinDrafts'
  BY <1>10, TwinKept DEF NewDraft, store, counts, history, UserPart, AgentPart
<1>11. ASSUME NEW b \in Beats, Insert(b) PROVE NoTwinDrafts'
  <2>1. CASE Len(draft) < MaxDrafts
    <3>1. /\ draft' = Append(draft, [of |-> Current(b), status |-> "pending"])
          /\ UNCHANGED revived
      BY <1>11, <2>1 DEF Insert, UserPart, history
    <3>2. Current(b) \in Contexts
      BY <1>11, CurrentContext DEF Insert, BeatInv, At
    <3>3. \A d \in DOMAIN draft \ revived : Live(d) => draft[d].of # Current(b)
      BY <1>11 DEF Insert, InsertInv
    <3>4. /\ DOMAIN draft' = DOMAIN draft \cup {Len(draft) + 1}
          /\ draft'[Len(draft) + 1].of = Current(b)
          /\ \A e \in DOMAIN draft : draft'[e] = draft[e]
      BY <3>1, <3>2, DraftAdded
    <3> QED BY <3>1, <3>3, <3>4 DEF NoTwinDrafts, Live
  <2>2. CASE ~(Len(draft) < MaxDrafts)
    BY <1>11, <2>2, TwinKept DEF Insert, UserPart, history
  <2> QED BY <2>1, <2>2
<1>12. ASSUME NEW b \in Beats, FinishRun(b) PROVE NoTwinDrafts'
  BY <1>12, TwinKept DEF FinishRun, NextMeeting, store, counts, history, UserPart, AgentPart
<1>13. ASSUME NEW b \in Beats, Notify(b) PROVE NoTwinDrafts'
  BY <1>13, TwinKept DEF Notify, store, counts, history, UserPart, AgentPart
<1>14. ASSUME NEW b \in Beats, End(b) PROVE NoTwinDrafts'
  BY <1>14, TwinKept DEF End, store, counts, history, UserPart, AgentPart
<1>15. ASSUME NEW b \in Beats, NotConfigured(b) PROVE NoTwinDrafts'
  BY <1>15, TwinKept DEF NotConfigured, store, counts, history, UserPart, AgentPart
<1>16. ASSUME NEW b \in Beats, CallFails(b) PROVE NoTwinDrafts'
  BY <1>16, TwinKept DEF CallFails, store, counts, history, UserPart, AgentPart
<1>17. ASSUME NEW m \in Meetings, Dropped(m) PROVE NoTwinDrafts'
  BY <1>17, TwinKept DEF Dropped, store, counts, history, UserPart, AgentPart
<1>18. CASE SaveMeeting
  BY <1>18, TwinKept DEF SaveMeeting, store, counts, history, UserPart, AgentPart
<1>19. CASE Restart
  BY <1>19, TwinKept DEF Restart, store, counts, history, UserPart, AgentPart
<1>20. ASSUME NEW u \in Clicks, NEW d \in Drafts, Accept(u, d) PROVE NoTwinDrafts'
  BY <1>20, TwinKept DEF Accept, store, counts, history, UserPart, AgentPart
<1>21. ASSUME NEW u \in Clicks, NEW d \in Drafts, Create(u, d) PROVE NoTwinDrafts'
  BY <1>21, TwinKept DEF Create, store, counts, history, UserPart, AgentPart
<1>22. ASSUME NEW u \in Clicks, NEW d \in Drafts, MarkExecuted(u, d) PROVE NoTwinDrafts'
  <2>1. /\ d \in DOMAIN draft /\ draft' = [draft EXCEPT ![d].status = "executed"]
    BY <1>22 DEF MarkExecuted, ClickInv
  <2>2. /\ DOMAIN draft' = DOMAIN draft
        /\ draft'[d].status = "executed" /\ draft'[d].of = draft[d].of
        /\ \A e \in DOMAIN draft : e # d => draft'[e] = draft[e]
    BY <2>1, DraftMoves
  <2>3. revived \subseteq revived' /\ (d \in revived' \/ Live(d))
    BY <1>22 DEF MarkExecuted, Live
  <2> QED BY <2>1, <2>2, <2>3 DEF NoTwinDrafts, Live
<1>23. ASSUME NEW u \in Clicks, NEW d \in Drafts, Dismiss(u, d) PROVE NoTwinDrafts'
  <2>1. /\ d \in DOMAIN draft /\ draft' = [draft EXCEPT ![d].status = "dismissed"]
    BY <1>23 DEF Dismiss, ClickInv
  <2>2. /\ DOMAIN draft' = DOMAIN draft
        /\ draft'[d].status = "dismissed" /\ draft'[d].of = draft[d].of
        /\ \A e \in DOMAIN draft : e # d => draft'[e] = draft[e]
    BY <2>1, DraftMoves
  <2>3. UNCHANGED revived
    BY <1>23 DEF Dismiss, history
  <2> QED BY <2>1, <2>2, <2>3 DEF NoTwinDrafts, Live
<1>24. ASSUME NEW u \in Clicks, CreateFails(u) PROVE NoTwinDrafts'
  BY <1>24, TwinKept DEF CreateFails, store, counts, history, UserPart, AgentPart
<1>25. ASSUME NEW u \in Clicks, DismissTask(u) PROVE NoTwinDrafts'
  BY <1>25, TwinKept DEF DismissTask, store, counts, history, UserPart, AgentPart
<1>26. ASSUME NEW m \in Meetings, NEW s \in {"open", "closed"}, SetTask(m, s) PROVE NoTwinDrafts'
  BY <1>26, TwinKept DEF SetTask, store, counts, history, UserPart, AgentPart
<1>27. CASE UNCHANGED vars
  BY <1>27, TwinKept DEF vars, store, counts, history, UserPart, AgentPart
<1>28. CASE Age
  BY <1>28, TwinKept DEF Age, store, counts, history, UserPart, AgentPart
<1>29. ASSUME NEW m \in Meetings, NEW e \in Entries \cup {None}, Relink(m, e) PROVE NoTwinDrafts'
  BY <1>29, TwinKept DEF Relink, store, counts, history, UserPart, AgentPart
<1> QED
  BY <1>1, <1>2, <1>3, <1>4, <1>5, <1>6, <1>7, <1>8, <1>9, <1>10, <1>11, <1>12, <1>13,
     <1>14, <1>15, <1>16, <1>17, <1>18, <1>19, <1>20, <1>21, <1>22, <1>23, <1>24, <1>25,
     <1>26, <1>27, <1>28, <1>29
  DEF Next, Work

LEMMA CreatedKept ==
    CreatedInv /\ UNCHANGED <<click, draft, created, unclear>> => CreatedInv'
BY DEF CreatedInv

(* Every step keeps the account of the drafts that became events.           *)
LEMMA CreatedStep ==
    BeatInv /\ DraftInv /\ ClickInv /\ CreatedInv /\ [Next]_vars => CreatedInv'
<1> SUFFICES ASSUME BeatInv, DraftInv, ClickInv, CreatedInv, [Next]_vars PROVE CreatedInv'
  OBVIOUS
<1>1. ASSUME NEW b \in Beats, Beat(b) PROVE CreatedInv'
  BY <1>1, CreatedKept DEF Beat, Begins, store, counts, history, UserPart, AgentPart
<1>2. ASSUME NEW b \in Beats, BeatNow(b) PROVE CreatedInv'
  BY <1>2, CreatedKept DEF BeatNow, Begins, store, counts, history, UserPart, AgentPart
<1>3. ASSUME NEW b \in Beats, NEW m \in Meetings, BeatSaved(b, m) PROVE CreatedInv'
  BY <1>3, CreatedKept DEF BeatSaved, Begins, store, counts, history, UserPart, AgentPart
<1>4. ASSUME NEW b \in Beats, Configured(b) PROVE CreatedInv'
  BY <1>4, CreatedKept DEF Configured, store, counts, history, UserPart, AgentPart
<1>5. ASSUME NEW b \in Beats, NoTranscript(b) PROVE CreatedInv'
  BY <1>5, CreatedKept DEF NoTranscript, NextMeeting, store, counts, history, UserPart, AgentPart
<1>6. ASSUME NEW u \in Clicks, MarkFails(u) PROVE CreatedInv'
  <2>1. /\ click' = [click EXCEPT ![u] = Calm] /\ click[u].pc = "mark"
        /\ unclear' = unclear \cup {click[u].draft} /\ UNCHANGED <<draft, created>>
    BY <1>6 DEF MarkFails
  <2>2. click'[u].pc = "idle" /\ \A v \in Clicks : v # u => click'[v] = click[v]
    BY <2>1 DEF ClickInv, Calm
  <2>3. ASSUME NEW d \in created
        PROVE  \/ draft[d].status # "pending" \/ d \in unclear'
               \/ \E v \in Clicks : click'[v].pc = "mark" /\ click'[v].draft = d
    BY <2>1, <2>2 DEF CreatedInv
  <2> QED BY <2>1, <2>2, <2>3 DEF CreatedInv
<1>7. ASSUME NEW b \in Beats, Answered(b) PROVE CreatedInv'
  BY <1>7, CreatedKept DEF Answered, store, counts, history, UserPart, AgentPart
<1>8. ASSUME NEW b \in Beats, UpsertTask(b) PROVE CreatedInv'
  BY <1>8, CreatedKept DEF UpsertTask, store, counts, history, UserPart, AgentPart
<1>9. ASSUME NEW b \in Beats, NoDraft(b) PROVE CreatedInv'
  BY <1>9, CreatedKept DEF NoDraft, store, counts, history, UserPart, AgentPart
<1>10. ASSUME NEW b \in Beats, NewDraft(b) PROVE CreatedInv'
  BY <1>10, CreatedKept DEF NewDraft, store, counts, history, UserPart, AgentPart
<1>11. ASSUME NEW b \in Beats, Insert(b) PROVE CreatedInv'
  <2>1. CASE Len(draft) < MaxDrafts
    <3>1. draft' = Append(draft, [of |-> Current(b), status |-> "pending"])
      BY <1>11, <2>1 DEF Insert
    <3>2. Current(b) \in Contexts
      BY <1>11, CurrentContext DEF Insert, BeatInv, At
    <3>3. /\ DOMAIN draft' = DOMAIN draft \cup {Len(draft) + 1}
          /\ draft'[Len(draft) + 1].status = "pending"
          /\ \A e \in DOMAIN draft : draft'[e] = draft[e]
      BY <3>1, <3>2, DraftAdded
    <3>4. UNCHANGED <<click, created, unclear>>
      BY <1>11 DEF Insert, UserPart, history
    <3> QED BY <3>3, <3>4 DEF CreatedInv
  <2>2. CASE ~(Len(draft) < MaxDrafts)
    BY <1>11, <2>2, CreatedKept DEF Insert, UserPart, history
  <2> QED BY <2>1, <2>2
<1>12. ASSUME NEW b \in Beats, FinishRun(b) PROVE CreatedInv'
  BY <1>12, CreatedKept DEF FinishRun, NextMeeting, store, counts, history, UserPart, AgentPart
<1>13. ASSUME NEW b \in Beats, Notify(b) PROVE CreatedInv'
  BY <1>13, CreatedKept DEF Notify, store, counts, history, UserPart, AgentPart
<1>14. ASSUME NEW b \in Beats, End(b) PROVE CreatedInv'
  BY <1>14, CreatedKept DEF End, store, counts, history, UserPart, AgentPart
<1>15. ASSUME NEW b \in Beats, NotConfigured(b) PROVE CreatedInv'
  BY <1>15, CreatedKept DEF NotConfigured, store, counts, history, UserPart, AgentPart
<1>16. ASSUME NEW b \in Beats, CallFails(b) PROVE CreatedInv'
  BY <1>16, CreatedKept DEF CallFails, store, counts, history, UserPart, AgentPart
<1>17. ASSUME NEW m \in Meetings, Dropped(m) PROVE CreatedInv'
  BY <1>17, CreatedKept DEF Dropped, store, counts, history, UserPart, AgentPart
<1>18. CASE SaveMeeting
  BY <1>18, CreatedKept DEF SaveMeeting, store, counts, history, UserPart, AgentPart
<1>19. CASE Restart
  <2>1. \A u \in Clicks : click'[u].pc = "idle"
    BY <1>19 DEF Restart, Calm
  <2>2. PICK made \in SUBSET Clicked("create") :
            /\ created' = created \cup made
            /\ unclear' = unclear \cup made \cup Clicked("mark")
    BY <1>19 DEF Restart
  <2>3. UNCHANGED draft
    BY <1>19 DEF Restart, store
  <2>4. made \subseteq DOMAIN draft
    BY DEF Clicked, ClickInv
  <2>5. created' \subseteq DOMAIN draft
    BY <2>2, <2>4 DEF CreatedInv
  <2>6. \A d \in created' : draft[d].status # "pending" \/ d \in unclear'
    <3>1. \A u \in Clicks : click[u].pc = "mark" => click[u].draft \in Clicked("mark")
      BY DEF Clicked
    <3> QED BY <2>2, <3>1 DEF CreatedInv
  <2>7. \A d \in DOMAIN draft : draft[d].status = "executed" => d \in created'
    BY <2>2 DEF CreatedInv
  <2> QED BY <2>1, <2>3, <2>5, <2>6, <2>7 DEF CreatedInv
<1>20. ASSUME NEW u \in Clicks, NEW d \in Drafts, Accept(u, d) PROVE CreatedInv'
  <2>1. /\ click' = [click EXCEPT ![u] = [pc |-> "create", draft |-> d]] /\ click[u].pc = "idle"
        /\ UNCHANGED <<draft, created, unclear>>
    BY <1>20 DEF Accept, FreeHand, store, AgentPart, history
  <2>2. click'[u].pc # "mark" /\ \A v \in Clicks : v # u => click'[v] = click[v]
    BY <2>1 DEF ClickInv, Calm
  <2>3. \A v \in Clicks : click[v].pc = "mark" => v # u
    BY <2>1
  <2> QED BY <2>1, <2>2, <2>3 DEF CreatedInv
<1>21. ASSUME NEW u \in Clicks, NEW d \in Drafts, Create(u, d) PROVE CreatedInv'
  <2>1. /\ click' = [click EXCEPT ![u].pc = "mark"] /\ click[u].pc = "create"
        /\ created' = created \cup {d} /\ d = click[u].draft /\ UNCHANGED <<draft, unclear>>
    BY <1>21 DEF Create, store, AgentPart, history
  <2>2. /\ click'[u].pc = "mark" /\ click'[u].draft = d
        /\ \A v \in Clicks : v # u => click'[v] = click[v]
    BY <2>1 DEF ClickInv, Commands
  <2>3. d \in DOMAIN draft
    BY <2>1 DEF ClickInv
  <2>4. \A v \in Clicks : click[v].pc = "mark" => v # u
    BY <2>1
  <2> QED BY <2>1, <2>2, <2>3, <2>4 DEF CreatedInv
<1>22. ASSUME NEW u \in Clicks, NEW d \in Drafts, MarkExecuted(u, d) PROVE CreatedInv'
  <2>1. /\ click' = [click EXCEPT ![u] = Calm] /\ click[u].pc = "mark" /\ d = click[u].draft
        /\ draft' = [draft EXCEPT ![d].status = "executed"] /\ UNCHANGED <<created, unclear>>
    BY <1>22 DEF MarkExecuted, AgentPart
  <2>2. d \in DOMAIN draft /\ d \in created
    BY <2>1 DEF ClickInv, CreatedInv
  <2>3. /\ DOMAIN draft' = DOMAIN draft /\ draft'[d].status = "executed"
        /\ \A e \in DOMAIN draft : e # d => draft'[e] = draft[e]
    BY <2>1, <2>2, DraftMoves
  <2>4. click'[u].pc = "idle" /\ \A v \in Clicks : v # u => click'[v] = click[v]
    BY <2>1 DEF ClickInv, Calm
  <2>5. ASSUME NEW e \in created', e # d
        PROVE  \/ draft'[e].status # "pending" \/ e \in unclear'
               \/ \E v \in Clicks : click'[v].pc = "mark" /\ click'[v].draft = e
    <3>1. /\ e \in created /\ e \in DOMAIN draft
          /\ \/ draft[e].status # "pending" \/ e \in unclear
             \/ \E v \in Clicks : click[v].pc = "mark" /\ click[v].draft = e
      BY <2>1 DEF CreatedInv
    <3>2. draft'[e] = draft[e]
      BY <2>3, <2>5, <3>1
    <3>3. \A v \in Clicks : click[v].draft = e => v # u
      BY <2>1, <2>5
    <3> QED BY <2>1, <2>4, <3>1, <3>2, <3>3
  <2> QED BY <2>1, <2>2, <2>3, <2>4, <2>5 DEF CreatedInv
<1>23. ASSUME NEW u \in Clicks, NEW d \in Drafts, Dismiss(u, d) PROVE CreatedInv'
  <2>1. /\ click' = [click EXCEPT ![u] = [pc |-> "task", draft |-> d]] /\ click[u].pc = "idle"
        /\ d \in DOMAIN draft
        /\ draft' = [draft EXCEPT ![d].status = "dismissed"] /\ UNCHANGED <<created, unclear>>
    BY <1>23 DEF Dismiss, FreeHand, AgentPart, history
  <2>2. /\ DOMAIN draft' = DOMAIN draft /\ draft'[d].status = "dismissed"
        /\ \A e \in DOMAIN draft : e # d => draft'[e] = draft[e]
    BY <2>1, DraftMoves
  <2>3. click'[u].pc = "task" /\ \A v \in Clicks : v # u => click'[v] = click[v]
    BY <2>1 DEF ClickInv
  <2>4. \A v \in Clicks : click[v].pc = "mark" => v # u
    BY <2>1
  <2> QED BY <2>1, <2>2, <2>3, <2>4 DEF CreatedInv
<1>24. ASSUME NEW u \in Clicks, CreateFails(u) PROVE CreatedInv'
  <2>1. /\ click' = [click EXCEPT ![u] = Calm] /\ click[u].pc = "create"
        /\ UNCHANGED draft
    BY <1>24 DEF CreateFails
  <2>2. /\ created \subseteq created' /\ created' \subseteq created \cup {click[u].draft}
        /\ unclear \subseteq unclear' /\ created' \subseteq created \cup unclear'
    BY <1>24 DEF CreateFails
  <2>3. click'[u].pc # "mark" /\ \A v \in Clicks : v # u => click'[v] = click[v]
    BY <2>1 DEF ClickInv, Calm
  <2>4. /\ click[u].draft \in DOMAIN draft
        /\ \A v \in Clicks : click[v].pc = "mark" => v # u
    BY <2>1 DEF ClickInv
  <2> QED BY <2>1, <2>2, <2>3, <2>4 DEF CreatedInv
<1>25. ASSUME NEW u \in Clicks, DismissTask(u) PROVE CreatedInv'
  <2>1. /\ click' = [click EXCEPT ![u] = Calm] /\ click[u].pc = "task"
        /\ UNCHANGED <<draft, created, unclear>>
    BY <1>25 DEF DismissTask, store, AgentPart
  <2>2. click'[u].pc # "mark" /\ \A v \in Clicks : v # u => click'[v] = click[v]
    BY <2>1 DEF ClickInv, Calm
  <2>3. \A v \in Clicks : click[v].pc = "mark" => v # u
    BY <2>1
  <2> QED BY <2>1, <2>2, <2>3 DEF CreatedInv
<1>26. ASSUME NEW m \in Meetings, NEW s \in {"open", "closed"}, SetTask(m, s) PROVE CreatedInv'
  BY <1>26, CreatedKept DEF SetTask, store, counts, history, UserPart, AgentPart
<1>27. CASE UNCHANGED vars
  BY <1>27, CreatedKept DEF vars, store, counts, history, UserPart, AgentPart
<1>28. CASE Age
  BY <1>28, CreatedKept DEF Age, store, counts, history, UserPart, AgentPart
<1>29. ASSUME NEW m \in Meetings, NEW e \in Entries \cup {None}, Relink(m, e) PROVE CreatedInv'
  BY <1>29, CreatedKept DEF Relink, store, counts, history, UserPart, AgentPart
<1> QED
  BY <1>1, <1>2, <1>3, <1>4, <1>5, <1>6, <1>7, <1>8, <1>9, <1>10, <1>11, <1>12, <1>13,
     <1>14, <1>15, <1>16, <1>17, <1>18, <1>19, <1>20, <1>21, <1>22, <1>23, <1>24, <1>25,
     <1>26, <1>27, <1>28, <1>29
  DEF Next, Work

-----------------------------------------------------------------------------
IInv == /\ BeatInv /\ SavedInv /\ DraftInv /\ ClickInv /\ TaskInv
        /\ OneBeat /\ InsertInv /\ NoTwinDrafts /\ CreatedInv

LEMMA Invariance == Spec => []IInv
<1>1. Init => IInv
  <2> SUFFICES ASSUME Init PROVE IInv
    OBVIOUS
  <2>1. BeatInv /\ OneBeat /\ InsertInv
    <3>1. Idle \in Beating /\ Idle.pc = "idle" /\ Idle.mode = "auto"
      BY DEF Beating, Idle, Pcs, Modes
    <3>2. beat \in [Beats -> Beating] /\ \A b \in Beats : beat[b] = Idle
      BY <3>1 DEF Init
    <3> QED BY <3>1, <3>2 DEF Init, BeatInv, OneBeat, InsertInv, At
  <2>2. SavedInv /\ DraftInv /\ TaskInv
    BY DEF Init, SavedInv, DraftInv, TaskInv
  <2>3. ClickInv /\ CreatedInv /\ NoTwinDrafts
    BY DEF Init, ClickInv, Commands, Calm, CreatedInv, NoTwinDrafts
  <2> QED BY <2>1, <2>2, <2>3 DEF IInv
<1>2. IInv /\ [Next]_vars => IInv'
  BY BeatStep, SavedStep, DraftStep, ClickStep, TaskStep, RunningStep, InsertStep,
     TwinStep, CreatedStep
  DEF IInv
<1> QED BY <1>1, <1>2, PTL DEF Spec

(* is_running keeps any number of heartbeats apart, so that the search for  *)
(* a draft still holds when the draft is inserted, however the meetings are *)
(* linked anew meanwhile: no two drafts of a meeting and calendar event are *)
(* offered or accepted, but for one that was dismissed under its accept.    *)
THEOREM NoTwinDraftsHolds == Spec => []NoTwinDrafts
<1>1. IInv => NoTwinDrafts
  BY DEF IInv
<1> QED BY <1>1, Invariance, PTL

(* However often heartbeats store the task of a meeting again, one that the *)
(* user closed last is closed.                                              *)
THEOREM ClosedStaysClosedHolds == Spec => []ClosedStaysClosed
<1>1. IInv => ClosedStaysClosed
  BY DEF IInv, TaskInv, ClosedStaysClosed
<1> QED BY <1>1, Invariance, PTL

(* For any number of clicks on any drafts: a draft whose event Google has   *)
(* is not offered again once the clicks on it have returned, unless one of  *)
(* its accepts failed, or was cut off, with the event made.                 *)
THEOREM AcceptedSettledHolds == Spec => []AcceptedSettled
<1>1. IInv => AcceptedSettled
  BY DEF IInv, CreatedInv, AcceptedSettled
<1> QED BY <1>1, Invariance, PTL

-----------------------------------------------------------------------------
(* The agent's other neighbour is the window, whose saved meetings wake it. *)
(* Theorems about TranscriptWindow, which shares no state with Agent.       *)

(* The window and its saves, for any number of recordings, finals and       *)
(* breaks.  A recording that has met a hazard is excused; Fine says that    *)
(* the current one has not, and most of what the window does is orderly for *)
(* as long as it is.                                                        *)
Fine == rec \notin excused

Kinds == {"started", "final", "stopped", "stop-complete"}
Events == [kind : Kinds, rec : Recordings, seg : 0..MaxSegments]
StopPcs == {"idle", "owner", "second", "lost"}
Handles == [pc : {"idle", "waiting", "saving", "marking"}, id : 0..MaxRecordings,
            take : SUBSET Finals]
Recoveries == [pc : {"idle", "read", "saved"}, id : 0..MaxRecordings, take : SUBSET Finals]
Syncs == [pc : {"none", "due", "read"}, take : SUBSET Finals]

(* What a meeting has been given: what is filed under it and what is being  *)
(* filed.  The invariants speak of this, which the end of a write leaves as *)
(* it is, and less of it is never worse.                                    *)
given == [r \in Recordings |-> copy[r] \cup {f \in Finals : <<r, f>> \in writes}]
GivesLess == \A r \in Recordings : given'[r] \subseteq given[r]

WindowTypes ==
    /\ rec \in 0..MaxRecordings /\ said \in 0..MaxSegments /\ excused \subseteq 1..rec
    /\ on \in BOOLEAN /\ manager \in BOOLEAN /\ isRecording \in BOOLEAN
    /\ resting \in BOOLEAN /\ starting \in BOOLEAN
    /\ stop \in [Callers -> StopPcs] /\ clicked \in 0..MaxRecordings
    /\ events \in Seq(Events)
    /\ mid \in 0..MaxRecordings /\ stored \in 0..MaxRecordings
    /\ listening \subseteq 0..MaxRecordings /\ pending \subseteq 0..MaxRecordings
    /\ shown \subseteq Finals /\ sync \in Syncs
    /\ handler \in [Handlers -> Handles]
    /\ timers \in Nat
    /\ meta \in [Recordings -> {"absent", "unsaved", "saved"}]
    /\ copy \in [Recordings -> SUBSET Finals] /\ writes \subseteq Recordings \X Finals
    /\ unfiled \subseteq Finals /\ late \subseteq Finals
    /\ saves \in Seq(SUBSET Finals)
    /\ offered \subseteq Recordings
    /\ recovery \in Recoveries
    /\ breaks \in 0..MaxBreaks

AllRest == \A h \in Handlers : ~Busy(h)
NoStop == \A c \in Callers : ~Draining(c)

(* Nothing is of a recording that has not begun.                            *)
Begun(f) == f[1] <= rec
BegunWork == on \/ manager \/ ~AllRest \/ recovery.pc # "idle" => rec > 0
BegunIds ==
    /\ \A i \in DOMAIN events : events[i].rec <= rec
    /\ stored <= rec /\ recovery.id <= rec /\ (recovery.pc # "idle" => recovery.id > 0)
    /\ \A r \in offered : r <= rec
BegunFinals ==
    /\ \A f \in shown \cup recovery.take \cup Saved : Begun(f)
    /\ \A h \in Handlers : \A f \in handler[h].take : Begun(f)
    /\ \A r \in Recordings : \A f \in given[r] : Begun(f)
NoneLater == \A r \in Recordings : r > rec => given[r] = {} /\ meta[r] = "absent"
PastInv == BegunWork /\ BegunIds /\ BegunFinals /\ NoneLater

(* What is on its way to the window is of the current recording, unless both*)
(* it and its own recording have met a hazard; and its order: the start     *)
(* first, the provider's call last, and every final before a stop.          *)
KindIn(q, k) == \E i \in DOMAIN q : q[i].kind = k
PairsIn(q) == {<<q[i].rec, q[i].seg>> : i \in DOMAIN q}
OfCurrent ==
    \A i \in DOMAIN events :
        /\ events[i].rec = rec \/ {events[i].rec, rec} \subseteq excused
        /\ events[i].kind = "started" => events[i].rec = rec
        /\ events[i].kind = "final" =>
              events[i].seg > 0 /\ (events[i].rec = rec => events[i].seg <= said)
        /\ events[i].kind # "final" => events[i].seg = 0
InOrder ==
    Fine => \A i \in DOMAIN events :
        /\ events[i].kind = "started" => i = 1
        /\ events[i].kind = "stop-complete" => i = Len(events)
StopLast ==
    Fine /\ ~on /\ events # <<>> => events[Len(events)].kind \in {"stopped", "stop-complete"}
QueueInv == OfCurrent /\ InOrder /\ StopLast

(* The stop: one caller, while it records; then the window, which one use   *)
(* of useRecordingStop is at work on.                                       *)
ManagerHeld == manager => on /\ NoStop
ClickedOne == stop["controls"] \in {"owner", "second"} => clicked \in excused \cup {0, rec}
OneStop ==
    Fine =>
        /\ \A c \in Callers : Draining(c) => on /\ stop[c] = "owner"
        /\ Draining("controls") => ~Draining("tray") /\ clicked = rec
RecordsUndisturbed == Fine /\ on => ~StopComing /\ AllRest
CallIsLast == Fine /\ KindIn(events, "stop-complete") => AllRest
StartsClean == Fine /\ StartComing => on /\ pending = {} /\ NoStop
OneHandler ==
    Fine =>
        /\ Busy("home") => ~Busy("provider")
        /\ \A h \in Handlers : Busy(h) =>
            /\ ~resting /\ handler[h].id = rec
            /\ handler[h].pc # "waiting" => events = <<>> /\ pending = {}
StopInv ==
    /\ ManagerHeld /\ ClickedOne /\ OneStop /\ RecordsUndisturbed
    /\ CallIsLast /\ StartsClean /\ OneHandler

(* The meeting ids in the window are those of the current recording, or of  *)
(* the one before while its start is the next thing the window will hear.   *)
Listens == mid \in listening \cup pending
StartIsNext ==
    /\ events # <<>> /\ events[1].kind = "started"
    /\ AllRest /\ NoStop
IdsCurrent ==
    \A x \in listening \cup pending \cup {mid} :
        \/ x \in excused \cup {0, rec}
        \/ StartIsNext /\ pending = {} /\ listening \subseteq {mid}
HandlesCurrent == \A h \in Handlers : Busy(h) => handler[h].id \in excused \cup {0, rec}
OneListener == Fine => listening \cup pending \subseteq {mid}
MeetingKnown ==
    Fine /\ (on \/ events # <<>> \/ ~AllRest) /\ ~StartComing
        => mid = rec /\ meta[rec] = "unsaved"
MeetingNew == Fine /\ StartComing => meta[rec] = "absent"
MidInv ==
    Listens /\ IdsCurrent /\ HandlesCurrent /\ OneListener /\ MeetingKnown /\ MeetingNew

(* The list and what is taken from it are of one recording.                 *)
Alike(f, g) == f[1] = g[1] \/ f[1] \in excused \/ g[1] \in excused
ListIsOfOne == ~starting => \A f \in shown : f[1] = rec \/ {f[1], rec} \subseteq excused
SyncIsOfOne ==
    /\ \A f \in sync.take : f[1] = rec
    /\ sync.pc # "read" => sync.take = {}
NothingYet == starting => said = 0
TakesAreOfOne ==
    \A h \in Handlers : Busy(h) =>
        /\ \A f \in handler[h].take : f[1] = rec \/ f[1] \in excused
        /\ \A f, g \in handler[h].take : Alike(f, g)
ShownInv == ListIsOfOne /\ SyncIsOfOne /\ NothingYet /\ TakesAreOfOne

(* The copy has nothing that the list, the save or the database lacks.      *)
CopyIsOfOne == \A r \in Recordings : \A f \in given[r] : f[1] = r \/ f[1] \in excused
CopyNew == Fine /\ rec > 0 /\ (starting \/ StartComing) => given[rec] = {}
CopyShown == Fine /\ rec > 0 /\ (on \/ events # <<>>) => given[rec] \subseteq shown
CopyTaken ==
    Fine /\ rec > 0 => \A h \in Handlers :
        /\ handler[h].pc = "waiting" => given[rec] \subseteq shown
        /\ handler[h].pc = "saving" => given[rec] \subseteq handler[h].take
        /\ handler[h].pc = "marking" => given[rec] \subseteq Saved
CopyInv == CopyIsOfOne /\ CopyNew /\ CopyShown /\ CopyTaken

(* And the list has nothing that is neither on its way nor in the copy.     *)
Kept(f) ==
    \/ f[1] \in excused \/ f \in Coming \/ f \in given[f[1]] \/ f \in unfiled
    \/ meta[f[1]] = "absent" /\ ~(f[1] = rec /\ StartComing)
ListKept == \A f \in shown \cup sync.take : Kept(f)
SaidKept == Fine /\ manager => \A s \in 1..said : Kept(<<rec, s>>)
KeptInv == ListKept /\ SaidKept

(* Who may save a recording of which something is in the database already.  *)
GivenSaved ==
    \A r \in Recordings \ excused : meta[r] = "saved" => given[r] \subseteq Saved \cup late
HasSaved(r) == \E f \in Saved : f[1] = r
SaverOfSaved ==
    \A r \in Recordings \ excused : meta[r] = "unsaved" /\ HasSaved(r) =>
        \/ r = rec /\ \E h \in Handlers : handler[h].pc = "marking"
        \/ recovery.pc = "saved" /\ recovery.id = r
OfferedUnsaved == \A r \in offered \ excused : meta[r] = "unsaved"
SavedIsOver ==
    Fine /\ HasSaved(rec) =>
        ~on /\ events = <<>> /\ \A h \in Handlers : handler[h].pc \in {"idle", "marking"}
SavesInv ==
    /\ GivenSaved /\ SavedOnce /\ OneRecordingPerSave
    /\ SaverOfSaved /\ OfferedUnsaved /\ SavedIsOver

(* A recording that is offered or recovered is over.                        *)
OfferedIsOver ==
    Fine /\ (rec \in offered \/ (recovery.pc # "idle" /\ recovery.id = rec)) =>
        ~on /\ events = <<>> /\ AllRest
TakenIsOfOne ==
    recovery.pc # "idle" => \A f \in recovery.take : f[1] = recovery.id \/ f[1] \in excused
RecoversUnsaved ==
    recovery.pc # "idle" /\ recovery.id \notin excused =>
        /\ recovery.pc = "read" => ~HasSaved(recovery.id) /\ given[recovery.id] \subseteq recovery.take \cup late
        /\ recovery.pc = "saved" => given[recovery.id] \subseteq Saved \cup late
        /\ meta[recovery.id] = "unsaved"
RecoveryInv == OfferedIsOver /\ TakenIsOfOne /\ RecoversUnsaved

WindowInv ==
    /\ WindowTypes /\ PastInv /\ QueueInv /\ StopInv /\ MidInv
    /\ ShownInv /\ CopyInv /\ KeptInv /\ SavesInv /\ RecoveryInv

-----------------------------------------------------------------------------
(* An event joins the queue, and the first one leaves it.                   *)
LEMMA Joined ==
    ASSUME NEW q \in Seq(Events), NEW e \in Events
    PROVE  /\ Append(q, e) \in Seq(Events) /\ Append(q, e) # <<>>
           /\ Len(q) \in Nat /\ Len(Append(q, e)) = Len(q) + 1
           /\ DOMAIN q = 1..Len(q) /\ DOMAIN Append(q, e) = 1..(Len(q) + 1)
           /\ \A i \in DOMAIN q : Append(q, e)[i] = q[i]
           /\ Append(q, e)[Len(q) + 1] = e
           /\ q # <<>> => Append(q, e)[1] = q[1] /\ Len(q) > 0
           /\ q = <<>> => Append(q, e)[1] = e
<1>1. Append(q, e) \in Seq(Events) /\ Len(q) \in Nat /\ Len(Append(q, e)) = Len(q) + 1
  OBVIOUS
<1>2. DOMAIN q = 1..Len(q) /\ DOMAIN Append(q, e) = 1..(Len(q) + 1)
  BY <1>1
<1>3. \A i \in DOMAIN q : Append(q, e)[i] = q[i]
  OBVIOUS
<1>4. Append(q, e)[Len(q) + 1] = e /\ Append(q, e) # <<>>
  OBVIOUS
<1>5. q # <<>> => Len(q) > 0
  OBVIOUS
<1>6. q = <<>> => Len(q) = 0
  OBVIOUS
<1> QED BY <1>1, <1>2, <1>3, <1>4, <1>5, <1>6

(* What kinds of events are in a queue, and which finals, once one has      *)
(* joined.                                                                  *)
LEMMA JoinedKinds ==
    ASSUME NEW q \in Seq(Events), NEW e \in Events
    PROVE  /\ \A k : KindIn(Append(q, e), k) <=> KindIn(q, k) \/ e.kind = k
           /\ PairsIn(Append(q, e)) = PairsIn(q) \cup {<<e.rec, e.seg>>}
<1> DEFINE p == Append(q, e)
<1>1. /\ Len(q) \in Nat /\ DOMAIN q = 1..Len(q) /\ DOMAIN p = 1..(Len(q) + 1)
      /\ \A i \in DOMAIN q : p[i] = q[i]
      /\ p[Len(q) + 1] = e
  BY Joined
<1> HIDE DEF p
<1>2. \A k : KindIn(p, k) <=> KindIn(q, k) \/ e.kind = k
  BY <1>1 DEF KindIn
<1>3. PairsIn(p) \subseteq PairsIn(q) \cup {<<e.rec, e.seg>>}
  BY <1>1 DEF PairsIn
<1>4. PairsIn(q) \subseteq PairsIn(p) /\ <<e.rec, e.seg>> \in PairsIn(p)
  BY <1>1 DEF PairsIn
<1> QED BY <1>2, <1>3, <1>4 DEF p

(* The queue without its first event.                                       *)
LEMMA Left ==
    ASSUME NEW q \in Seq(Events), q # <<>>
    PROVE  /\ Tail(q) \in Seq(Events) /\ Len(q) \in Nat \ {0} /\ Len(Tail(q)) = Len(q) - 1
           /\ DOMAIN q = 1..Len(q) /\ DOMAIN Tail(q) = 1..(Len(q) - 1)
           /\ \A i \in DOMAIN Tail(q) : i + 1 \in DOMAIN q /\ Tail(q)[i] = q[i + 1]
           /\ Head(q) = q[1] /\ q[1] \in Events
           /\ Tail(q) # <<>> => Len(q) > 1
           /\ Len(q) = 1 => Tail(q) = <<>>
OBVIOUS

(* What kinds and which finals are left when the first event is gone.       *)
LEMMA LeftKinds ==
    ASSUME NEW q \in Seq(Events), q # <<>>
    PROVE  /\ \A k : KindIn(q, k) <=> KindIn(Tail(q), k) \/ q[1].kind = k
           /\ PairsIn(q) = PairsIn(Tail(q)) \cup {<<q[1].rec, q[1].seg>>}
<1> DEFINE p == Tail(q)
<1>1. /\ Len(q) \in Nat \ {0} /\ DOMAIN q = 1..Len(q) /\ DOMAIN p = 1..(Len(q) - 1)
      /\ \A i \in DOMAIN p : i + 1 \in DOMAIN q /\ p[i] = q[i + 1]
  BY Left
<1>2. \A j \in DOMAIN q : j = 1 \/ (j - 1 \in DOMAIN p /\ q[j] = p[j - 1])
  BY <1>1
<1> HIDE DEF p
<1>3. \A k : KindIn(q, k) <=> KindIn(p, k) \/ q[1].kind = k
  <2>1. \A k : KindIn(q, k) => KindIn(p, k) \/ q[1].kind = k
    BY <1>2 DEF KindIn
  <2>2. \A k : KindIn(p, k) => KindIn(q, k)
    BY <1>1 DEF KindIn
  <2>3. \A k : q[1].kind = k => KindIn(q, k)
    BY <1>1 DEF KindIn
  <2> QED BY <2>1, <2>2, <2>3
<1>4. PairsIn(q) \subseteq PairsIn(p) \cup {<<q[1].rec, q[1].seg>>}
  BY <1>2 DEF PairsIn
<1>5. PairsIn(p) \subseteq PairsIn(q) /\ <<q[1].rec, q[1].seg>> \in PairsIn(q)
  BY <1>1 DEF PairsIn
<1> QED BY <1>3, <1>4, <1>5 DEF p

(* Nothing is in an empty queue.                                            *)
LEMMA NoneIn ==
    /\ \A k : ~KindIn(<<>>, k)
    /\ PairsIn(<<>>) = {} /\ DOMAIN <<>> = {}
BY DEF KindIn, PairsIn

(* The queue of the model is read through these.                            *)
LEMMA QueueRead ==
    /\ StopComing <=> KindIn(events, "stopped") \/ KindIn(events, "stop-complete")
    /\ StartComing <=> KindIn(events, "started")
    /\ Coming = PairsIn(events)
    /\ StopComing' <=> KindIn(events', "stopped") \/ KindIn(events', "stop-complete")
    /\ StartComing' <=> KindIn(events', "started")
    /\ Coming' = PairsIn(events')
BY DEF StopComing, StartComing, Coming, KindIn, PairsIn

(* A save adds its finals to the database.                                  *)
LEMMA SavedGrows ==
    ASSUME saves \in Seq(SUBSET Finals), NEW take \in SUBSET Finals,
           saves' = Append(saves, take)
    PROVE  /\ Saved' = Saved \cup take /\ saves' \in Seq(SUBSET Finals)
           /\ DOMAIN saves' = 1..(Len(saves) + 1) /\ DOMAIN saves = 1..Len(saves)
           /\ \A i \in DOMAIN saves : saves'[i] = saves[i]
           /\ saves'[Len(saves) + 1] = take /\ Len(saves) \in Nat
<1>1. /\ saves' \in Seq(SUBSET Finals)
      /\ DOMAIN saves' = 1..(Len(saves) + 1) /\ DOMAIN saves = 1..Len(saves)
      /\ \A i \in DOMAIN saves : saves'[i] = saves[i]
      /\ saves'[Len(saves) + 1] = take /\ Len(saves) \in Nat
  OBVIOUS
<1>2. Saved' \subseteq Saved \cup take
  BY <1>1 DEF Saved
<1>3. Saved \cup take \subseteq Saved'
  BY <1>1 DEF Saved
<1> QED BY <1>1, <1>2, <1>3

(* What a save does to the handler that makes it.                           *)
LEMMA HandleMoves ==
    ASSUME NEW x \in Handles, NEW take \in SUBSET Finals
    PROVE  /\ [x EXCEPT !.pc = "saving", !.take = take] \in Handles
           /\ [x EXCEPT !.pc = "marking"] \in Handles
<1>1. [x EXCEPT !.pc = "saving", !.take = take] \in Handles
  BY DEF Handles
<1>2. [x EXCEPT !.pc = "marking"] \in Handles
  BY DEF Handles
<1> QED BY <1>1, <1>2

(* There is a recording when anything of one is at work or on its way.      *)
LEMMA RecBegun ==
    ASSUME WindowInv
    PROVE  /\ on \/ manager \/ ~AllRest \/ ~NoStop \/ events # <<>> \/ recovery.pc # "idle"
              => rec \in Recordings
           /\ rec \in Nat
<1>0. rec \in 0..MaxRecordings /\ excused \subseteq 1..rec /\ MaxRecordings \in Nat
      /\ rec \in Nat
  BY WindowAssumption DEF WindowInv, WindowTypes
<1>1. on \/ manager \/ ~AllRest \/ recovery.pc # "idle" => rec > 0
  BY DEF WindowInv, PastInv, BegunWork
<1>2. CASE ~Fine
  BY <1>0, <1>2 DEF Fine, Recordings
<1>3. ASSUME Fine, ~NoStop PROVE on
  BY <1>3 DEF WindowInv, StopInv, OneStop, NoStop
<1>4. ASSUME events # <<>> PROVE rec \in Recordings
  <2>1. events \in Seq(Events)
    BY DEF WindowInv, WindowTypes
  <2>2. 1 \in DOMAIN events /\ events[1] \in Events
    BY <2>1, <1>4
  <2>3. events[1].rec <= rec /\ events[1].rec \in Recordings
    BY <2>2 DEF WindowInv, PastInv, BegunIds, Events
  <2> QED BY <2>3, <1>0 DEF Recordings
<1> QED BY <1>0, <1>1, <1>2, <1>3, <1>4 DEF Recordings

(* A mark that fails excuses its recording and changes little else: two     *)
(* lemmas of their own show that it keeps the invariant.  Those before them *)
(* are about all other steps, one part of the invariant each.               *)
MarkUnmade == RecoverMarkLost \/ \E h \in Handlers : MarkLost(h)
OtherStep == [WindowNext]_windowVars /\ ~MarkUnmade

(* Every other step keeps to the types.                                     *)
LEMMA WindowTypesStep ==
    WindowInv /\ OtherStep => WindowTypes'
<1> SUFFICES ASSUME WindowInv, OtherStep PROVE WindowTypes'
  OBVIOUS
<1> USE WindowAssumption DEF backend, page, disk, filing, Nothing, Handlers, Callers
<1>0. WindowTypes /\ rec \in Nat
  BY RecBegun DEF WindowInv
<1> USE DEF WindowTypes
<1>1. ASSUME NEW id \in 0..MaxRecordings, Registered(id) PROVE WindowTypes'
  <2>1. listening' \subseteq 0..MaxRecordings
    BY <1>1, <1>0 DEF Registered
  <2>2. pending' \subseteq 0..MaxRecordings
    BY <1>1, <1>0 DEF Registered
  <2> QED BY <1>1, <1>0, <2>1, <2>2 DEF Registered, FreshPage
<1>2. ASSUME SyncRead PROVE WindowTypes'
  <2>1. sync' \in Syncs
    <3>1. manager => rec \in Recordings
      BY RecBegun
    <3>2. manager => \A x \in 1..said : <<rec, x>> \in Finals
      BY <3>1, <1>0 DEF Finals
    <3>3. \E T \in SUBSET Finals : sync' = [pc |-> "read", take |-> T]
      <4>1. CASE manager
        <5>1. {<<rec, x>> : x \in 1..said} \in SUBSET Finals
          BY <3>2, <4>1
        <5> QED BY <1>2, <4>1, <5>1 DEF SyncRead
      <4>2. CASE ~manager
        BY <1>2, <4>2 DEF SyncRead
      <4> QED BY <4>1, <4>2
    <3> QED BY <3>3 DEF Syncs
  <2> QED BY <1>2, <1>0, <2>1 DEF SyncRead, FreshPage
<1>3. ASSUME SyncSet PROVE WindowTypes'
  <2>1. rec' \in Nat /\ excused' \subseteq 1..rec'
    <3>1. ASSUME ~(shown \subseteq sync.take) PROVE rec \in Recordings
      <4>1. PICK f \in shown : f \notin sync.take
        BY <3>1
      <4>2. f[1] <= rec /\ f[1] \in Recordings
        BY <1>0, <4>1 DEF PastInv, BegunFinals, WindowInv, Begun, Finals
      <4> QED BY <4>2, <1>0 DEF Recordings
    <3>2. /\ rec' = rec
          /\ excused' = IF shown \subseteq sync.take THEN excused ELSE excused \cup {rec}
      BY <1>3 DEF SyncSet
    <3>3. excused \subseteq 1..rec /\ rec \in Nat /\ (rec \in Recordings => rec \in 1..rec)
      BY <1>0 DEF Recordings
    <3> HIDE DEF WindowTypes
    <3> QED BY <3>1, <3>2, <3>3
  <2>2. shown' \subseteq Finals
    BY <1>3, <1>0 DEF SyncSet, Silent, Syncs, Events, Finals
  <2>3. sync' \in Syncs
    BY <1>3, <1>0 DEF SyncSet, Silent, Syncs
  <2> QED BY <1>3, <1>0, <2>1, <2>2, <2>3 DEF SyncSet, FreshPage
<1>4. ASSUME SyncState PROVE WindowTypes'
  <2>1. isRecording' \in BOOLEAN
    BY <1>4, <1>0 DEF SyncState
  <2>2. sync' \in Syncs
    BY <1>4, <1>0 DEF SyncState, Syncs
  <2> QED BY <1>4, <1>0, <2>1, <2>2 DEF SyncState, FreshPage
<1>5. ASSUME Start PROVE WindowTypes'
  <2>1. rec' \in 0..MaxRecordings
    BY <1>5, <1>0 DEF Start
  <2>2. said' \in 0..MaxSegments
    BY <1>5, <1>0 DEF Start
  <2>3. rec' \in Nat /\ excused' \subseteq 1..rec'
    <3>1. Saving => rec \in Recordings
      <4>1. StopComing => events # <<>>
        BY DEF StopComing
      <4> QED BY <4>1, RecBegun DEF Saving, AllRest
    <3>2. rec' = rec + 1 /\ excused' \subseteq excused \cup {rec, rec + 1}
          /\ (~Saving => excused' = excused)
      BY <1>5 DEF Start
    <3> QED BY <1>0, <3>1, <3>2 DEF Recordings
  <2>4. on' \in BOOLEAN
    BY <1>5, <1>0 DEF Start
  <2>5. manager' \in BOOLEAN
    BY <1>5, <1>0 DEF Start
  <2>6. resting' \in BOOLEAN
    BY <1>5, <1>0 DEF Start
  <2>7. starting' \in BOOLEAN
    BY <1>5, <1>0 DEF Start
  <2>8. events' \in Seq(Events)
    <3>1. [kind |-> "started", rec |-> rec + 1, seg |-> 0] \in Events
      BY <1>5, <1>0 DEF Start, Events, Kinds, Recordings
    <3> QED BY <1>5, <1>0, <3>1 DEF Start
  <2> QED BY <1>5, <1>0, <2>1, <2>2, <2>3, <2>4, <2>5, <2>6, <2>7, <2>8 DEF Start, FreshPage
<1>6. ASSUME StartReturned PROVE WindowTypes'
  <2>1. starting' \in BOOLEAN
    BY <1>6, <1>0 DEF StartReturned, Show
  <2>2. shown' \subseteq Finals
    BY <1>6, <1>0 DEF StartReturned, Show
  <2>3. sync' \in Syncs
    BY <1>6, <1>0 DEF StartReturned, Show, Syncs
  <2> QED BY <1>6, <1>0, <2>1, <2>2, <2>3 DEF StartReturned, FreshPage
<1>7. ASSUME Emit PROVE WindowTypes'
  <2>1. said' \in 0..MaxSegments
    BY <1>7, <1>0 DEF Emit
  <2>2. events' \in Seq(Events)
    <3>0. rec \in Recordings
      <4>1. CASE on
        BY <4>1, RecBegun
      <4>2. CASE \E c \in Callers : stop[c] \in {"owner", "lost"}
        BY <4>2, RecBegun DEF NoStop, Draining
      <4> QED BY <1>7, <4>1, <4>2 DEF Emit
    <3>1. [kind |-> "final", rec |-> rec, seg |-> said + 1] \in Events
      BY <1>7, <1>0, <3>0 DEF Emit, Events, Kinds, Recordings
    <3> QED BY <1>7, <1>0, <3>1 DEF Emit
  <2> QED BY <1>7, <1>0, <2>1, <2>2 DEF Emit, FreshPage
<1>8. ASSUME Started PROVE WindowTypes'
  <2>0. events # <<>> /\ Head(events) \in Events /\ Tail(events) \in Seq(Events)
          /\ Head(events).rec <= rec /\ Head(events).rec \in Recordings /\ rec \in Nat
    <3>1. events # <<>>
      BY <1>8 DEF Started, Next1
    <3>2. 1 \in DOMAIN events /\ Head(events) = events[1] /\ events[1] \in Events
          /\ Tail(events) \in Seq(Events)
      BY <3>1, <1>0, Left
    <3>3. events[1].rec <= rec /\ events[1].rec \in Recordings /\ rec \in Nat
      BY <3>2, RecBegun DEF Events, WindowInv, PastInv, BegunIds
    <3> QED BY <3>1, <3>2, <3>3
  <2>1. rec' \in Nat /\ excused' \subseteq 1..rec'
    <3>1. Head(events).rec \in 1..rec /\ Head(events).rec \in 0..MaxRecordings
      BY <2>0, <1>0 DEF Recordings
    <3> QED BY <1>8, <1>0, <3>1 DEF Started
  <2>2. isRecording' \in BOOLEAN
    BY <1>8, <1>0, <2>0 DEF Started, Next1, SwitchTo
  <2>3. resting' \in BOOLEAN
    BY <1>8, <1>0, <2>0 DEF Started, Next1, SwitchTo
  <2>4. events' \in Seq(Events)
    BY <1>8, <1>0, <2>0 DEF Started, Next1, SwitchTo
  <2>5. mid' \in 0..MaxRecordings
    <3>1. Head(events).rec \in 1..rec /\ Head(events).rec \in 0..MaxRecordings
      BY <2>0, <1>0 DEF Recordings
    <3> QED BY <1>8, <1>0, <3>1 DEF Started, SwitchTo
  <2>6. stored' \in 0..MaxRecordings
    <3>1. Head(events).rec \in 1..rec /\ Head(events).rec \in 0..MaxRecordings
      BY <2>0, <1>0 DEF Recordings
    <3> QED BY <1>8, <1>0, <3>1 DEF Started, SwitchTo
  <2>7. listening' \subseteq 0..MaxRecordings
    BY <1>8, <1>0, <2>0 DEF Started, Next1, SwitchTo
  <2>8. pending' \subseteq 0..MaxRecordings
    <3>1. Head(events).rec \in 1..rec /\ Head(events).rec \in 0..MaxRecordings
      BY <2>0, <1>0 DEF Recordings
    <3> QED BY <1>8, <1>0, <3>1 DEF Started, SwitchTo
  <2>9. sync' \in Syncs
    BY <1>8, <1>0, <2>0 DEF Started, Next1, SwitchTo, Syncs
  <2>10. meta' \in [Recordings -> {"absent", "unsaved", "saved"}]
    BY <1>8, <1>0, <2>0 DEF Started, Next1, SwitchTo
  <2> QED BY <1>8, <1>0, <2>1, <2>2, <2>3, <2>4, <2>5, <2>6, <2>7, <2>8, <2>9, <2>10
             DEF Started, FreshPage
<1>9. ASSUME Update PROVE WindowTypes'
  <2>0. events # <<>> /\ Head(events) \in Events /\ Tail(events) \in Seq(Events)
          /\ Head(events).rec <= rec /\ Head(events).rec \in Recordings /\ rec \in Nat
    <3>1. events # <<>>
      BY <1>9 DEF Update, Next1
    <3>2. 1 \in DOMAIN events /\ Head(events) = events[1] /\ events[1] \in Events
          /\ Tail(events) \in Seq(Events)
      BY <3>1, <1>0, Left
    <3>3. events[1].rec <= rec /\ events[1].rec \in Recordings /\ rec \in Nat
      BY <3>2, RecBegun DEF Events, WindowInv, PastInv, BegunIds
    <3> QED BY <3>1, <3>2, <3>3
  <2>1. rec' \in Nat /\ excused' \subseteq 1..rec'
    <3>1. Head(events).rec \in 1..rec
      BY <2>0, <1>0 DEF Recordings
    <3>2. excused' \subseteq excused \cup {Head(events).rec} /\ rec' = rec
      BY <1>9 DEF Update
    <3> QED BY <1>0, <3>1, <3>2
  <2>2. events' \in Seq(Events)
    BY <1>9, <1>0, <2>0 DEF Update, Show, Next1
  <2>3. shown' \subseteq Finals
    <3>1. <<Head(events).rec, Head(events).seg>> \in Finals
      <4>1. events[1].kind = "final" /\ Head(events) = events[1] /\ 1 \in DOMAIN events
        BY <1>9, <1>0, <2>0, Left DEF Update, Next1
      <4>2. events[1].seg > 0
        BY <4>1 DEF WindowInv, QueueInv, OfCurrent
      <4> QED BY <4>1, <4>2, <2>0 DEF Events, Finals
    <3> QED BY <1>9, <1>0, <3>1 DEF Update, Show
  <2>4. sync' \in Syncs
    BY <1>9, <1>0, <2>0 DEF Update, Show, Next1, Syncs
  <2>5. writes' \subseteq Recordings \X Finals
    <3>1. <<Head(events).rec, Head(events).seg>> \in Finals
      <4>1. events[1].kind = "final" /\ Head(events) = events[1] /\ 1 \in DOMAIN events
        BY <1>9, <1>0, <2>0, Left DEF Update, Next1
      <4>2. events[1].seg > 0
        BY <4>1 DEF WindowInv, QueueInv, OfCurrent
      <4> QED BY <4>1, <4>2, <2>0 DEF Events, Finals
    <3>2. listening \ {Nothing} \subseteq Recordings
      BY <1>0 DEF Recordings
    <3>3. PICK g \in Finals : g = <<Head(events).rec, Head(events).seg>>
      BY <3>1
    <3>4. writes' = writes \cup {<<r, g>> : r \in listening \ {Nothing}}
      BY <1>9, <3>3 DEF Update
    <3>5. writes \subseteq Recordings \X Finals
      BY <1>0
    <3> QED BY <3>2, <3>4, <3>5
  <2> QED BY <1>9, <1>0, <2>1, <2>2, <2>3, <2>4, <2>5 DEF Update, FreshPage
<1>10. ASSUME Stopped PROVE WindowTypes'
  <2>0. events # <<>> /\ Head(events) \in Events /\ Tail(events) \in Seq(Events)
          /\ Head(events).rec <= rec /\ Head(events).rec \in Recordings /\ rec \in Nat
    <3>1. events # <<>>
      BY <1>10 DEF Stopped, Next1
    <3>2. 1 \in DOMAIN events /\ Head(events) = events[1] /\ events[1] \in Events
          /\ Tail(events) \in Seq(Events)
      BY <3>1, <1>0, Left
    <3>3. events[1].rec <= rec /\ events[1].rec \in Recordings /\ rec \in Nat
      BY <3>2, RecBegun DEF Events, WindowInv, PastInv, BegunIds
    <3> QED BY <3>1, <3>2, <3>3
  <2>1. isRecording' \in BOOLEAN
    BY <1>10, <1>0, <2>0 DEF Stopped, Next1
  <2>2. resting' \in BOOLEAN
    BY <1>10, <1>0, <2>0 DEF Stopped, Next1
  <2>3. events' \in Seq(Events)
    BY <1>10, <1>0, <2>0 DEF Stopped, Next1
  <2> QED BY <1>10, <1>0, <2>1, <2>2, <2>3 DEF Stopped, FreshPage
<1>11. ASSUME StopComplete PROVE WindowTypes'
  <2>0. events # <<>> /\ Head(events) \in Events /\ Tail(events) \in Seq(Events)
          /\ Head(events).rec <= rec /\ Head(events).rec \in Recordings /\ rec \in Nat
    <3>1. events # <<>>
      BY <1>11 DEF StopComplete, Next1
    <3>2. 1 \in DOMAIN events /\ Head(events) = events[1] /\ events[1] \in Events
          /\ Tail(events) \in Seq(Events)
      BY <3>1, <1>0, Left
    <3>3. events[1].rec <= rec /\ events[1].rec \in Recordings /\ rec \in Nat
      BY <3>2, RecBegun DEF Events, WindowInv, PastInv, BegunIds
    <3> QED BY <3>1, <3>2, <3>3
  <2>1. resting' \in BOOLEAN
    BY <1>11, <1>0, <2>0 DEF StopComplete, Next1, Call
  <2>2. events' \in Seq(Events)
    BY <1>11, <1>0, <2>0 DEF StopComplete, Next1, Call
  <2>3. handler' \in [Handlers -> Handles]
    <3>1. [pc |-> "waiting", id |-> mid, take |-> {}] \in Handles
      BY <1>0 DEF Handles
    <3>2. \/ handler' = handler
          \/ handler' = [handler EXCEPT !["provider"] = [pc |-> "waiting", id |-> mid,
                                                         take |-> {}]]
      BY <1>11 DEF StopComplete, Call
    <3> QED BY <1>0, <3>1, <3>2
  <2> QED BY <1>11, <1>0, <2>1, <2>2, <2>3 DEF StopComplete, FreshPage
<1>12. ASSUME NEW c \in Callers, StopBegin(c) PROVE WindowTypes'
  <2>1. rec' \in Nat /\ excused' \subseteq 1..rec'
    <3>1. rec \in Recordings
      BY <1>12, RecBegun DEF StopBegin
    <3>2. excused' \subseteq excused \cup {rec} /\ rec' = rec
      BY <1>12 DEF StopBegin
    <3> QED BY <1>0, <3>1, <3>2 DEF Recordings
  <2>2. manager' \in BOOLEAN
    BY <1>12, <1>0 DEF StopBegin
  <2>3. stop' \in [Callers -> StopPcs]
    <3>1. \E p \in StopPcs : stop' = [stop EXCEPT ![c] = p]
      BY <1>12 DEF StopBegin, StopPcs
    <3> QED BY <1>0, <3>1
  <2>4. clicked' \in 0..MaxRecordings
    BY <1>12, <1>0 DEF StopBegin
  <2> QED BY <1>12, <1>0, <2>1, <2>2, <2>3, <2>4 DEF StopBegin, FreshPage
<1>13. ASSUME NEW c \in Callers, StopEnd(c) PROVE WindowTypes'
  <2>1. on' \in BOOLEAN
    BY <1>13, <1>0 DEF StopEnd, Call
  <2>2. resting' \in BOOLEAN
    BY <1>13, <1>0 DEF StopEnd, Call
  <2>3. stop' \in [Callers -> StopPcs]
    <3>1. "idle" \in StopPcs /\ stop' = [stop EXCEPT ![c] = "idle"]
      BY <1>13 DEF StopEnd, StopPcs
    <3> QED BY <1>0, <3>1
  <2>4. events' \in Seq(Events)
    <3>0. rec \in Recordings
      BY <1>13, RecBegun DEF StopEnd, NoStop, Draining
    <3>1. [kind |-> "stopped", rec |-> rec, seg |-> 0] \in Events
          /\ [kind |-> "stop-complete", rec |-> rec, seg |-> 0] \in Events
      BY <1>0, <3>0 DEF Events, Kinds
    <3>2. \A q \in Seq(Events), e \in Events : Append(q, e) \in Seq(Events)
      OBVIOUS
    <3>3. \/ events' = Append(events, [kind |-> "stopped", rec |-> rec, seg |-> 0])
          \/ events' = Append(Append(events, [kind |-> "stopped", rec |-> rec, seg |-> 0]),
                              [kind |-> "stop-complete", rec |-> rec, seg |-> 0])
      BY <1>13 DEF StopEnd
    <3>4. Append(events, [kind |-> "stopped", rec |-> rec, seg |-> 0]) \in Seq(Events)
      BY <1>0, <3>1, <3>2
    <3> QED BY <3>1, <3>2, <3>3, <3>4
  <2>5. handler' \in [Handlers -> Handles]
    BY <1>13, <1>0 DEF StopEnd, Call, Handles
  <2> QED BY <1>13, <1>0, <2>1, <2>2, <2>3, <2>4, <2>5 DEF StopEnd, FreshPage
<1>14. ASSUME StopAgain PROVE WindowTypes'
  <2>1. rec' \in Nat /\ excused' \subseteq 1..rec'
    <3>0. rec \in Recordings
      BY <1>14, RecBegun DEF StopAgain, AllRest
    <3> QED BY <1>14, <1>0, <3>0 DEF StopAgain, Recordings
  <2>2. events' \in Seq(Events)
    <3>0. rec \in Recordings
      BY <1>14, RecBegun DEF StopAgain, AllRest
    <3>1. [kind |-> "stop-complete", rec |-> rec, seg |-> 0] \in Events
      BY <1>14, <1>0, <3>0 DEF StopAgain, Events, Kinds, Recordings
    <3> QED BY <1>14, <1>0, <3>1 DEF StopAgain
  <2> QED BY <1>14, <1>0, <2>1, <2>2 DEF StopAgain, FreshPage
<1>15. ASSUME StopLost PROVE WindowTypes'
  <2>1. on' \in BOOLEAN
    BY <1>15, <1>0 DEF StopLost
  <2>2. stop' \in [Callers -> StopPcs]
    <3>1. "idle" \in StopPcs /\ stop' = [stop EXCEPT !["controls"] = "idle"]
      BY <1>15 DEF StopLost, StopPcs
    <3> QED BY <1>0, <3>1
  <2>3. events' \in Seq(Events)
    <3>0. rec \in Recordings
      BY <1>15, RecBegun DEF StopLost, NoStop, Draining, Callers
    <3>1. [kind |-> "stopped", rec |-> rec, seg |-> 0] \in Events
      BY <1>15, <1>0, <3>0 DEF StopLost, Events, Kinds, Recordings
    <3> QED BY <1>15, <1>0, <3>1 DEF StopLost
  <2> QED BY <1>15, <1>0, <2>1, <2>2, <2>3 DEF StopLost, FreshPage
<1>16. ASSUME NEW h \in Handlers, Waited(h) PROVE WindowTypes'
  <2>1. resting' \in BOOLEAN
    BY <1>16, <1>0 DEF Waited
  <2>2. handler' \in [Handlers -> Handles]
    <3>1. handler' = [handler EXCEPT ![h] = [handler[h] EXCEPT !.pc = "saving", !.take = shown]]
      BY <1>16, <1>0 DEF Waited
    <3>2. handler[h] \in Handles
          /\ [handler[h] EXCEPT !.pc = "saving", !.take = shown] \in Handles
      BY <1>0 DEF Handles
    <3> QED BY <1>0, <3>1, <3>2
  <2> QED BY <1>16, <1>0, <2>1, <2>2 DEF Waited, FreshPage
<1>17. ASSUME NEW h \in Handlers, Save(h) PROVE WindowTypes'
  <2>1. handler' \in [Handlers -> Handles]
    <3>1. handler' = [handler EXCEPT ![h] = [handler[h] EXCEPT !.pc = "marking"]]
      BY <1>17, <1>0 DEF Save
    <3>2. [handler[h] EXCEPT !.pc = "marking"] \in Handles
      BY ZenonT(30), <1>0 DEF Handles
    <3> QED BY <1>0, <3>1, <3>2
  <2>2. saves' \in Seq(SUBSET Finals)
    <3>1. handler[h] \in Handles /\ handler[h].take \in SUBSET Finals
      BY <1>0 DEF Handles
    <3> QED BY <1>17, <1>0, <3>1 DEF Save
  <2> QED BY <1>17, <1>0, <2>1, <2>2 DEF Save, FreshPage
<1>18. ASSUME NEW h \in Handlers, SaveFails(h) PROVE WindowTypes'
  <2>1. resting' \in BOOLEAN
    BY <1>18, <1>0 DEF SaveFails, Resting
  <2>2. handler' \in [Handlers -> Handles]
    BY <1>18, <1>0 DEF SaveFails, Resting, Handles
  <2> QED BY <1>18, <1>0, <2>1, <2>2 DEF SaveFails, FreshPage
<1>19. ASSUME NEW h \in Handlers, Mark(h) PROVE WindowTypes'
  <2>1. rec' \in Nat /\ excused' \subseteq 1..rec'
    <3>1. stored # Nothing => stored \in 1..rec
      BY <1>0 DEF PastInv, BegunIds, WindowInv
    <3>2. excused' \subseteq excused \cup {stored} /\ rec' = rec
          /\ (stored = Nothing => excused' = excused)
      BY <1>19 DEF Mark
    <3> QED BY <1>0, <3>1, <3>2
  <2>2. resting' \in BOOLEAN
    BY <1>19, <1>0 DEF Mark, MarkSaved, SwitchTo, Resting
  <2>3. mid' \in 0..MaxRecordings
    BY <1>19, <1>0 DEF Mark, MarkSaved, SwitchTo, Resting
  <2>4. stored' \in 0..MaxRecordings
    BY <1>19, <1>0 DEF Mark, MarkSaved, SwitchTo, Resting
  <2>5. listening' \subseteq 0..MaxRecordings
    BY <1>19, <1>0 DEF Mark, MarkSaved, SwitchTo, Resting
  <2>6. pending' \subseteq 0..MaxRecordings
    <3>1. pending' \subseteq pending \cup {Nothing}
      BY <1>19 DEF Mark, SwitchTo
    <3> QED BY <1>0, <3>1
  <2>7. handler' \in [Handlers -> Handles]
    BY <1>19, <1>0 DEF Mark, MarkSaved, SwitchTo, Resting, Handles
  <2>8. timers' \in Nat
    BY <1>19, <1>0 DEF Mark, MarkSaved, SwitchTo, Resting
  <2>9. meta' \in [Recordings -> {"absent", "unsaved", "saved"}]
    BY <1>19, <1>0 DEF Mark, MarkSaved, SwitchTo, Resting
  <2> QED BY <1>19, <1>0, <2>1, <2>2, <2>3, <2>4, <2>5, <2>6, <2>7, <2>8, <2>9
             DEF Mark, FreshPage
<1>20. ASSUME ClearLater PROVE WindowTypes'
  <2>1. rec' \in Nat /\ excused' \subseteq 1..rec'
    <3>1. on \/ Saving => rec \in Recordings
      <4>1. StopComing => events # <<>>
        BY DEF StopComing
      <4> QED BY <4>1, RecBegun DEF Saving, AllRest
    <3> QED BY <1>20, <1>0, <3>1 DEF ClearLater, Recordings
  <2>2. resting' \in BOOLEAN
    BY <1>20, <1>0 DEF ClearLater, Show
  <2>3. shown' \subseteq Finals
    BY <1>20, <1>0 DEF ClearLater, Show
  <2>4. sync' \in Syncs
    BY <1>20, <1>0 DEF ClearLater, Show, Syncs
  <2>5. timers' \in Nat
    BY <1>20, <1>0 DEF ClearLater, Show
  <2> QED BY <1>20, <1>0, <2>1, <2>2, <2>3, <2>4, <2>5 DEF ClearLater, FreshPage
<1>21. ASSUME Check PROVE WindowTypes'
  <2>1. rec' \in Nat /\ excused' \subseteq 1..rec'
    <3>1. excused' \subseteq excused \cup ({rec} \cap Recordings) /\ rec' = rec
      BY <1>21 DEF Check
    <3> QED BY <1>0, <3>1 DEF Recordings
  <2>2. offered' \subseteq Recordings
    BY <1>21, <1>0 DEF Check
  <2> QED BY <1>21, <1>0, <2>1, <2>2 DEF Check, FreshPage
<1>22. ASSUME NEW r \in Recordings, RecoverRead(r) PROVE WindowTypes'
  <2>1. recovery' \in Recoveries
    <3>1. recovery' = [pc |-> "read", id |-> r, take |-> copy[r]] /\ copy[r] \in SUBSET Finals
          /\ r \in 0..MaxRecordings
      BY <1>22, <1>0 DEF RecoverRead, Recordings
    <3> QED BY <3>1 DEF Recoveries
  <2>2. late' \subseteq Finals
    BY <1>22, <1>0 DEF RecoverRead
  <2> QED BY <1>22, <1>0, <2>1, <2>2 DEF RecoverRead, FreshPage
<1>23. ASSUME RecoverSave PROVE WindowTypes'
  <2>1. saves' \in Seq(SUBSET Finals)
    <3>1. recovery.take \in SUBSET Finals
      BY <1>0 DEF Recoveries
    <3> QED BY <1>23, <1>0, <3>1 DEF RecoverSave
  <2>2. recovery' \in Recoveries
    BY <1>23, <1>0 DEF RecoverSave, Recoveries
  <2> QED BY <1>23, <1>0, <2>1, <2>2 DEF RecoverSave, FreshPage
<1>24. ASSUME RecoverFails PROVE WindowTypes'
  <2>1. recovery' \in Recoveries
    BY <1>24, <1>0 DEF RecoverFails, Resting, Recoveries
  <2> QED BY <1>24, <1>0, <2>1 DEF RecoverFails, FreshPage
<1>25. ASSUME RecoverMark PROVE WindowTypes'
  <2>1. meta' \in [Recordings -> {"absent", "unsaved", "saved"}]
    BY <1>25, <1>0 DEF RecoverMark, MarkSaved, Resting
  <2>2. offered' \subseteq Recordings
    BY <1>25, <1>0 DEF RecoverMark, MarkSaved, Resting
  <2>3. recovery' \in Recoveries
    BY <1>25, <1>0 DEF RecoverMark, MarkSaved, Resting, Recoveries
  <2> QED BY <1>25, <1>0, <2>1, <2>2, <2>3 DEF RecoverMark, FreshPage
<1>26. ASSUME NEW r \in Recordings, Remove(r) PROVE WindowTypes'
  <2>1. meta' \in [Recordings -> {"absent", "unsaved", "saved"}]
    BY <1>26, <1>0 DEF Remove
  <2>2. copy' \in [Recordings -> SUBSET Finals]
    BY <1>26, <1>0 DEF Remove
  <2>3. offered' \subseteq Recordings
    BY <1>26, <1>0 DEF Remove
  <2> QED BY <1>26, <1>0, <2>1, <2>2, <2>3 DEF Remove, FreshPage
<1>27. ASSUME Reload PROVE WindowTypes'
  <2>1. rec' \in Nat /\ excused' \subseteq 1..rec'
    <3>1. Interrupted \ {Nothing} \subseteq 1..rec
      <4>1. on \/ ~AllRest \/ recovery.pc # "idle" => rec \in 1..rec
        BY <1>0, RecBegun DEF Recordings
      <4>2. recovery.pc = "saved" => recovery.id \in 1..rec
        BY <1>0 DEF WindowInv, PastInv, BegunIds, Recoveries
      <4>3. \A i \in DOMAIN events : events[i].rec \in 1..rec
        <5>1. \A i \in DOMAIN events : events[i] \in Events
          BY <1>0
        <5> QED BY <1>0, <5>1 DEF WindowInv, PastInv, BegunIds, Events, Recordings
      <4> QED BY <4>1, <4>2, <4>3 DEF Interrupted, AllRest
    <3> QED BY <1>27, <1>0, <3>1 DEF Reload
  <2>2. isRecording' \in BOOLEAN
    BY <1>27, <1>0 DEF Reload, FreshPage, Resting, Silent
  <2>3. resting' \in BOOLEAN
    BY <1>27, <1>0 DEF Reload, FreshPage, Resting, Silent
  <2>4. starting' \in BOOLEAN
    BY <1>27, <1>0 DEF Reload, FreshPage, Resting, Silent
  <2>5. stop' \in [Callers -> StopPcs]
    <3>1. \E p \in StopPcs : stop' = [stop EXCEPT !["controls"] = p]
      <4>1. stop["controls"] \in StopPcs /\ "lost" \in StopPcs
        BY <1>0 DEF StopPcs
      <4>2. CASE stop["controls"] = "idle"
        BY <1>27, <4>1, <4>2 DEF Reload
      <4>3. CASE stop["controls"] # "idle"
        BY <1>27, <4>1, <4>3 DEF Reload
      <4> QED BY <4>2, <4>3
    <3> QED BY <1>0, <3>1
  <2>6. events' \in Seq(Events)
    BY <1>27, <1>0 DEF Reload, FreshPage, Resting, Silent
  <2>7. mid' \in 0..MaxRecordings
    BY <1>27, <1>0 DEF Reload, FreshPage, Resting, Silent
  <2>8. listening' \subseteq 0..MaxRecordings
    BY <1>27, <1>0 DEF Reload, FreshPage, Resting, Silent
  <2>9. pending' \subseteq 0..MaxRecordings
    BY <1>27, <1>0 DEF Reload, FreshPage, Resting, Silent
  <2>10. shown' \subseteq Finals
    BY <1>27, <1>0 DEF Reload, FreshPage, Resting, Silent
  <2>11. sync' \in Syncs
    BY <1>27, <1>0 DEF Reload, FreshPage, Resting, Silent, Syncs
  <2>12. handler' \in [Handlers -> Handles]
    BY <1>27, <1>0 DEF Reload, FreshPage, Resting, Silent, Handles
  <2>13. timers' \in Nat
    BY <1>27, <1>0 DEF Reload, FreshPage, Resting, Silent
  <2>14. offered' \subseteq Recordings
    BY <1>27, <1>0 DEF Reload, FreshPage, Resting, Silent
  <2>15. recovery' \in Recoveries
    BY <1>27, <1>0 DEF Reload, FreshPage, Resting, Silent, Recoveries
  <2>16. breaks' \in 0..MaxBreaks
    BY <1>27, <1>0 DEF Reload, FreshPage, Resting, Silent
  <2> QED BY <1>27, <1>0, <2>1, <2>2, <2>3, <2>4, <2>5, <2>6, <2>7, <2>8, <2>9, <2>10, <2>11,
             <2>12, <2>13, <2>14, <2>15, <2>16
             DEF Reload, FreshPage
<1>28. ASSUME Crash PROVE WindowTypes'
  <2>1. said' \in 0..MaxSegments
    BY <1>28, <1>0 DEF Crash, FreshPage, Resting, Silent
  <2>2. rec' \in Nat /\ excused' \subseteq 1..rec'
    <3>1. Interrupted \ {Nothing} \subseteq 1..rec
      <4>1. on \/ ~AllRest \/ recovery.pc # "idle" => rec \in 1..rec
        BY <1>0, RecBegun DEF Recordings
      <4>2. recovery.pc = "saved" => recovery.id \in 1..rec
        BY <1>0 DEF WindowInv, PastInv, BegunIds, Recoveries
      <4>3. \A i \in DOMAIN events : events[i].rec \in 1..rec
        <5>1. \A i \in DOMAIN events : events[i] \in Events
          BY <1>0
        <5> QED BY <1>0, <5>1 DEF WindowInv, PastInv, BegunIds, Events, Recordings
      <4> QED BY <4>1, <4>2, <4>3 DEF Interrupted, AllRest
    <3> QED BY <1>28, <1>0, <3>1 DEF Crash
  <2>3. on' \in BOOLEAN
    BY <1>28, <1>0 DEF Crash, FreshPage, Resting, Silent
  <2>4. manager' \in BOOLEAN
    BY <1>28, <1>0 DEF Crash, FreshPage, Resting, Silent
  <2>5. isRecording' \in BOOLEAN
    BY <1>28, <1>0 DEF Crash, FreshPage, Resting, Silent
  <2>6. resting' \in BOOLEAN
    BY <1>28, <1>0 DEF Crash, FreshPage, Resting, Silent
  <2>7. starting' \in BOOLEAN
    BY <1>28, <1>0 DEF Crash, FreshPage, Resting, Silent
  <2>8. stop' \in [Callers -> StopPcs]
    BY <1>28 DEF Crash, StopPcs
  <2>9. clicked' \in 0..MaxRecordings
    BY <1>28, <1>0 DEF Crash, FreshPage, Resting, Silent
  <2>10. events' \in Seq(Events)
    BY <1>28, <1>0 DEF Crash, FreshPage, Resting, Silent
  <2>11. mid' \in 0..MaxRecordings
    BY <1>28, <1>0 DEF Crash, FreshPage, Resting, Silent
  <2>12. stored' \in 0..MaxRecordings
    BY <1>28, <1>0 DEF Crash, FreshPage, Resting, Silent
  <2>13. listening' \subseteq 0..MaxRecordings
    BY <1>28, <1>0 DEF Crash, FreshPage, Resting, Silent
  <2>14. pending' \subseteq 0..MaxRecordings
    BY <1>28, <1>0 DEF Crash, FreshPage, Resting, Silent
  <2>15. shown' \subseteq Finals
    BY <1>28, <1>0 DEF Crash, FreshPage, Resting, Silent
  <2>16. sync' \in Syncs
    BY <1>28, <1>0 DEF Crash, FreshPage, Resting, Silent, Syncs
  <2>17. handler' \in [Handlers -> Handles]
    BY <1>28, <1>0 DEF Crash, FreshPage, Resting, Silent, Handles
  <2>18. timers' \in Nat
    BY <1>28, <1>0 DEF Crash, FreshPage, Resting, Silent
  <2>19. offered' \subseteq Recordings
    BY <1>28, <1>0 DEF Crash, FreshPage, Resting, Silent
  <2>20. recovery' \in Recoveries
    BY <1>28, <1>0 DEF Crash, FreshPage, Resting, Silent, Recoveries
  <2>21. breaks' \in 0..MaxBreaks
    BY <1>28, <1>0 DEF Crash, FreshPage, Resting, Silent
  <2> QED BY <1>28, <1>0, <2>1, <2>2, <2>3, <2>4, <2>5, <2>6, <2>7, <2>8, <2>9, <2>10, <2>11,
             <2>12, <2>13, <2>14, <2>15, <2>16, <2>17, <2>18, <2>19, <2>20, <2>21
             DEF Crash, FreshPage
<1>30. ASSUME NEW w \in writes, Filed(w) PROVE WindowTypes'
  <2>1. w[1] \in Recordings /\ w[2] \in Finals
    BY <1>0
  <2>2. copy' \in [Recordings -> SUBSET Finals]
    BY <1>30, <1>0, <2>1 DEF Filed
  <2>3. writes' \subseteq Recordings \X Finals
    BY <1>30, <1>0 DEF Filed
  <2> QED BY <1>30, <1>0, <2>2, <2>3 DEF Filed
<1>31. ASSUME NEW w \in writes, FilingFails(w) PROVE WindowTypes'
  <2>1. w[2] \in Finals
    BY <1>0
  <2>2. writes' \subseteq Recordings \X Finals /\ unfiled' \subseteq Finals
    BY <1>31, <1>0, <2>1 DEF FilingFails
  <2> QED BY <1>31, <1>0, <2>2 DEF FilingFails
<1>29. CASE UNCHANGED windowVars
  BY <1>29, <1>0 DEF windowVars
<1> HIDE DEF WindowTypes, backend, page, disk, filing, Nothing, Handlers, Callers
<1> QED
  BY <1>1, <1>2, <1>3, <1>4, <1>5, <1>6, <1>7, <1>8, <1>9, <1>10, <1>11,
     <1>12, <1>13, <1>14, <1>15, <1>16, <1>17, <1>18, <1>19, <1>20, <1>21,
     <1>22, <1>23, <1>24, <1>25, <1>26, <1>27, <1>28, <1>29,
     <1>30, <1>31
  DEF OtherStep, MarkUnmade, WindowNext, Deliver, Filing, Listen, Stopping, Recovering

(* Which actions write which variable.                                      *)
Writes ==
    /\ \/ rec' = rec \/ Start
    /\ \/ said' = said \/ Start \/ Emit \/ Crash
    /\ \/ excused' = excused \/ SyncSet \/ Start \/ Started \/ Update
       \/ (\E c \in Callers : StopBegin(c)) \/ StopAgain
       \/ (\E h \in Handlers : Mark(h)) \/ ClearLater \/ Check \/ Reload \/ Crash
    /\ \/ on' = on \/ Start \/ (\E c \in Callers : StopEnd(c)) \/ StopLost \/ Crash
    /\ \/ manager' = manager \/ Start \/ (\E c \in Callers : StopBegin(c)) \/ Crash
    /\ \/ isRecording' = isRecording \/ SyncState \/ Started \/ Stopped \/ Reload
       \/ Crash
    /\ \/ resting' = resting \/ Start \/ Started \/ Stopped \/ StopComplete
       \/ (\E c \in Callers : StopEnd(c)) \/ (\E h \in Handlers : Waited(h))
       \/ (\E h \in Handlers : SaveFails(h)) \/ (\E h \in Handlers : Mark(h))
       \/ ClearLater \/ Reload \/ Crash
    /\ \/ starting' = starting \/ Start \/ StartReturned \/ Reload \/ Crash
    /\ \/ stop' = stop \/ (\E c \in Callers : StopBegin(c))
       \/ (\E c \in Callers : StopEnd(c)) \/ StopLost \/ Reload \/ Crash
    /\ \/ clicked' = clicked \/ (\E c \in Callers : StopBegin(c)) \/ Crash
    /\ \/ events' = events \/ Start \/ Emit \/ Started \/ Update \/ Stopped
       \/ StopComplete \/ (\E c \in Callers : StopEnd(c)) \/ StopAgain \/ StopLost
       \/ Reload \/ Crash
    /\ \/ mid' = mid \/ Started \/ (\E h \in Handlers : Mark(h)) \/ Reload \/ Crash
    /\ \/ stored' = stored \/ Started \/ (\E h \in Handlers : Mark(h)) \/ Crash
    /\ \/ listening' = listening \/ (\E id \in 0..MaxRecordings : Registered(id))
       \/ Started \/ (\E h \in Handlers : Mark(h)) \/ Reload \/ Crash
    /\ \/ pending' = pending \/ (\E id \in 0..MaxRecordings : Registered(id))
       \/ Started \/ (\E h \in Handlers : Mark(h)) \/ Reload \/ Crash
    /\ \/ shown' = shown \/ SyncSet \/ StartReturned \/ Update \/ ClearLater
       \/ Reload \/ Crash
    /\ \/ sync' = sync \/ SyncRead \/ SyncSet \/ SyncState \/ StartReturned
       \/ Started \/ Update \/ ClearLater \/ Reload \/ Crash
    /\ \/ handler' = handler \/ StopComplete \/ (\E c \in Callers : StopEnd(c))
       \/ (\E h \in Handlers : Waited(h)) \/ (\E h \in Handlers : Save(h))
       \/ (\E h \in Handlers : SaveFails(h)) \/ (\E h \in Handlers : Mark(h))
       \/ Reload \/ Crash
    /\ \/ timers' = timers \/ (\E h \in Handlers : Mark(h)) \/ ClearLater \/ Reload
       \/ Crash
    /\ \/ meta' = meta \/ Started \/ (\E h \in Handlers : Mark(h)) \/ RecoverMark
       \/ (\E r \in Recordings : Remove(r))
    /\ \/ given' = given \/ Update \/ (\E r \in Recordings : Remove(r))
       \/ (\E w \in writes : FilingFails(w)) \/ Reload \/ Crash
    /\ \/ unfiled' = unfiled \/ (\E w \in writes : FilingFails(w))
    /\ \/ late' = late \/ (\E r \in Recordings : RecoverRead(r))
    /\ \/ saves' = saves \/ (\E h \in Handlers : Save(h)) \/ RecoverSave
    /\ \/ offered' = offered \/ Check \/ RecoverMark
       \/ (\E r \in Recordings : Remove(r)) \/ Reload \/ Crash
    /\ \/ recovery' = recovery \/ (\E r \in Recordings : RecoverRead(r))
       \/ RecoverSave \/ RecoverFails \/ RecoverMark \/ Reload \/ Crash
    /\ \/ breaks' = breaks \/ Reload \/ Crash

(* Nothing else writes it.                                                  *)
LEMMA Writers ==
    WindowInv /\ OtherStep => Writes
<1> SUFFICES ASSUME WindowInv, OtherStep PROVE Writes
  OBVIOUS
<1>1. ASSUME NEW id \in 0..MaxRecordings, Registered(id) PROVE Writes
  BY <1>1 DEF Writes, Registered, backend, page, disk, filing, given
<1>2. ASSUME SyncRead PROVE Writes
  BY <1>2 DEF Writes, SyncRead, backend, page, disk, filing, given
<1>3. ASSUME SyncSet PROVE Writes
  BY <1>3 DEF Writes, SyncSet, backend, page, disk, filing, given
<1>4. ASSUME SyncState PROVE Writes
  BY <1>4 DEF Writes, SyncState, backend, page, disk, filing, given
<1>5. ASSUME Start PROVE Writes
  BY <1>5 DEF Writes, Start, backend, page, disk, filing, given
<1>6. ASSUME StartReturned PROVE Writes
  BY <1>6 DEF Writes, StartReturned, backend, page, disk, filing, given
<1>7. ASSUME Emit PROVE Writes
  BY <1>7 DEF Writes, Emit, backend, page, disk, filing, given
<1>8. ASSUME Started PROVE Writes
  BY <1>8 DEF Writes, Started, backend, page, disk, filing, given
<1>9. ASSUME Update PROVE Writes
  BY <1>9 DEF Writes, Update, backend, page, disk, filing, given
<1>10. ASSUME Stopped PROVE Writes
  BY <1>10 DEF Writes, Stopped, backend, page, disk, filing, given
<1>11. ASSUME StopComplete PROVE Writes
  BY <1>11 DEF Writes, StopComplete, backend, page, disk, filing, given
<1>12. ASSUME NEW c \in Callers, StopBegin(c) PROVE Writes
  BY <1>12 DEF Writes, StopBegin, backend, page, disk, filing, given
<1>13. ASSUME NEW c \in Callers, StopEnd(c) PROVE Writes
  BY <1>13 DEF Writes, StopEnd, backend, page, disk, filing, given
<1>14. ASSUME StopAgain PROVE Writes
  BY <1>14 DEF Writes, StopAgain, backend, page, disk, filing, given
<1>15. ASSUME StopLost PROVE Writes
  BY <1>15 DEF Writes, StopLost, backend, page, disk, filing, given
<1>16. ASSUME NEW h \in Handlers, Waited(h) PROVE Writes
  BY <1>16 DEF Writes, Waited, backend, page, disk, filing, given
<1>17. ASSUME NEW h \in Handlers, Save(h) PROVE Writes
  BY <1>17 DEF Writes, Save, backend, page, disk, filing, given
<1>18. ASSUME NEW h \in Handlers, SaveFails(h) PROVE Writes
  BY <1>18 DEF Writes, SaveFails, backend, page, disk, filing, given
<1>19. ASSUME NEW h \in Handlers, Mark(h) PROVE Writes
  BY <1>19 DEF Writes, Mark, backend, page, disk, filing, given
<1>20. ASSUME ClearLater PROVE Writes
  BY <1>20 DEF Writes, ClearLater, backend, page, disk, filing, given
<1>21. ASSUME Check PROVE Writes
  BY <1>21 DEF Writes, Check, backend, page, disk, filing, given
<1>22. ASSUME NEW r \in Recordings, RecoverRead(r) PROVE Writes
  BY <1>22 DEF Writes, RecoverRead, backend, page, disk, filing, given
<1>23. ASSUME RecoverSave PROVE Writes
  BY <1>23 DEF Writes, RecoverSave, backend, page, disk, filing, given
<1>24. ASSUME RecoverFails PROVE Writes
  BY <1>24 DEF Writes, RecoverFails, backend, page, disk, filing, given
<1>25. ASSUME RecoverMark PROVE Writes
  BY <1>25 DEF Writes, RecoverMark, backend, page, disk, filing, given
<1>26. ASSUME NEW r \in Recordings, Remove(r) PROVE Writes
  BY <1>26 DEF Writes, Remove, backend, page, disk, filing, given
<1>27. ASSUME Reload PROVE Writes
  BY <1>27 DEF Writes, Reload, backend, page, disk, filing, given
<1>28. ASSUME Crash PROVE Writes
  BY <1>28 DEF Writes, Crash, backend, page, disk, filing, given
<1>30. ASSUME NEW w \in writes, Filed(w) PROVE Writes
  <2>1. w \in Recordings \X Finals /\ copy \in [Recordings -> SUBSET Finals]
    BY DEF WindowInv, WindowTypes
  <2>2. w = <<w[1], w[2]>> /\ w[1] \in Recordings /\ w[2] \in Finals
    BY <2>1
  <2>3. writes' = writes \ {w} /\ copy' = [copy EXCEPT ![w[1]] = @ \cup {w[2]}]
    BY <1>30 DEF Filed
  <2>4. \A r \in Recordings :
            copy'[r] \cup {f \in Finals : <<r, f>> \in writes'}
                = copy[r] \cup {f \in Finals : <<r, f>> \in writes}
    <3>1. ASSUME NEW r \in Recordings, r # w[1]
          PROVE  /\ copy'[r] = copy[r]
                 /\ \A f \in Finals : <<r, f>> \in writes' <=> <<r, f>> \in writes
      BY <2>1, <2>2, <2>3, <3>1
    <3>2. /\ copy'[w[1]] = copy[w[1]] \cup {w[2]}
          /\ \A f \in Finals : <<w[1], f>> \in writes' <=> <<w[1], f>> \in writes /\ f # w[2]
          /\ <<w[1], w[2]>> \in writes
      BY <2>1, <2>2, <2>3
    <3> QED BY <2>2, <3>1, <3>2
  <2>5. given' = given
    BY <2>4 DEF given
  <2> QED BY <1>30, <2>5 DEF Writes, Filed, backend, page, disk, filing
<1>31. ASSUME NEW w \in writes, FilingFails(w) PROVE Writes
  BY <1>31 DEF Writes, FilingFails, backend, page
<1>29. CASE UNCHANGED windowVars
  BY <1>29 DEF Writes, windowVars, backend, page, disk, filing, given
<1> QED
  BY <1>1, <1>2, <1>3, <1>4, <1>5, <1>6, <1>7, <1>8, <1>9, <1>10, <1>11,
     <1>12, <1>13, <1>14, <1>15, <1>16, <1>17, <1>18, <1>19, <1>20, <1>21,
     <1>22, <1>23, <1>24, <1>25, <1>26, <1>27, <1>28, <1>29,
     <1>30, <1>31
  DEF OtherStep, MarkUnmade, WindowNext, Deliver, Filing, Listen, Stopping, Recovering

(* The histories only grow.                                                 *)
LEMMA HistoriesGrow ==
    WindowInv /\ OtherStep => unfiled \subseteq unfiled' /\ late \subseteq late'
<1>1. \A w : FilingFails(w) => unfiled \subseteq unfiled'
  BY DEF FilingFails
<1>2. \A r : RecoverRead(r) => late \subseteq late'
  BY DEF RecoverRead
<1> QED BY <1>1, <1>2, Writers DEF Writes

(* An event of kind k joins q, or leaves it.                                *)
Joins(q, p, k, r, s) ==
    /\ Len(q) \in Nat /\ DOMAIN q = 1..Len(q)
    /\ Len(p) = Len(q) + 1 /\ DOMAIN p = 1..(Len(q) + 1)
    /\ \A i \in DOMAIN q : p[i] = q[i]
    /\ p[Len(q) + 1].kind = k /\ p[Len(q) + 1].rec = r /\ p[Len(q) + 1].seg = s
    /\ p # <<>> /\ p[1] = IF q = <<>> THEN p[Len(q) + 1] ELSE q[1]
    /\ q = <<>> <=> Len(q) = 0
    /\ \A j : KindIn(p, j) <=> KindIn(q, j) \/ j = k
    /\ PairsIn(p) = PairsIn(q) \cup {<<r, s>>}
Leaves(q, p, k) ==
    /\ q # <<>> /\ Len(q) \in Nat \ {0} /\ DOMAIN q = 1..Len(q) /\ 1 \in DOMAIN q
    /\ Head(q) = q[1] /\ q[1] \in Events /\ q[1].kind = k
    /\ Len(p) = Len(q) - 1 /\ DOMAIN p = 1..(Len(q) - 1)
    /\ \A i \in DOMAIN p : i + 1 \in DOMAIN q /\ p[i] = q[i + 1]
    /\ p = <<>> <=> Len(q) = 1
    /\ \A j : KindIn(q, j) <=> KindIn(p, j) \/ j = k
    /\ PairsIn(q) = PairsIn(p) \cup {<<q[1].rec, q[1].seg>>}

(* Append joins an event, as far as the proofs look.                        *)
LEMMA Join ==
    ASSUME NEW q \in Seq(Events), NEW k, NEW r, NEW s,
           [kind |-> k, rec |-> r, seg |-> s] \in Events
    PROVE  LET e == [kind |-> k, rec |-> r, seg |-> s]
           IN Append(q, e) \in Seq(Events) /\ Joins(q, Append(q, e), k, r, s)
<1> DEFINE e == [kind |-> k, rec |-> r, seg |-> s]
<1>1. e \in Events /\ e.kind = k /\ e.rec = r /\ e.seg = s
  OBVIOUS
<1> HIDE DEF e
<1>2. q # <<>> => 1 \in DOMAIN q /\ Len(q) # 0
  OBVIOUS
<1>3. Append(q, e) \in Seq(Events) /\ Joins(q, Append(q, e), k, r, s)
  <2>1. /\ Len(q) \in Nat /\ DOMAIN q = 1..Len(q)
        /\ Len(Append(q, e)) = Len(q) + 1 /\ DOMAIN Append(q, e) = 1..(Len(q) + 1)
        /\ \A i \in DOMAIN q : Append(q, e)[i] = q[i]
        /\ Append(q, e)[Len(q) + 1] = e /\ Append(q, e) # <<>>
        /\ Append(q, e) \in Seq(Events)
    BY <1>1, Joined
  <2>2. /\ \A j : KindIn(Append(q, e), j) <=> KindIn(q, j) \/ j = k
        /\ PairsIn(Append(q, e)) = PairsIn(q) \cup {<<r, s>>}
    BY <1>1, JoinedKinds
  <2>3. q = <<>> <=> Len(q) = 0
    BY <1>2
  <2>4. Append(q, e)[1] = IF q = <<>> THEN Append(q, e)[Len(q) + 1] ELSE q[1]
    BY <2>1, <2>3, <1>2
  <2> QED BY <1>1, <2>1, <2>2, <2>3, <2>4 DEF Joins
<1> QED BY <1>3 DEF e

(* Tail takes the first one away.                                           *)
LEMMA Leave ==
    ASSUME NEW q \in Seq(Events), q # <<>>, NEW k, Head(q).kind = k
    PROVE  Leaves(q, Tail(q), k)
<1>1. /\ Len(q) \in Nat \ {0} /\ Len(Tail(q)) = Len(q) - 1
      /\ DOMAIN q = 1..Len(q) /\ DOMAIN Tail(q) = 1..(Len(q) - 1)
      /\ \A i \in DOMAIN Tail(q) : i + 1 \in DOMAIN q /\ Tail(q)[i] = q[i + 1]
      /\ Head(q) = q[1] /\ q[1] \in Events
  BY Left
<1>2. Tail(q) = <<>> <=> Len(q) = 1
  BY <1>1, Left
<1>3. /\ \A j : KindIn(q, j) <=> KindIn(Tail(q), j) \/ j = k
      /\ PairsIn(q) = PairsIn(Tail(q)) \cup {<<q[1].rec, q[1].seg>>}
  BY <1>1, LeftKinds
<1> QED BY <1>1, <1>2, <1>3 DEF Leaves

(* What the steps do to the queue.                                          *)
LEMMA Queued ==
    ASSUME WindowInv
    PROVE  /\ Start => Joins(events, events', "started", rec + 1, 0)
           /\ Emit => Joins(events, events', "final", rec, said + 1)
           /\ StopAgain => Joins(events, events', "stop-complete", rec, 0)
           /\ StopLost => Joins(events, events', "stopped", rec, 0)
           /\ StopEnd("controls") => Joins(events, events', "stopped", rec, 0)
           /\ StopEnd("tray") => \E q : /\ Joins(events, q, "stopped", rec, 0)
                                        /\ Joins(q, events', "stop-complete", rec, 0)
           /\ Started => Leaves(events, events', "started")
           /\ Update => Leaves(events, events', "final")
           /\ Stopped => Leaves(events, events', "stopped")
           /\ StopComplete => Leaves(events, events', "stop-complete")
<1>0. /\ events \in Seq(Events) /\ rec \in 0..MaxRecordings /\ said \in 0..MaxSegments
      /\ MaxRecordings \in Nat /\ MaxSegments \in Nat
  BY WindowAssumption DEF WindowInv, WindowTypes
<1>1. Start => Joins(events, events', "started", rec + 1, 0)
  <2> SUFFICES ASSUME Start PROVE Joins(events, events', "started", rec + 1, 0)
    OBVIOUS
  <2>1. [kind |-> "started", rec |-> rec + 1, seg |-> 0] \in Events
    BY <1>0 DEF Start, Events, Kinds, Recordings
  <2> QED BY <1>0, <2>1, Join DEF Start
<1>2. Emit => Joins(events, events', "final", rec, said + 1)
  <2> SUFFICES ASSUME Emit PROVE Joins(events, events', "final", rec, said + 1)
    OBVIOUS
  <2>1. rec \in Recordings
    BY RecBegun DEF Emit, NoStop, Draining
  <2>2. [kind |-> "final", rec |-> rec, seg |-> said + 1] \in Events
    BY <1>0, <2>1 DEF Emit, Events, Kinds
  <2> QED BY <1>0, <2>2, Join DEF Emit
<1>3. \A k \in Kinds : rec \in Recordings => [kind |-> k, rec |-> rec, seg |-> 0] \in Events
  BY <1>0 DEF Events
<1>4. StopAgain => Joins(events, events', "stop-complete", rec, 0)
  <2> SUFFICES ASSUME StopAgain PROVE Joins(events, events', "stop-complete", rec, 0)
    OBVIOUS
  <2>1. [kind |-> "stop-complete", rec |-> rec, seg |-> 0] \in Events
    BY <1>3, RecBegun DEF StopAgain, AllRest, Kinds
  <2> QED BY <1>0, <2>1, Join DEF StopAgain
<1>5. StopLost => Joins(events, events', "stopped", rec, 0)
  <2> SUFFICES ASSUME StopLost PROVE Joins(events, events', "stopped", rec, 0)
    OBVIOUS
  <2>1. [kind |-> "stopped", rec |-> rec, seg |-> 0] \in Events
    BY <1>3, RecBegun DEF StopLost, NoStop, Draining, Callers, Kinds
  <2> QED BY <1>0, <2>1, Join DEF StopLost
<1>6. StopEnd("controls") => Joins(events, events', "stopped", rec, 0)
  <2> SUFFICES ASSUME StopEnd("controls") PROVE Joins(events, events', "stopped", rec, 0)
    OBVIOUS
  <2>1. [kind |-> "stopped", rec |-> rec, seg |-> 0] \in Events
    BY <1>3, RecBegun DEF StopEnd, NoStop, Draining, Callers, Kinds
  <2> QED BY <1>0, <2>1, Join DEF StopEnd
<1>7. StopEnd("tray") => \E q : /\ Joins(events, q, "stopped", rec, 0)
                                /\ Joins(q, events', "stop-complete", rec, 0)
  <2> SUFFICES ASSUME StopEnd("tray")
               PROVE  \E q : /\ Joins(events, q, "stopped", rec, 0)
                             /\ Joins(q, events', "stop-complete", rec, 0)
    OBVIOUS
  <2> DEFINE told == Append(events, [kind |-> "stopped", rec |-> rec, seg |-> 0])
  <2>1. rec \in Recordings
    BY RecBegun DEF StopEnd, NoStop, Draining, Callers
  <2>2. [kind |-> "stopped", rec |-> rec, seg |-> 0] \in Events
        /\ [kind |-> "stop-complete", rec |-> rec, seg |-> 0] \in Events
    BY <2>1, <1>3 DEF Kinds
  <2>3. told \in Seq(Events) /\ Joins(events, told, "stopped", rec, 0)
    BY <1>0, <2>2, Join
  <2>4. events' = Append(told, [kind |-> "stop-complete", rec |-> rec, seg |-> 0])
    BY DEF StopEnd
  <2> HIDE DEF told
  <2>5. Joins(told, events', "stop-complete", rec, 0)
    BY <2>2, <2>3, <2>4, Join
  <2> QED BY <2>3, <2>5
<1>8. Started => Leaves(events, events', "started")
  BY <1>0, Leave DEF Started, Next1
<1>9. Update => Leaves(events, events', "final")
  BY <1>0, Leave DEF Update, Next1
<1>10. Stopped => Leaves(events, events', "stopped")
  BY <1>0, Leave DEF Stopped, Next1
<1>11. StopComplete => Leaves(events, events', "stop-complete")
  BY <1>0, Leave DEF StopComplete, Next1
<1> QED BY <1>1, <1>2, <1>4, <1>5, <1>6, <1>7, <1>8, <1>9, <1>10, <1>11

(* What a save does to the database.                                        *)
Adds(q, p, take) ==
    /\ Len(q) \in Nat /\ DOMAIN q = 1..Len(q) /\ DOMAIN p = 1..(Len(q) + 1)
    /\ \A i \in DOMAIN q : p[i] = q[i]
    /\ p[Len(q) + 1] = take

(* What a save does to the meetings of the database.                        *)
LEMMA SavesDo ==
    ASSUME WindowInv
    PROVE  /\ \A h \in Handlers :
                Save(h) => /\ Adds(saves, saves', handler[h].take)
                           /\ Saved' = Saved \cup handler[h].take
           /\ RecoverSave => /\ Adds(saves, saves', recovery.take)
                             /\ Saved' = Saved \cup recovery.take
           /\ saves' = saves => Saved' = Saved
<1>0. /\ saves \in Seq(SUBSET Finals) /\ handler \in [Handlers -> Handles]
      /\ recovery \in Recoveries
  BY DEF WindowInv, WindowTypes
<1>1. \A h \in Handlers : handler[h].take \in SUBSET Finals
  BY <1>0 DEF Handles
<1>2. recovery.take \in SUBSET Finals
  BY <1>0 DEF Recoveries
<1>3. ASSUME NEW take \in SUBSET Finals, saves' = Append(saves, take)
      PROVE  Adds(saves, saves', take) /\ Saved' = Saved \cup take
  BY <1>0, <1>3, SavedGrows DEF Adds
<1>4. ASSUME NEW h \in Handlers, Save(h)
      PROVE  Adds(saves, saves', handler[h].take) /\ Saved' = Saved \cup handler[h].take
  <2>1. PICK t : t = handler[h].take
    OBVIOUS
  <2>2. t \in SUBSET Finals /\ saves' = Append(saves, t)
    BY <1>1, <1>4, <2>1 DEF Save
  <2> QED BY <1>3, <2>1, <2>2
<1>5. ASSUME RecoverSave
      PROVE  Adds(saves, saves', recovery.take) /\ Saved' = Saved \cup recovery.take
  <2>1. PICK t : t = recovery.take
    OBVIOUS
  <2>2. t \in SUBSET Finals /\ saves' = Append(saves, t)
    BY <1>2, <1>5, <2>1 DEF RecoverSave
  <2> QED BY <1>3, <2>1, <2>2
<1>6. saves' = saves => Saved' = Saved
  BY DEF Saved
<1> QED BY <1>4, <1>5, <1>6


(* One handler goes on.                                                     *)
Goes(a, b, h, p, i, take) ==
    \A g \in Handlers :
        /\ b[g].pc = IF g = h THEN p ELSE a[g].pc
        /\ b[g].id = IF g = h THEN i ELSE a[g].id
        /\ b[g].take = IF g = h THEN take ELSE a[g].take
Alarmed(a, b, h, i) ==
    \/ a[h].pc # "idle" /\ b = a
    \/ a[h].pc = "idle" /\ Goes(a, b, h, "waiting", i, {})
AtRest(b) == \A g \in Handlers : b[g].pc = "idle" /\ b[g].id = 0 /\ b[g].take = {}

(* What the steps do to the two uses of useRecordingStop.                   *)
LEMMA Handled ==
    ASSUME WindowInv
    PROVE  /\ \A h \in Handlers :
                /\ Waited(h) => Goes(handler, handler', h, "saving", handler[h].id, shown)
                /\ Save(h)
                       => Goes(handler, handler', h, "marking", handler[h].id, handler[h].take)
                /\ SaveFails(h) => Goes(handler, handler', h, "idle", 0, {})
                /\ Mark(h) => Goes(handler, handler', h, "idle", 0, {})
           /\ StopComplete => Alarmed(handler, handler', "provider", mid)
           /\ StopEnd("controls") => Alarmed(handler, handler', "home", clicked)
           /\ StopEnd("tray") => handler' = handler
           /\ Reload \/ Crash => AtRest(handler')
<1>0. handler \in [Handlers -> Handles]
  BY DEF WindowInv, WindowTypes
<1>1. \A h \in Handlers : handler[h] \in [pc : {"idle", "waiting", "saving", "marking"},
                                          id : 0..MaxRecordings, take : SUBSET Finals]
  BY <1>0 DEF Handles
<1>2. ASSUME NEW h \in Handlers, Waited(h)
      PROVE  Goes(handler, handler', h, "saving", handler[h].id, shown)
  <2>1. handler' = [handler EXCEPT ![h] = [handler[h] EXCEPT !.pc = "saving", !.take = shown]]
    BY <1>2, <1>0 DEF Waited
  <2>2. PICK x : x = [handler[h] EXCEPT !.pc = "saving", !.take = shown]
    OBVIOUS
  <2>3. x.pc = "saving" /\ x.id = handler[h].id /\ x.take = shown
    BY <1>1, <2>2
  <2> QED BY <1>0, <2>1, <2>2, <2>3 DEF Goes
<1>3. ASSUME NEW h \in Handlers, Save(h)
      PROVE  Goes(handler, handler', h, "marking", handler[h].id, handler[h].take)
  <2>1. handler' = [handler EXCEPT ![h] = [handler[h] EXCEPT !.pc = "marking"]]
    BY <1>3, <1>0 DEF Save
  <2>2. PICK x : x = [handler[h] EXCEPT !.pc = "marking"]
    OBVIOUS
  <2>3. x.pc = "marking" /\ x.id = handler[h].id /\ x.take = handler[h].take
    BY <1>1, <2>2
  <2> QED BY <1>0, <2>1, <2>2, <2>3 DEF Goes
<1>4. Resting.pc = "idle" /\ Resting.id = 0 /\ Resting.take = {}
  BY DEF Resting, Nothing
<1>5. ASSUME NEW h \in Handlers, handler' = [handler EXCEPT ![h] = Resting]
      PROVE  Goes(handler, handler', h, "idle", 0, {})
  BY <1>0, <1>4, <1>5 DEF Goes
<1>6. ASSUME NEW h \in Handlers, SaveFails(h) \/ Mark(h)
      PROVE  Goes(handler, handler', h, "idle", 0, {})
  BY <1>5, <1>6 DEF SaveFails, Mark
<1>7. ASSUME NEW h \in Handlers, NEW i, NEW x, x.pc = "waiting", x.id = i, x.take = {},
             handler' = IF Busy(h) THEN handler ELSE [handler EXCEPT ![h] = x]
      PROVE  Alarmed(handler, handler', h, i)
  <2>1. CASE Busy(h)
    BY <1>7, <2>1 DEF Alarmed, Busy
  <2>2. CASE ~Busy(h)
    <3>1. handler' = [handler EXCEPT ![h] = x]
      BY <1>7, <2>2
    <3>2. Goes(handler, handler', h, "waiting", i, {})
      BY <1>0, <1>7, <3>1 DEF Goes
    <3> QED BY <2>2, <3>2 DEF Alarmed, Busy
  <2> QED BY <2>1, <2>2
<1>8. ASSUME StopComplete PROVE Alarmed(handler, handler', "provider", mid)
  <2>1. PICK x, i : x = [pc |-> "waiting", id |-> mid, take |-> {}] /\ i = mid
    OBVIOUS
  <2>2. handler' = IF Busy("provider") THEN handler ELSE [handler EXCEPT !["provider"] = x]
    BY <1>8, <2>1 DEF StopComplete, Call
  <2>3. x.pc = "waiting" /\ x.id = i /\ x.take = {} /\ "provider" \in Handlers
    BY <2>1 DEF Handlers
  <2>4. Alarmed(handler, handler', "provider", i)
    BY <1>7, <2>2, <2>3
  <2> QED BY <2>1, <2>4
<1>9. ASSUME StopEnd("controls") PROVE Alarmed(handler, handler', "home", clicked)
  <2>1. PICK x, i : x = [pc |-> "waiting", id |-> clicked, take |-> {}] /\ i = clicked
    OBVIOUS
  <2>2. handler' = IF Busy("home") THEN handler ELSE [handler EXCEPT !["home"] = x]
    BY <1>9, <2>1 DEF StopEnd, Call
  <2>3. x.pc = "waiting" /\ x.id = i /\ x.take = {} /\ "home" \in Handlers
    BY <2>1 DEF Handlers
  <2>4. Alarmed(handler, handler', "home", i)
    BY <1>7, <2>2, <2>3
  <2> QED BY <2>1, <2>4
<1>10. StopEnd("tray") => handler' = handler
  BY DEF StopEnd
<1>11. Reload \/ Crash => AtRest(handler')
  <2>1. Reload \/ Crash => handler' = [h \in Handlers |-> Resting]
    BY DEF Reload, Crash, FreshPage
  <2> QED BY <2>1, <1>4 DEF AtRest
<1> QED BY <1>2, <1>3, <1>6, <1>8, <1>9, <1>10, <1>11

(* What the types say of what the state holds.                              *)
LEMMA EventShapes ==
    WindowInv => \A i \in DOMAIN events : /\ events[i].kind \in Kinds
                                          /\ events[i].rec \in Recordings
                                          /\ events[i].seg \in 0..MaxSegments
<1>1. WindowInv => \A i \in DOMAIN events : events[i] \in Events
  BY DEF WindowInv, WindowTypes
<1> QED BY <1>1 DEF Events

(* A handler has a meeting id and a list of finals.                         *)
LEMMA HandlerShapes ==
    WindowInv => \A h \in Handlers :
        /\ handler[h].pc \in {"idle", "waiting", "saving", "marking"}
        /\ handler[h].id \in 0..MaxRecordings /\ handler[h].take \subseteq Finals
<1>1. WindowInv => \A h \in Handlers : handler[h] \in Handles
  BY DEF WindowInv, WindowTypes
<1> QED BY <1>1 DEF Handles

(* So has the recovery.                                                     *)
LEMMA RecoveryShape ==
    WindowInv => /\ recovery.pc \in {"idle", "read", "saved"}
                 /\ recovery.id \in 0..MaxRecordings /\ recovery.take \subseteq Finals
<1>1. WindowInv => recovery \in Recoveries
  BY DEF WindowInv, WindowTypes
<1> QED BY <1>1 DEF Recoveries

(* And the synchronisation of the list has what the backend answered.       *)
LEMMA SyncShape ==
    WindowInv => sync.pc \in {"none", "due", "read"} /\ sync.take \subseteq Finals
<1>1. WindowInv => sync \in Syncs
  BY DEF WindowInv, WindowTypes
<1> QED BY <1>1 DEF Syncs

(* Recordings are numbers from one, finals are pairs.                       *)
LEMMA RecordingShapes ==
    /\ Recordings \subseteq Nat \ {0} /\ \A r \in 0..MaxRecordings : r # 0 => r \in Recordings
    /\ \A f \in Finals : f[1] \in Recordings /\ f = <<f[1], f[2]>> /\ f[2] \in 1..MaxSegments
<1>1. Recordings \subseteq Nat \ {0} /\ \A r \in 0..MaxRecordings : r # 0 => r \in Recordings
  BY WindowAssumption DEF Recordings
<1>2. \A f \in Finals : f[1] \in Recordings /\ f = <<f[1], f[2]>> /\ f[2] \in 1..MaxSegments
  BY DEF Finals
<1> QED BY <1>1, <1>2

(* The list, the copies and the database hold finals.                       *)
LEMMA ListShapes ==
    WindowInv => /\ shown \subseteq Finals /\ \A r \in Recordings : given[r] \subseteq Finals
                 /\ Saved \subseteq Finals
<1> SUFFICES ASSUME WindowInv
             PROVE  /\ shown \subseteq Finals /\ \A r \in Recordings : given[r] \subseteq Finals
                    /\ Saved \subseteq Finals
  OBVIOUS
<1>1. shown \subseteq Finals /\ given \in [Recordings -> SUBSET Finals]
      /\ saves \in Seq(SUBSET Finals)
  BY DEF WindowInv, WindowTypes, given
<1>2. \A i \in DOMAIN saves : saves[i] \subseteq Finals
  BY <1>1
<1> QED BY <1>1, <1>2 DEF Saved

(* The ids are numbers, and the excused recordings have begun.              *)
LEMMA Numbers ==
    WindowInv => /\ rec \in Nat /\ said \in Nat /\ (rec \notin Recordings => rec = 0)
                 /\ mid \in Nat /\ stored \in Nat /\ clicked \in Nat
                 /\ excused \subseteq 1..rec /\ offered \subseteq Recordings
                 /\ listening \cup pending \subseteq 0..MaxRecordings
BY WindowAssumption DEF WindowInv, WindowTypes, Recordings

(* What each action reads and does, in terms that need no record or function *)
(* update: the facts that the invariants are kept by.                        *)
Marked(h) == IF handler[h].id # 0 THEN handler[h].id ELSE stored

(* The effect of a listener that is registered.                             *)
LEMMA RegisteredDoes ==
    ASSUME WindowInv, NEW id \in 0..MaxRecordings, Registered(id)
    PROVE  /\ id \in pending
           /\ listening' = listening \cup {id}
           /\ pending' = pending \ {id}
           /\ UNCHANGED <<rec, said, excused, on, manager, isRecording, resting,
                  starting, stop, clicked, events, mid, stored, shown, sync, handler, meta,
                  given, saves, offered, recovery>>
<1> USE DEF backend, page, disk, filing, Nothing
<1>0. WindowTypes
  BY DEF WindowInv
<1>10. id \in pending
  BY <1>0 DEF Registered
<1>11. listening' = listening \cup {id}
  BY <1>0 DEF Registered
<1>12. pending' = pending \ {id}
  BY <1>0 DEF Registered
<1>13. UNCHANGED <<rec, said, excused, on, manager, isRecording, resting, starting,
           stop, clicked, events, mid, stored, shown, sync, handler, meta, given, saves,
           offered, recovery>>
  BY <1>0 DEF Registered, given
<1> QED BY <1>10, <1>11, <1>12, <1>13

(* The effect of an answer of the backend.                                  *)
LEMMA SyncReadDoes ==
    ASSUME WindowInv, SyncRead
    PROVE  /\ sync.pc = "due"
           /\ sync'.pc = "read" /\ sync'.take = IF manager THEN {<<rec, s>> : s \in
                  1..said} ELSE {}
           /\ UNCHANGED <<rec, said, excused, on, manager, isRecording, resting,
                  starting, stop, clicked, events, mid, stored, listening, pending, shown,
                  handler, meta, given, saves, offered, recovery>>
<1> USE DEF backend, page, disk, filing, Nothing
<1>0. WindowTypes
  BY DEF WindowInv
<1>10. sync.pc = "due"
  BY <1>0 DEF SyncRead
<1>11. sync'.pc = "read" /\ sync'.take = IF manager THEN {<<rec, s>> : s \in 1..said} ELSE {}
  BY <1>0 DEF SyncRead
<1>12. UNCHANGED <<rec, said, excused, on, manager, isRecording, resting, starting,
           stop, clicked, events, mid, stored, listening, pending, shown, handler, meta,
           given, saves, offered, recovery>>
  BY <1>0 DEF SyncRead, given
<1> QED BY <1>10, <1>11, <1>12

(* The effect of the list being replaced.                                   *)
LEMMA SyncSetDoes ==
    ASSUME WindowInv, SyncSet
    PROVE  /\ sync.pc = "read"
           /\ excused' = IF shown \subseteq sync.take THEN excused ELSE excused \cup {rec}
           /\ shown' = sync.take
           /\ sync'.pc \in {"none", "due"} /\ sync'.take = {}
           /\ UNCHANGED <<rec, said, on, manager, isRecording, resting, starting, stop,
                  clicked, events, mid, stored, listening, pending, handler, meta, given,
                  saves, offered, recovery>>
<1> USE DEF backend, page, disk, filing, Nothing
<1>0. WindowTypes
  BY DEF WindowInv
<1>10. sync.pc = "read"
  BY <1>0 DEF SyncSet, Silent
<1>11. excused' = IF shown \subseteq sync.take THEN excused ELSE excused \cup {rec}
  BY <1>0 DEF SyncSet, Silent
<1>12. shown' = sync.take
  BY <1>0 DEF SyncSet, Silent
<1>13. sync'.pc \in {"none", "due"} /\ sync'.take = {}
  BY <1>0 DEF SyncSet, Silent
<1>14. UNCHANGED <<rec, said, on, manager, isRecording, resting, starting, stop,
           clicked, events, mid, stored, listening, pending, handler, meta, given, saves,
           offered, recovery>>
  BY <1>0 DEF SyncSet, Silent, given
<1> QED BY <1>10, <1>11, <1>12, <1>13, <1>14

(* The effect of the polling of the state.                                  *)
LEMMA SyncStateDoes ==
    ASSUME WindowInv, SyncState
    PROVE  /\ isRecording # on
           /\ isRecording' = on
           /\ (sync' = sync \/ (sync'.pc = "due" /\ sync'.take = {}))
           /\ UNCHANGED <<rec, said, excused, on, manager, resting, starting, stop,
                  clicked, events, mid, stored, listening, pending, shown, handler, meta,
                  given, saves, offered, recovery>>
<1> USE DEF backend, page, disk, filing, Nothing
<1>0. WindowTypes
  BY DEF WindowInv
<1>10. isRecording # on
  BY <1>0 DEF SyncState
<1>11. isRecording' = on
  BY <1>0 DEF SyncState
<1>12. (sync' = sync \/ (sync'.pc = "due" /\ sync'.take = {}))
  BY <1>0 DEF SyncState
<1>13. UNCHANGED <<rec, said, excused, on, manager, resting, starting, stop, clicked,
           events, mid, stored, listening, pending, shown, handler, meta, given, saves,
           offered, recovery>>
  BY <1>0 DEF SyncState, given
<1> QED BY <1>10, <1>11, <1>12, <1>13

(* The effect of a start.                                                   *)
LEMMA StartDoes ==
    ASSUME WindowInv, Start
    PROVE  /\ ~on /\ ~manager /\ ~isRecording
           /\ pending = {} /\ sync.pc = "none" /\ ~starting /\ ~StartComing
           /\ rec < MaxRecordings /\ excused = {} /\ NoStop
           /\ rec' = rec + 1
           /\ said' = 0
           /\ excused' = IF Saving THEN {rec, rec + 1} ELSE {}
           /\ on'
           /\ manager'
           /\ resting'
           /\ starting'
           /\ UNCHANGED <<isRecording, stop, clicked, mid, stored, listening, pending,
                  shown, sync, handler, meta, given, saves, offered, recovery>>
           /\ Joins(events, events', "started", rec + 1, 0)
<1> USE DEF backend, page, disk, filing, Nothing
<1>0. WindowTypes
  BY DEF WindowInv
<1>10. ~on /\ ~manager /\ ~isRecording
  BY <1>0 DEF Start, Quiet
<1>11. pending = {} /\ sync.pc = "none" /\ ~starting /\ ~StartComing
  BY <1>0 DEF Start, Quiet
<1>12. rec < MaxRecordings /\ excused = {} /\ NoStop
  BY <1>0 DEF Start, Quiet, NoStop
<1>13. rec' = rec + 1
  BY <1>0 DEF Start, Quiet
<1>14. said' = 0
  BY <1>0 DEF Start, Quiet
<1>15. excused' = IF Saving THEN {rec, rec + 1} ELSE {}
  BY <1>0 DEF Start, Quiet
<1>16. on'
  BY <1>0 DEF Start, Quiet
<1>17. manager'
  BY <1>0 DEF Start, Quiet
<1>18. resting'
  BY <1>0 DEF Start, Quiet
<1>19. starting'
  BY <1>0 DEF Start, Quiet
<1>20. UNCHANGED <<isRecording, stop, clicked, mid, stored, listening, pending, shown,
           sync, handler, meta, given, saves, offered, recovery>>
  BY <1>0 DEF Start, Quiet, given
<1>21. Joins(events, events', "started", rec + 1, 0)
  BY Queued
<1> QED BY <1>10, <1>11, <1>12, <1>13, <1>14, <1>15, <1>16, <1>17, <1>18, <1>19, <1>20, <1>21

(* The effect of the return of the start command.                           *)
LEMMA StartReturnedDoes ==
    ASSUME WindowInv, StartReturned
    PROVE  /\ starting
           /\ ~starting'
           /\ shown' = {}
           /\ (sync' = sync \/ (sync'.pc = "due" /\ sync'.take = {}))
           /\ UNCHANGED <<rec, said, excused, on, manager, isRecording, resting, stop,
                  clicked, events, mid, stored, listening, pending, handler, meta, given,
                  saves, offered, recovery>>
<1> USE DEF backend, page, disk, filing, Nothing
<1>0. WindowTypes
  BY DEF WindowInv
<1>10. starting
  BY <1>0 DEF StartReturned, Show
<1>11. ~starting'
  BY <1>0 DEF StartReturned, Show
<1>12. shown' = {}
  BY <1>0 DEF StartReturned, Show
<1>13. (sync' = sync \/ (sync'.pc = "due" /\ sync'.take = {}))
  BY <1>0 DEF StartReturned, Show
<1>14. UNCHANGED <<rec, said, excused, on, manager, isRecording, resting, stop, clicked,
           events, mid, stored, listening, pending, handler, meta, given, saves, offered,
           recovery>>
  BY <1>0 DEF StartReturned, Show, given
<1> QED BY <1>10, <1>11, <1>12, <1>13, <1>14

(* The effect of a final that is emitted.                                   *)
LEMMA EmitDoes ==
    ASSUME WindowInv, Emit
    PROVE  /\ on \/ \E c \in Callers : stop[c] \in {"owner", "lost"}
           /\ ~starting /\ said < MaxSegments
           /\ said' = said + 1
           /\ UNCHANGED <<rec, excused, on, manager, isRecording, resting, starting,
                  stop, clicked, mid, stored, listening, pending, shown, sync, handler,
                  meta, given, saves, offered, recovery>>
           /\ Joins(events, events', "final", rec, said + 1)
<1> USE DEF backend, page, disk, filing, Nothing
<1>0. WindowTypes
  BY DEF WindowInv
<1>10. on \/ \E c \in Callers : stop[c] \in {"owner", "lost"}
  BY <1>0 DEF Emit
<1>11. ~starting /\ said < MaxSegments
  BY <1>0 DEF Emit
<1>12. said' = said + 1
  BY <1>0 DEF Emit
<1>13. UNCHANGED <<rec, excused, on, manager, isRecording, resting, starting, stop,
           clicked, mid, stored, listening, pending, shown, sync, handler, meta, given,
           saves, offered, recovery>>
  BY <1>0 DEF Emit, given
<1>14. Joins(events, events', "final", rec, said + 1)
  BY Queued
<1> QED BY <1>10, <1>11, <1>12, <1>13, <1>14

(* The effect of recording-started.                                         *)
LEMMA StartedDoes ==
    ASSUME WindowInv, Started
    PROVE  /\ excused' = IF listening = {} THEN excused \cup {events[1].rec} ELSE excused
           /\ isRecording'
           /\ resting'
           /\ mid' = IF listening = {} THEN mid ELSE events[1].rec
           /\ stored' = IF listening = {} THEN stored ELSE events[1].rec
           /\ listening' = IF listening = {} \/ events[1].rec = mid THEN listening ELSE
                  listening \ {mid}
           /\ pending' = IF listening = {} \/ events[1].rec = mid THEN pending ELSE
                  pending \cup {events[1].rec}
           /\ (sync' = sync \/ (sync'.pc = "due" /\ sync'.take = {}))
           /\ \A r \in Recordings : meta'[r] = IF listening # {} /\ r = events[1].rec
                  THEN "unsaved" ELSE meta[r]
           /\ UNCHANGED <<rec, said, on, manager, starting, stop, clicked, shown,
                  handler, given, saves, offered, recovery>>
           /\ Leaves(events, events', "started")
<1> USE DEF backend, page, disk, filing, Nothing
<1>0. WindowTypes
  BY DEF WindowInv
<1>9. Head(events) = events[1]
  BY Queued DEF Leaves
<1>10. excused' = IF listening = {} THEN excused \cup {events[1].rec} ELSE excused
  BY <1>0, <1>9 DEF Started, Next1, SwitchTo
<1>11. isRecording'
  BY <1>0, <1>9 DEF Started, Next1, SwitchTo
<1>12. resting'
  BY <1>0, <1>9 DEF Started, Next1, SwitchTo
<1>13. mid' = IF listening = {} THEN mid ELSE events[1].rec
  BY <1>0, <1>9 DEF Started, Next1, SwitchTo
<1>14. stored' = IF listening = {} THEN stored ELSE events[1].rec
  BY <1>0, <1>9 DEF Started, Next1, SwitchTo
<1>15. listening' = IF listening = {} \/ events[1].rec = mid THEN listening ELSE
           listening \ {mid}
  BY <1>0, <1>9 DEF Started, Next1, SwitchTo
<1>16. pending' = IF listening = {} \/ events[1].rec = mid THEN pending ELSE pending
           \cup {events[1].rec}
  BY <1>0, <1>9 DEF Started, Next1, SwitchTo
<1>17. (sync' = sync \/ (sync'.pc = "due" /\ sync'.take = {}))
  BY <1>0, <1>9 DEF Started, Next1, SwitchTo
<1>18. \A r \in Recordings : meta'[r] = IF listening # {} /\ r = events[1].rec THEN
           "unsaved" ELSE meta[r]
  BY <1>0, <1>9 DEF Started, Next1, SwitchTo, WindowTypes
<1>19. UNCHANGED <<rec, said, on, manager, starting, stop, clicked, shown, handler,
           given, saves, offered, recovery>>
  BY <1>0, <1>9 DEF Started, Next1, SwitchTo, given
<1>20. Leaves(events, events', "started")
  BY Queued
<1> QED BY <1>10, <1>11, <1>12, <1>13, <1>14, <1>15, <1>16, <1>17, <1>18, <1>19, <1>20

(* The effect of transcript-update.                                         *)
LEMMA UpdateDoes ==
    ASSUME WindowInv, Update
    PROVE  /\ excused' = IF pending = {} THEN excused ELSE excused \cup {events[1].rec}
           /\ shown' = IF listening = {} THEN shown ELSE shown \cup {<<events[1].rec,
                  events[1].seg>>}
           /\ (sync' = sync \/ (sync'.pc = "due" /\ sync'.take = {}))
           /\ \A r \in Recordings : given'[r] = IF r \in listening THEN given[r] \cup
                  {<<events[1].rec, events[1].seg>>} ELSE given[r]
           /\ UNCHANGED <<rec, said, on, manager, isRecording, resting, starting, stop,
                  clicked, mid, stored, listening, pending, handler, meta, saves, offered,
                  recovery>>
           /\ Leaves(events, events', "final")
<1> USE DEF backend, page, disk, filing, Nothing
<1>0. WindowTypes
  BY DEF WindowInv
<1>9. Head(events) = events[1]
  BY Queued DEF Leaves
<1>10. excused' = IF pending = {} THEN excused ELSE excused \cup {events[1].rec}
  BY <1>0, <1>9 DEF Update, Show, Next1
<1>11. shown' = IF listening = {} THEN shown ELSE shown \cup {<<events[1].rec,
           events[1].seg>>}
  BY <1>0, <1>9 DEF Update, Show, Next1
<1>12. (sync' = sync \/ (sync'.pc = "due" /\ sync'.take = {}))
  BY <1>0, <1>9 DEF Update, Show, Next1
<1>13. \A r \in Recordings : given'[r] = IF r \in listening THEN given[r] \cup
           {<<events[1].rec, events[1].seg>>} ELSE given[r]
  <2> DEFINE g == <<events[1].rec, events[1].seg>>
  <2>1. writes' = writes \cup {<<r, g>> : r \in listening \ {Nothing}} /\ copy' = copy
    BY <1>9 DEF Update
  <2>2. g \in Finals
    <3>1. 1 \in DOMAIN events /\ events[1].kind = "final"
      BY Queued DEF Leaves
    <3>2. events[1].seg > 0 /\ events[1] \in Events
      BY <1>0, <3>1 DEF WindowInv, QueueInv, OfCurrent, WindowTypes
    <3> QED BY <3>2, WindowAssumption DEF Events, Finals
  <2> HIDE DEF g
  <2>3. ASSUME NEW r \in Recordings
        PROVE  \A f : <<r, f>> \in writes' <=> <<r, f>> \in writes \/ (r \in listening /\ f = g)
    BY <2>1, WindowAssumption DEF Recordings
  <2>4. ASSUME NEW r \in Recordings
        PROVE  given'[r] = IF r \in listening THEN given[r] \cup {g} ELSE given[r]
    BY <2>1, <2>2, <2>3 DEF given
  <2> QED BY <2>4 DEF g
<1>14. UNCHANGED <<rec, said, on, manager, isRecording, resting, starting, stop,
           clicked, mid, stored, listening, pending, handler, meta, saves, offered,
           recovery>>
  BY <1>0, <1>9 DEF Update, Show, Next1
<1>15. Leaves(events, events', "final")
  BY Queued
<1> QED BY <1>10, <1>11, <1>12, <1>13, <1>14, <1>15

(* The effect of a final that is not filed.                                 *)
LEMMA FilingFailsDoes ==
    ASSUME WindowInv, NEW w \in writes, FilingFails(w)
    PROVE  /\ GivesLess
           /\ \A r \in Recordings : given[r] \subseteq given'[r] \cup unfiled'
           /\ UNCHANGED <<rec, said, excused, on, manager, isRecording, resting,
                  starting, stop, clicked, events, mid, stored, listening, pending, shown,
                  sync, handler, meta, saves, offered, recovery>>
<1> USE DEF backend, page
<1>0. w \in Recordings \X Finals
  BY DEF WindowInv, WindowTypes
<1>1. w = <<w[1], w[2]>>
  BY <1>0
<1>2. writes' = writes \ {w} /\ copy' = copy /\ unfiled' = unfiled \cup {w[2]}
  BY DEF FilingFails
<1>3. \A r \in Recordings :
          given'[r] = copy[r] \cup {f \in Finals : <<r, f>> \in writes \ {w}}
  BY <1>2 DEF given
<1>4. \A r \in Recordings : \A f : <<r, f>> \in writes \ {w} \/ <<r, f>> \notin writes \/ f = w[2]
  BY <1>1
<1>5. GivesLess
  BY <1>3 DEF given, GivesLess
<1>6. \A r \in Recordings : given[r] \subseteq given'[r] \cup unfiled'
  BY <1>2, <1>3, <1>4 DEF given
<1>7. UNCHANGED <<rec, said, excused, on, manager, isRecording, resting, starting, stop,
           clicked, events, mid, stored, listening, pending, shown, sync, handler, meta,
           saves, offered, recovery>>
  BY DEF FilingFails
<1> QED BY <1>5, <1>6, <1>7

(* The effect of recording-stopped.                                         *)
LEMMA StoppedDoes ==
    ASSUME WindowInv, Stopped
    PROVE  /\ ~isRecording'
           /\ ~resting'
           /\ UNCHANGED <<rec, said, excused, on, manager, starting, stop, clicked, mid,
                  stored, listening, pending, shown, sync, handler, meta, given, saves,
                  offered, recovery>>
           /\ Leaves(events, events', "stopped")
<1> USE DEF backend, page, disk, filing, Nothing
<1>0. WindowTypes
  BY DEF WindowInv
<1>10. ~isRecording'
  BY <1>0 DEF Stopped, Next1
<1>11. ~resting'
  BY <1>0 DEF Stopped, Next1
<1>12. UNCHANGED <<rec, said, excused, on, manager, starting, stop, clicked, mid,
           stored, listening, pending, shown, sync, handler, meta, given, saves, offered,
           recovery>>
  BY <1>0 DEF Stopped, Next1, given
<1>13. Leaves(events, events', "stopped")
  BY Queued
<1> QED BY <1>10, <1>11, <1>12, <1>13

(* The effect of recording-stop-complete.                                   *)
LEMMA StopCompleteDoes ==
    ASSUME WindowInv, StopComplete
    PROVE  /\ resting' = IF Busy("provider") THEN resting ELSE FALSE
           /\ UNCHANGED <<rec, said, excused, on, manager, isRecording, starting, stop,
                  clicked, mid, stored, listening, pending, shown, sync, meta, given, saves,
                  offered, recovery>>
           /\ Leaves(events, events', "stop-complete")
           /\ Alarmed(handler, handler', "provider", mid)
<1> USE DEF backend, page, disk, filing, Nothing
<1>0. WindowTypes
  BY DEF WindowInv
<1>10. resting' = IF Busy("provider") THEN resting ELSE FALSE
  BY <1>0 DEF StopComplete, Next1, Call
<1>11. UNCHANGED <<rec, said, excused, on, manager, isRecording, starting, stop,
           clicked, mid, stored, listening, pending, shown, sync, meta, given, saves,
           offered, recovery>>
  BY <1>0 DEF StopComplete, Next1, Call, given
<1>12. Leaves(events, events', "stop-complete")
  BY Queued
<1>13. Alarmed(handler, handler', "provider", mid)
  BY Handled
<1> QED BY <1>10, <1>11, <1>12, <1>13

(* The effect of a stop that begins.                                        *)
LEMMA StopBeginDoes ==
    ASSUME WindowInv, NEW c \in Callers, StopBegin(c)
    PROVE  /\ ~Draining(c) /\ on
           /\ pending = {} /\ sync.pc = "none" /\ ~starting /\ ~StartComing
           /\ c = "controls" => isRecording /\ ~Busy("home")
           /\ excused' = IF manager THEN excused ELSE excused \cup {rec}
           /\ ~manager'
           /\ \A d \in Callers : stop'[d] = IF d = c THEN (IF manager THEN "owner" ELSE
                  "second") ELSE stop[d]
           /\ clicked' = IF c = "controls" THEN mid ELSE clicked
           /\ UNCHANGED <<rec, said, on, isRecording, resting, starting, events, mid,
                  stored, listening, pending, shown, sync, handler, meta, given, saves,
                  offered, recovery>>
<1> USE DEF backend, page, disk, filing, Nothing
<1>0. WindowTypes
  BY DEF WindowInv
<1>10. ~Draining(c) /\ on
  BY <1>0 DEF StopBegin, Quiet, NoStop
<1>11. pending = {} /\ sync.pc = "none" /\ ~starting /\ ~StartComing
  BY <1>0 DEF StopBegin, Quiet
<1>12. c = "controls" => isRecording /\ ~Busy("home")
  BY <1>0 DEF StopBegin, Quiet
<1>13. excused' = IF manager THEN excused ELSE excused \cup {rec}
  BY <1>0 DEF StopBegin, Quiet
<1>14. ~manager'
  BY <1>0 DEF StopBegin, Quiet
<1>15. \A d \in Callers : stop'[d] = IF d = c THEN (IF manager THEN "owner" ELSE
           "second") ELSE stop[d]
  BY <1>0 DEF StopBegin, Quiet, WindowTypes
<1>16. clicked' = IF c = "controls" THEN mid ELSE clicked
  BY <1>0 DEF StopBegin, Quiet
<1>17. UNCHANGED <<rec, said, on, isRecording, resting, starting, events, mid, stored,
           listening, pending, shown, sync, handler, meta, given, saves, offered, recovery>>
  BY <1>0 DEF StopBegin, Quiet, given
<1> QED BY <1>10, <1>11, <1>12, <1>13, <1>14, <1>15, <1>16, <1>17

(* The effect of a stop that returns.                                       *)
LEMMA StopEndDoes ==
    ASSUME WindowInv, NEW c \in Callers, StopEnd(c)
    PROVE  /\ stop[c] \in {"owner", "second"}
           /\ ~on'
           /\ resting' = IF c = "controls" /\ ~Busy("home") THEN FALSE ELSE resting
           /\ \A d \in Callers : stop'[d] = IF d = c THEN "idle" ELSE stop[d]
           /\ UNCHANGED <<rec, said, excused, manager, isRecording, starting, clicked,
                  mid, stored, listening, pending, shown, sync, meta, given, saves, offered,
                  recovery>>
           /\ \/ c = "controls" /\ Joins(events, events', "stopped", rec, 0)
              \/ c = "tray" /\ \E q : /\ Joins(events, q, "stopped", rec, 0)
                                     /\ Joins(q, events', "stop-complete", rec, 0)
           /\ \/ c = "controls" /\ Alarmed(handler, handler', "home", clicked)
              \/ c = "tray" /\ handler' = handler
<1> USE DEF backend, page, disk, filing, Nothing
<1>0. WindowTypes
  BY DEF WindowInv
<1>10. stop[c] \in {"owner", "second"}
  BY <1>0 DEF StopEnd, Call
<1>11. ~on'
  BY <1>0 DEF StopEnd, Call
<1>12. resting' = IF c = "controls" /\ ~Busy("home") THEN FALSE ELSE resting
  BY <1>0 DEF StopEnd, Call
<1>13. \A d \in Callers : stop'[d] = IF d = c THEN "idle" ELSE stop[d]
  BY <1>0 DEF StopEnd, Call, WindowTypes
<1>14. UNCHANGED <<rec, said, excused, manager, isRecording, starting, clicked, mid,
           stored, listening, pending, shown, sync, meta, given, saves, offered, recovery>>
  BY <1>0 DEF StopEnd, Call, given
<1>15. \/ c = "controls" /\ Joins(events, events', "stopped", rec, 0)
       \/ c = "tray" /\ \E q : /\ Joins(events, q, "stopped", rec, 0)
                              /\ Joins(q, events', "stop-complete", rec, 0)
  BY Queued DEF Callers
<1>16. \/ c = "controls" /\ Alarmed(handler, handler', "home", clicked)
       \/ c = "tray" /\ handler' = handler
  BY Handled DEF Callers
<1> QED BY <1>10, <1>11, <1>12, <1>13, <1>14, <1>15, <1>16

(* The effect of a second stop from the tray.                               *)
LEMMA StopAgainDoes ==
    ASSUME WindowInv, StopAgain
    PROVE  /\ ~on /\ stop["tray"] = "idle" /\ Fine /\ ~AllRest
           /\ pending = {} /\ sync.pc = "none" /\ ~starting /\ ~StartComing
           /\ excused' = excused \cup {rec}
           /\ UNCHANGED <<rec, said, on, manager, isRecording, resting, starting, stop,
                  clicked, mid, stored, listening, pending, shown, sync, handler, meta,
                  given, saves, offered, recovery>>
           /\ Joins(events, events', "stop-complete", rec, 0)
<1> USE DEF backend, page, disk, filing, Nothing
<1>0. WindowTypes
  BY DEF WindowInv
<1>10. ~on /\ stop["tray"] = "idle" /\ Fine /\ ~AllRest
  BY <1>0 DEF StopAgain, Quiet, AllRest, Fine
<1>11. pending = {} /\ sync.pc = "none" /\ ~starting /\ ~StartComing
  BY <1>0 DEF StopAgain, Quiet
<1>12. excused' = excused \cup {rec}
  BY <1>0 DEF StopAgain, Quiet
<1>13. UNCHANGED <<rec, said, on, manager, isRecording, resting, starting, stop,
           clicked, mid, stored, listening, pending, shown, sync, handler, meta, given,
           saves, offered, recovery>>
  BY <1>0 DEF StopAgain, Quiet, given
<1>14. Joins(events, events', "stop-complete", rec, 0)
  BY Queued
<1> QED BY <1>10, <1>11, <1>12, <1>13, <1>14

(* The effect of a stop whose page is gone.                                 *)
LEMMA StopLostDoes ==
    ASSUME WindowInv, StopLost
    PROVE  /\ stop["controls"] = "lost"
           /\ ~on'
           /\ \A d \in Callers : stop'[d] = IF d = "controls" THEN "idle" ELSE stop[d]
           /\ UNCHANGED <<rec, said, excused, manager, isRecording, resting, starting,
                  clicked, mid, stored, listening, pending, shown, sync, handler, meta,
                  given, saves, offered, recovery>>
           /\ Joins(events, events', "stopped", rec, 0)
<1> USE DEF backend, page, disk, filing, Nothing
<1>0. WindowTypes
  BY DEF WindowInv
<1>10. stop["controls"] = "lost"
  BY <1>0 DEF StopLost
<1>11. ~on'
  BY <1>0 DEF StopLost
<1>12. \A d \in Callers : stop'[d] = IF d = "controls" THEN "idle" ELSE stop[d]
  BY <1>0 DEF StopLost, WindowTypes
<1>13. UNCHANGED <<rec, said, excused, manager, isRecording, resting, starting, clicked,
           mid, stored, listening, pending, shown, sync, handler, meta, given, saves,
           offered, recovery>>
  BY <1>0 DEF StopLost, given
<1>14. Joins(events, events', "stopped", rec, 0)
  BY Queued
<1> QED BY <1>10, <1>11, <1>12, <1>13, <1>14

(* The effect of a handler that has waited.                                 *)
LEMMA WaitedDoes ==
    ASSUME WindowInv, NEW h \in Handlers, Waited(h)
    PROVE  /\ handler[h].pc = "waiting"
           /\ events = <<>> /\ pending = {} /\ sync.pc = "none" /\ ~starting
           /\ ~resting'
           /\ UNCHANGED <<rec, said, excused, on, manager, isRecording, starting, stop,
                  clicked, events, mid, stored, listening, pending, shown, sync, meta, given,
                  saves, offered, recovery>>
           /\ Goes(handler, handler', h, "saving", handler[h].id, shown)
<1> USE DEF backend, page, disk, filing, Nothing
<1>0. WindowTypes
  BY DEF WindowInv
<1>10. handler[h].pc = "waiting"
  BY <1>0 DEF Waited, Settled
<1>11. events = <<>> /\ pending = {} /\ sync.pc = "none" /\ ~starting
  BY <1>0 DEF Waited, Settled
<1>12. ~resting'
  BY <1>0 DEF Waited, Settled
<1>13. UNCHANGED <<rec, said, excused, on, manager, isRecording, starting, stop,
           clicked, events, mid, stored, listening, pending, shown, sync, meta, given, saves,
           offered, recovery>>
  BY <1>0 DEF Waited, Settled, given
<1>14. Goes(handler, handler', h, "saving", handler[h].id, shown)
  BY Handled
<1> QED BY <1>10, <1>11, <1>12, <1>13, <1>14

(* The effect of the save of a handler.                                     *)
LEMMA SaveDoes ==
    ASSUME WindowInv, NEW h \in Handlers, Save(h)
    PROVE  /\ handler[h].pc = "saving"
           /\ UNCHANGED <<rec, said, excused, on, manager, isRecording, resting,
                  starting, stop, clicked, events, mid, stored, listening, pending, shown,
                  sync, meta, given, offered, recovery>>
           /\ Goes(handler, handler', h, "marking", handler[h].id, handler[h].take)
           /\ Adds(saves, saves', handler[h].take) /\ Saved' = Saved \cup handler[h].take
<1> USE DEF backend, page, disk, filing, Nothing
<1>0. WindowTypes
  BY DEF WindowInv
<1>10. handler[h].pc = "saving"
  BY <1>0 DEF Save
<1>11. UNCHANGED <<rec, said, excused, on, manager, isRecording, resting, starting,
           stop, clicked, events, mid, stored, listening, pending, shown, sync, meta, given,
           offered, recovery>>
  BY <1>0 DEF Save, given
<1>12. Goes(handler, handler', h, "marking", handler[h].id, handler[h].take)
  BY Handled
<1>13. Adds(saves, saves', handler[h].take) /\ Saved' = Saved \cup handler[h].take
  BY SavesDo
<1> QED BY <1>10, <1>11, <1>12, <1>13

(* The effect of a save that fails.                                         *)
LEMMA SaveFailsDoes ==
    ASSUME WindowInv, NEW h \in Handlers, SaveFails(h)
    PROVE  /\ handler[h].pc = "saving"
           /\ resting'
           /\ UNCHANGED <<rec, said, excused, on, manager, isRecording, starting, stop,
                  clicked, events, mid, stored, listening, pending, shown, sync, meta, given,
                  saves, offered, recovery>>
           /\ Goes(handler, handler', h, "idle", 0, {})
<1> USE DEF backend, page, disk, filing, Nothing
<1>0. WindowTypes
  BY DEF WindowInv
<1>10. handler[h].pc = "saving"
  BY <1>0 DEF SaveFails, Resting
<1>11. resting'
  BY <1>0 DEF SaveFails, Resting
<1>12. UNCHANGED <<rec, said, excused, on, manager, isRecording, starting, stop,
           clicked, events, mid, stored, listening, pending, shown, sync, meta, given, saves,
           offered, recovery>>
  BY <1>0 DEF SaveFails, Resting, given
<1>13. Goes(handler, handler', h, "idle", 0, {})
  BY Handled
<1> QED BY <1>10, <1>11, <1>12, <1>13

(* The effect of the mark of a handler.                                     *)
LEMMA MarkDoes ==
    ASSUME WindowInv, NEW h \in Handlers, Mark(h)
    PROVE  /\ handler[h].pc = "marking"
           /\ excused' = IF handler[h].id = 0 /\ stored \notin {0, rec} THEN excused
                  \cup {stored} ELSE excused
           /\ resting'
           /\ mid' = IF Marked(h) = 0 THEN mid ELSE 0
           /\ stored' = 0
           /\ listening' = IF Marked(h) = 0 \/ mid = 0 THEN listening ELSE listening \ {mid}
           /\ pending' = IF Marked(h) = 0 \/ mid = 0 THEN pending ELSE pending \cup {0}
           /\ \A r \in Recordings : meta'[r] = IF r = Marked(h) /\ meta[r] # "absent"
                  THEN "saved" ELSE meta[r]
           /\ UNCHANGED <<rec, said, on, manager, isRecording, starting, stop, clicked,
                  events, shown, sync, given, saves, offered, recovery>>
           /\ Goes(handler, handler', h, "idle", 0, {})
<1> USE DEF backend, page, disk, filing, Nothing
<1>0. WindowTypes
  BY DEF WindowInv
<1>10. handler[h].pc = "marking"
  BY <1>0 DEF Mark, MarkSaved, SwitchTo, Resting
<1>11. excused' = IF handler[h].id = 0 /\ stored \notin {0, rec} THEN excused \cup
           {stored} ELSE excused
  BY <1>0 DEF Mark, MarkSaved, SwitchTo, Resting
<1>12. resting'
  BY <1>0 DEF Mark, MarkSaved, SwitchTo, Resting
<1>13. mid' = IF Marked(h) = 0 THEN mid ELSE 0
  BY <1>0 DEF Mark, MarkSaved, SwitchTo, Resting, Marked, WindowTypes
<1>14. stored' = 0
  BY <1>0 DEF Mark, MarkSaved, SwitchTo, Resting
<1>15. listening' = IF Marked(h) = 0 \/ mid = 0 THEN listening ELSE listening \ {mid}
  BY <1>0 DEF Mark, MarkSaved, SwitchTo, Resting, Marked, WindowTypes
<1>16. pending' = IF Marked(h) = 0 \/ mid = 0 THEN pending ELSE pending \cup {0}
  BY <1>0 DEF Mark, MarkSaved, SwitchTo, Resting, Marked, WindowTypes
<1>17. \A r \in Recordings : meta'[r] = IF r = Marked(h) /\ meta[r] # "absent" THEN
           "saved" ELSE meta[r]
  <2>1. PICK i : i = Marked(h)
    OBVIOUS
  <2>2. CASE i = 0
    BY <2>1, <2>2, RecordingShapes DEF Mark, Marked
  <2>3. CASE i # 0
    <3>1. meta' = MarkSaved(i)
      BY <2>1, <2>3 DEF Mark, Marked
    <3> QED BY <1>0, <2>1, <2>3, <3>1 DEF MarkSaved, WindowTypes
  <2> QED BY <2>2, <2>3
<1>18. UNCHANGED <<rec, said, on, manager, isRecording, starting, stop, clicked, events,
           shown, sync, given, saves, offered, recovery>>
  BY <1>0 DEF Mark, MarkSaved, SwitchTo, Resting, given
<1>19. Goes(handler, handler', h, "idle", 0, {})
  BY Handled
<1> QED BY <1>10, <1>11, <1>12, <1>13, <1>14, <1>15, <1>16, <1>17, <1>18, <1>19

(* The effect of a late clear.                                              *)
LEMMA ClearLaterDoes ==
    ASSUME WindowInv, ClearLater
    PROVE  /\ excused' = IF on \/ Saving THEN excused \cup {rec} ELSE excused
           /\ resting'
           /\ shown' = {}
           /\ (sync' = sync \/ (sync'.pc = "due" /\ sync'.take = {}))
           /\ UNCHANGED <<rec, said, on, manager, isRecording, starting, stop, clicked,
                  events, mid, stored, listening, pending, handler, meta, given, saves,
                  offered, recovery>>
<1> USE DEF backend, page, disk, filing, Nothing
<1>0. WindowTypes
  BY DEF WindowInv
<1>10. excused' = IF on \/ Saving THEN excused \cup {rec} ELSE excused
  BY <1>0 DEF ClearLater, Show
<1>11. resting'
  BY <1>0 DEF ClearLater, Show
<1>12. shown' = {}
  BY <1>0 DEF ClearLater, Show
<1>13. (sync' = sync \/ (sync'.pc = "due" /\ sync'.take = {}))
  BY <1>0 DEF ClearLater, Show
<1>14. UNCHANGED <<rec, said, on, manager, isRecording, starting, stop, clicked, events,
           mid, stored, listening, pending, handler, meta, given, saves, offered, recovery>>
  BY <1>0 DEF ClearLater, Show, given
<1> QED BY <1>10, <1>11, <1>12, <1>13, <1>14

(* The effect of the check for meetings to recover.                         *)
LEMMA CheckDoes ==
    ASSUME WindowInv, Check
    PROVE  /\ ~isRecording /\ resting
           /\ excused' = excused \cup {r \in offered' : r = rec /\ (on \/ StopComing)}
           /\ offered' = {r \in Recordings : meta[r] = "unsaved"}
           /\ UNCHANGED <<rec, said, on, manager, isRecording, resting, starting, stop,
                  clicked, events, mid, stored, listening, pending, shown, sync, handler,
                  meta, given, saves, recovery>>
<1> USE DEF backend, page, disk, filing, Nothing
<1>0. WindowTypes
  BY DEF WindowInv
<1>10. ~isRecording /\ resting
  BY <1>0 DEF Check
<1>11. excused' = excused \cup {r \in offered' : r = rec /\ (on \/ StopComing)}
  BY <1>0 DEF Check
<1>12. offered' = {r \in Recordings : meta[r] = "unsaved"}
  BY <1>0 DEF Check
<1>13. UNCHANGED <<rec, said, on, manager, isRecording, resting, starting, stop,
           clicked, events, mid, stored, listening, pending, shown, sync, handler, meta,
           given, saves, recovery>>
  BY <1>0 DEF Check, given
<1> QED BY <1>10, <1>11, <1>12, <1>13

(* The effect of a recovery that reads the copy.                            *)
LEMMA RecoverReadDoes ==
    ASSUME WindowInv, NEW r \in Recordings, RecoverRead(r)
    PROVE  /\ r \in offered /\ recovery.pc = "idle"
           /\ pending = {} /\ sync.pc = "none" /\ ~starting /\ ~StartComing
           /\ meta[r] # "absent"
           /\ recovery'.pc = "read" /\ recovery'.id = r
           /\ recovery'.take \subseteq given[r] /\ given[r] \subseteq recovery'.take \cup late'
           /\ UNCHANGED <<rec, said, excused, on, manager, isRecording, resting,
                  starting, stop, clicked, events, mid, stored, listening, pending, shown,
                  sync, handler, meta, given, saves, offered>>
<1> USE DEF backend, page, disk, filing, Nothing
<1>0. WindowTypes
  BY DEF WindowInv
<1>10. r \in offered /\ recovery.pc = "idle"
  BY <1>0 DEF RecoverRead, Quiet
<1>11. pending = {} /\ sync.pc = "none" /\ ~starting /\ ~StartComing
  BY <1>0 DEF RecoverRead, Quiet
<1>12. meta[r] # "absent"
  BY <1>0 DEF RecoverRead, Quiet, given
<1>13. /\ recovery'.pc = "read" /\ recovery'.id = r
       /\ recovery'.take \subseteq given[r] /\ given[r] \subseteq recovery'.take \cup late'
  BY <1>0 DEF RecoverRead, Quiet, given
<1>14. UNCHANGED <<rec, said, excused, on, manager, isRecording, resting, starting,
           stop, clicked, events, mid, stored, listening, pending, shown, sync, handler,
           meta, given, saves, offered>>
  BY <1>0 DEF RecoverRead, Quiet, given
<1> QED BY <1>10, <1>11, <1>12, <1>13, <1>14

(* The effect of a recovery that saves.                                     *)
LEMMA RecoverSaveDoes ==
    ASSUME WindowInv, RecoverSave
    PROVE  /\ recovery.pc = "read"
           /\ recovery'.pc = "saved" /\ recovery'.id = recovery.id /\ recovery'.take =
                  recovery.take
           /\ UNCHANGED <<rec, said, excused, on, manager, isRecording, resting,
                  starting, stop, clicked, events, mid, stored, listening, pending, shown,
                  sync, handler, meta, given, offered>>
           /\ Adds(saves, saves', recovery.take) /\ Saved' = Saved \cup recovery.take
<1> USE DEF backend, page, disk, filing, Nothing
<1>0. WindowTypes
  BY DEF WindowInv
<1>10. recovery.pc = "read"
  BY <1>0 DEF RecoverSave, WindowTypes, Recoveries
<1>11. recovery'.pc = "saved" /\ recovery'.id = recovery.id /\ recovery'.take = recovery.take
  BY <1>0 DEF RecoverSave, WindowTypes, Recoveries
<1>12. UNCHANGED <<rec, said, excused, on, manager, isRecording, resting, starting,
           stop, clicked, events, mid, stored, listening, pending, shown, sync, handler,
           meta, given, offered>>
  BY <1>0 DEF RecoverSave, given
<1>13. Adds(saves, saves', recovery.take) /\ Saved' = Saved \cup recovery.take
  BY SavesDo
<1> QED BY <1>10, <1>11, <1>12, <1>13

(* The effect of a recovery that fails.                                     *)
LEMMA RecoverFailsDoes ==
    ASSUME WindowInv, RecoverFails
    PROVE  /\ recovery.pc = "read"
           /\ recovery'.pc = "idle" /\ recovery'.id = 0 /\ recovery'.take = {}
           /\ UNCHANGED <<rec, said, excused, on, manager, isRecording, resting,
                  starting, stop, clicked, events, mid, stored, listening, pending, shown,
                  sync, handler, meta, given, saves, offered>>
<1> USE DEF backend, page, disk, filing, Nothing
<1>0. WindowTypes
  BY DEF WindowInv
<1>10. recovery.pc = "read"
  BY <1>0 DEF RecoverFails, Resting
<1>11. recovery'.pc = "idle" /\ recovery'.id = 0 /\ recovery'.take = {}
  BY <1>0 DEF RecoverFails, Resting
<1>12. UNCHANGED <<rec, said, excused, on, manager, isRecording, resting, starting,
           stop, clicked, events, mid, stored, listening, pending, shown, sync, handler,
           meta, given, saves, offered>>
  BY <1>0 DEF RecoverFails, Resting, given
<1> QED BY <1>10, <1>11, <1>12

(* The effect of the mark of a recovery.                                    *)
LEMMA RecoverMarkDoes ==
    ASSUME WindowInv, RecoverMark
    PROVE  /\ recovery.pc = "saved"
           /\ \A r \in Recordings : meta'[r] = IF r = recovery.id /\ meta[r] # "absent"
                  THEN "saved" ELSE meta[r]
           /\ offered' = offered \ {recovery.id}
           /\ recovery'.pc = "idle" /\ recovery'.id = 0 /\ recovery'.take = {}
           /\ UNCHANGED <<rec, said, excused, on, manager, isRecording, resting,
                  starting, stop, clicked, events, mid, stored, listening, pending, shown,
                  sync, handler, given, saves>>
<1> USE DEF backend, page, disk, filing, Nothing
<1>0. WindowTypes
  BY DEF WindowInv
<1>10. recovery.pc = "saved"
  BY <1>0 DEF RecoverMark, MarkSaved, Resting
<1>11. \A r \in Recordings : meta'[r] = IF r = recovery.id /\ meta[r] # "absent" THEN
           "saved" ELSE meta[r]
  BY <1>0 DEF RecoverMark, MarkSaved, Resting, WindowTypes
<1>12. offered' = offered \ {recovery.id}
  BY <1>0 DEF RecoverMark, MarkSaved, Resting
<1>13. recovery'.pc = "idle" /\ recovery'.id = 0 /\ recovery'.take = {}
  BY <1>0 DEF RecoverMark, MarkSaved, Resting
<1>14. UNCHANGED <<rec, said, excused, on, manager, isRecording, resting, starting,
           stop, clicked, events, mid, stored, listening, pending, shown, sync, handler,
           given, saves>>
  BY <1>0 DEF RecoverMark, MarkSaved, Resting, given
<1> QED BY <1>10, <1>11, <1>12, <1>13, <1>14

(* The effect of a meeting being deleted.                                   *)
LEMMA RemoveDoes ==
    ASSUME WindowInv, NEW r \in Recordings, Remove(r)
    PROVE  /\ r \in offered /\ recovery.pc = "idle"
           /\ pending = {} /\ sync.pc = "none" /\ ~starting /\ ~StartComing
           /\ \A x \in Recordings : meta'[x] = IF x = r THEN "absent" ELSE meta[x]
           /\ GivesLess /\ \A x \in Recordings : x # r => given'[x] = given[x]
           /\ offered' = offered \ {r}
           /\ UNCHANGED <<rec, said, excused, on, manager, isRecording, resting,
                  starting, stop, clicked, events, mid, stored, listening, pending, shown,
                  sync, handler, saves, recovery>>
<1> USE DEF backend, page, disk, filing, Nothing
<1>0. WindowTypes
  BY DEF WindowInv
<1>10. r \in offered /\ recovery.pc = "idle"
  BY <1>0 DEF Remove, Quiet
<1>11. pending = {} /\ sync.pc = "none" /\ ~starting /\ ~StartComing
  BY <1>0 DEF Remove, Quiet
<1>12. \A x \in Recordings : meta'[x] = IF x = r THEN "absent" ELSE meta[x]
  BY <1>0 DEF Remove, Quiet, WindowTypes
<1>13. GivesLess /\ \A x \in Recordings : x # r => given'[x] = given[x]
  BY <1>0 DEF Remove, Quiet, WindowTypes, given, GivesLess
<1>14. offered' = offered \ {r}
  BY <1>0 DEF Remove, Quiet
<1>15. UNCHANGED <<rec, said, excused, on, manager, isRecording, resting, starting,
           stop, clicked, events, mid, stored, listening, pending, shown, sync, handler,
           saves, recovery>>
  BY <1>0 DEF Remove, Quiet
<1> QED BY <1>10, <1>11, <1>12, <1>13, <1>14, <1>15

(* The effect of a reload.                                                  *)
LEMMA ReloadDoes ==
    ASSUME WindowInv, Reload
    PROVE  /\ excused' = excused \cup (Interrupted \ {0})
           /\ ~isRecording'
           /\ resting'
           /\ ~starting'
           /\ \A d \in Callers : stop'[d] = IF d = "controls" /\ stop[d] # "idle" THEN
                  "lost" ELSE stop[d]
           /\ events' = <<>>
           /\ mid' = 0
           /\ listening' = {}
           /\ pending' = {0}
           /\ shown' = {}
           /\ sync'.pc = "none" /\ sync'.take = {}
           /\ offered' = {}
           /\ recovery'.pc = "idle" /\ recovery'.id = 0 /\ recovery'.take = {}
           /\ UNCHANGED <<rec, said, on, manager, clicked, stored, meta, saves>>
           /\ GivesLess
           /\ AtRest(handler')
<1> USE DEF backend, page, disk, filing, Nothing
<1>0. WindowTypes
  BY DEF WindowInv
<1>10. excused' = excused \cup (Interrupted \ {0})
  BY <1>0 DEF Reload, FreshPage, Resting, Silent
<1>11. ~isRecording'
  BY <1>0 DEF Reload, FreshPage, Resting, Silent
<1>12. resting'
  BY <1>0 DEF Reload, FreshPage, Resting, Silent
<1>13. ~starting'
  BY <1>0 DEF Reload, FreshPage, Resting, Silent
<1>14. \A d \in Callers : stop'[d] = IF d = "controls" /\ stop[d] # "idle" THEN "lost"
           ELSE stop[d]
  BY <1>0 DEF Reload, FreshPage, Resting, Silent, WindowTypes
<1>15. events' = <<>>
  BY <1>0 DEF Reload, FreshPage, Resting, Silent
<1>16. mid' = 0
  BY <1>0 DEF Reload, FreshPage, Resting, Silent
<1>17. listening' = {}
  BY <1>0 DEF Reload, FreshPage, Resting, Silent
<1>18. pending' = {0}
  BY <1>0 DEF Reload, FreshPage, Resting, Silent
<1>19. shown' = {}
  BY <1>0 DEF Reload, FreshPage, Resting, Silent
<1>20. sync'.pc = "none" /\ sync'.take = {}
  BY <1>0 DEF Reload, FreshPage, Resting, Silent
<1>21. offered' = {}
  BY <1>0 DEF Reload, FreshPage, Resting, Silent
<1>22. recovery'.pc = "idle" /\ recovery'.id = 0 /\ recovery'.take = {}
  BY <1>0 DEF Reload, FreshPage, Resting, Silent
<1>23. UNCHANGED <<rec, said, on, manager, clicked, stored, meta, saves>>
  BY <1>0 DEF Reload, FreshPage, Resting, Silent
<1>25. GivesLess
  BY <1>0 DEF Reload, FreshPage, given, GivesLess
<1>24. AtRest(handler')
  BY Handled
<1> QED BY <1>10, <1>11, <1>12, <1>13, <1>14, <1>15, <1>16, <1>17, <1>18, <1>19, <1>20, <1>21,
          <1>22, <1>23, <1>24, <1>25

(* The effect of a crash.                                                   *)
LEMMA CrashDoes ==
    ASSUME WindowInv, Crash
    PROVE  /\ said' = 0
           /\ excused' = excused \cup (Interrupted \ {0})
           /\ ~on'
           /\ ~manager'
           /\ ~isRecording'
           /\ resting'
           /\ ~starting'
           /\ \A d \in Callers : stop'[d] = "idle"
           /\ clicked' = 0
           /\ events' = <<>>
           /\ mid' = 0
           /\ stored' = 0
           /\ listening' = {}
           /\ pending' = {0}
           /\ shown' = {}
           /\ sync'.pc = "none" /\ sync'.take = {}
           /\ offered' = {}
           /\ recovery'.pc = "idle" /\ recovery'.id = 0 /\ recovery'.take = {}
           /\ UNCHANGED <<rec, meta, saves>> /\ GivesLess
           /\ AtRest(handler')
<1> USE DEF backend, page, disk, filing, Nothing
<1>0. WindowTypes
  BY DEF WindowInv
<1>10. said' = 0
  BY <1>0 DEF Crash, FreshPage, Resting, Silent
<1>11. excused' = excused \cup (Interrupted \ {0})
  BY <1>0 DEF Crash, FreshPage, Resting, Silent
<1>12. ~on'
  BY <1>0 DEF Crash, FreshPage, Resting, Silent
<1>13. ~manager'
  BY <1>0 DEF Crash, FreshPage, Resting, Silent
<1>14. ~isRecording'
  BY <1>0 DEF Crash, FreshPage, Resting, Silent
<1>15. resting'
  BY <1>0 DEF Crash, FreshPage, Resting, Silent
<1>16. ~starting'
  BY <1>0 DEF Crash, FreshPage, Resting, Silent
<1>17. \A d \in Callers : stop'[d] = "idle"
  BY <1>0 DEF Crash, FreshPage, Resting, Silent, WindowTypes
<1>18. clicked' = 0
  BY <1>0 DEF Crash, FreshPage, Resting, Silent
<1>19. events' = <<>>
  BY <1>0 DEF Crash, FreshPage, Resting, Silent
<1>20. mid' = 0
  BY <1>0 DEF Crash, FreshPage, Resting, Silent
<1>21. stored' = 0
  BY <1>0 DEF Crash, FreshPage, Resting, Silent
<1>22. listening' = {}
  BY <1>0 DEF Crash, FreshPage, Resting, Silent
<1>23. pending' = {0}
  BY <1>0 DEF Crash, FreshPage, Resting, Silent
<1>24. shown' = {}
  BY <1>0 DEF Crash, FreshPage, Resting, Silent
<1>25. sync'.pc = "none" /\ sync'.take = {}
  BY <1>0 DEF Crash, FreshPage, Resting, Silent
<1>26. offered' = {}
  BY <1>0 DEF Crash, FreshPage, Resting, Silent
<1>27. recovery'.pc = "idle" /\ recovery'.id = 0 /\ recovery'.take = {}
  BY <1>0 DEF Crash, FreshPage, Resting, Silent
<1>28. UNCHANGED <<rec, meta, saves>>
  BY <1>0 DEF Crash, FreshPage, Resting, Silent
<1>30. GivesLess
  BY <1>0 DEF Crash, FreshPage, given, GivesLess
<1>29. AtRest(handler')
  BY Handled
<1> QED BY <1>10, <1>11, <1>12, <1>13, <1>14, <1>15, <1>16, <1>17, <1>18, <1>19, <1>20, <1>21,
          <1>22, <1>23, <1>24, <1>25, <1>26, <1>27, <1>28, <1>29, <1>30

(* Whatever is at work is at work on a recording that has begun.            *)
LEMMA BegunWorkStep ==
    WindowInv /\ OtherStep => BegunWork'
<1> SUFFICES ASSUME WindowInv, OtherStep PROVE BegunWork'
  OBVIOUS
<1>0. BegunWork
  BY DEF WindowInv, PastInv
<1>1. ASSUME Start PROVE BegunWork'
  BY <1>1, <1>0, StartDoes, Numbers DEF BegunWork, AllRest, Busy
<1>2. ASSUME StopComplete PROVE BegunWork'
  <2>1. rec \in Recordings /\ rec' = rec
    BY <1>2, StopCompleteDoes, RecBegun DEF Leaves
  <2> QED BY <2>1, RecordingShapes DEF BegunWork
<1>3. ASSUME NEW c \in Callers, StopBegin(c) PROVE BegunWork'
  BY <1>3, <1>0, StopBeginDoes, Numbers DEF BegunWork, AllRest, Busy
<1>4. ASSUME NEW c \in Callers, StopEnd(c) PROVE BegunWork'
  <2>1. rec \in Recordings /\ rec' = rec
    BY <1>4, StopEndDoes, RecBegun DEF NoStop, Draining
  <2> QED BY <2>1, RecordingShapes DEF BegunWork
<1>5. ASSUME StopLost PROVE BegunWork'
  BY <1>5, <1>0, StopLostDoes, Numbers DEF BegunWork, AllRest, Busy
<1>6. ASSUME NEW h \in Handlers, Waited(h) PROVE BegunWork'
  BY <1>6, <1>0, WaitedDoes, Numbers DEF Goes, BegunWork, AllRest, Busy
<1>7. ASSUME NEW h \in Handlers, Save(h) PROVE BegunWork'
  BY <1>7, <1>0, SaveDoes, Numbers DEF Goes, BegunWork, AllRest, Busy
<1>8. ASSUME NEW h \in Handlers, SaveFails(h) PROVE BegunWork'
  BY <1>8, <1>0, SaveFailsDoes, Numbers DEF Goes, BegunWork, AllRest, Busy
<1>9. ASSUME NEW h \in Handlers, Mark(h) PROVE BegunWork'
  BY <1>9, <1>0, MarkDoes, Numbers DEF Goes, BegunWork, AllRest, Busy
<1>10. ASSUME NEW r \in Recordings, RecoverRead(r) PROVE BegunWork'
  <2>1. r \in offered /\ rec' = rec
    BY <1>10, RecoverReadDoes
  <2>2. r <= rec /\ r \in Nat \ {0} /\ rec \in Nat
    BY <2>1, Numbers, RecordingShapes DEF WindowInv, PastInv, BegunIds
  <2> QED BY <2>1, <2>2 DEF BegunWork
<1>11. ASSUME RecoverSave PROVE BegunWork'
  BY <1>11, <1>0, RecoverSaveDoes, Numbers DEF BegunWork, AllRest, Busy
<1>12. ASSUME RecoverFails PROVE BegunWork'
  BY <1>12, <1>0, RecoverFailsDoes, Numbers DEF BegunWork, AllRest, Busy
<1>13. ASSUME RecoverMark PROVE BegunWork'
  BY <1>13, <1>0, RecoverMarkDoes, Numbers DEF BegunWork, AllRest, Busy
<1>14. ASSUME Reload PROVE BegunWork'
  BY <1>14, <1>0, ReloadDoes, Numbers DEF AtRest, BegunWork, AllRest, Busy
<1>15. ASSUME Crash PROVE BegunWork'
  BY <1>15, <1>0, CrashDoes, Numbers DEF AtRest, BegunWork, AllRest, Busy
<1>16. CASE UNCHANGED <<rec, on, manager, handler, recovery>>
  BY <1>16, <1>0 DEF BegunWork, AllRest, Busy
<1> QED
  BY <1>1, <1>2, <1>3, <1>4, <1>5, <1>6, <1>7, <1>8, <1>9, <1>10, <1>11, <1>12, <1>13,
     <1>14, <1>15, <1>16, Writers
  DEF Writes

(* No step names a recording that has not begun.                            *)
LEMMA BegunIdsStep ==
    WindowInv /\ OtherStep => BegunIds'
<1> SUFFICES ASSUME WindowInv, OtherStep PROVE BegunIds'
  OBVIOUS
<1>0. BegunIds
  BY DEF WindowInv, PastInv
<1>1. ASSUME Start PROVE BegunIds'
  <2>1. Joins(events, events', "started", rec + 1, 0) /\ rec' = rec + 1
        /\ UNCHANGED <<stored, recovery, offered>>
    BY <1>1, StartDoes
  <2>2. \A i \in DOMAIN events' : events'[i].rec <= rec'
    <3>1. \A i \in DOMAIN events : events[i].rec \in Nat /\ events[i].rec <= rec
      BY <1>0, EventShapes, RecordingShapes DEF BegunIds
    <3> QED BY <2>1, <3>1, Numbers DEF Joins
  <2>3. stored <= rec' /\ recovery.id <= rec' /\ \A r \in offered : r <= rec'
    <3>1. stored \in Nat /\ recovery.id \in Nat /\ offered \subseteq Nat
      BY Numbers, RecoveryShape, RecordingShapes
    <3> QED BY <1>0, <2>1, <3>1, Numbers DEF BegunIds
  <2> QED BY <1>0, <2>1, <2>2, <2>3 DEF BegunIds
<1>2. ASSUME Emit PROVE BegunIds'
  BY <1>2, <1>0, EmitDoes, Numbers DEF Joins, BegunIds
<1>3. ASSUME Started PROVE BegunIds'
  BY <1>3, <1>0, StartedDoes, Numbers DEF Leaves, BegunIds
<1>4. ASSUME Update PROVE BegunIds'
  BY <1>4, <1>0, UpdateDoes, Numbers DEF Leaves, BegunIds
<1>5. ASSUME Stopped PROVE BegunIds'
  BY <1>5, <1>0, StoppedDoes, Numbers DEF Leaves, BegunIds
<1>6. ASSUME StopComplete PROVE BegunIds'
  BY <1>6, <1>0, StopCompleteDoes, Numbers DEF Leaves, BegunIds
<1>7. ASSUME NEW c \in Callers, StopEnd(c) PROVE BegunIds'
  <2>1. UNCHANGED <<rec, stored, recovery, offered>>
    BY <1>7, StopEndDoes
  <2>2. CASE Joins(events, events', "stopped", rec, 0)
    BY <1>0, <2>1, <2>2, Numbers DEF Joins, BegunIds
  <2>3. ASSUME NEW q, Joins(events, q, "stopped", rec, 0),
               Joins(q, events', "stop-complete", rec, 0)
        PROVE  BegunIds'
    <3>1. \A i \in DOMAIN q : q[i].rec <= rec
      BY <1>0, <2>3, Numbers DEF Joins, BegunIds
    <3> QED BY <1>0, <2>1, <2>3, <3>1, Numbers DEF Joins, BegunIds
  <2> QED BY <1>7, <2>2, <2>3, StopEndDoes
<1>8. ASSUME StopAgain PROVE BegunIds'
  BY <1>8, <1>0, StopAgainDoes, Numbers DEF Joins, BegunIds
<1>9. ASSUME StopLost PROVE BegunIds'
  BY <1>9, <1>0, StopLostDoes, Numbers DEF Joins, BegunIds
<1>10. ASSUME NEW h \in Handlers, Mark(h) PROVE BegunIds'
  BY <1>10, <1>0, MarkDoes, Numbers DEF BegunIds
<1>11. ASSUME Check PROVE BegunIds'
  <2>1. \A r \in offered' : r <= rec
    <3>1. \A r \in Recordings : meta[r] = "unsaved" => r <= rec
      BY Numbers, RecordingShapes DEF WindowInv, PastInv, NoneLater
    <3> QED BY <1>11, <3>1, CheckDoes
  <2>2. UNCHANGED <<rec, events, stored, recovery>>
    BY <1>11, CheckDoes
  <2> QED BY <1>0, <2>1, <2>2 DEF BegunIds
<1>12. ASSUME NEW r \in Recordings, RecoverRead(r) PROVE BegunIds'
  <2>1. r <= rec /\ recovery'.id = r /\ UNCHANGED <<rec, events, stored, offered>>
    BY <1>12, <1>0, RecoverReadDoes DEF BegunIds
  <2> QED BY <1>0, <2>1, RecordingShapes DEF BegunIds
<1>13. ASSUME RecoverSave PROVE BegunIds'
  BY <1>13, <1>0, RecoverSaveDoes, Numbers DEF BegunIds
<1>14. ASSUME RecoverFails PROVE BegunIds'
  BY <1>14, <1>0, RecoverFailsDoes, Numbers DEF BegunIds
<1>15. ASSUME RecoverMark PROVE BegunIds'
  BY <1>15, <1>0, RecoverMarkDoes, Numbers DEF BegunIds
<1>16. ASSUME NEW r \in Recordings, Remove(r) PROVE BegunIds'
  BY <1>16, <1>0, RemoveDoes, Numbers DEF BegunIds
<1>17. ASSUME Reload PROVE BegunIds'
  BY <1>17, <1>0, ReloadDoes, Numbers DEF BegunIds
<1>18. ASSUME Crash PROVE BegunIds'
  BY <1>18, <1>0, CrashDoes, Numbers DEF BegunIds
<1>19. CASE UNCHANGED <<rec, events, stored, offered, recovery>>
  BY <1>19, <1>0 DEF BegunIds
<1> QED
  BY <1>1, <1>2, <1>3, <1>4, <1>5, <1>6, <1>7, <1>8, <1>9, <1>10, <1>11, <1>12, <1>13,
     <1>14, <1>15, <1>16, <1>17, <1>18, <1>19, Writers
  DEF Writes

(* No step moves a final of a recording that has not begun.                 *)
LEMMA BegunFinalsStep ==
    WindowInv /\ OtherStep => BegunFinals'
<1> SUFFICES ASSUME WindowInv, OtherStep PROVE BegunFinals'
  OBVIOUS
<1>0. BegunFinals
  BY DEF WindowInv, PastInv
<1>1. ASSUME SyncSet PROVE BegunFinals'
  <2>1. UNCHANGED <<rec, handler, given, saves, recovery>> /\ shown' = sync.take
    BY <1>1, SyncSetDoes
  <2>2. \A f \in sync.take : f[1] <= rec
    BY Numbers DEF WindowInv, ShownInv, SyncIsOfOne
  <2> QED BY <1>0, <2>1, <2>2, SavesDo DEF BegunFinals, Begun
<1>2. ASSUME Start PROVE BegunFinals'
  <2>1. UNCHANGED <<shown, handler, given, saves, recovery>> /\ rec' = rec + 1
    BY <1>2, StartDoes
  <2>2. \A f \in Finals : Begun(f) => Begun(f)'
    BY <2>1, Numbers, RecordingShapes DEF Begun
  <2> QED BY <1>0, <2>1, <2>2, SavesDo, ListShapes, HandlerShapes, RecoveryShape DEF BegunFinals
<1>3. ASSUME StartReturned PROVE BegunFinals'
  BY <1>3, <1>0, StartReturnedDoes, Numbers, SavesDo DEF BegunFinals, Begun
<1>4. ASSUME Update PROVE BegunFinals'
  <2>1. /\ UNCHANGED <<rec, handler, saves, recovery>>
        /\ shown' \subseteq shown \cup {<<events[1].rec, events[1].seg>>}
        /\ \A r \in Recordings :
               given'[r] \subseteq given[r] \cup {<<events[1].rec, events[1].seg>>}
        /\ 1 \in DOMAIN events
    BY <1>4, UpdateDoes DEF Leaves
  <2>2. events[1].rec <= rec
    BY <2>1 DEF WindowInv, PastInv, BegunIds
  <2> QED BY <1>0, <2>1, <2>2, SavesDo DEF BegunFinals, Begun
<1>5. ASSUME StopComplete PROVE BegunFinals'
  BY <1>5, <1>0, StopCompleteDoes, Numbers, SavesDo DEF Goes, Alarmed, BegunFinals, Begun
<1>6. ASSUME NEW c \in Callers, StopEnd(c) PROVE BegunFinals'
  <2>1. UNCHANGED <<rec, shown, given, saves, recovery>>
    BY <1>6, StopEndDoes
  <2>2. \A h \in Handlers : handler'[h].take \in {{}, handler[h].take}
    BY <1>6, StopEndDoes DEF Alarmed, Goes
  <2> QED BY <1>0, <2>1, <2>2, SavesDo DEF BegunFinals, Begun
<1>7. ASSUME NEW h \in Handlers, Waited(h) PROVE BegunFinals'
  BY <1>7, <1>0, WaitedDoes, Numbers, SavesDo DEF Goes, BegunFinals, Begun
<1>8. ASSUME NEW h \in Handlers, Save(h) PROVE BegunFinals'
  BY <1>8, <1>0, SaveDoes, Numbers DEF Goes, Adds, BegunFinals, Begun
<1>9. ASSUME NEW h \in Handlers, SaveFails(h) PROVE BegunFinals'
  BY <1>9, <1>0, SaveFailsDoes, Numbers, SavesDo DEF Goes, BegunFinals, Begun
<1>10. ASSUME NEW h \in Handlers, Mark(h) PROVE BegunFinals'
  BY <1>10, <1>0, MarkDoes, Numbers, SavesDo DEF Goes, BegunFinals, Begun
<1>11. ASSUME ClearLater PROVE BegunFinals'
  BY <1>11, <1>0, ClearLaterDoes, Numbers, SavesDo DEF BegunFinals, Begun
<1>12. ASSUME NEW r \in Recordings, RecoverRead(r) PROVE BegunFinals'
  BY <1>12, <1>0, RecoverReadDoes, Numbers, SavesDo DEF BegunFinals, Begun
<1>13. ASSUME RecoverSave PROVE BegunFinals'
  BY <1>13, <1>0, RecoverSaveDoes, Numbers DEF Adds, BegunFinals, Begun
<1>14. ASSUME RecoverFails PROVE BegunFinals'
  BY <1>14, <1>0, RecoverFailsDoes, Numbers, SavesDo DEF BegunFinals, Begun
<1>15. ASSUME RecoverMark PROVE BegunFinals'
  BY <1>15, <1>0, RecoverMarkDoes, Numbers, SavesDo DEF BegunFinals, Begun
<1>16. ASSUME NEW r \in Recordings, Remove(r) PROVE BegunFinals'
  BY <1>16, <1>0, RemoveDoes, Numbers, SavesDo DEF GivesLess, BegunFinals, Begun
<1>17. ASSUME Reload PROVE BegunFinals'
  BY <1>17, <1>0, ReloadDoes, Numbers, SavesDo DEF GivesLess, AtRest, BegunFinals, Begun
<1>18. ASSUME Crash PROVE BegunFinals'
  BY <1>18, <1>0, CrashDoes, Numbers, SavesDo DEF GivesLess, AtRest, BegunFinals, Begun
<1>19. CASE UNCHANGED <<rec, shown, handler, given, saves, recovery>>
  BY <1>19, <1>0, SavesDo DEF BegunFinals, Begun
<1>90. ASSUME NEW w \in writes, FilingFails(w) PROVE BegunFinals'
  BY <1>90, <1>0, FilingFailsDoes, Numbers, SavesDo DEF GivesLess, BegunFinals, Begun
<1> QED
  BY <1>90, <1>1, <1>2, <1>3, <1>4, <1>5, <1>6, <1>7, <1>8, <1>9, <1>10, <1>11, <1>12, <1>13,
     <1>14, <1>15, <1>16, <1>17, <1>18, <1>19, Writers
  DEF Writes

(* A meeting that has not begun has neither mark nor copy.                  *)
LEMMA NoneLaterStep ==
    WindowInv /\ OtherStep => NoneLater'
<1> SUFFICES ASSUME WindowInv, OtherStep PROVE NoneLater'
  OBVIOUS
<1>0. NoneLater
  BY DEF WindowInv, PastInv
<1>1. ASSUME Start PROVE NoneLater'
  <2>1. rec' = rec + 1 /\ UNCHANGED <<given, meta>>
    BY <1>1, StartDoes
  <2> QED BY <1>0, <2>1, Numbers, RecordingShapes DEF NoneLater
<1>2. ASSUME Started PROVE NoneLater'
  <2>1. /\ UNCHANGED <<rec, given>> /\ 1 \in DOMAIN events
        /\ \A r \in Recordings : r # events[1].rec => meta'[r] = meta[r]
    BY <1>2, StartedDoes DEF Leaves
  <2>2. events[1].rec <= rec /\ events[1].rec \in Nat /\ rec \in Nat
    BY <2>1, EventShapes, RecordingShapes, Numbers DEF WindowInv, PastInv, BegunIds
  <2> QED BY <1>0, <2>1, <2>2, RecordingShapes DEF NoneLater
<1>3. ASSUME Update PROVE NoneLater'
  <2>1. /\ UNCHANGED <<rec, meta, mid>> /\ events[1].kind = "final"
        /\ \A r \in Recordings : r \notin listening => given'[r] = given[r]
    BY <1>3, UpdateDoes DEF Leaves
  <2>2. \A r \in listening : r <= rec
    BY <2>1, Numbers, RecordingShapes DEF WindowInv, MidInv, IdsCurrent, StartIsNext
  <2> QED BY <1>0, <2>1, <2>2, Numbers, RecordingShapes DEF NoneLater
<1>4. ASSUME NEW h \in Handlers, Mark(h) PROVE NoneLater'
  BY <1>4, <1>0, MarkDoes, Numbers DEF NoneLater
<1>5. ASSUME RecoverMark PROVE NoneLater'
  BY <1>5, <1>0, RecoverMarkDoes, Numbers DEF NoneLater
<1>6. ASSUME NEW r \in Recordings, Remove(r) PROVE NoneLater'
  BY <1>6, <1>0, RemoveDoes, Numbers DEF GivesLess, NoneLater
<1>7. CASE UNCHANGED <<rec, meta, given>>
  BY <1>7, <1>0 DEF NoneLater
<1>90. ASSUME NEW w \in writes, FilingFails(w) PROVE NoneLater'
  BY <1>90, <1>0, FilingFailsDoes, Numbers DEF GivesLess, NoneLater
<1>91. CASE Reload \/ Crash
  <2>1. UNCHANGED <<rec, meta>> /\ GivesLess
    BY <1>91, ReloadDoes, CrashDoes
  <2> QED BY <1>0, <2>1 DEF GivesLess, NoneLater
<1> QED
  BY <1>90, <1>91, <1>1, <1>2, <1>3, <1>4, <1>5, <1>6, <1>7, Writers
  DEF Writes

(* What the invariant says at the moments that matter.                      *)
(* Once the stop of a recording has been heard of, all its events have.     *)
LEMMA OverIsHeard ==
    WindowInv /\ Fine /\ ~on /\ ~StopComing => events = <<>>
<1> SUFFICES ASSUME WindowInv, Fine, ~on, ~StopComing, events # <<>> PROVE FALSE
  OBVIOUS
<1>1. Len(events) \in DOMAIN events
  <2>1. events \in Seq(Events)
    BY DEF WindowInv, WindowTypes
  <2> QED BY <2>1
<1>2. events[Len(events)].kind \in {"stopped", "stop-complete"}
  BY DEF WindowInv, QueueInv, StopLast
<1> QED BY <1>1, <1>2 DEF StopComing

(* While a stop drains the transcription the window is undisturbed.         *)
LEMMA DrainsInPeace ==
    WindowInv /\ Fine /\ ~NoStop => on /\ AllRest /\ ~StopComing /\ ~StartComing
BY DEF WindowInv, StopInv, OneStop, RecordsUndisturbed, StartsClean, NoStop

(* A start excuses nobody only when the last recording is done with.        *)
LEMMA FineStart ==
    ASSUME WindowInv, Start
    PROVE  /\ Fine /\ (~Saving <=> Fine') /\ (Fine' => AllRest /\ ~StopComing /\ events = <<>>)
           /\ rec \in Nat /\ rec' = rec + 1 /\ rec' \in Recordings
<1>1. Fine /\ ~on /\ excused = {} /\ rec' = rec + 1 /\ rec < MaxRecordings /\ rec \in Nat
      /\ excused' = IF Saving THEN {rec, rec + 1} ELSE {}
  BY StartDoes, Numbers DEF Fine
<1>2. ~Saving <=> Fine'
  BY <1>1 DEF Fine
<1>3. ~Saving => AllRest /\ ~StopComing
  BY DEF Saving, AllRest
<1>4. rec' \in Recordings
  BY <1>1, WindowAssumption DEF Recordings
<1> QED BY <1>1, <1>2, <1>3, <1>4, OverIsHeard

(* A reload or a crash excuses nobody only between recordings.              *)
LEMMA FineBreak ==
    ASSUME WindowInv, Reload \/ Crash, Fine'
    PROVE  /\ Fine /\ ~on /\ AllRest /\ events = <<>> /\ NoStop
           /\ recovery.pc = "saved" => recovery.id # rec
<1>1. rec' = rec /\ excused' = excused \cup (Interrupted \ {0})
  BY ReloadDoes, CrashDoes
<1>2. Fine /\ (rec # 0 => rec \notin Interrupted)
  BY <1>1 DEF Fine
<1>3. rec = 0 => ~on /\ AllRest /\ events = <<>> /\ NoStop /\ recovery.pc = "idle"
  BY RecBegun, RecordingShapes
<1>4. rec # 0 => ~on /\ AllRest /\ (recovery.pc = "saved" => recovery.id # rec)
                 /\ \A i \in DOMAIN events : events[i].rec # rec
  BY <1>2 DEF Interrupted, AllRest
<1>5. \A i \in DOMAIN events : events[i].rec = rec
  BY <1>2 DEF WindowInv, QueueInv, OfCurrent, Fine
<1>6. rec # 0 => events = <<>>
  <2>1. events \in Seq(Events)
    BY DEF WindowInv, WindowTypes
  <2> QED BY <2>1, <1>4, <1>5
<1>7. ~on => NoStop
  BY <1>2, DrainsInPeace
<1> QED BY <1>2, <1>3, <1>4, <1>6, <1>7

(* When the next event is no start, the window listens for the current      *)
(* recording.                                                               *)
LEMMA AtHead ==
    ASSUME WindowInv, 1 \in DOMAIN events, events[1].kind # "started"
    PROVE  /\ \A x \in listening \cup pending \cup {mid} : x \in excused \cup {0, rec}
           /\ Fine => /\ ~StartComing /\ mid = rec /\ listening \cup pending \subseteq {rec}
                      /\ events[1].rec = rec /\ meta[rec] = "unsaved" /\ events # <<>>
<1>1. \A x \in listening \cup pending \cup {mid} : x \in excused \cup {0, rec}
  BY DEF WindowInv, MidInv, IdsCurrent, StartIsNext
<1>2. Fine => ~StartComing
  BY DEF WindowInv, QueueInv, InOrder, StartComing
<1>3. Fine => events[1].rec = rec
  BY DEF WindowInv, QueueInv, OfCurrent, Fine
<1>4. events # <<>>
  OBVIOUS
<1> QED
  BY <1>1, <1>2, <1>3, <1>4 DEF WindowInv, MidInv, OneListener, MeetingKnown

(* A final that finds its listener is filed under its own meeting.          *)
LEMMA FineUpdate ==
    ASSUME WindowInv, Update, Fine'
    PROVE  /\ Fine /\ events[1].rec = rec /\ listening = {rec} /\ pending = {}
           /\ meta[rec] = "unsaved" /\ ~StartComing /\ ~starting /\ rec \in Recordings
           /\ events[1].seg \in 1..said /\ events # <<>> /\ rec' = rec
<1>1. /\ 1 \in DOMAIN events /\ events[1].kind = "final" /\ events # <<>> /\ UNCHANGED rec
      /\ excused' = IF pending = {} THEN excused ELSE excused \cup {events[1].rec}
  BY UpdateDoes DEF Leaves
<1>2. Fine /\ events[1].rec = rec /\ pending = {}
  BY <1>1, AtHead DEF Fine
<1>3. ~StartComing /\ mid = rec /\ listening \subseteq {rec} /\ meta[rec] = "unsaved"
  BY <1>1, <1>2, AtHead
<1>4. mid \in listening
  BY <1>2 DEF WindowInv, MidInv, Listens
<1>5. events[1].seg > 0 /\ events[1].seg <= said /\ events[1].seg \in Nat /\ said \in Nat
  BY <1>1, <1>2, EventShapes, Numbers DEF WindowInv, QueueInv, OfCurrent
<1>6. ~starting
  BY <1>5 DEF WindowInv, ShownInv, NothingYet
<1>7. rec \in Recordings
  BY <1>1, <1>2, EventShapes
<1> QED BY <1>1, <1>2, <1>3, <1>4, <1>5, <1>6, <1>7

(* Whoever is at work on the current recording is alone.                    *)
LEMMA FineBusy ==
    ASSUME WindowInv, Fine, NEW h \in Handlers, Busy(h)
    PROVE  /\ ~on /\ ~StartComing /\ \A g \in Handlers : Busy(g) => g = h
           /\ handler[h].id = rec /\ rec \in Recordings /\ NoStop
           /\ handler[h].pc # "waiting" => events = <<>> /\ pending = {}
           /\ rec \notin offered /\ (recovery.pc # "idle" => recovery.id # rec)
<1>1. ~on /\ ~StartComing /\ NoStop
  BY DrainsInPeace DEF WindowInv, StopInv, RecordsUndisturbed, StartsClean, AllRest
<1>2. \A g \in Handlers : Busy(g) => g = h
  BY DEF WindowInv, StopInv, OneHandler, Handlers
<1>3. handler[h].id = rec /\ (handler[h].pc # "waiting" => events = <<>> /\ pending = {})
  BY DEF WindowInv, StopInv, OneHandler
<1>4. rec \in Recordings
  BY RecBegun DEF AllRest
<1>5. rec \notin offered /\ (recovery.pc # "idle" => recovery.id # rec)
  BY DEF WindowInv, RecoveryInv, OfferedIsOver, AllRest
<1> QED BY <1>1, <1>2, <1>3, <1>4, <1>5

(* What is on its way stays of the current recording.                       *)
LEMMA OfCurrentStep ==
    WindowInv /\ OtherStep => OfCurrent'
<1> SUFFICES ASSUME WindowInv, OtherStep PROVE OfCurrent'
  OBVIOUS
<1>0. OfCurrent
  BY DEF WindowInv, QueueInv
<1>1. ASSUME SyncSet PROVE OfCurrent'
  <2>1. UNCHANGED <<rec, events, said>> /\ excused \subseteq excused'
    BY <1>1, SyncSetDoes
  <2> QED BY <1>0, <2>1 DEF OfCurrent
<1>2. ASSUME Start PROVE OfCurrent'
  <2>1. /\ Joins(events, events', "started", rec + 1, 0) /\ rec' = rec + 1
        /\ rec \in Nat /\ Fine /\ (~Saving => events = <<>>)
        /\ excused = {} /\ excused' = IF Saving THEN {rec, rec + 1} ELSE {}
    BY <1>2, StartDoes, FineStart
  <2>2. \A i \in DOMAIN events : events[i].rec = rec /\ events[i].kind # "started"
    BY <1>0, <2>1, StartDoes, <1>2 DEF OfCurrent, StartComing
  <2>3. CASE Saving
    BY <1>0, <2>1, <2>2, <2>3 DEF OfCurrent, Joins
  <2>4. CASE ~Saving
    BY <2>1, <2>4 DEF OfCurrent, Joins
  <2> QED BY <2>3, <2>4
<1>3. ASSUME Emit PROVE OfCurrent'
  <2>1. /\ Joins(events, events', "final", rec, said + 1) /\ UNCHANGED <<rec, excused>>
        /\ said' = said + 1 /\ said \in Nat /\ \A i \in DOMAIN events : events[i].seg \in Nat
    BY <1>3, EmitDoes, Numbers, EventShapes
  <2> QED BY <1>0, <2>1 DEF Joins, OfCurrent
<1>4. ASSUME Started PROVE OfCurrent'
  <2>1. Leaves(events, events', "started") /\ UNCHANGED <<rec, said>>
        /\ excused \subseteq excused'
    BY <1>4, StartedDoes
  <2>2. \A i \in DOMAIN events' : i + 1 \in DOMAIN events /\ events'[i] = events[i + 1]
    BY <2>1 DEF Leaves
  <2> QED BY <1>0, <2>1, <2>2 DEF OfCurrent
<1>5. ASSUME Update PROVE OfCurrent'
  <2>1. Leaves(events, events', "final") /\ UNCHANGED <<rec, said>>
        /\ excused \subseteq excused'
    BY <1>5, UpdateDoes
  <2>2. \A i \in DOMAIN events' : i + 1 \in DOMAIN events /\ events'[i] = events[i + 1]
    BY <2>1 DEF Leaves
  <2> QED BY <1>0, <2>1, <2>2 DEF OfCurrent
<1>6. ASSUME Stopped PROVE OfCurrent'
  <2>1. Leaves(events, events', "stopped") /\ UNCHANGED <<rec, said>>
        /\ excused \subseteq excused'
    BY <1>6, StoppedDoes
  <2>2. \A i \in DOMAIN events' : i + 1 \in DOMAIN events /\ events'[i] = events[i + 1]
    BY <2>1 DEF Leaves
  <2> QED BY <1>0, <2>1, <2>2 DEF OfCurrent
<1>7. ASSUME StopComplete PROVE OfCurrent'
  <2>1. Leaves(events, events', "stop-complete") /\ UNCHANGED <<rec, said>>
        /\ excused \subseteq excused'
    BY <1>7, StopCompleteDoes
  <2>2. \A i \in DOMAIN events' : i + 1 \in DOMAIN events /\ events'[i] = events[i + 1]
    BY <2>1 DEF Leaves
  <2> QED BY <1>0, <2>1, <2>2 DEF OfCurrent
<1>8. ASSUME NEW c \in Callers, StopBegin(c) PROVE OfCurrent'
  <2>1. UNCHANGED <<rec, events, said>> /\ excused \subseteq excused'
    BY <1>8, StopBeginDoes
  <2> QED BY <1>0, <2>1 DEF OfCurrent
<1>9. ASSUME NEW c \in Callers, StopEnd(c) PROVE OfCurrent'
  <2>1. UNCHANGED <<rec, excused, said>>
    BY <1>9, StopEndDoes
  <2>2. CASE Joins(events, events', "stopped", rec, 0)
    BY <1>0, <2>1, <2>2 DEF Joins, OfCurrent
  <2>3. ASSUME NEW q, Joins(events, q, "stopped", rec, 0),
               Joins(q, events', "stop-complete", rec, 0)
        PROVE  OfCurrent'
    <3>1. \A i \in DOMAIN q :
            /\ q[i].rec = rec \/ {q[i].rec, rec} \subseteq excused
            /\ q[i].kind = "started" => q[i].rec = rec
            /\ q[i].kind = "final" => q[i].seg > 0 /\ (q[i].rec = rec => q[i].seg <= said)
            /\ q[i].kind # "final" => q[i].seg = 0
      BY <1>0, <2>3 DEF Joins, OfCurrent
    <3> QED BY <2>1, <2>3, <3>1 DEF Joins, OfCurrent
  <2> QED BY <1>9, <2>2, <2>3, StopEndDoes
<1>10. ASSUME StopAgain PROVE OfCurrent'
  <2>1. Joins(events, events', "stop-complete", rec, 0) /\ UNCHANGED <<rec, said>>
        /\ excused' = excused \cup {rec}
    BY <1>10, StopAgainDoes
  <2> QED BY <1>0, <2>1 DEF Joins, OfCurrent
<1>11. ASSUME StopLost PROVE OfCurrent'
  BY <1>11, <1>0, StopLostDoes, Numbers DEF Joins, OfCurrent
<1>12. ASSUME NEW h \in Handlers, Mark(h) PROVE OfCurrent'
  <2>1. UNCHANGED <<rec, events, said>> /\ excused \subseteq excused'
    BY <1>12, MarkDoes
  <2> QED BY <1>0, <2>1 DEF OfCurrent
<1>13. ASSUME ClearLater PROVE OfCurrent'
  <2>1. UNCHANGED <<rec, events, said>> /\ excused \subseteq excused'
    BY <1>13, ClearLaterDoes
  <2> QED BY <1>0, <2>1 DEF OfCurrent
<1>14. ASSUME Check PROVE OfCurrent'
  <2>1. UNCHANGED <<rec, events, said>> /\ excused \subseteq excused'
    BY <1>14, CheckDoes
  <2> QED BY <1>0, <2>1 DEF OfCurrent
<1>15. ASSUME Reload PROVE OfCurrent'
  BY <1>15, ReloadDoes DEF OfCurrent
<1>16. ASSUME Crash PROVE OfCurrent'
  BY <1>16, CrashDoes DEF OfCurrent
<1>17. CASE UNCHANGED <<rec, said, excused, events>>
  BY <1>17, <1>0 DEF OfCurrent
<1> QED
  BY <1>1, <1>2, <1>3, <1>4, <1>5, <1>6, <1>7, <1>8, <1>9, <1>10, <1>11, <1>12, <1>13,
     <1>14, <1>15, <1>16, <1>17, Writers
  DEF Writes

(* The start stays first in the queue and the call of the provider last.    *)
LEMMA InOrderStep ==
    WindowInv /\ OtherStep => InOrder'
<1> SUFFICES ASSUME WindowInv, OtherStep PROVE InOrder'
  OBVIOUS
<1>0. InOrder
  BY DEF WindowInv, QueueInv
<1>1. ASSUME SyncSet PROVE InOrder'
  <2>1. UNCHANGED <<events>> /\ (Fine' => Fine)
    BY <1>1, SyncSetDoes DEF Fine
  <2> QED BY <1>0, <2>1 DEF InOrder
<1>2. ASSUME Start PROVE InOrder'
  <2>1. Joins(events, events', "started", rec + 1, 0) /\ (Fine' => events = <<>>)
    BY <1>2, StartDoes, FineStart
  <2> QED BY <2>1 DEF InOrder, Joins
<1>3. ASSUME Emit PROVE InOrder'
  <2>1. Joins(events, events', "final", rec, said + 1) /\ (Fine' => Fine)
    BY <1>3, EmitDoes DEF Fine
  <2>2. Fine => on
    BY <1>3, EmitDoes, DrainsInPeace DEF NoStop, Draining
  <2>3. Fine => \A i \in DOMAIN events : events[i].kind # "stop-complete"
    BY <2>2 DEF WindowInv, StopInv, RecordsUndisturbed, StopComing
  <2> QED BY <1>0, <2>1, <2>3 DEF InOrder, Joins
<1>4. ASSUME Started PROVE InOrder'
  <2>1. Leaves(events, events', "started") /\ (Fine' => Fine)
    BY <1>4, StartedDoes DEF Fine
  <2>2. /\ Len(events) \in Nat /\ Len(events') = Len(events) - 1
        /\ DOMAIN events' = 1..(Len(events) - 1)
        /\ \A i \in DOMAIN events' : i + 1 \in DOMAIN events /\ events'[i] = events[i + 1]
    BY <2>1 DEF Leaves
  <2> QED BY <1>0, <2>1, <2>2 DEF InOrder
<1>5. ASSUME Update PROVE InOrder'
  <2>1. Leaves(events, events', "final") /\ (Fine' => Fine)
    BY <1>5, UpdateDoes DEF Fine
  <2>2. /\ Len(events) \in Nat /\ Len(events') = Len(events) - 1
        /\ DOMAIN events' = 1..(Len(events) - 1)
        /\ \A i \in DOMAIN events' : i + 1 \in DOMAIN events /\ events'[i] = events[i + 1]
    BY <2>1 DEF Leaves
  <2> QED BY <1>0, <2>1, <2>2 DEF InOrder
<1>6. ASSUME Stopped PROVE InOrder'
  <2>1. Leaves(events, events', "stopped") /\ (Fine' => Fine)
    BY <1>6, StoppedDoes DEF Fine
  <2>2. /\ Len(events) \in Nat /\ Len(events') = Len(events) - 1
        /\ DOMAIN events' = 1..(Len(events) - 1)
        /\ \A i \in DOMAIN events' : i + 1 \in DOMAIN events /\ events'[i] = events[i + 1]
    BY <2>1 DEF Leaves
  <2> QED BY <1>0, <2>1, <2>2 DEF InOrder
<1>7. ASSUME StopComplete PROVE InOrder'
  <2>1. Leaves(events, events', "stop-complete") /\ (Fine' => Fine)
    BY <1>7, StopCompleteDoes DEF Fine
  <2>2. /\ Len(events) \in Nat /\ Len(events') = Len(events) - 1
        /\ DOMAIN events' = 1..(Len(events) - 1)
        /\ \A i \in DOMAIN events' : i + 1 \in DOMAIN events /\ events'[i] = events[i + 1]
    BY <2>1 DEF Leaves
  <2> QED BY <1>0, <2>1, <2>2 DEF InOrder
<1>8. ASSUME NEW c \in Callers, StopBegin(c) PROVE InOrder'
  <2>1. UNCHANGED <<events>> /\ (Fine' => Fine)
    BY <1>8, StopBeginDoes DEF Fine
  <2> QED BY <1>0, <2>1 DEF InOrder
<1>9. ASSUME NEW c \in Callers, StopEnd(c) PROVE InOrder'
  <2>1. UNCHANGED <<rec, excused, said>> /\ Fine' = Fine
    BY <1>9, StopEndDoes DEF Fine
  <2>0. Fine => \A i \in DOMAIN events : events[i].kind # "stop-complete"
    BY <1>9, StopEndDoes, DrainsInPeace DEF NoStop, Draining, StopComing
  <2>2. CASE Joins(events, events', "stopped", rec, 0)
    BY <1>0, <2>0, <2>1, <2>2 DEF Joins, InOrder
  <2>3. ASSUME NEW q, Joins(events, q, "stopped", rec, 0),
               Joins(q, events', "stop-complete", rec, 0)
        PROVE  InOrder'
    <3>1. Fine => \A i \in DOMAIN q : /\ q[i].kind = "started" => i = 1
                                      /\ q[i].kind # "stop-complete"
      BY <1>0, <2>0, <2>3 DEF Joins, InOrder
    <3> QED BY <2>1, <2>3, <3>1 DEF Joins, InOrder
  <2> QED BY <1>9, <2>2, <2>3, StopEndDoes
<1>10. ASSUME StopAgain PROVE InOrder'
  <2> QED BY <1>10, StopAgainDoes DEF InOrder, Fine
<1>11. ASSUME StopLost PROVE InOrder'
  <2>1. ~Fine' 
    BY <1>11, StopLostDoes, DrainsInPeace
       DEF WindowInv, StopInv, OneStop, Draining, Callers, Fine
  <2> QED BY <2>1 DEF InOrder
<1>12. ASSUME NEW h \in Handlers, Mark(h) PROVE InOrder'
  <2>1. UNCHANGED <<events>> /\ (Fine' => Fine)
    BY <1>12, MarkDoes DEF Fine
  <2> QED BY <1>0, <2>1 DEF InOrder
<1>13. ASSUME ClearLater PROVE InOrder'
  <2>1. UNCHANGED <<events>> /\ (Fine' => Fine)
    BY <1>13, ClearLaterDoes DEF Fine
  <2> QED BY <1>0, <2>1 DEF InOrder
<1>14. ASSUME Check PROVE InOrder'
  <2>1. UNCHANGED <<events>> /\ (Fine' => Fine)
    BY <1>14, CheckDoes DEF Fine
  <2> QED BY <1>0, <2>1 DEF InOrder
<1>15. ASSUME Reload PROVE InOrder'
  BY <1>15, ReloadDoes DEF InOrder
<1>16. ASSUME Crash PROVE InOrder'
  BY <1>16, CrashDoes DEF InOrder
<1>17. CASE UNCHANGED <<rec, excused, events>>
  BY <1>17, <1>0 DEF InOrder, Fine
<1> QED
  BY <1>1, <1>2, <1>3, <1>4, <1>5, <1>6, <1>7, <1>8, <1>9, <1>10, <1>11, <1>12, <1>13,
     <1>14, <1>15, <1>16, <1>17, Writers
  DEF Writes

(* After a recording its stop is the last event on its way.                 *)
LEMMA StopLastStep ==
    WindowInv /\ OtherStep => StopLast'
<1> SUFFICES ASSUME WindowInv, OtherStep PROVE StopLast'
  OBVIOUS
<1>0. StopLast
  BY DEF WindowInv, QueueInv
<1>1. ASSUME SyncSet PROVE StopLast'
  <2>1. UNCHANGED <<events, on>> /\ (Fine' => Fine)
    BY <1>1, SyncSetDoes DEF Fine
  <2> QED BY <1>0, <2>1 DEF StopLast
<1>2. ASSUME Start PROVE StopLast'
  BY <1>2, StartDoes DEF StopLast
<1>3. ASSUME Emit PROVE StopLast'
  <2>1. (Fine' => Fine) /\ (Fine => on) /\ on' = on
    BY <1>3, EmitDoes, DrainsInPeace DEF NoStop, Draining, Fine
  <2> QED BY <2>1 DEF StopLast
<1>4. ASSUME Started PROVE StopLast'
  <2>1. Leaves(events, events', "started") /\ (Fine' => Fine) /\ UNCHANGED on
    BY <1>4, StartedDoes DEF Fine
  <2>2. /\ Len(events) \in Nat \ {0} /\ Len(events') = Len(events) - 1
        /\ DOMAIN events' = 1..(Len(events) - 1) /\ events # <<>>
        /\ \A i \in DOMAIN events' : i + 1 \in DOMAIN events /\ events'[i] = events[i + 1]
        /\ (events' # <<>> => Len(events) # 1)
    BY <2>1 DEF Leaves
  <2>3. events' # <<>> => events'[Len(events')] = events[Len(events)]
    BY <2>2
  <2> QED BY <1>0, <2>1, <2>2, <2>3 DEF StopLast
<1>5. ASSUME Update PROVE StopLast'
  <2>1. Leaves(events, events', "final") /\ (Fine' => Fine) /\ UNCHANGED on
    BY <1>5, UpdateDoes DEF Fine
  <2>2. /\ Len(events) \in Nat \ {0} /\ Len(events') = Len(events) - 1
        /\ DOMAIN events' = 1..(Len(events) - 1) /\ events # <<>>
        /\ \A i \in DOMAIN events' : i + 1 \in DOMAIN events /\ events'[i] = events[i + 1]
        /\ (events' # <<>> => Len(events) # 1)
    BY <2>1 DEF Leaves
  <2>3. events' # <<>> => events'[Len(events')] = events[Len(events)]
    BY <2>2
  <2> QED BY <1>0, <2>1, <2>2, <2>3 DEF StopLast
<1>6. ASSUME Stopped PROVE StopLast'
  <2>1. Leaves(events, events', "stopped") /\ (Fine' => Fine) /\ UNCHANGED on
    BY <1>6, StoppedDoes DEF Fine
  <2>2. /\ Len(events) \in Nat \ {0} /\ Len(events') = Len(events) - 1
        /\ DOMAIN events' = 1..(Len(events) - 1) /\ events # <<>>
        /\ \A i \in DOMAIN events' : i + 1 \in DOMAIN events /\ events'[i] = events[i + 1]
        /\ (events' # <<>> => Len(events) # 1)
    BY <2>1 DEF Leaves
  <2>3. events' # <<>> => events'[Len(events')] = events[Len(events)]
    BY <2>2
  <2> QED BY <1>0, <2>1, <2>2, <2>3 DEF StopLast
<1>7. ASSUME StopComplete PROVE StopLast'
  <2>1. Leaves(events, events', "stop-complete") /\ (Fine' => Fine) /\ UNCHANGED on
    BY <1>7, StopCompleteDoes DEF Fine
  <2>2. /\ Len(events) \in Nat \ {0} /\ Len(events') = Len(events) - 1
        /\ DOMAIN events' = 1..(Len(events) - 1) /\ events # <<>>
        /\ \A i \in DOMAIN events' : i + 1 \in DOMAIN events /\ events'[i] = events[i + 1]
        /\ (events' # <<>> => Len(events) # 1)
    BY <2>1 DEF Leaves
  <2>3. events' # <<>> => events'[Len(events')] = events[Len(events)]
    BY <2>2
  <2> QED BY <1>0, <2>1, <2>2, <2>3 DEF StopLast
<1>8. ASSUME NEW c \in Callers, StopBegin(c) PROVE StopLast'
  <2>1. UNCHANGED <<events, on>> /\ (Fine' => Fine)
    BY <1>8, StopBeginDoes DEF Fine
  <2> QED BY <1>0, <2>1 DEF StopLast
<1>9. ASSUME NEW c \in Callers, StopEnd(c) PROVE StopLast'
  <2>2. CASE Joins(events, events', "stopped", rec, 0)
    BY <2>2 DEF Joins, StopLast
  <2>3. ASSUME NEW q, Joins(events, q, "stopped", rec, 0),
               Joins(q, events', "stop-complete", rec, 0)
        PROVE  StopLast'
    <3>1. Len(q) \in Nat
      BY <2>3 DEF Joins
    <3> QED BY <2>3, <3>1 DEF Joins, StopLast
  <2> QED BY <1>9, <2>2, <2>3, StopEndDoes
<1>10. ASSUME StopAgain PROVE StopLast'
  BY <1>10, StopAgainDoes DEF StopLast, Fine
<1>11. ASSUME StopLost PROVE StopLast'
  <2>1. Joins(events, events', "stopped", rec, 0)
    BY <1>11, StopLostDoes
  <2> QED BY <2>1 DEF Joins, StopLast
<1>12. ASSUME NEW h \in Handlers, Mark(h) PROVE StopLast'
  <2>1. UNCHANGED <<events, on>> /\ (Fine' => Fine)
    BY <1>12, MarkDoes DEF Fine
  <2> QED BY <1>0, <2>1 DEF StopLast
<1>13. ASSUME ClearLater PROVE StopLast'
  <2>1. UNCHANGED <<events, on>> /\ (Fine' => Fine)
    BY <1>13, ClearLaterDoes DEF Fine
  <2> QED BY <1>0, <2>1 DEF StopLast
<1>14. ASSUME Check PROVE StopLast'
  <2>1. UNCHANGED <<events, on>> /\ (Fine' => Fine)
    BY <1>14, CheckDoes DEF Fine
  <2> QED BY <1>0, <2>1 DEF StopLast
<1>15. ASSUME Reload PROVE StopLast'
  BY <1>15, ReloadDoes DEF StopLast
<1>16. ASSUME Crash PROVE StopLast'
  BY <1>16, CrashDoes DEF StopLast
<1>17. CASE UNCHANGED <<rec, excused, on, events>>
  BY <1>17, <1>0 DEF StopLast, Fine
<1> QED
  BY <1>1, <1>2, <1>3, <1>4, <1>5, <1>6, <1>7, <1>8, <1>9, <1>10, <1>11, <1>12, <1>13,
     <1>14, <1>15, <1>16, <1>17, Writers
  DEF Writes

(* Unless a start is on its way, the ids of the window are of the current   *)
(* recording.                                                               *)
LEMMA NoStartIds ==
    WindowInv /\ ~StartComing =>
        \A x \in listening \cup pending \cup {mid} : x \in excused \cup {0, rec}
<1> SUFFICES ASSUME WindowInv, ~StartComing
             PROVE  \A x \in listening \cup pending \cup {mid} : x \in excused \cup {0, rec}
  OBVIOUS
<1>1. events # <<>> => 1 \in DOMAIN events
  <2>1. events \in Seq(Events)
    BY DEF WindowInv, WindowTypes
  <2> QED BY <2>1
<1>2. ~StartIsNext
  BY <1>1 DEF StartIsNext, StartComing
<1> QED BY <1>2 DEF WindowInv, MidInv, IdsCurrent

(* The manager is there until a stop takes it.                              *)
LEMMA ManagerHeldStep ==
    WindowInv /\ OtherStep => ManagerHeld'
<1> SUFFICES ASSUME WindowInv, OtherStep PROVE ManagerHeld'
  OBVIOUS
<1>0. ManagerHeld
  BY DEF WindowInv, StopInv
<1>1. ASSUME Start PROVE ManagerHeld'
  BY <1>1, <1>0, StartDoes, Numbers DEF ManagerHeld, Draining, NoStop, Callers
<1>2. ASSUME NEW c \in Callers, StopBegin(c) PROVE ManagerHeld'
  BY <1>2, <1>0, StopBeginDoes, Numbers DEF ManagerHeld, Draining, NoStop, Callers
<1>3. ASSUME NEW c \in Callers, StopEnd(c) PROVE ManagerHeld'
  BY <1>3, <1>0, StopEndDoes, Numbers DEF ManagerHeld, Draining, NoStop, Callers
<1>4. ASSUME StopLost PROVE ManagerHeld'
  BY <1>4, <1>0, StopLostDoes, Numbers DEF ManagerHeld, Draining, NoStop, Callers
<1>5. ASSUME Reload PROVE ManagerHeld'
  BY <1>5, <1>0, ReloadDoes, Numbers DEF ManagerHeld, Draining, NoStop, Callers
<1>6. ASSUME Crash PROVE ManagerHeld'
  BY <1>6, <1>0, CrashDoes, Numbers DEF ManagerHeld, Draining, NoStop, Callers
<1>7. CASE UNCHANGED <<manager, stop, on>>
  BY <1>7, <1>0 DEF ManagerHeld, Draining, NoStop
<1> QED
  BY <1>1, <1>2, <1>3, <1>4, <1>5, <1>6, <1>7, Writers
  DEF Writes

(* The id the controls took is of the current recording.                    *)
LEMMA ClickedOneStep ==
    WindowInv /\ OtherStep => ClickedOne'
<1> SUFFICES ASSUME WindowInv, OtherStep PROVE ClickedOne'
  OBVIOUS
<1>0. ClickedOne
  BY DEF WindowInv, StopInv
<1>1. ASSUME SyncSet PROVE ClickedOne'
  <2>1. UNCHANGED <<stop, clicked, rec>> /\ excused \subseteq excused'
    BY <1>1, SyncSetDoes
  <2> QED BY <1>0, <2>1 DEF ClickedOne
<1>2. ASSUME Start PROVE ClickedOne'
  BY <1>2, StartDoes DEF ClickedOne, NoStop, Draining, Callers
<1>3. ASSUME Started PROVE ClickedOne'
  <2>1. UNCHANGED <<stop, clicked, rec>> /\ excused \subseteq excused'
    BY <1>3, StartedDoes
  <2> QED BY <1>0, <2>1 DEF ClickedOne
<1>4. ASSUME Update PROVE ClickedOne'
  <2>1. UNCHANGED <<stop, clicked, rec>> /\ excused \subseteq excused'
    BY <1>4, UpdateDoes
  <2> QED BY <1>0, <2>1 DEF ClickedOne
<1>5. ASSUME NEW c \in Callers, StopBegin(c) PROVE ClickedOne'
  <2>1. mid \in excused \cup {0, rec}
    BY <1>5, StopBeginDoes, NoStartIds
  <2> QED BY <1>0, <2>1, <1>5, StopBeginDoes DEF ClickedOne, Callers
<1>6. ASSUME NEW c \in Callers, StopEnd(c) PROVE ClickedOne'
  BY <1>6, <1>0, StopEndDoes, Numbers DEF ClickedOne, Callers
<1>7. ASSUME StopAgain PROVE ClickedOne'
  <2>1. UNCHANGED <<stop, clicked, rec>> /\ excused \subseteq excused'
    BY <1>7, StopAgainDoes
  <2> QED BY <1>0, <2>1 DEF ClickedOne
<1>8. ASSUME StopLost PROVE ClickedOne'
  BY <1>8, <1>0, StopLostDoes, Numbers DEF ClickedOne, Callers
<1>9. ASSUME NEW h \in Handlers, Mark(h) PROVE ClickedOne'
  <2>1. UNCHANGED <<stop, clicked, rec>> /\ excused \subseteq excused'
    BY <1>9, MarkDoes
  <2> QED BY <1>0, <2>1 DEF ClickedOne
<1>10. ASSUME ClearLater PROVE ClickedOne'
  <2>1. UNCHANGED <<stop, clicked, rec>> /\ excused \subseteq excused'
    BY <1>10, ClearLaterDoes
  <2> QED BY <1>0, <2>1 DEF ClickedOne
<1>11. ASSUME Check PROVE ClickedOne'
  <2>1. UNCHANGED <<stop, clicked, rec>> /\ excused \subseteq excused'
    BY <1>11, CheckDoes
  <2> QED BY <1>0, <2>1 DEF ClickedOne
<1>12. ASSUME Reload PROVE ClickedOne'
  BY <1>0, <1>12, ReloadDoes DEF ClickedOne, Callers
<1>13. ASSUME Crash PROVE ClickedOne'
  BY <1>13, CrashDoes DEF ClickedOne, Callers
<1>14. CASE UNCHANGED <<rec, excused, stop, clicked>>
  BY <1>14, <1>0 DEF ClickedOne
<1> QED
  BY <1>1, <1>2, <1>3, <1>4, <1>5, <1>6, <1>7, <1>8, <1>9, <1>10, <1>11, <1>12, <1>13,
     <1>14, Writers
  DEF Writes

(* One stop drains a recording that has met no hazard.                      *)
LEMMA OneStopStep ==
    WindowInv /\ OtherStep => OneStop'
<1> SUFFICES ASSUME WindowInv, OtherStep PROVE OneStop'
  OBVIOUS
<1>0. OneStop
  BY DEF WindowInv, StopInv
<1>1. ASSUME SyncSet PROVE OneStop'
  <2>1. UNCHANGED <<on, stop, clicked, rec>> /\ (Fine' => Fine)
    BY <1>1, SyncSetDoes DEF Fine
  <2> QED BY <1>0, <2>1 DEF OneStop, Draining
<1>2. ASSUME Start PROVE OneStop'
  BY <1>2, StartDoes DEF OneStop, NoStop, Draining, Callers
<1>3. ASSUME Started PROVE OneStop'
  <2>1. UNCHANGED <<on, stop, clicked, rec>> /\ (Fine' => Fine)
    BY <1>3, StartedDoes DEF Fine
  <2> QED BY <1>0, <2>1 DEF OneStop, Draining
<1>4. ASSUME Update PROVE OneStop'
  <2>1. UNCHANGED <<on, stop, clicked, rec>> /\ (Fine' => Fine)
    BY <1>4, UpdateDoes DEF Fine
  <2> QED BY <1>0, <2>1 DEF OneStop, Draining
<1>5. ASSUME NEW c \in Callers, StopBegin(c) PROVE OneStop'
  <2> SUFFICES ASSUME Fine' PROVE OneStop'
    BY DEF OneStop
  <2>1. Fine /\ manager /\ NoStop /\ on /\ on' /\ rec' = rec
    BY <1>5, StopBeginDoes DEF Fine, WindowInv, StopInv, ManagerHeld
  <2>2. c = "controls" => clicked' = rec
    BY <1>5, <2>1, StopBeginDoes DEF WindowInv, MidInv, MeetingKnown
  <2>3. \A d \in Callers : stop'[d] = IF d = c THEN "owner" ELSE "idle"
    BY <1>5, <2>1, StopBeginDoes DEF NoStop, Draining
  <2> QED BY <2>1, <2>2, <2>3 DEF OneStop, Draining, Callers
<1>6. ASSUME NEW c \in Callers, StopEnd(c) PROVE OneStop'
  <2>1. \A d \in Callers : stop'[d] = IF d = c THEN "idle" ELSE stop[d]
    BY <1>6, StopEndDoes
  <2>2. UNCHANGED <<rec, clicked, excused>> /\ stop[c] # "idle"
    BY <1>6, StopEndDoes
  <2>3. Fine => \A d \in Callers : stop'[d] = "idle"
    BY <1>0, <2>1, <2>2 DEF OneStop, Draining, Callers
  <2> QED BY <2>2, <2>3 DEF OneStop, Draining, Callers, Fine
<1>7. ASSUME StopAgain PROVE OneStop'
  BY <1>7, StopAgainDoes DEF OneStop, Fine
<1>8. ASSUME StopLost PROVE OneStop'
  <2>1. ~Fine'
    BY <1>8, StopLostDoes, DrainsInPeace
       DEF WindowInv, StopInv, OneStop, Draining, Callers, Fine
  <2> QED BY <2>1 DEF OneStop
<1>9. ASSUME NEW h \in Handlers, Mark(h) PROVE OneStop'
  <2>1. UNCHANGED <<on, stop, clicked, rec>> /\ (Fine' => Fine)
    BY <1>9, MarkDoes DEF Fine
  <2> QED BY <1>0, <2>1 DEF OneStop, Draining
<1>10. ASSUME ClearLater PROVE OneStop'
  <2>1. UNCHANGED <<on, stop, clicked, rec>> /\ (Fine' => Fine)
    BY <1>10, ClearLaterDoes DEF Fine
  <2> QED BY <1>0, <2>1 DEF OneStop, Draining
<1>11. ASSUME Check PROVE OneStop'
  <2>1. UNCHANGED <<on, stop, clicked, rec>> /\ (Fine' => Fine)
    BY <1>11, CheckDoes DEF Fine
  <2> QED BY <1>0, <2>1 DEF OneStop, Draining
<1>12. ASSUME Reload PROVE OneStop'
  <2> SUFFICES ASSUME Fine' PROVE OneStop'
    BY DEF OneStop
  <2>1. NoStop
    BY <1>12, FineBreak
  <2>2. \A d \in Callers : stop'[d] = "idle"
    BY <1>12, <2>1, ReloadDoes DEF NoStop, Draining
  <2> QED BY <2>2 DEF OneStop, Draining, Callers
<1>13. ASSUME Crash PROVE OneStop'
  BY <1>13, CrashDoes DEF OneStop, Draining, Callers
<1>14. CASE UNCHANGED <<rec, excused, on, stop, clicked>>
  BY <1>14, <1>0 DEF OneStop, Draining, Fine
<1> QED
  BY <1>1, <1>2, <1>3, <1>4, <1>5, <1>6, <1>7, <1>8, <1>9, <1>10, <1>11, <1>12, <1>13,
     <1>14, Writers
  DEF Writes

(* No stop is heard of and no handler works while it records.               *)
LEMMA RecordsUndisturbedStep ==
    WindowInv /\ OtherStep => RecordsUndisturbed'
<1> SUFFICES ASSUME WindowInv, OtherStep PROVE RecordsUndisturbed'
  OBVIOUS
<1>0. RecordsUndisturbed
  BY DEF WindowInv, StopInv
<1>1. ASSUME SyncSet PROVE RecordsUndisturbed'
  <2>1. UNCHANGED <<rec, on, handler, events>> /\ (Fine' => Fine)
    BY <1>1, SyncSetDoes DEF Fine
  <2> QED BY <1>0, <2>1, QueueRead DEF RecordsUndisturbed, AllRest, Busy
<1>2. ASSUME Start PROVE RecordsUndisturbed'
  <2> SUFFICES ASSUME Fine' PROVE RecordsUndisturbed'
    BY DEF RecordsUndisturbed
  <2>1. AllRest /\ events = <<>> /\ UNCHANGED handler
        /\ Joins(events, events', "started", rec + 1, 0)
    BY <1>2, StartDoes, FineStart
  <2>2. ~StopComing'
    BY <2>1, QueueRead, NoneIn DEF Joins
  <2> QED BY <2>1, <2>2 DEF RecordsUndisturbed, AllRest, Busy
<1>3. ASSUME Emit PROVE RecordsUndisturbed'
  <2>1. UNCHANGED <<rec, on, excused, handler>> /\ (StopComing' => StopComing)
    BY <1>3, EmitDoes, QueueRead DEF Joins
  <2> QED BY <1>0, <2>1 DEF RecordsUndisturbed, AllRest, Busy, Fine
<1>4. ASSUME Started PROVE RecordsUndisturbed'
  <2>1. UNCHANGED <<rec, on, handler>> /\ (Fine' => Fine) /\ (StopComing' => StopComing)
        /\ (StartComing' => StartComing)
    BY <1>4, StartedDoes, QueueRead DEF Leaves, Fine
  <2> QED BY <1>0, <2>1 DEF RecordsUndisturbed, AllRest, Busy
<1>5. ASSUME Update PROVE RecordsUndisturbed'
  <2>1. UNCHANGED <<rec, on, handler>> /\ (Fine' => Fine) /\ (StopComing' => StopComing)
        /\ (StartComing' => StartComing)
    BY <1>5, UpdateDoes, QueueRead DEF Leaves, Fine
  <2> QED BY <1>0, <2>1 DEF RecordsUndisturbed, AllRest, Busy
<1>6. ASSUME Stopped PROVE RecordsUndisturbed'
  <2>1. UNCHANGED <<rec, on, handler>> /\ (Fine' => Fine) /\ (StopComing' => StopComing)
        /\ (StartComing' => StartComing)
    BY <1>6, StoppedDoes, QueueRead DEF Leaves, Fine
  <2> QED BY <1>0, <2>1 DEF RecordsUndisturbed, AllRest, Busy
<1>7. ASSUME StopComplete PROVE RecordsUndisturbed'
  <2>1. UNCHANGED <<rec, on, excused>> /\ StopComing
    BY <1>7, StopCompleteDoes, QueueRead DEF Leaves
  <2> QED BY <1>0, <2>1 DEF RecordsUndisturbed, Fine
<1>8. ASSUME NEW c \in Callers, StopBegin(c) PROVE RecordsUndisturbed'
  <2>1. UNCHANGED <<rec, on, handler, events>> /\ (Fine' => Fine)
    BY <1>8, StopBeginDoes DEF Fine
  <2> QED BY <1>0, <2>1, QueueRead DEF RecordsUndisturbed, AllRest, Busy
<1>9. ASSUME NEW c \in Callers, StopEnd(c) PROVE RecordsUndisturbed'
  BY <1>9, StopEndDoes DEF RecordsUndisturbed
<1>10. ASSUME StopAgain PROVE RecordsUndisturbed'
  BY <1>10, StopAgainDoes DEF RecordsUndisturbed, Fine
<1>11. ASSUME StopLost PROVE RecordsUndisturbed'
  BY <1>11, StopLostDoes DEF RecordsUndisturbed
<1>12. ASSUME NEW h \in Handlers, Waited(h) PROVE RecordsUndisturbed'
  <2>1. UNCHANGED <<rec, on>> /\ (Fine' => Fine) /\ Busy(h)
    BY <1>12, WaitedDoes DEF Fine, Busy
  <2> QED BY <1>0, <2>1 DEF RecordsUndisturbed, AllRest
<1>13. ASSUME NEW h \in Handlers, Save(h) PROVE RecordsUndisturbed'
  <2>1. UNCHANGED <<rec, on>> /\ (Fine' => Fine) /\ Busy(h)
    BY <1>13, SaveDoes DEF Fine, Busy
  <2> QED BY <1>0, <2>1 DEF RecordsUndisturbed, AllRest
<1>14. ASSUME NEW h \in Handlers, SaveFails(h) PROVE RecordsUndisturbed'
  <2>1. UNCHANGED <<rec, on>> /\ (Fine' => Fine) /\ Busy(h)
    BY <1>14, SaveFailsDoes DEF Fine, Busy
  <2> QED BY <1>0, <2>1 DEF RecordsUndisturbed, AllRest
<1>15. ASSUME NEW h \in Handlers, Mark(h) PROVE RecordsUndisturbed'
  <2>1. UNCHANGED <<rec, on>> /\ (Fine' => Fine) /\ Busy(h)
    BY <1>15, MarkDoes DEF Fine, Busy
  <2> QED BY <1>0, <2>1 DEF RecordsUndisturbed, AllRest
<1>16. ASSUME ClearLater PROVE RecordsUndisturbed'
  <2>1. UNCHANGED <<rec, on, handler, events>> /\ (Fine' => Fine)
    BY <1>16, ClearLaterDoes DEF Fine
  <2> QED BY <1>0, <2>1, QueueRead DEF RecordsUndisturbed, AllRest, Busy
<1>17. ASSUME Check PROVE RecordsUndisturbed'
  <2>1. UNCHANGED <<rec, on, handler, events>> /\ (Fine' => Fine)
    BY <1>17, CheckDoes DEF Fine
  <2> QED BY <1>0, <2>1, QueueRead DEF RecordsUndisturbed, AllRest, Busy
<1>18. ASSUME Reload PROVE RecordsUndisturbed'
  BY <1>18, ReloadDoes, FineBreak DEF RecordsUndisturbed
<1>19. ASSUME Crash PROVE RecordsUndisturbed'
  BY <1>19, CrashDoes DEF RecordsUndisturbed
<1>20. CASE UNCHANGED <<rec, excused, on, events, handler>>
  BY <1>20, <1>0, QueueRead DEF RecordsUndisturbed, AllRest, Busy, Fine
<1> QED
  BY <1>1, <1>2, <1>3, <1>4, <1>5, <1>6, <1>7, <1>8, <1>9, <1>10, <1>11, <1>12, <1>13,
     <1>14, <1>15, <1>16, <1>17, <1>18, <1>19, <1>20, Writers
  DEF Writes

(* The call of the provider finds both handlers at rest.                    *)
LEMMA CallIsLastStep ==
    WindowInv /\ OtherStep => CallIsLast'
<1> SUFFICES ASSUME WindowInv, OtherStep PROVE CallIsLast'
  OBVIOUS
<1>0. CallIsLast
  BY DEF WindowInv, StopInv
<1>1. ASSUME SyncSet PROVE CallIsLast'
  <2>1. UNCHANGED <<rec, handler, events>> /\ (Fine' => Fine)
    BY <1>1, SyncSetDoes DEF Fine
  <2> QED BY <1>0, <2>1 DEF CallIsLast, AllRest, Busy
<1>2. ASSUME Start PROVE CallIsLast'
  <2> SUFFICES ASSUME Fine' PROVE CallIsLast'
    BY DEF CallIsLast
  <2>1. AllRest /\ UNCHANGED handler
    BY <1>2, StartDoes, FineStart
  <2> QED BY <2>1 DEF CallIsLast, AllRest, Busy
<1>3. ASSUME Emit PROVE CallIsLast'
  <2>1. UNCHANGED <<rec, excused, handler>>
        /\ (KindIn(events', "stop-complete") => KindIn(events, "stop-complete"))
    BY <1>3, EmitDoes DEF Joins
  <2> QED BY <1>0, <2>1 DEF CallIsLast, AllRest, Busy, Fine
<1>4. ASSUME Started PROVE CallIsLast'
  <2>1. UNCHANGED <<rec, handler>> /\ (Fine' => Fine)
        /\ (KindIn(events', "stop-complete") => KindIn(events, "stop-complete"))
    BY <1>4, StartedDoes DEF Leaves, Fine
  <2> QED BY <1>0, <2>1 DEF CallIsLast, AllRest, Busy
<1>5. ASSUME Update PROVE CallIsLast'
  <2>1. UNCHANGED <<rec, handler>> /\ (Fine' => Fine)
        /\ (KindIn(events', "stop-complete") => KindIn(events, "stop-complete"))
    BY <1>5, UpdateDoes DEF Leaves, Fine
  <2> QED BY <1>0, <2>1 DEF CallIsLast, AllRest, Busy
<1>6. ASSUME Stopped PROVE CallIsLast'
  <2>1. UNCHANGED <<rec, handler>> /\ (Fine' => Fine)
        /\ (KindIn(events', "stop-complete") => KindIn(events, "stop-complete"))
    BY <1>6, StoppedDoes DEF Leaves, Fine
  <2> QED BY <1>0, <2>1 DEF CallIsLast, AllRest, Busy
<1>7. ASSUME StopComplete PROVE CallIsLast'
  <2>1. Leaves(events, events', "stop-complete") /\ UNCHANGED <<rec, excused>>
    BY <1>7, StopCompleteDoes
  <2>2. Fine => events' = <<>>
    <3>1. 1 \in DOMAIN events /\ events[1].kind = "stop-complete"
          /\ (events' = <<>> <=> Len(events) = 1)
      BY <2>1 DEF Leaves
    <3> QED BY <3>1 DEF WindowInv, QueueInv, InOrder
  <2> QED BY <2>1, <2>2, NoneIn DEF CallIsLast, Fine
<1>8. ASSUME NEW c \in Callers, StopBegin(c) PROVE CallIsLast'
  <2>1. UNCHANGED <<rec, handler, events>> /\ (Fine' => Fine)
    BY <1>8, StopBeginDoes DEF Fine
  <2> QED BY <1>0, <2>1 DEF CallIsLast, AllRest, Busy
<1>9. ASSUME NEW c \in Callers, StopEnd(c) PROVE CallIsLast'
  <2>1. UNCHANGED <<rec, excused>> /\ ~NoStop
    BY <1>9, StopEndDoes DEF NoStop, Draining
  <2>2. Fine => AllRest /\ ~KindIn(events, "stop-complete")
    BY <2>1, DrainsInPeace, QueueRead
  <2>3. CASE c = "controls"
    BY <1>9, <2>1, <2>2, <2>3, StopEndDoes DEF CallIsLast, Joins, Fine
  <2>4. CASE c = "tray"
    BY <1>9, <2>1, <2>2, <2>4, StopEndDoes DEF CallIsLast, AllRest, Busy, Fine
  <2> QED BY <2>3, <2>4 DEF Callers
<1>10. ASSUME StopAgain PROVE CallIsLast'
  BY <1>10, StopAgainDoes DEF CallIsLast, Fine
<1>11. ASSUME StopLost PROVE CallIsLast'
  <2>1. ~Fine'
    BY <1>11, StopLostDoes, DrainsInPeace
       DEF WindowInv, StopInv, OneStop, Draining, Callers, Fine
  <2> QED BY <2>1 DEF CallIsLast
<1>12. ASSUME NEW h \in Handlers, Waited(h) PROVE CallIsLast'
  <2>1. UNCHANGED <<rec, events>> /\ (Fine' => Fine) /\ Busy(h)
    BY <1>12, WaitedDoes DEF Fine, Busy
  <2> QED BY <1>0, <2>1 DEF CallIsLast, AllRest
<1>13. ASSUME NEW h \in Handlers, Save(h) PROVE CallIsLast'
  <2>1. UNCHANGED <<rec, events>> /\ (Fine' => Fine) /\ Busy(h)
    BY <1>13, SaveDoes DEF Fine, Busy
  <2> QED BY <1>0, <2>1 DEF CallIsLast, AllRest
<1>14. ASSUME NEW h \in Handlers, SaveFails(h) PROVE CallIsLast'
  <2>1. UNCHANGED <<rec, events>> /\ (Fine' => Fine) /\ Busy(h)
    BY <1>14, SaveFailsDoes DEF Fine, Busy
  <2> QED BY <1>0, <2>1 DEF CallIsLast, AllRest
<1>15. ASSUME NEW h \in Handlers, Mark(h) PROVE CallIsLast'
  <2>1. UNCHANGED <<rec, events>> /\ (Fine' => Fine) /\ Busy(h)
    BY <1>15, MarkDoes DEF Fine, Busy
  <2> QED BY <1>0, <2>1 DEF CallIsLast, AllRest
<1>16. ASSUME ClearLater PROVE CallIsLast'
  <2>1. UNCHANGED <<rec, handler, events>> /\ (Fine' => Fine)
    BY <1>16, ClearLaterDoes DEF Fine
  <2> QED BY <1>0, <2>1 DEF CallIsLast, AllRest, Busy
<1>17. ASSUME Check PROVE CallIsLast'
  <2>1. UNCHANGED <<rec, handler, events>> /\ (Fine' => Fine)
    BY <1>17, CheckDoes DEF Fine
  <2> QED BY <1>0, <2>1 DEF CallIsLast, AllRest, Busy
<1>18. ASSUME Reload PROVE CallIsLast'
  BY <1>18, ReloadDoes, NoneIn DEF CallIsLast
<1>19. ASSUME Crash PROVE CallIsLast'
  BY <1>19, CrashDoes, NoneIn DEF CallIsLast
<1>20. CASE UNCHANGED <<rec, excused, events, handler>>
  BY <1>20, <1>0, QueueRead DEF CallIsLast, AllRest, Busy, Fine
<1> QED
  BY <1>1, <1>2, <1>3, <1>4, <1>5, <1>6, <1>7, <1>8, <1>9, <1>10, <1>11, <1>12, <1>13,
     <1>14, <1>15, <1>16, <1>17, <1>18, <1>19, <1>20, Writers
  DEF Writes

(* A start that is on its way finds nothing else begun.                     *)
LEMMA StartsCleanStep ==
    WindowInv /\ OtherStep => StartsClean'
<1> SUFFICES ASSUME WindowInv, OtherStep PROVE StartsClean'
  OBVIOUS
<1>0. StartsClean
  BY DEF WindowInv, StopInv
<1>1. ASSUME NEW id \in 0..MaxRecordings, Registered(id) PROVE StartsClean'
  <2>1. UNCHANGED <<rec, excused, events, on, stop>> /\ pending # {}
    BY <1>1, RegisteredDoes
  <2> QED BY <1>0, <2>1, QueueRead DEF StartsClean, Fine
<1>2. ASSUME SyncSet PROVE StartsClean'
  <2>1. UNCHANGED <<rec, events, on, pending, stop>> /\ (Fine' => Fine)
    BY <1>2, SyncSetDoes DEF Fine
  <2> QED BY <1>0, <2>1, QueueRead DEF StartsClean, NoStop, Draining
<1>3. ASSUME Start PROVE StartsClean'
  <2>1. on' /\ pending' = {} /\ NoStop /\ UNCHANGED stop
    BY <1>3, StartDoes
  <2> QED BY <2>1 DEF StartsClean, NoStop, Draining
<1>4. ASSUME Emit PROVE StartsClean'
  <2>1. UNCHANGED <<rec, excused, on, pending, stop>> /\ (StartComing' => StartComing)
    BY <1>4, EmitDoes, QueueRead DEF Joins
  <2> QED BY <1>0, <2>1 DEF StartsClean, NoStop, Draining, Fine
<1>5. ASSUME Started PROVE StartsClean'
  <2>1. Leaves(events, events', "started") /\ (Fine' => Fine)
    BY <1>5, StartedDoes DEF Fine
  <2>2. Fine => ~KindIn(events', "started")
    <3>1. \A i \in DOMAIN events' :
              i + 1 \in DOMAIN events /\ events'[i] = events[i + 1]
              /\ i \in 1..(Len(events) - 1)
          /\ Len(events) \in Nat
      BY <2>1 DEF Leaves
    <3> QED BY <3>1 DEF WindowInv, QueueInv, InOrder, KindIn
  <2> QED BY <2>1, <2>2, QueueRead DEF StartsClean
<1>6. ASSUME Update PROVE StartsClean'
  <2>1. UNCHANGED <<rec, on, pending, stop>> /\ (Fine' => Fine) /\ (StartComing' => StartComing)
    BY <1>6, UpdateDoes, QueueRead DEF Leaves, Fine
  <2> QED BY <1>0, <2>1 DEF StartsClean, NoStop, Draining
<1>7. ASSUME Stopped PROVE StartsClean'
  <2>1. UNCHANGED <<rec, on, pending, stop>> /\ (Fine' => Fine) /\ (StartComing' => StartComing)
    BY <1>7, StoppedDoes, QueueRead DEF Leaves, Fine
  <2> QED BY <1>0, <2>1 DEF StartsClean, NoStop, Draining
<1>8. ASSUME StopComplete PROVE StartsClean'
  <2>1. UNCHANGED <<rec, on, pending, stop>> /\ (Fine' => Fine) /\ (StartComing' => StartComing)
    BY <1>8, StopCompleteDoes, QueueRead DEF Leaves, Fine
  <2> QED BY <1>0, <2>1 DEF StartsClean, NoStop, Draining
<1>9. ASSUME NEW c \in Callers, StopBegin(c) PROVE StartsClean'
  <2>1. ~StartComing'
    BY <1>9, StopBeginDoes, QueueRead
  <2> QED BY <2>1 DEF StartsClean
<1>10. ASSUME NEW c \in Callers, StopEnd(c) PROVE StartsClean'
  <2>1. UNCHANGED <<rec, excused>> /\ ~NoStop
    BY <1>10, StopEndDoes DEF NoStop, Draining
  <2>2. Fine => ~StartComing
    BY <2>1, DrainsInPeace
  <2>3. StartComing' => StartComing
    BY <1>10, StopEndDoes, QueueRead DEF Joins
  <2> QED BY <2>1, <2>2, <2>3 DEF StartsClean, Fine
<1>11. ASSUME StopAgain PROVE StartsClean'
  BY <1>11, StopAgainDoes DEF StartsClean, Fine
<1>12. ASSUME StopLost PROVE StartsClean'
  <2>1. ~Fine'
    BY <1>12, StopLostDoes, DrainsInPeace
       DEF WindowInv, StopInv, OneStop, Draining, Callers, Fine
  <2> QED BY <2>1 DEF StartsClean
<1>13. ASSUME NEW h \in Handlers, Mark(h) PROVE StartsClean'
  <2>1. UNCHANGED <<rec, events>> /\ (Fine' => Fine) /\ Busy(h)
    BY <1>13, MarkDoes DEF Fine, Busy
  <2> QED BY <2>1, FineBusy, QueueRead DEF StartsClean
<1>14. ASSUME ClearLater PROVE StartsClean'
  <2>1. UNCHANGED <<rec, events, on, pending, stop>> /\ (Fine' => Fine)
    BY <1>14, ClearLaterDoes DEF Fine
  <2> QED BY <1>0, <2>1, QueueRead DEF StartsClean, NoStop, Draining
<1>15. ASSUME Check PROVE StartsClean'
  <2>1. UNCHANGED <<rec, events, on, pending, stop>> /\ (Fine' => Fine)
    BY <1>15, CheckDoes DEF Fine
  <2> QED BY <1>0, <2>1, QueueRead DEF StartsClean, NoStop, Draining
<1>16. ASSUME Reload PROVE StartsClean'
  BY <1>16, ReloadDoes, NoneIn, QueueRead DEF StartsClean
<1>17. ASSUME Crash PROVE StartsClean'
  BY <1>17, CrashDoes, NoneIn, QueueRead DEF StartsClean
<1>18. CASE UNCHANGED <<rec, excused, on, stop, events, pending>>
  BY <1>18, <1>0, QueueRead DEF StartsClean, Draining, Fine, NoStop
<1> QED
  BY <1>1, <1>2, <1>3, <1>4, <1>5, <1>6, <1>7, <1>8, <1>9, <1>10, <1>11, <1>12, <1>13,
     <1>14, <1>15, <1>16, <1>17, <1>18, Writers
  DEF Writes

(* One handler is at work on the stop, and after its waits nothing is on    *)
(* its way.                                                                 *)
LEMMA OneHandlerStep ==
    WindowInv /\ OtherStep => OneHandler'
<1> SUFFICES ASSUME WindowInv, OtherStep PROVE OneHandler'
  OBVIOUS
<1>0. OneHandler
  BY DEF WindowInv, StopInv
<1>1. ASSUME NEW id \in 0..MaxRecordings, Registered(id) PROVE OneHandler'
  <2>1. UNCHANGED <<rec, excused, handler, events, resting>> /\ pending # {}
    BY <1>1, RegisteredDoes
  <2> QED BY <1>0, <2>1 DEF OneHandler, Busy, Handlers, Fine
<1>2. ASSUME SyncSet PROVE OneHandler'
  <2>1. UNCHANGED <<rec, handler, events, pending, resting>> /\ (Fine' => Fine)
    BY <1>2, SyncSetDoes DEF Fine
  <2> QED BY <1>0, <2>1 DEF OneHandler, Busy, Handlers
<1>3. ASSUME Start PROVE OneHandler'
  <2> SUFFICES ASSUME Fine' PROVE OneHandler'
    BY DEF OneHandler
  <2>1. AllRest /\ UNCHANGED handler
    BY <1>3, StartDoes, FineStart
  <2> QED BY <2>1 DEF OneHandler, AllRest, Busy, Handlers
<1>4. ASSUME Emit PROVE OneHandler'
  <2>1. UNCHANGED <<rec, excused, handler>>
    BY <1>4, EmitDoes
  <2>2. Fine => on
    BY <1>4, EmitDoes, DrainsInPeace DEF NoStop, Draining
  <2>3. Fine => AllRest
    BY <2>2 DEF WindowInv, StopInv, RecordsUndisturbed
  <2> QED BY <2>1, <2>3 DEF OneHandler, AllRest, Busy, Handlers, Fine
<1>5. ASSUME Started PROVE OneHandler'
  <2>1. UNCHANGED <<rec, handler>> /\ (Fine' => Fine) /\ StartComing
    BY <1>5, StartedDoes, QueueRead DEF Fine, Leaves
  <2>2. Fine => AllRest
    BY <2>1 DEF WindowInv, StopInv, StartsClean, RecordsUndisturbed
  <2> QED BY <2>1, <2>2 DEF OneHandler, AllRest, Busy, Handlers
<1>6. ASSUME Update PROVE OneHandler'
  <2>1. UNCHANGED <<rec, handler, pending>> /\ (Fine' => Fine)
        /\ (resting' = resting \/ ~resting') /\ events # <<>>
    BY <1>6, UpdateDoes DEF Leaves, Fine
  <2> QED BY <1>0, <2>1 DEF OneHandler, Busy, Handlers
<1>7. ASSUME Stopped PROVE OneHandler'
  <2>1. UNCHANGED <<rec, handler, pending>> /\ (Fine' => Fine)
        /\ (resting' = resting \/ ~resting') /\ events # <<>>
    BY <1>7, StoppedDoes DEF Leaves, Fine
  <2> QED BY <1>0, <2>1 DEF OneHandler, Busy, Handlers
<1>8. ASSUME StopComplete PROVE OneHandler'
  <2> SUFFICES ASSUME Fine' PROVE OneHandler'
    BY DEF OneHandler
  <2>1. UNCHANGED <<rec, excused>> /\ Fine /\ Leaves(events, events', "stop-complete")
    BY <1>8, StopCompleteDoes DEF Fine
  <2>2. AllRest
    BY <2>1 DEF WindowInv, StopInv, CallIsLast, Leaves
  <2>3. mid = rec
    BY <2>1, AtHead DEF Leaves
  <2>4. Goes(handler, handler', "provider", "waiting", mid, {}) /\ ~resting'
    BY <1>8, <2>2, StopCompleteDoes DEF Alarmed, AllRest, Busy, Handlers
  <2> QED BY <2>1, <2>2, <2>3, <2>4 DEF OneHandler, Goes, AllRest, Busy, Handlers
<1>9. ASSUME NEW c \in Callers, StopBegin(c) PROVE OneHandler'
  <2>1. UNCHANGED <<rec, handler, events, pending, resting>> /\ (Fine' => Fine)
    BY <1>9, StopBeginDoes DEF Fine
  <2> QED BY <1>0, <2>1 DEF OneHandler, Busy, Handlers
<1>10. ASSUME NEW c \in Callers, StopEnd(c) PROVE OneHandler'
  <2> SUFFICES ASSUME Fine' PROVE OneHandler'
    BY DEF OneHandler
  <2>0. UNCHANGED <<rec, excused>> /\ ~NoStop
    BY <1>10, StopEndDoes DEF NoStop, Draining
  <2>1. UNCHANGED <<rec, excused>> /\ Fine /\ ~NoStop
    BY <2>0 DEF Fine
  <2>2. AllRest
    BY <2>1, DrainsInPeace
  <2>3. CASE c = "controls"
    <3>1. Goes(handler, handler', "home", "waiting", clicked, {}) /\ ~resting'
      BY <1>10, <2>2, <2>3, StopEndDoes DEF Alarmed, AllRest, Busy, Handlers
    <3>2. clicked = rec
      BY <1>10, <2>1, <2>3, StopEndDoes DEF WindowInv, StopInv, OneStop, Draining
    <3> QED BY <2>1, <2>2, <3>1, <3>2 DEF OneHandler, Goes, AllRest, Busy, Handlers
  <2>4. CASE c = "tray"
    BY <1>10, <2>2, <2>4, StopEndDoes DEF OneHandler, AllRest, Busy, Handlers
  <2> QED BY <2>3, <2>4 DEF Callers
<1>11. ASSUME StopAgain PROVE OneHandler'
  BY <1>11, StopAgainDoes DEF OneHandler, Fine
<1>12. ASSUME StopLost PROVE OneHandler'
  <2>1. ~Fine'
    BY <1>12, StopLostDoes, DrainsInPeace
       DEF WindowInv, StopInv, OneStop, Draining, Callers, Fine
  <2> QED BY <2>1 DEF OneHandler
<1>13. ASSUME NEW h \in Handlers, Waited(h) PROVE OneHandler'
  <2>1. UNCHANGED <<rec, excused, events, pending>> /\ ~resting'
        /\ Goes(handler, handler', h, "saving", handler[h].id, shown)
        /\ events = <<>> /\ pending = {} /\ handler[h].pc = "waiting"
    BY <1>13, WaitedDoes
  <2> QED BY <1>0, <2>1 DEF OneHandler, Goes, Busy, Handlers, Fine
<1>14. ASSUME NEW h \in Handlers, Save(h) PROVE OneHandler'
  <2>1. UNCHANGED <<rec, excused, events, pending, resting>>
        /\ Goes(handler, handler', h, "marking", handler[h].id, handler[h].take)
        /\ handler[h].pc = "saving"
    BY <1>14, SaveDoes
  <2> QED BY <1>0, <2>1 DEF OneHandler, Goes, Busy, Handlers, Fine
<1>15. ASSUME NEW h \in Handlers, SaveFails(h) PROVE OneHandler'
  <2> SUFFICES ASSUME Fine' PROVE OneHandler'
    BY DEF OneHandler
  <2>1. Goes(handler, handler', h, "idle", 0, {}) /\ Busy(h) /\ Fine
    BY <1>15, SaveFailsDoes DEF Busy, Fine
  <2>2. \A g \in Handlers : handler'[g].pc = "idle"
    BY <2>1, FineBusy DEF Goes, Busy
  <2> QED BY <2>2 DEF OneHandler, Busy, Handlers
<1>16. ASSUME NEW h \in Handlers, Mark(h) PROVE OneHandler'
  <2> SUFFICES ASSUME Fine' PROVE OneHandler'
    BY DEF OneHandler
  <2>1. Goes(handler, handler', h, "idle", 0, {}) /\ Busy(h) /\ Fine
    BY <1>16, MarkDoes DEF Busy, Fine
  <2>2. \A g \in Handlers : handler'[g].pc = "idle"
    BY <2>1, FineBusy DEF Goes, Busy
  <2> QED BY <2>2 DEF OneHandler, Busy, Handlers
<1>17. ASSUME ClearLater PROVE OneHandler'
  <2> SUFFICES ASSUME Fine' PROVE OneHandler'
    BY DEF OneHandler
  <2>1. AllRest /\ UNCHANGED handler
    BY <1>17, ClearLaterDoes DEF Fine, Saving, AllRest
  <2> QED BY <2>1 DEF OneHandler, AllRest, Busy, Handlers
<1>18. ASSUME Check PROVE OneHandler'
  <2>1. UNCHANGED <<rec, handler, events, pending, resting>> /\ (Fine' => Fine)
    BY <1>18, CheckDoes DEF Fine
  <2> QED BY <1>0, <2>1 DEF OneHandler, Busy, Handlers
<1>19. ASSUME Reload PROVE OneHandler'
  BY <1>19, ReloadDoes DEF OneHandler, AtRest, Busy, Handlers
<1>20. ASSUME Crash PROVE OneHandler'
  BY <1>20, CrashDoes DEF OneHandler, AtRest, Busy, Handlers
<1>21. CASE UNCHANGED <<rec, excused, resting, events, pending, handler>>
  BY <1>21, <1>0 DEF OneHandler, Busy, Fine
<1> QED
  BY <1>1, <1>2, <1>3, <1>4, <1>5, <1>6, <1>7, <1>8, <1>9, <1>10, <1>11, <1>12, <1>13,
     <1>14, <1>15, <1>16, <1>17, <1>18, <1>19, <1>20, <1>21, Writers
  DEF Writes

(* The listener of the current meeting id is there or being registered.     *)
LEMMA ListensStep ==
    WindowInv /\ OtherStep => Listens'
<1> SUFFICES ASSUME WindowInv, OtherStep PROVE Listens'
  OBVIOUS
<1>0. Listens
  BY DEF WindowInv, MidInv
<1>1. ASSUME NEW id \in 0..MaxRecordings, Registered(id) PROVE Listens'
  BY <1>1, <1>0, RegisteredDoes, Numbers DEF Listens
<1>2. ASSUME Started PROVE Listens'
  BY <1>2, <1>0, StartedDoes, Numbers DEF Listens
<1>3. ASSUME NEW h \in Handlers, Mark(h) PROVE Listens'
  BY <1>3, <1>0, MarkDoes, Numbers DEF Listens
<1>4. ASSUME Reload PROVE Listens'
  BY <1>4, <1>0, ReloadDoes, Numbers DEF Listens
<1>5. ASSUME Crash PROVE Listens'
  BY <1>5, <1>0, CrashDoes, Numbers DEF Listens
<1>6. CASE UNCHANGED <<mid, listening, pending>>
  BY <1>6, <1>0 DEF Listens
<1> QED
  BY <1>1, <1>2, <1>3, <1>4, <1>5, <1>6, Writers
  DEF Writes

(* The ids in the listeners follow the recording.                           *)
LEMMA IdsCurrentStep ==
    WindowInv /\ OtherStep => IdsCurrent'
<1> SUFFICES ASSUME WindowInv, OtherStep PROVE IdsCurrent'
  OBVIOUS
<1>0. IdsCurrent
  BY DEF WindowInv, MidInv
<1>1. ASSUME NEW id \in 0..MaxRecordings, Registered(id) PROVE IdsCurrent'
  <2>1. UNCHANGED <<rec, excused, mid>> /\ pending # {}
        /\ listening' \cup pending' \subseteq listening \cup pending
    BY <1>1, RegisteredDoes
  <2> QED BY <1>0, <2>1 DEF IdsCurrent
<1>2. ASSUME SyncSet PROVE IdsCurrent'
  <2>1. UNCHANGED <<rec, mid, listening, pending, events, handler, stop>>
        /\ excused \subseteq excused'
    BY <1>2, SyncSetDoes
  <2> QED BY <1>0, <2>1 DEF IdsCurrent, StartIsNext, AllRest, Busy, NoStop, Draining
<1>3. ASSUME Start PROVE IdsCurrent'
  <2>1. /\ Joins(events, events', "started", rec + 1, 0) /\ rec' = rec + 1 /\ Fine
        /\ excused = {}
        /\ excused' = IF Saving THEN {rec, rec + 1} ELSE {}
        /\ ~StartComing /\ NoStop /\ pending = {}
        /\ UNCHANGED <<listening, pending, mid, stop, handler>>
    BY <1>3, StartDoes, FineStart
  <2>2. \A x \in listening \cup pending \cup {mid} : x \in {0, rec}
    BY <2>1, NoStartIds
  <2>3. CASE Saving
    BY <2>1, <2>2, <2>3 DEF IdsCurrent
  <2>4. CASE ~Saving
    <3>1. AllRest /\ events = <<>>
      BY <1>3, <2>1, <2>4, FineStart DEF Fine
    <3>2. StartIsNext'
      BY <2>1, <3>1 DEF StartIsNext, Joins, AllRest, Busy, NoStop, Draining
    <3>3. listening \subseteq {mid}
      BY <2>1 DEF WindowInv, MidInv, OneListener
    <3> QED BY <2>1, <3>2, <3>3 DEF IdsCurrent
  <2> QED BY <2>3, <2>4
<1>4. ASSUME Emit PROVE IdsCurrent'
  <2>1. UNCHANGED <<rec, excused, listening, pending, mid, stop, handler>>
        /\ Joins(events, events', "final", rec, said + 1)
    BY <1>4, EmitDoes
  <2>2. StartIsNext => StartIsNext'
    BY <2>1 DEF StartIsNext, Joins, NoStop, Draining, AllRest, Busy
  <2> QED BY <1>0, <2>1, <2>2 DEF IdsCurrent
<1>5. ASSUME Started PROVE IdsCurrent'
  <2>1. /\ Leaves(events, events', "started") /\ UNCHANGED rec /\ 1 \in DOMAIN events
        /\ events[1].rec = rec /\ excused \subseteq excused'
    BY <1>5, StartedDoes DEF Leaves, WindowInv, QueueInv, OfCurrent
  <2>2. CASE listening = {}
    <3>1. UNCHANGED <<mid, listening, pending>> /\ rec \in excused'
      BY <1>5, <2>1, <2>2, StartedDoes
    <3>2. pending # {}
      BY <2>2 DEF WindowInv, MidInv, Listens
    <3> QED BY <1>0, <2>1, <3>1, <3>2 DEF IdsCurrent
  <2>3. CASE listening # {} /\ rec = mid
    <3>1. UNCHANGED <<listening, pending>> /\ mid' = rec
      BY <1>5, <2>1, <2>3, StartedDoes
    <3> QED BY <1>0, <2>1, <2>3, <3>1 DEF IdsCurrent
  <2>4. CASE listening # {} /\ rec # mid
    <3>1. mid' = rec /\ listening' = listening \ {mid} /\ pending' = pending \cup {rec}
      BY <1>5, <2>1, <2>4, StartedDoes
    <3> QED BY <1>0, <2>1, <3>1 DEF IdsCurrent
  <2> QED BY <2>2, <2>3, <2>4
<1>6. ASSUME Update PROVE IdsCurrent'
  <2>1. UNCHANGED <<rec, mid, listening, pending>> /\ excused \subseteq excused'
        /\ 1 \in DOMAIN events /\ events[1].kind # "started"
    BY <1>6, UpdateDoes DEF Leaves
  <2> QED BY <2>1, AtHead DEF IdsCurrent
<1>7. ASSUME Stopped PROVE IdsCurrent'
  <2>1. UNCHANGED <<rec, mid, listening, pending>> /\ excused \subseteq excused'
        /\ 1 \in DOMAIN events /\ events[1].kind # "started"
    BY <1>7, StoppedDoes DEF Leaves
  <2> QED BY <2>1, AtHead DEF IdsCurrent
<1>8. ASSUME StopComplete PROVE IdsCurrent'
  <2>1. UNCHANGED <<rec, mid, listening, pending>> /\ excused \subseteq excused'
        /\ 1 \in DOMAIN events /\ events[1].kind # "started"
    BY <1>8, StopCompleteDoes DEF Leaves
  <2> QED BY <2>1, AtHead DEF IdsCurrent
<1>9. ASSUME NEW c \in Callers, StopBegin(c) PROVE IdsCurrent'
  <2>1. UNCHANGED <<rec, mid, listening, pending>> /\ excused \subseteq excused' /\ ~StartComing
    BY <1>9, StopBeginDoes
  <2> QED BY <2>1, NoStartIds DEF IdsCurrent
<1>10. ASSUME NEW c \in Callers, StopEnd(c) PROVE IdsCurrent'
  <2>1. UNCHANGED <<rec, mid, listening, pending, excused>> /\ ~NoStop
    BY <1>10, StopEndDoes DEF NoStop, Draining, Callers
  <2> QED BY <1>0, <2>1 DEF IdsCurrent, StartIsNext
<1>11. ASSUME StopAgain PROVE IdsCurrent'
  <2>1. UNCHANGED <<rec, mid, listening, pending>> /\ excused \subseteq excused' /\ ~StartComing
    BY <1>11, StopAgainDoes
  <2> QED BY <2>1, NoStartIds DEF IdsCurrent
<1>12. ASSUME StopLost PROVE IdsCurrent'
  <2>1. UNCHANGED <<rec, mid, listening, pending, excused>> /\ ~NoStop
    BY <1>12, StopLostDoes DEF NoStop, Draining, Callers
  <2> QED BY <1>0, <2>1 DEF IdsCurrent, StartIsNext
<1>13. ASSUME NEW h \in Handlers, Waited(h) PROVE IdsCurrent'
  <2>1. UNCHANGED <<rec, mid, listening, pending, excused>> /\ ~AllRest
    BY <1>13, WaitedDoes DEF AllRest, Busy
  <2> QED BY <1>0, <2>1 DEF IdsCurrent, StartIsNext
<1>14. ASSUME NEW h \in Handlers, Save(h) PROVE IdsCurrent'
  <2>1. UNCHANGED <<rec, mid, listening, pending, excused>> /\ ~AllRest
    BY <1>14, SaveDoes DEF AllRest, Busy
  <2> QED BY <1>0, <2>1 DEF IdsCurrent, StartIsNext
<1>15. ASSUME NEW h \in Handlers, SaveFails(h) PROVE IdsCurrent'
  <2>1. UNCHANGED <<rec, mid, listening, pending, excused>> /\ ~AllRest
    BY <1>15, SaveFailsDoes DEF AllRest, Busy
  <2> QED BY <1>0, <2>1 DEF IdsCurrent, StartIsNext
<1>16. ASSUME NEW h \in Handlers, Mark(h) PROVE IdsCurrent'
  <2>1. /\ UNCHANGED rec /\ excused \subseteq excused' /\ ~AllRest /\ mid' \in {0, mid}
        /\ listening' \subseteq listening /\ pending' \subseteq pending \cup {0}
    BY <1>16, MarkDoes DEF AllRest, Busy
  <2>2. \A x \in listening \cup pending \cup {mid} : x \in excused \cup {0, rec}
    BY <1>0, <2>1 DEF IdsCurrent, StartIsNext
  <2> QED BY <2>1, <2>2 DEF IdsCurrent
<1>17. ASSUME ClearLater PROVE IdsCurrent'
  <2>1. UNCHANGED <<rec, mid, listening, pending, events, handler, stop>>
        /\ excused \subseteq excused'
    BY <1>17, ClearLaterDoes
  <2> QED BY <1>0, <2>1 DEF IdsCurrent, StartIsNext, AllRest, Busy, NoStop, Draining
<1>18. ASSUME Check PROVE IdsCurrent'
  <2>1. UNCHANGED <<rec, mid, listening, pending, events, handler, stop>>
        /\ excused \subseteq excused'
    BY <1>18, CheckDoes
  <2> QED BY <1>0, <2>1 DEF IdsCurrent, StartIsNext, AllRest, Busy, NoStop, Draining
<1>19. ASSUME Reload PROVE IdsCurrent'
  BY <1>19, ReloadDoes DEF IdsCurrent
<1>20. ASSUME Crash PROVE IdsCurrent'
  BY <1>20, CrashDoes DEF IdsCurrent
<1>21. CASE UNCHANGED <<rec, excused, stop, events, mid, listening, pending, handler>>
  BY <1>21, <1>0 DEF IdsCurrent, AllRest, Busy, Draining, NoStop, StartIsNext
<1> QED
  BY <1>1, <1>2, <1>3, <1>4, <1>5, <1>6, <1>7, <1>8, <1>9, <1>10, <1>11, <1>12, <1>13,
     <1>14, <1>15, <1>16, <1>17, <1>18, <1>19, <1>20, <1>21, Writers
  DEF Writes

(* The ids in the handlers are of the current recording.                    *)
LEMMA HandlesCurrentStep ==
    WindowInv /\ OtherStep => HandlesCurrent'
<1> SUFFICES ASSUME WindowInv, OtherStep PROVE HandlesCurrent'
  OBVIOUS
<1>0. HandlesCurrent
  BY DEF WindowInv, MidInv
<1>1. ASSUME SyncSet PROVE HandlesCurrent'
  <2>1. UNCHANGED <<rec, handler>> /\ excused \subseteq excused'
    BY <1>1, SyncSetDoes
  <2> QED BY <1>0, <2>1 DEF HandlesCurrent, Busy
<1>2. ASSUME Start PROVE HandlesCurrent'
  <2>1. rec' = rec + 1 /\ excused = {} /\ excused' = (IF Saving THEN {rec, rec + 1} ELSE {})
        /\ UNCHANGED handler
    BY <1>2, StartDoes
  <2>2. \A h \in Handlers : Busy(h) => Saving
    BY DEF Saving
  <2> QED BY <1>0, <2>1, <2>2 DEF HandlesCurrent, Busy
<1>3. ASSUME Started PROVE HandlesCurrent'
  <2>1. UNCHANGED <<rec, handler>> /\ excused \subseteq excused'
    BY <1>3, StartedDoes
  <2> QED BY <1>0, <2>1 DEF HandlesCurrent, Busy
<1>4. ASSUME Update PROVE HandlesCurrent'
  <2>1. UNCHANGED <<rec, handler>> /\ excused \subseteq excused'
    BY <1>4, UpdateDoes
  <2> QED BY <1>0, <2>1 DEF HandlesCurrent, Busy
<1>5. ASSUME StopComplete PROVE HandlesCurrent'
  <2>1. UNCHANGED <<rec, excused>> /\ 1 \in DOMAIN events /\ events[1].kind # "started"
        /\ Alarmed(handler, handler', "provider", mid)
    BY <1>5, StopCompleteDoes DEF Leaves
  <2>2. mid \in excused \cup {0, rec}
    BY <2>1, AtHead
  <2> QED BY <1>0, <2>1, <2>2 DEF HandlesCurrent, Alarmed, Goes, Busy
<1>6. ASSUME NEW c \in Callers, StopBegin(c) PROVE HandlesCurrent'
  <2>1. UNCHANGED <<rec, handler>> /\ excused \subseteq excused'
    BY <1>6, StopBeginDoes
  <2> QED BY <1>0, <2>1 DEF HandlesCurrent, Busy
<1>7. ASSUME NEW c \in Callers, StopEnd(c) PROVE HandlesCurrent'
  <2>1. UNCHANGED <<rec, excused>>
    BY <1>7, StopEndDoes
  <2>2. CASE c = "controls"
    <3>1. Alarmed(handler, handler', "home", clicked) /\ clicked \in excused \cup {0, rec}
      BY <1>7, <2>2, StopEndDoes DEF WindowInv, StopInv, ClickedOne
    <3> QED BY <1>0, <2>1, <3>1 DEF HandlesCurrent, Alarmed, Goes, Busy
  <2>3. CASE c = "tray"
    BY <1>7, <1>0, <2>1, <2>3, StopEndDoes DEF HandlesCurrent, Busy
  <2> QED BY <2>2, <2>3 DEF Callers
<1>8. ASSUME StopAgain PROVE HandlesCurrent'
  <2>1. UNCHANGED <<rec, handler>> /\ excused \subseteq excused'
    BY <1>8, StopAgainDoes
  <2> QED BY <1>0, <2>1 DEF HandlesCurrent, Busy
<1>9. ASSUME NEW h \in Handlers, Waited(h) PROVE HandlesCurrent'
  <2>1. UNCHANGED rec /\ excused \subseteq excused' /\ Busy(h)
        /\ Goes(handler, handler', h, "saving", handler[h].id, shown)
    BY <1>9, WaitedDoes DEF Busy
  <2> QED BY <1>0, <2>1 DEF HandlesCurrent, Goes, Busy
<1>10. ASSUME NEW h \in Handlers, Save(h) PROVE HandlesCurrent'
  <2>1. UNCHANGED rec /\ excused \subseteq excused' /\ Busy(h)
        /\ Goes(handler, handler', h, "marking", handler[h].id, handler[h].take)
    BY <1>10, SaveDoes DEF Busy
  <2> QED BY <1>0, <2>1 DEF HandlesCurrent, Goes, Busy
<1>11. ASSUME NEW h \in Handlers, SaveFails(h) PROVE HandlesCurrent'
  <2>1. UNCHANGED rec /\ excused \subseteq excused' /\ Busy(h)
        /\ Goes(handler, handler', h, "idle", 0, {})
    BY <1>11, SaveFailsDoes DEF Busy
  <2> QED BY <1>0, <2>1 DEF HandlesCurrent, Goes, Busy
<1>12. ASSUME NEW h \in Handlers, Mark(h) PROVE HandlesCurrent'
  <2>1. UNCHANGED rec /\ excused \subseteq excused' /\ Busy(h)
        /\ Goes(handler, handler', h, "idle", 0, {})
    BY <1>12, MarkDoes DEF Busy
  <2> QED BY <1>0, <2>1 DEF HandlesCurrent, Goes, Busy
<1>13. ASSUME ClearLater PROVE HandlesCurrent'
  <2>1. UNCHANGED <<rec, handler>> /\ excused \subseteq excused'
    BY <1>13, ClearLaterDoes
  <2> QED BY <1>0, <2>1 DEF HandlesCurrent, Busy
<1>14. ASSUME Check PROVE HandlesCurrent'
  <2>1. UNCHANGED <<rec, handler>> /\ excused \subseteq excused'
    BY <1>14, CheckDoes
  <2> QED BY <1>0, <2>1 DEF HandlesCurrent, Busy
<1>15. ASSUME Reload PROVE HandlesCurrent'
  BY <1>15, <1>0, ReloadDoes, Numbers DEF AtRest, HandlesCurrent, Busy
<1>16. ASSUME Crash PROVE HandlesCurrent'
  BY <1>16, <1>0, CrashDoes, Numbers DEF AtRest, HandlesCurrent, Busy
<1>17. CASE UNCHANGED <<rec, excused, handler>>
  BY <1>17, <1>0 DEF HandlesCurrent, Busy
<1> QED
  BY <1>1, <1>2, <1>3, <1>4, <1>5, <1>6, <1>7, <1>8, <1>9, <1>10, <1>11, <1>12, <1>13,
     <1>14, <1>15, <1>16, <1>17, Writers
  DEF Writes

(* No listener of an earlier meeting is left.                               *)
LEMMA OneListenerStep ==
    WindowInv /\ OtherStep => OneListener'
<1> SUFFICES ASSUME WindowInv, OtherStep PROVE OneListener'
  OBVIOUS
<1>0. OneListener
  BY DEF WindowInv, MidInv
<1>1. ASSUME NEW id \in 0..MaxRecordings, Registered(id) PROVE OneListener'
  <2>1. UNCHANGED <<rec, excused, mid>>
        /\ listening' \cup pending' \subseteq listening \cup pending
    BY <1>1, RegisteredDoes
  <2> QED BY <1>0, <2>1 DEF OneListener, Fine
<1>2. ASSUME SyncSet PROVE OneListener'
  <2>1. UNCHANGED <<mid, listening, pending>> /\ (Fine' => Fine)
    BY <1>2, SyncSetDoes DEF Fine
  <2> QED BY <1>0, <2>1 DEF OneListener
<1>3. ASSUME Start PROVE OneListener'
  BY <1>0, <1>3, StartDoes, FineStart DEF OneListener
<1>4. ASSUME Started PROVE OneListener'
  <2> SUFFICES ASSUME Fine' PROVE OneListener'
    BY DEF OneListener
  <2>1. Fine /\ StartComing /\ events[1].rec = rec /\ rec' = rec
    BY <1>4, StartedDoes, QueueRead DEF Leaves, Fine, WindowInv, QueueInv, OfCurrent
  <2>2. pending = {} /\ listening \subseteq {mid} /\ listening # {}
    BY <1>0, <2>1 DEF WindowInv, StopInv, StartsClean, MidInv, Listens, OneListener
  <2> QED BY <1>4, <2>1, <2>2, StartedDoes DEF OneListener
<1>5. ASSUME Update PROVE OneListener'
  <2>1. UNCHANGED <<mid, listening, pending>> /\ (Fine' => Fine)
    BY <1>5, UpdateDoes DEF Fine
  <2> QED BY <1>0, <2>1 DEF OneListener
<1>6. ASSUME NEW c \in Callers, StopBegin(c) PROVE OneListener'
  <2>1. UNCHANGED <<mid, listening, pending>> /\ (Fine' => Fine)
    BY <1>6, StopBeginDoes DEF Fine
  <2> QED BY <1>0, <2>1 DEF OneListener
<1>7. ASSUME StopAgain PROVE OneListener'
  <2>1. UNCHANGED <<mid, listening, pending>> /\ (Fine' => Fine)
    BY <1>7, StopAgainDoes DEF Fine
  <2> QED BY <1>0, <2>1 DEF OneListener
<1>8. ASSUME NEW h \in Handlers, Mark(h) PROVE OneListener'
  <2>1. (Fine' => Fine) /\ Busy(h) /\ handler[h].pc # "waiting"
    BY <1>8, MarkDoes DEF Busy, Fine
  <2>2. Fine => pending = {}
    BY <2>1, FineBusy
  <2> QED BY <1>0, <1>8, <2>1, <2>2, MarkDoes DEF OneListener
<1>9. ASSUME ClearLater PROVE OneListener'
  <2>1. UNCHANGED <<mid, listening, pending>> /\ (Fine' => Fine)
    BY <1>9, ClearLaterDoes DEF Fine
  <2> QED BY <1>0, <2>1 DEF OneListener
<1>10. ASSUME Check PROVE OneListener'
  <2>1. UNCHANGED <<mid, listening, pending>> /\ (Fine' => Fine)
    BY <1>10, CheckDoes DEF Fine
  <2> QED BY <1>0, <2>1 DEF OneListener
<1>11. ASSUME Reload PROVE OneListener'
  BY <1>11, ReloadDoes DEF OneListener
<1>12. ASSUME Crash PROVE OneListener'
  BY <1>12, CrashDoes DEF OneListener
<1>13. CASE UNCHANGED <<rec, excused, mid, listening, pending>>
  BY <1>13, <1>0 DEF OneListener, Fine
<1> QED
  BY <1>1, <1>2, <1>3, <1>4, <1>5, <1>6, <1>7, <1>8, <1>9, <1>10, <1>11, <1>12, <1>13,
     Writers
  DEF Writes

(* A recording under way has its own meeting in IndexedDB, and is not saved *)
(* yet.                                                                     *)
LEMMA MeetingKnownStep ==
    WindowInv /\ OtherStep => MeetingKnown'
<1> SUFFICES ASSUME WindowInv, OtherStep PROVE MeetingKnown'
  OBVIOUS
<1>0. MeetingKnown
  BY DEF WindowInv, MidInv
<1>1. ASSUME SyncSet PROVE MeetingKnown'
  <2>1. UNCHANGED <<rec, on, mid, meta, events, handler>> /\ (Fine' => Fine)
    BY <1>1, SyncSetDoes DEF Fine
  <2> QED BY <1>0, <2>1, QueueRead DEF MeetingKnown, AllRest, Busy
<1>2. ASSUME Start PROVE MeetingKnown'
  <2>1. StartComing'
    BY <1>2, StartDoes, QueueRead DEF Joins
  <2> QED BY <2>1 DEF MeetingKnown
<1>3. ASSUME Emit PROVE MeetingKnown'
  <2>1. UNCHANGED <<rec, excused, on, mid, meta, handler>> /\ (StartComing => StartComing')
    BY <1>3, EmitDoes, QueueRead DEF Joins
  <2>2. Fine => on
    BY <1>3, EmitDoes, DrainsInPeace DEF NoStop, Draining
  <2> QED BY <1>0, <2>1, <2>2 DEF MeetingKnown, Fine
<1>4. ASSUME Started PROVE MeetingKnown'
  <2> SUFFICES ASSUME Fine' PROVE MeetingKnown'
    BY DEF MeetingKnown
  <2>1. UNCHANGED rec /\ events[1].rec = rec /\ rec \in Recordings
    BY <1>4, StartedDoes, EventShapes DEF Leaves, WindowInv, QueueInv, OfCurrent
  <2>2. listening = {} => excused' = excused \cup {rec}
    BY <1>4, <2>1, StartedDoes
  <2>3. listening # {} /\ rec \notin excused
    BY <1>4, <2>1, <2>2, StartedDoes DEF Fine
  <2>4. mid' = rec /\ meta'[rec] = "unsaved"
    BY <1>4, <2>1, <2>3, StartedDoes
  <2> QED BY <2>1, <2>4 DEF MeetingKnown
<1>5. ASSUME Update PROVE MeetingKnown'
  <2>1. UNCHANGED <<rec, on, mid, meta>> /\ (Fine' => Fine) /\ events # <<>>
        /\ (StartComing => StartComing')
    BY <1>5, UpdateDoes, QueueRead DEF Leaves, Fine
  <2> QED BY <1>0, <2>1 DEF MeetingKnown
<1>6. ASSUME Stopped PROVE MeetingKnown'
  <2>1. UNCHANGED <<rec, on, mid, meta>> /\ (Fine' => Fine) /\ events # <<>>
        /\ (StartComing => StartComing')
    BY <1>6, StoppedDoes, QueueRead DEF Leaves, Fine
  <2> QED BY <1>0, <2>1 DEF MeetingKnown
<1>7. ASSUME StopComplete PROVE MeetingKnown'
  <2>1. UNCHANGED <<rec, on, mid, meta>> /\ (Fine' => Fine) /\ events # <<>>
        /\ (StartComing => StartComing')
    BY <1>7, StopCompleteDoes, QueueRead DEF Leaves, Fine
  <2> QED BY <1>0, <2>1 DEF MeetingKnown
<1>8. ASSUME NEW c \in Callers, StopBegin(c) PROVE MeetingKnown'
  <2>1. UNCHANGED <<rec, on, mid, meta, events, handler>> /\ (Fine' => Fine)
    BY <1>8, StopBeginDoes DEF Fine
  <2> QED BY <1>0, <2>1, QueueRead DEF MeetingKnown, AllRest, Busy
<1>9. ASSUME NEW c \in Callers, StopEnd(c) PROVE MeetingKnown'
  <2>1. UNCHANGED <<rec, excused, mid, meta>> /\ ~NoStop
    BY <1>9, StopEndDoes DEF NoStop, Draining
  <2>2. Fine => on /\ ~StartComing
    BY <2>1, DrainsInPeace
  <2> QED BY <1>0, <2>1, <2>2 DEF MeetingKnown, Fine
<1>10. ASSUME StopAgain PROVE MeetingKnown'
  BY <1>10, StopAgainDoes DEF MeetingKnown, Fine
<1>11. ASSUME StopLost PROVE MeetingKnown'
  <2>1. ~Fine'
    BY <1>11, StopLostDoes, DrainsInPeace
       DEF WindowInv, StopInv, OneStop, Draining, Callers, Fine
  <2> QED BY <2>1 DEF MeetingKnown
<1>12. ASSUME NEW h \in Handlers, Waited(h) PROVE MeetingKnown'
  <2>1. UNCHANGED <<rec, excused, mid, meta, on, events>> /\ ~AllRest
    BY <1>12, WaitedDoes DEF AllRest, Busy
  <2> QED BY <1>0, <2>1, QueueRead DEF MeetingKnown, Fine
<1>13. ASSUME NEW h \in Handlers, Save(h) PROVE MeetingKnown'
  <2>1. UNCHANGED <<rec, excused, mid, meta, on, events>> /\ ~AllRest
    BY <1>13, SaveDoes DEF AllRest, Busy
  <2> QED BY <1>0, <2>1, QueueRead DEF MeetingKnown, Fine
<1>14. ASSUME NEW h \in Handlers, SaveFails(h) PROVE MeetingKnown'
  <2>1. UNCHANGED <<rec, excused, mid, meta, on, events>> /\ ~AllRest
    BY <1>14, SaveFailsDoes DEF AllRest, Busy
  <2> QED BY <1>0, <2>1, QueueRead DEF MeetingKnown, Fine
<1>15. ASSUME NEW h \in Handlers, Mark(h) PROVE MeetingKnown'
  <2> SUFFICES ASSUME Fine' PROVE MeetingKnown'
    BY DEF MeetingKnown
  <2>1. Fine /\ Busy(h) /\ handler[h].pc # "waiting" /\ UNCHANGED <<on, events>>
        /\ Goes(handler, handler', h, "idle", 0, {})
    BY <1>15, MarkDoes DEF Busy, Fine
  <2>2. ~on' /\ events' = <<>>
    BY <2>1, FineBusy
  <2>3. AllRest'
    BY <2>1, FineBusy DEF AllRest, Busy, Goes
  <2> QED BY <2>2, <2>3 DEF MeetingKnown
<1>16. ASSUME ClearLater PROVE MeetingKnown'
  <2>1. UNCHANGED <<rec, on, mid, meta, events, handler>> /\ (Fine' => Fine)
    BY <1>16, ClearLaterDoes DEF Fine
  <2> QED BY <1>0, <2>1, QueueRead DEF MeetingKnown, AllRest, Busy
<1>17. ASSUME Check PROVE MeetingKnown'
  <2>1. UNCHANGED <<rec, on, mid, meta, events, handler>> /\ (Fine' => Fine)
    BY <1>17, CheckDoes DEF Fine
  <2> QED BY <1>0, <2>1, QueueRead DEF MeetingKnown, AllRest, Busy
<1>18. ASSUME RecoverMark PROVE MeetingKnown'
  <2>1. UNCHANGED <<rec, excused, mid, on, events, handler>> /\ recovery.pc # "idle"
        /\ (rec \in Recordings => rec = recovery.id \/ meta'[rec] = meta[rec])
    BY <1>18, RecoverMarkDoes
  <2>2. Fine /\ rec = recovery.id => ~on /\ events = <<>> /\ AllRest
    BY <2>1 DEF WindowInv, RecoveryInv, OfferedIsOver
  <2>3. Fine /\ (on \/ events # <<>> \/ ~AllRest) => rec \in Recordings
    BY RecBegun
  <2> QED BY <1>0, <2>1, <2>2, <2>3, QueueRead DEF MeetingKnown, AllRest, Busy, Fine
<1>19. ASSUME NEW r \in Recordings, Remove(r) PROVE MeetingKnown'
  <2>1. UNCHANGED <<rec, excused, mid, on, events, handler>> /\ r \in offered
        /\ (rec \in Recordings => rec = r \/ meta'[rec] = meta[rec])
    BY <1>19, RemoveDoes
  <2>2. Fine /\ rec = r => ~on /\ events = <<>> /\ AllRest
    BY <2>1 DEF WindowInv, RecoveryInv, OfferedIsOver
  <2>3. Fine /\ (on \/ events # <<>> \/ ~AllRest) => rec \in Recordings
    BY RecBegun
  <2> QED BY <1>0, <2>1, <2>2, <2>3, QueueRead DEF MeetingKnown, AllRest, Busy, Fine
<1>20. ASSUME Reload PROVE MeetingKnown'
  <2> SUFFICES ASSUME Fine' PROVE MeetingKnown'
    BY DEF MeetingKnown
  <2>1. ~on' /\ events' = <<>> /\ AllRest'
    BY <1>20, FineBreak, ReloadDoes DEF AllRest, AtRest, Busy
  <2> QED BY <2>1 DEF MeetingKnown
<1>21. ASSUME Crash PROVE MeetingKnown'
  <2> SUFFICES ASSUME Fine' PROVE MeetingKnown'
    BY DEF MeetingKnown
  <2>1. ~on' /\ events' = <<>> /\ AllRest'
    BY <1>21, FineBreak, CrashDoes DEF AllRest, AtRest, Busy
  <2> QED BY <2>1 DEF MeetingKnown
<1>22. CASE UNCHANGED <<rec, excused, on, events, mid, handler, meta>>
  BY <1>22, <1>0, QueueRead DEF MeetingKnown, AllRest, Busy, Fine
<1> QED
  BY <1>1, <1>2, <1>3, <1>4, <1>5, <1>6, <1>7, <1>8, <1>9, <1>10, <1>11, <1>12, <1>13,
     <1>14, <1>15, <1>16, <1>17, <1>18, <1>19, <1>20, <1>21, <1>22, Writers
  DEF Writes

(* It has none before its start is heard of.                                *)
LEMMA MeetingNewStep ==
    WindowInv /\ OtherStep => MeetingNew'
<1> SUFFICES ASSUME WindowInv, OtherStep PROVE MeetingNew'
  OBVIOUS
<1>0. MeetingNew
  BY DEF WindowInv, MidInv
<1>1. ASSUME SyncSet PROVE MeetingNew'
  <2>1. UNCHANGED <<rec, meta, events>> /\ (Fine' => Fine)
    BY <1>1, SyncSetDoes DEF Fine
  <2> QED BY <1>0, <2>1, QueueRead DEF MeetingNew
<1>2. ASSUME Start PROVE MeetingNew'
  <2>1. rec' \in Recordings /\ rec' > rec /\ UNCHANGED meta
    BY <1>2, StartDoes, FineStart
  <2>2. meta[rec'] = "absent"
    BY <2>1 DEF WindowInv, PastInv, NoneLater
  <2> QED BY <2>1, <2>2 DEF MeetingNew
<1>3. ASSUME Emit PROVE MeetingNew'
  <2>1. UNCHANGED <<rec, excused, meta>> /\ (StartComing' => StartComing)
    BY <1>3, EmitDoes, QueueRead DEF Joins
  <2> QED BY <1>0, <2>1 DEF MeetingNew, Fine
<1>4. ASSUME Started PROVE MeetingNew'
  <2>1. Leaves(events, events', "started") /\ (Fine' => Fine)
    BY <1>4, StartedDoes DEF Fine
  <2>2. Fine => ~KindIn(events', "started")
    <3>1. \A i \in DOMAIN events' :
              i + 1 \in DOMAIN events /\ events'[i] = events[i + 1]
              /\ i \in 1..(Len(events) - 1)
          /\ Len(events) \in Nat
      BY <2>1 DEF Leaves
    <3> QED BY <3>1 DEF WindowInv, QueueInv, InOrder, KindIn
  <2> QED BY <2>1, <2>2, QueueRead DEF MeetingNew
<1>5. ASSUME Update PROVE MeetingNew'
  <2>1. UNCHANGED <<rec, meta>> /\ (Fine' => Fine) /\ (StartComing' => StartComing)
    BY <1>5, UpdateDoes, QueueRead DEF Leaves, Fine
  <2> QED BY <1>0, <2>1 DEF MeetingNew
<1>6. ASSUME Stopped PROVE MeetingNew'
  <2>1. UNCHANGED <<rec, meta>> /\ (Fine' => Fine) /\ (StartComing' => StartComing)
    BY <1>6, StoppedDoes, QueueRead DEF Leaves, Fine
  <2> QED BY <1>0, <2>1 DEF MeetingNew
<1>7. ASSUME StopComplete PROVE MeetingNew'
  <2>1. UNCHANGED <<rec, meta>> /\ (Fine' => Fine) /\ (StartComing' => StartComing)
    BY <1>7, StopCompleteDoes, QueueRead DEF Leaves, Fine
  <2> QED BY <1>0, <2>1 DEF MeetingNew
<1>8. ASSUME NEW c \in Callers, StopBegin(c) PROVE MeetingNew'
  <2>1. UNCHANGED <<rec, meta, events>> /\ (Fine' => Fine)
    BY <1>8, StopBeginDoes DEF Fine
  <2> QED BY <1>0, <2>1, QueueRead DEF MeetingNew
<1>9. ASSUME NEW c \in Callers, StopEnd(c) PROVE MeetingNew'
  <2>1. UNCHANGED <<rec, excused, meta>> /\ (StartComing' => StartComing)
    BY <1>9, StopEndDoes, QueueRead DEF Joins
  <2> QED BY <1>0, <2>1 DEF MeetingNew, Fine
<1>10. ASSUME StopAgain PROVE MeetingNew'
  BY <1>10, StopAgainDoes DEF MeetingNew, Fine
<1>11. ASSUME StopLost PROVE MeetingNew'
  <2>1. ~Fine'
    BY <1>11, StopLostDoes, DrainsInPeace
       DEF WindowInv, StopInv, OneStop, Draining, Callers, Fine
  <2> QED BY <2>1 DEF MeetingNew
<1>12. ASSUME NEW h \in Handlers, Mark(h) PROVE MeetingNew'
  <2>1. UNCHANGED <<rec, events>> /\ (Fine' => Fine) /\ Busy(h)
    BY <1>12, MarkDoes DEF Fine, Busy
  <2> QED BY <2>1, FineBusy, QueueRead DEF MeetingNew
<1>13. ASSUME ClearLater PROVE MeetingNew'
  <2>1. UNCHANGED <<rec, meta, events>> /\ (Fine' => Fine)
    BY <1>13, ClearLaterDoes DEF Fine
  <2> QED BY <1>0, <2>1, QueueRead DEF MeetingNew
<1>14. ASSUME Check PROVE MeetingNew'
  <2>1. UNCHANGED <<rec, meta, events>> /\ (Fine' => Fine)
    BY <1>14, CheckDoes DEF Fine
  <2> QED BY <1>0, <2>1, QueueRead DEF MeetingNew
<1>15. ASSUME RecoverMark PROVE MeetingNew'
  <2>1. UNCHANGED <<rec, excused, events>>
        /\ (rec \in Recordings /\ meta[rec] = "absent" => meta'[rec] = "absent")
    BY <1>15, RecoverMarkDoes
  <2>2. StartComing => rec \in Recordings
    BY RecBegun DEF StartComing
  <2> QED BY <1>0, <2>1, <2>2, QueueRead DEF MeetingNew, Fine
<1>16. ASSUME NEW r \in Recordings, Remove(r) PROVE MeetingNew'
  <2>1. UNCHANGED <<rec, excused, events>>
        /\ (rec \in Recordings /\ meta[rec] = "absent" => meta'[rec] = "absent")
    BY <1>16, RemoveDoes
  <2>2. StartComing => rec \in Recordings
    BY RecBegun DEF StartComing
  <2> QED BY <1>0, <2>1, <2>2, QueueRead DEF MeetingNew, Fine
<1>17. ASSUME Reload PROVE MeetingNew'
  BY <1>17, ReloadDoes, NoneIn, QueueRead DEF MeetingNew
<1>18. ASSUME Crash PROVE MeetingNew'
  BY <1>18, CrashDoes, NoneIn, QueueRead DEF MeetingNew
<1>19. CASE UNCHANGED <<rec, excused, events, meta>>
  BY <1>19, <1>0, QueueRead DEF MeetingNew, Fine
<1> QED
  BY <1>1, <1>2, <1>3, <1>4, <1>5, <1>6, <1>7, <1>8, <1>9, <1>10, <1>11, <1>12, <1>13,
     <1>14, <1>15, <1>16, <1>17, <1>18, <1>19, Writers
  DEF Writes

(* The list is of one recording.                                            *)
LEMMA ListIsOfOneStep ==
    WindowInv /\ OtherStep => ListIsOfOne'
<1> SUFFICES ASSUME WindowInv, OtherStep PROVE ListIsOfOne'
  OBVIOUS
<1>0. ListIsOfOne
  BY DEF WindowInv, ShownInv
<1>1. ASSUME SyncSet PROVE ListIsOfOne'
  <2>1. UNCHANGED rec /\ shown' = sync.take
    BY <1>1, SyncSetDoes
  <2> QED BY <2>1 DEF WindowInv, ShownInv, SyncIsOfOne, ListIsOfOne
<1>2. ASSUME Start PROVE ListIsOfOne'
  BY <1>2, StartDoes DEF ListIsOfOne
<1>3. ASSUME StartReturned PROVE ListIsOfOne'
  BY <1>3, StartReturnedDoes DEF ListIsOfOne
<1>4. ASSUME Started PROVE ListIsOfOne'
  <2>1. UNCHANGED <<rec, starting, shown>> /\ excused \subseteq excused'
    BY <1>4, StartedDoes
  <2> QED BY <1>0, <2>1 DEF ListIsOfOne
<1>5. ASSUME Update PROVE ListIsOfOne'
  <2>1. /\ UNCHANGED <<rec, starting>> /\ excused \subseteq excused' /\ 1 \in DOMAIN events
        /\ shown' \subseteq shown \cup {<<events[1].rec, events[1].seg>>}
    BY <1>5, UpdateDoes DEF Leaves
  <2>2. events[1].rec = rec \/ {events[1].rec, rec} \subseteq excused
    BY <2>1 DEF WindowInv, QueueInv, OfCurrent
  <2> QED BY <1>0, <2>1, <2>2 DEF ListIsOfOne
<1>6. ASSUME NEW c \in Callers, StopBegin(c) PROVE ListIsOfOne'
  <2>1. UNCHANGED <<rec, starting, shown>> /\ excused \subseteq excused'
    BY <1>6, StopBeginDoes
  <2> QED BY <1>0, <2>1 DEF ListIsOfOne
<1>7. ASSUME StopAgain PROVE ListIsOfOne'
  <2>1. UNCHANGED <<rec, starting, shown>> /\ excused \subseteq excused'
    BY <1>7, StopAgainDoes
  <2> QED BY <1>0, <2>1 DEF ListIsOfOne
<1>8. ASSUME NEW h \in Handlers, Mark(h) PROVE ListIsOfOne'
  <2>1. UNCHANGED <<rec, starting, shown>> /\ excused \subseteq excused'
    BY <1>8, MarkDoes
  <2> QED BY <1>0, <2>1 DEF ListIsOfOne
<1>9. ASSUME ClearLater PROVE ListIsOfOne'
  BY <1>9, ClearLaterDoes DEF ListIsOfOne
<1>10. ASSUME Check PROVE ListIsOfOne'
  <2>1. UNCHANGED <<rec, starting, shown>> /\ excused \subseteq excused'
    BY <1>10, CheckDoes
  <2> QED BY <1>0, <2>1 DEF ListIsOfOne
<1>11. ASSUME Reload PROVE ListIsOfOne'
  BY <1>11, ReloadDoes DEF ListIsOfOne
<1>12. ASSUME Crash PROVE ListIsOfOne'
  BY <1>12, CrashDoes DEF ListIsOfOne
<1>13. CASE UNCHANGED <<rec, excused, starting, shown>>
  BY <1>13, <1>0 DEF ListIsOfOne
<1> QED
  BY <1>1, <1>2, <1>3, <1>4, <1>5, <1>6, <1>7, <1>8, <1>9, <1>10, <1>11, <1>12, <1>13,
     Writers
  DEF Writes

(* The backend answers with the finals of the current recording.            *)
LEMMA SyncIsOfOneStep ==
    WindowInv /\ OtherStep => SyncIsOfOne'
<1> SUFFICES ASSUME WindowInv, OtherStep PROVE SyncIsOfOne'
  OBVIOUS
<1>0. SyncIsOfOne
  BY DEF WindowInv, ShownInv
<1>1. ASSUME SyncRead PROVE SyncIsOfOne'
  <2>1. UNCHANGED rec /\ sync'.pc = "read"
        /\ (sync'.take = {} \/ sync'.take = {<<rec, s>> : s \in 1..said})
    BY <1>1, SyncReadDoes
  <2> QED BY <2>1 DEF SyncIsOfOne
<1>2. ASSUME SyncSet PROVE SyncIsOfOne'
  BY <1>2, <1>0, SyncSetDoes, Numbers DEF SyncIsOfOne
<1>3. ASSUME SyncState PROVE SyncIsOfOne'
  <2>1. UNCHANGED rec /\ (sync' = sync \/ (sync'.pc = "due" /\ sync'.take = {}))
    BY <1>3, SyncStateDoes
  <2> QED BY <1>0, <2>1 DEF SyncIsOfOne
<1>4. ASSUME Start PROVE SyncIsOfOne'
  BY <1>4, <1>0, StartDoes, Numbers DEF SyncIsOfOne
<1>5. ASSUME StartReturned PROVE SyncIsOfOne'
  <2>1. UNCHANGED rec /\ (sync' = sync \/ (sync'.pc = "due" /\ sync'.take = {}))
    BY <1>5, StartReturnedDoes
  <2> QED BY <1>0, <2>1 DEF SyncIsOfOne
<1>6. ASSUME Started PROVE SyncIsOfOne'
  <2>1. UNCHANGED rec /\ (sync' = sync \/ (sync'.pc = "due" /\ sync'.take = {}))
    BY <1>6, StartedDoes
  <2> QED BY <1>0, <2>1 DEF SyncIsOfOne
<1>7. ASSUME Update PROVE SyncIsOfOne'
  <2>1. UNCHANGED rec /\ (sync' = sync \/ (sync'.pc = "due" /\ sync'.take = {}))
    BY <1>7, UpdateDoes
  <2> QED BY <1>0, <2>1 DEF SyncIsOfOne
<1>8. ASSUME ClearLater PROVE SyncIsOfOne'
  <2>1. UNCHANGED rec /\ (sync' = sync \/ (sync'.pc = "due" /\ sync'.take = {}))
    BY <1>8, ClearLaterDoes
  <2> QED BY <1>0, <2>1 DEF SyncIsOfOne
<1>9. ASSUME Reload PROVE SyncIsOfOne'
  BY <1>9, <1>0, ReloadDoes, Numbers DEF SyncIsOfOne
<1>10. ASSUME Crash PROVE SyncIsOfOne'
  BY <1>10, <1>0, CrashDoes, Numbers DEF SyncIsOfOne
<1>11. CASE UNCHANGED <<rec, sync>>
  BY <1>11, <1>0 DEF SyncIsOfOne
<1> QED
  BY <1>1, <1>2, <1>3, <1>4, <1>5, <1>6, <1>7, <1>8, <1>9, <1>10, <1>11, Writers
  DEF Writes

(* Nothing is transcribed before the start has returned.                    *)
LEMMA NothingYetStep ==
    WindowInv /\ OtherStep => NothingYet'
<1> SUFFICES ASSUME WindowInv, OtherStep PROVE NothingYet'
  OBVIOUS
<1>0. NothingYet
  BY DEF WindowInv, ShownInv
<1>1. ASSUME Start PROVE NothingYet'
  BY <1>1, <1>0, StartDoes, Numbers DEF NothingYet
<1>2. ASSUME StartReturned PROVE NothingYet'
  BY <1>2, <1>0, StartReturnedDoes, Numbers DEF NothingYet
<1>3. ASSUME Emit PROVE NothingYet'
  BY <1>3, <1>0, EmitDoes, Numbers DEF NothingYet
<1>4. ASSUME Reload PROVE NothingYet'
  BY <1>4, <1>0, ReloadDoes, Numbers DEF NothingYet
<1>5. ASSUME Crash PROVE NothingYet'
  BY <1>5, <1>0, CrashDoes, Numbers DEF NothingYet
<1>6. CASE UNCHANGED <<said, starting>>
  BY <1>6, <1>0 DEF NothingYet
<1> QED
  BY <1>1, <1>2, <1>3, <1>4, <1>5, <1>6, Writers
  DEF Writes

(* What a handler takes from the list is of one recording.                  *)
LEMMA TakesAreOfOneStep ==
    WindowInv /\ OtherStep => TakesAreOfOne'
<1> SUFFICES ASSUME WindowInv, OtherStep PROVE TakesAreOfOne'
  OBVIOUS
<1>0. TakesAreOfOne
  BY DEF WindowInv, ShownInv
<1>1. ASSUME SyncSet PROVE TakesAreOfOne'
  <2>1. UNCHANGED <<rec, handler>> /\ excused \subseteq excused'
    BY <1>1, SyncSetDoes
  <2> QED BY <1>0, <2>1 DEF TakesAreOfOne, Busy, Alike
<1>2. ASSUME Start PROVE TakesAreOfOne'
  <2>1. rec' = rec + 1 /\ excused = {} /\ excused' = (IF Saving THEN {rec, rec + 1} ELSE {})
        /\ UNCHANGED handler
    BY <1>2, StartDoes
  <2>2. \A h \in Handlers : Busy(h) => Saving
    BY DEF Saving
  <2> QED BY <1>0, <2>1, <2>2 DEF TakesAreOfOne, Busy, Alike
<1>3. ASSUME Started PROVE TakesAreOfOne'
  <2>1. UNCHANGED <<rec, handler>> /\ excused \subseteq excused'
    BY <1>3, StartedDoes
  <2> QED BY <1>0, <2>1 DEF TakesAreOfOne, Busy, Alike
<1>4. ASSUME Update PROVE TakesAreOfOne'
  <2>1. UNCHANGED <<rec, handler>> /\ excused \subseteq excused'
    BY <1>4, UpdateDoes
  <2> QED BY <1>0, <2>1 DEF TakesAreOfOne, Busy, Alike
<1>5. ASSUME StopComplete PROVE TakesAreOfOne'
  <2>1. UNCHANGED <<rec, excused>> /\ Alarmed(handler, handler', "provider", mid)
    BY <1>5, StopCompleteDoes
  <2>2. \A g \in Handlers :
            \/ handler'[g].take = {}
            \/ handler'[g].take = handler[g].take /\ handler'[g].pc = handler[g].pc
    BY <2>1 DEF Alarmed, Goes
  <2> QED BY <1>0, <2>1, <2>2 DEF TakesAreOfOne, Busy, Alike
<1>6. ASSUME NEW c \in Callers, StopBegin(c) PROVE TakesAreOfOne'
  <2>1. UNCHANGED <<rec, handler>> /\ excused \subseteq excused'
    BY <1>6, StopBeginDoes
  <2> QED BY <1>0, <2>1 DEF TakesAreOfOne, Busy, Alike
<1>7. ASSUME NEW c \in Callers, StopEnd(c) PROVE TakesAreOfOne'
  <2>1. UNCHANGED <<rec, excused>>
        /\ (handler' = handler \/ Alarmed(handler, handler', "home", clicked))
    BY <1>7, StopEndDoes
  <2>2. \A g \in Handlers :
            \/ handler'[g].take = {}
            \/ handler'[g].take = handler[g].take /\ handler'[g].pc = handler[g].pc
    BY <2>1 DEF Alarmed, Goes
  <2> QED BY <1>0, <2>1, <2>2 DEF TakesAreOfOne, Busy, Alike
<1>8. ASSUME StopAgain PROVE TakesAreOfOne'
  <2>1. UNCHANGED <<rec, handler>> /\ excused \subseteq excused'
    BY <1>8, StopAgainDoes
  <2> QED BY <1>0, <2>1 DEF TakesAreOfOne, Busy, Alike
<1>9. ASSUME NEW h \in Handlers, Waited(h) PROVE TakesAreOfOne'
  <2>1. UNCHANGED <<rec, excused>> /\ ~starting
        /\ Goes(handler, handler', h, "saving", handler[h].id, shown)
    BY <1>9, WaitedDoes
  <2>2. \A f \in shown : f[1] = rec \/ {f[1], rec} \subseteq excused
    BY <2>1 DEF WindowInv, ShownInv, ListIsOfOne
  <2>3. /\ \A f \in shown : f[1] = rec \/ f[1] \in excused
        /\ \A f, g \in shown : Alike(f, g)
    BY <2>2 DEF Alike
  <2>4. \A g \in Handlers : g # h
            => handler'[g].pc = handler[g].pc /\ handler'[g].take = handler[g].take
    BY <2>1 DEF Goes
  <2>5. handler'[h].take = shown
    BY <2>1 DEF Goes
  <2> QED BY <1>0, <2>1, <2>3, <2>4, <2>5 DEF TakesAreOfOne, Busy, Alike
<1>10. ASSUME NEW h \in Handlers, Save(h) PROVE TakesAreOfOne'
  <2>1. UNCHANGED rec /\ excused \subseteq excused' /\ Busy(h)
        /\ Goes(handler, handler', h, "marking", handler[h].id, handler[h].take)
    BY <1>10, SaveDoes DEF Busy
  <2>2. \A g \in Handlers : Busy(g)' => Busy(g) /\ handler'[g].take \subseteq handler[g].take
    BY <2>1 DEF Goes, Busy
  <2> QED BY <1>0, <2>1, <2>2 DEF TakesAreOfOne, Alike
<1>11. ASSUME NEW h \in Handlers, SaveFails(h) PROVE TakesAreOfOne'
  <2>1. UNCHANGED rec /\ excused \subseteq excused' /\ Busy(h)
        /\ Goes(handler, handler', h, "idle", 0, {})
    BY <1>11, SaveFailsDoes DEF Busy
  <2>2. \A g \in Handlers : Busy(g)' => Busy(g) /\ handler'[g].take \subseteq handler[g].take
    BY <2>1 DEF Goes, Busy
  <2> QED BY <1>0, <2>1, <2>2 DEF TakesAreOfOne, Alike
<1>12. ASSUME NEW h \in Handlers, Mark(h) PROVE TakesAreOfOne'
  <2>1. UNCHANGED rec /\ excused \subseteq excused' /\ Busy(h)
        /\ Goes(handler, handler', h, "idle", 0, {})
    BY <1>12, MarkDoes DEF Busy
  <2>2. \A g \in Handlers : Busy(g)' => Busy(g) /\ handler'[g].take \subseteq handler[g].take
    BY <2>1 DEF Goes, Busy
  <2> QED BY <1>0, <2>1, <2>2 DEF TakesAreOfOne, Alike
<1>13. ASSUME ClearLater PROVE TakesAreOfOne'
  <2>1. UNCHANGED <<rec, handler>> /\ excused \subseteq excused'
    BY <1>13, ClearLaterDoes
  <2> QED BY <1>0, <2>1 DEF TakesAreOfOne, Busy, Alike
<1>14. ASSUME Check PROVE TakesAreOfOne'
  <2>1. UNCHANGED <<rec, handler>> /\ excused \subseteq excused'
    BY <1>14, CheckDoes
  <2> QED BY <1>0, <2>1 DEF TakesAreOfOne, Busy, Alike
<1>15. ASSUME Reload PROVE TakesAreOfOne'
  BY <1>15, ReloadDoes DEF TakesAreOfOne, AtRest, Busy
<1>16. ASSUME Crash PROVE TakesAreOfOne'
  BY <1>16, CrashDoes DEF TakesAreOfOne, AtRest, Busy
<1>17. CASE UNCHANGED <<rec, excused, handler>>
  BY <1>17, <1>0 DEF TakesAreOfOne, Alike, Busy
<1> QED
  BY <1>1, <1>2, <1>3, <1>4, <1>5, <1>6, <1>7, <1>8, <1>9, <1>10, <1>11, <1>12, <1>13,
     <1>14, <1>15, <1>16, <1>17, Writers
  DEF Writes

(* A meeting is filed no final of another recording.                        *)
LEMMA CopyIsOfOneStep ==
    WindowInv /\ OtherStep => CopyIsOfOne'
<1> SUFFICES ASSUME WindowInv, OtherStep PROVE CopyIsOfOne'
  OBVIOUS
<1>0. CopyIsOfOne
  BY DEF WindowInv, CopyInv
<1>1. ASSUME SyncSet PROVE CopyIsOfOne'
  <2>1. UNCHANGED given /\ excused \subseteq excused'
    BY <1>1, SyncSetDoes
  <2> QED BY <1>0, <2>1 DEF CopyIsOfOne
<1>2. ASSUME Start PROVE CopyIsOfOne'
  <2>1. UNCHANGED given /\ excused \subseteq excused'
    BY <1>2, StartDoes
  <2> QED BY <1>0, <2>1 DEF CopyIsOfOne
<1>3. ASSUME Started PROVE CopyIsOfOne'
  <2>1. UNCHANGED given /\ excused \subseteq excused'
    BY <1>3, StartedDoes
  <2> QED BY <1>0, <2>1 DEF CopyIsOfOne
<1>4. ASSUME Update PROVE CopyIsOfOne'
  <2>1. /\ UNCHANGED <<rec, listening>> /\ 1 \in DOMAIN events
        /\ excused' = IF pending = {} THEN excused ELSE excused \cup {events[1].rec}
        /\ events[1].kind # "started" /\ events[1].rec \in Recordings
        /\ \A r \in Recordings : given'[r] = given[r]
              \/ (r \in listening /\ given'[r] = given[r] \cup {<<events[1].rec, events[1].seg>>})
    BY <1>4, UpdateDoes, EventShapes DEF Leaves
  <2>2. excused \subseteq excused'
    BY <2>1
  <2>3. \A r \in Recordings : r \in listening => events[1].rec = r \/ events[1].rec \in excused'
    <3>1. events[1].rec = rec \/ events[1].rec \in excused
      BY <2>1 DEF WindowInv, QueueInv, OfCurrent
    <3>2. CASE Fine
      BY <2>1, <3>1, <3>2, AtHead
    <3>3. CASE ~Fine
      BY <2>2, <3>1, <3>3 DEF Fine
    <3> QED BY <3>2, <3>3
  <2> QED BY <1>0, <2>1, <2>2, <2>3 DEF CopyIsOfOne
<1>5. ASSUME NEW c \in Callers, StopBegin(c) PROVE CopyIsOfOne'
  <2>1. UNCHANGED given /\ excused \subseteq excused'
    BY <1>5, StopBeginDoes
  <2> QED BY <1>0, <2>1 DEF CopyIsOfOne
<1>6. ASSUME StopAgain PROVE CopyIsOfOne'
  <2>1. UNCHANGED given /\ excused \subseteq excused'
    BY <1>6, StopAgainDoes
  <2> QED BY <1>0, <2>1 DEF CopyIsOfOne
<1>7. ASSUME NEW h \in Handlers, Mark(h) PROVE CopyIsOfOne'
  <2>1. UNCHANGED given /\ excused \subseteq excused'
    BY <1>7, MarkDoes
  <2> QED BY <1>0, <2>1 DEF CopyIsOfOne
<1>8. ASSUME ClearLater PROVE CopyIsOfOne'
  <2>1. UNCHANGED given /\ excused \subseteq excused'
    BY <1>8, ClearLaterDoes
  <2> QED BY <1>0, <2>1 DEF CopyIsOfOne
<1>9. ASSUME Check PROVE CopyIsOfOne'
  <2>1. UNCHANGED given /\ excused \subseteq excused'
    BY <1>9, CheckDoes
  <2> QED BY <1>0, <2>1 DEF CopyIsOfOne
<1>10. ASSUME NEW r \in Recordings, Remove(r) PROVE CopyIsOfOne'
  <2>1. UNCHANGED excused /\ GivesLess
    BY <1>10, RemoveDoes
  <2> QED BY <1>0, <2>1 DEF CopyIsOfOne, GivesLess
<1>11. ASSUME Reload PROVE CopyIsOfOne'
  <2>1. GivesLess /\ excused \subseteq excused'
    BY <1>11, ReloadDoes
  <2> QED BY <1>0, <2>1 DEF CopyIsOfOne, GivesLess
<1>12. ASSUME Crash PROVE CopyIsOfOne'
  <2>1. GivesLess /\ excused \subseteq excused'
    BY <1>12, CrashDoes
  <2> QED BY <1>0, <2>1 DEF CopyIsOfOne, GivesLess
<1>13. CASE UNCHANGED <<excused, given>>
  BY <1>13, <1>0 DEF CopyIsOfOne
<1>90. ASSUME NEW w \in writes, FilingFails(w) PROVE CopyIsOfOne'
  <2>1. UNCHANGED excused /\ GivesLess
    BY <1>90, FilingFailsDoes
  <2> QED BY <1>0, <2>1 DEF CopyIsOfOne, GivesLess
<1> QED
  BY <1>90, <1>1, <1>2, <1>3, <1>4, <1>5, <1>6, <1>7, <1>8, <1>9, <1>10, <1>11, <1>12, <1>13,
     Writers
  DEF Writes

(* The copy of a recording is empty when it starts.                         *)
LEMMA CopyNewStep ==
    WindowInv /\ OtherStep => CopyNew'
<1> SUFFICES ASSUME WindowInv, OtherStep PROVE CopyNew'
  OBVIOUS
<1>0. CopyNew
  BY DEF WindowInv, CopyInv
<1>1. ASSUME SyncSet PROVE CopyNew'
  <2>1. UNCHANGED <<rec, events, given, starting>> /\ (Fine' => Fine)
    BY <1>1, SyncSetDoes DEF Fine
  <2> QED BY <1>0, <2>1, QueueRead DEF CopyNew
<1>2. ASSUME Start PROVE CopyNew'
  <2>1. rec' \in Recordings /\ rec' > rec /\ UNCHANGED given
    BY <1>2, StartDoes, FineStart
  <2> QED BY <2>1 DEF CopyNew, WindowInv, PastInv, NoneLater
<1>3. ASSUME StartReturned PROVE CopyNew'
  <2>1. UNCHANGED <<rec, excused, events, given>> /\ ~starting'
    BY <1>3, StartReturnedDoes
  <2> QED BY <1>0, <2>1, QueueRead DEF CopyNew, Fine
<1>4. ASSUME Emit PROVE CopyNew'
  <2>1. UNCHANGED <<rec, excused, given, starting>> /\ (StartComing' => StartComing)
    BY <1>4, EmitDoes, QueueRead DEF Joins
  <2> QED BY <1>0, <2>1 DEF CopyNew, Fine
<1>5. ASSUME Started PROVE CopyNew'
  <2>1. UNCHANGED <<rec, given, starting>> /\ (Fine' => Fine) /\ (StartComing' => StartComing)
    BY <1>5, StartedDoes, QueueRead DEF Leaves, Fine
  <2> QED BY <1>0, <2>1 DEF CopyNew
<1>6. ASSUME Update PROVE CopyNew'
  <2>1. UNCHANGED starting /\ (StartComing' => StartComing)
    BY <1>6, UpdateDoes, QueueRead DEF Leaves
  <2> QED BY <1>6, <2>1, FineUpdate DEF CopyNew
<1>7. ASSUME Stopped PROVE CopyNew'
  <2>1. UNCHANGED <<rec, given, starting>> /\ (Fine' => Fine) /\ (StartComing' => StartComing)
    BY <1>7, StoppedDoes, QueueRead DEF Leaves, Fine
  <2> QED BY <1>0, <2>1 DEF CopyNew
<1>8. ASSUME StopComplete PROVE CopyNew'
  <2>1. UNCHANGED <<rec, given, starting>> /\ (Fine' => Fine) /\ (StartComing' => StartComing)
    BY <1>8, StopCompleteDoes, QueueRead DEF Leaves, Fine
  <2> QED BY <1>0, <2>1 DEF CopyNew
<1>9. ASSUME NEW c \in Callers, StopBegin(c) PROVE CopyNew'
  <2>1. UNCHANGED <<rec, events, given, starting>> /\ (Fine' => Fine)
    BY <1>9, StopBeginDoes DEF Fine
  <2> QED BY <1>0, <2>1, QueueRead DEF CopyNew
<1>10. ASSUME NEW c \in Callers, StopEnd(c) PROVE CopyNew'
  <2>1. UNCHANGED <<rec, excused, given, starting>> /\ (StartComing' => StartComing)
    BY <1>10, StopEndDoes, QueueRead DEF Joins
  <2> QED BY <1>0, <2>1 DEF CopyNew, Fine
<1>11. ASSUME StopAgain PROVE CopyNew'
  BY <1>11, StopAgainDoes DEF CopyNew, Fine
<1>12. ASSUME StopLost PROVE CopyNew'
  <2>1. ~Fine'
    BY <1>12, StopLostDoes, DrainsInPeace
       DEF WindowInv, StopInv, OneStop, Draining, Callers, Fine
  <2> QED BY <2>1 DEF CopyNew
<1>13. ASSUME NEW h \in Handlers, Mark(h) PROVE CopyNew'
  <2>1. UNCHANGED <<rec, events, given, starting>> /\ (Fine' => Fine)
    BY <1>13, MarkDoes DEF Fine
  <2> QED BY <1>0, <2>1, QueueRead DEF CopyNew
<1>14. ASSUME ClearLater PROVE CopyNew'
  <2>1. UNCHANGED <<rec, events, given, starting>> /\ (Fine' => Fine)
    BY <1>14, ClearLaterDoes DEF Fine
  <2> QED BY <1>0, <2>1, QueueRead DEF CopyNew
<1>15. ASSUME Check PROVE CopyNew'
  <2>1. UNCHANGED <<rec, events, given, starting>> /\ (Fine' => Fine)
    BY <1>15, CheckDoes DEF Fine
  <2> QED BY <1>0, <2>1, QueueRead DEF CopyNew
<1>16. ASSUME NEW r \in Recordings, Remove(r) PROVE CopyNew'
  <2>1. UNCHANGED <<rec, excused, events, starting>>
        /\ GivesLess
    BY <1>16, RemoveDoes
  <2>2. Fine /\ rec > 0 => rec \in Recordings
    BY Numbers
  <2> QED BY <1>0, <2>1, <2>2, QueueRead DEF CopyNew, Fine, GivesLess
<1>17. ASSUME Reload PROVE CopyNew'
  BY <1>17, ReloadDoes, NoneIn, QueueRead DEF CopyNew
<1>18. ASSUME Crash PROVE CopyNew'
  BY <1>18, CrashDoes, NoneIn, QueueRead DEF CopyNew
<1>19. CASE UNCHANGED <<rec, excused, starting, events, given>>
  BY <1>19, <1>0, QueueRead DEF CopyNew, Fine
<1>90. ASSUME NEW w \in writes, FilingFails(w) PROVE CopyNew'
  <2>1. UNCHANGED <<rec, excused, events, starting, saves>> /\ GivesLess
    BY <1>90, FilingFailsDoes
  <2>2. (Fine /\ rec > 0 => rec \in Recordings) /\ Saved' = Saved
    BY <2>1, Numbers, SavesDo
  <2> QED BY <1>0, <2>1, <2>2, QueueRead DEF CopyNew, GivesLess, Fine
<1> QED
  BY <1>90, <1>1, <1>2, <1>3, <1>4, <1>5, <1>6, <1>7, <1>8, <1>9, <1>10, <1>11, <1>12, <1>13,
     <1>14, <1>15, <1>16, <1>17, <1>18, <1>19, Writers
  DEF Writes

(* While it records, the list has everything its copy has.                  *)
LEMMA CopyShownStep ==
    WindowInv /\ OtherStep => CopyShown'
<1> SUFFICES ASSUME WindowInv, OtherStep PROVE CopyShown'
  OBVIOUS
<1>0. CopyShown
  BY DEF WindowInv, CopyInv
<1>1. ASSUME SyncSet PROVE CopyShown'
  <2>1. UNCHANGED <<rec, given, on, events>> /\ shown' = sync.take
        /\ excused' = IF shown \subseteq sync.take THEN excused ELSE excused \cup {rec}
    BY <1>1, SyncSetDoes
  <2>2. Fine' => Fine /\ shown \subseteq sync.take
    BY <2>1 DEF Fine
  <2> QED BY <1>0, <2>1, <2>2 DEF CopyShown
<1>2. ASSUME Start PROVE CopyShown'
  <2>1. rec' \in Recordings /\ rec' > rec /\ UNCHANGED given
    BY <1>2, StartDoes, FineStart
  <2>2. given[rec'] = {}
    BY <2>1 DEF WindowInv, PastInv, NoneLater
  <2> QED BY <2>1, <2>2 DEF CopyShown
<1>3. ASSUME StartReturned PROVE CopyShown'
  <2>1. UNCHANGED <<rec, excused, given>> /\ starting
    BY <1>3, StartReturnedDoes
  <2>2. Fine /\ rec > 0 => given[rec] = {}
    BY <2>1 DEF WindowInv, CopyInv, CopyNew
  <2> QED BY <2>1, <2>2 DEF CopyShown, Fine
<1>4. ASSUME Emit PROVE CopyShown'
  <2>1. UNCHANGED <<rec, excused, given, shown, on>>
    BY <1>4, EmitDoes
  <2>2. Fine => on
    BY <1>4, EmitDoes, DrainsInPeace DEF NoStop, Draining
  <2> QED BY <1>0, <2>1, <2>2 DEF CopyShown, Fine
<1>5. ASSUME Started PROVE CopyShown'
  <2>1. UNCHANGED <<rec, given, shown, on>> /\ (Fine' => Fine) /\ events # <<>>
    BY <1>5, StartedDoes DEF Leaves, Fine
  <2> QED BY <1>0, <2>1 DEF CopyShown
<1>6. ASSUME Update PROVE CopyShown'
  <2> SUFFICES ASSUME Fine' PROVE CopyShown'
    BY DEF CopyShown
  <2>1. Fine /\ listening = {rec} /\ events # <<>> /\ rec \in Recordings /\ rec' = rec
    BY <1>6, FineUpdate
  <2>2. given[rec] \subseteq shown
    BY <1>0, <2>1, Numbers DEF CopyShown, Recordings
  <2>3. shown' = shown \cup {<<events[1].rec, events[1].seg>>}
        /\ given'[rec] = given[rec] \cup {<<events[1].rec, events[1].seg>>}
    BY <1>6, <2>1, UpdateDoes
  <2> QED BY <2>1, <2>2, <2>3 DEF CopyShown
<1>7. ASSUME Stopped PROVE CopyShown'
  <2>1. UNCHANGED <<rec, given, shown, on>> /\ (Fine' => Fine) /\ events # <<>>
    BY <1>7, StoppedDoes DEF Leaves, Fine
  <2> QED BY <1>0, <2>1 DEF CopyShown
<1>8. ASSUME StopComplete PROVE CopyShown'
  <2>1. UNCHANGED <<rec, given, shown, on>> /\ (Fine' => Fine) /\ events # <<>>
    BY <1>8, StopCompleteDoes DEF Leaves, Fine
  <2> QED BY <1>0, <2>1 DEF CopyShown
<1>9. ASSUME NEW c \in Callers, StopBegin(c) PROVE CopyShown'
  <2>1. UNCHANGED <<rec, events, given, shown, on>> /\ (Fine' => Fine)
    BY <1>9, StopBeginDoes DEF Fine
  <2> QED BY <1>0, <2>1 DEF CopyShown
<1>10. ASSUME NEW c \in Callers, StopEnd(c) PROVE CopyShown'
  <2>1. UNCHANGED <<rec, excused, given, shown>> /\ ~NoStop
    BY <1>10, StopEndDoes DEF NoStop, Draining
  <2>2. Fine => on
    BY <2>1, DrainsInPeace
  <2> QED BY <1>0, <2>1, <2>2 DEF CopyShown, Fine
<1>11. ASSUME StopAgain PROVE CopyShown'
  BY <1>11, StopAgainDoes DEF CopyShown, Fine
<1>12. ASSUME StopLost PROVE CopyShown'
  <2>1. ~Fine'
    BY <1>12, StopLostDoes, DrainsInPeace
       DEF WindowInv, StopInv, OneStop, Draining, Callers, Fine
  <2> QED BY <2>1 DEF CopyShown
<1>13. ASSUME NEW h \in Handlers, Mark(h) PROVE CopyShown'
  <2>1. UNCHANGED <<rec, events, given, shown, on>> /\ (Fine' => Fine)
    BY <1>13, MarkDoes DEF Fine
  <2> QED BY <1>0, <2>1 DEF CopyShown
<1>14. ASSUME ClearLater PROVE CopyShown'
  <2> SUFFICES ASSUME Fine' PROVE CopyShown'
    BY DEF CopyShown
  <2>1. UNCHANGED <<on, events>> /\ Fine /\ ~on /\ ~Saving
    BY <1>14, ClearLaterDoes DEF Fine
  <2>2. events = <<>>
    BY <2>1, OverIsHeard DEF Saving
  <2> QED BY <2>1, <2>2 DEF CopyShown
<1>15. ASSUME Check PROVE CopyShown'
  <2>1. UNCHANGED <<rec, events, given, shown, on>> /\ (Fine' => Fine)
    BY <1>15, CheckDoes DEF Fine
  <2> QED BY <1>0, <2>1 DEF CopyShown
<1>16. ASSUME NEW r \in Recordings, Remove(r) PROVE CopyShown'
  <2>1. UNCHANGED <<rec, excused, events, on, shown>>
        /\ GivesLess
    BY <1>16, RemoveDoes
  <2>2. Fine /\ rec > 0 => rec \in Recordings
    BY Numbers
  <2> QED BY <1>0, <2>1, <2>2 DEF CopyShown, Fine, GivesLess
<1>17. ASSUME Reload PROVE CopyShown'
  <2> SUFFICES ASSUME Fine' PROVE CopyShown'
    BY DEF CopyShown
  <2>1. ~on' /\ events' = <<>>
    BY <1>17, FineBreak, ReloadDoes
  <2> QED BY <2>1 DEF CopyShown
<1>18. ASSUME Crash PROVE CopyShown'
  <2> SUFFICES ASSUME Fine' PROVE CopyShown'
    BY DEF CopyShown
  <2>1. ~on' /\ events' = <<>>
    BY <1>18, FineBreak, CrashDoes
  <2> QED BY <2>1 DEF CopyShown
<1>19. CASE UNCHANGED <<rec, excused, on, events, shown, given>>
  BY <1>19, <1>0 DEF CopyShown, Fine
<1>90. ASSUME NEW w \in writes, FilingFails(w) PROVE CopyShown'
  <2>1. UNCHANGED <<rec, excused, on, events, shown, saves>> /\ GivesLess
    BY <1>90, FilingFailsDoes
  <2>2. (Fine /\ rec > 0 => rec \in Recordings) /\ Saved' = Saved
    BY <2>1, Numbers, SavesDo
  <2> QED BY <1>0, <2>1, <2>2 DEF CopyShown, GivesLess, Fine
<1> QED
  BY <1>90, <1>1, <1>2, <1>3, <1>4, <1>5, <1>6, <1>7, <1>8, <1>9, <1>10, <1>11, <1>12, <1>13,
     <1>14, <1>15, <1>16, <1>17, <1>18, <1>19, Writers
  DEF Writes

(* And so has what the handler takes, and then the database.                *)
LEMMA CopyTakenStep ==
    WindowInv /\ OtherStep => CopyTaken'
<1> SUFFICES ASSUME WindowInv, OtherStep PROVE CopyTaken'
  OBVIOUS
<1>0. CopyTaken
  BY DEF WindowInv, CopyInv
<1>1. ASSUME SyncSet PROVE CopyTaken'
  <2>1. UNCHANGED <<rec, given, handler, saves>> /\ shown' = sync.take
        /\ excused' = IF shown \subseteq sync.take THEN excused ELSE excused \cup {rec}
    BY <1>1, SyncSetDoes
  <2>2. (Fine' => Fine /\ shown \subseteq shown') /\ Saved' = Saved
    BY <2>1, SavesDo DEF Fine
  <2> QED BY <1>0, <2>1, <2>2 DEF CopyTaken
<1>2. ASSUME Start PROVE CopyTaken'
  <2> SUFFICES ASSUME Fine' PROVE CopyTaken'
    BY DEF CopyTaken
  <2>1. AllRest /\ UNCHANGED handler
    BY <1>2, StartDoes, FineStart
  <2> QED BY <2>1 DEF CopyTaken, AllRest, Busy
<1>3. ASSUME StartReturned PROVE CopyTaken'
  <2>1. UNCHANGED <<rec, excused, given, handler>> /\ starting
    BY <1>3, StartReturnedDoes
  <2>2. Fine /\ rec > 0 => given[rec] = {}
    BY <2>1 DEF WindowInv, CopyInv, CopyNew
  <2> QED BY <2>1, <2>2 DEF CopyTaken, Fine
<1>4. ASSUME Started PROVE CopyTaken'
  <2>1. UNCHANGED <<rec, handler, given, shown, saves>> /\ (Fine' => Fine)
    BY <1>4, StartedDoes DEF Fine
  <2>2. Saved' = Saved
    BY <2>1, SavesDo
  <2> QED BY <1>0, <2>1, <2>2 DEF CopyTaken
<1>5. ASSUME Update PROVE CopyTaken'
  <2> SUFFICES ASSUME Fine' PROVE CopyTaken'
    BY DEF CopyTaken
  <2>1. Fine /\ listening = {rec} /\ events # <<>> /\ rec \in Recordings /\ rec' = rec
    BY <1>5, FineUpdate
  <2>2. shown' = shown \cup {<<events[1].rec, events[1].seg>>}
        /\ given'[rec] = given[rec] \cup {<<events[1].rec, events[1].seg>>} /\ UNCHANGED handler
    BY <1>5, <2>1, UpdateDoes
  <2>3. \A h \in Handlers : handler[h].pc # "idle" => handler[h].pc = "waiting"
    BY <2>1, FineBusy DEF Busy
  <2>4. \A h \in Handlers : handler[h].pc = "waiting" => given[rec] \subseteq shown
    BY <1>0, <2>1, Numbers DEF CopyTaken, Recordings
  <2> QED BY <2>1, <2>2, <2>3, <2>4 DEF CopyTaken
<1>6. ASSUME StopComplete PROVE CopyTaken'
  <2> SUFFICES ASSUME Fine', rec' > 0 PROVE CopyTaken'
    BY DEF CopyTaken
  <2>1. UNCHANGED <<rec, excused, given, shown, saves>> /\ events # <<>>
        /\ KindIn(events, "stop-complete") /\ Alarmed(handler, handler', "provider", mid)
    BY <1>6, StopCompleteDoes DEF Leaves
  <2>2. Fine /\ AllRest
    BY <2>1 DEF Fine, WindowInv, StopInv, CallIsLast
  <2>3. given[rec] \subseteq shown
    BY <2>1, <2>2 DEF WindowInv, CopyInv, CopyShown
  <2>4. \A g \in Handlers : handler'[g].pc \in {"idle", "waiting"}
    BY <2>1, <2>2 DEF Alarmed, Goes, AllRest, Busy
  <2> QED BY <2>1, <2>3, <2>4 DEF CopyTaken
<1>7. ASSUME NEW c \in Callers, StopBegin(c) PROVE CopyTaken'
  <2>1. UNCHANGED <<rec, handler, given, shown, saves>> /\ (Fine' => Fine)
    BY <1>7, StopBeginDoes DEF Fine
  <2>2. Saved' = Saved
    BY <2>1, SavesDo
  <2> QED BY <1>0, <2>1, <2>2 DEF CopyTaken
<1>8. ASSUME NEW c \in Callers, StopEnd(c) PROVE CopyTaken'
  <2> SUFFICES ASSUME Fine', rec' > 0 PROVE CopyTaken'
    BY DEF CopyTaken
  <2>1. UNCHANGED <<rec, excused, given, shown, saves>> /\ ~NoStop
        /\ (handler' = handler \/ Alarmed(handler, handler', "home", clicked))
    BY <1>8, StopEndDoes DEF NoStop, Draining
  <2>2. Fine /\ on /\ AllRest
    BY <2>1, DrainsInPeace DEF Fine
  <2>3. given[rec] \subseteq shown
    BY <2>1, <2>2 DEF WindowInv, CopyInv, CopyShown
  <2>4. \A g \in Handlers : handler'[g].pc \in {"idle", "waiting"}
    BY <2>1, <2>2 DEF Alarmed, Goes, AllRest, Busy
  <2> QED BY <2>1, <2>3, <2>4 DEF CopyTaken
<1>9. ASSUME StopAgain PROVE CopyTaken'
  BY <1>9, StopAgainDoes DEF CopyTaken, Fine
<1>10. ASSUME NEW h \in Handlers, Waited(h) PROVE CopyTaken'
  <2>1. UNCHANGED <<rec, excused, given, shown, saves>> /\ handler[h].pc = "waiting"
        /\ Goes(handler, handler', h, "saving", handler[h].id, shown)
    BY <1>10, WaitedDoes
  <2>2. Saved' = Saved
    BY <2>1, SavesDo
  <2> QED BY <1>0, <2>1, <2>2 DEF CopyTaken, Goes, Fine
<1>11. ASSUME NEW h \in Handlers, Save(h) PROVE CopyTaken'
  <2>1. UNCHANGED <<rec, excused, given, shown>> /\ handler[h].pc = "saving"
        /\ Goes(handler, handler', h, "marking", handler[h].id, handler[h].take)
        /\ Saved' = Saved \cup handler[h].take
    BY <1>11, SaveDoes
  <2> QED BY <1>0, <2>1 DEF CopyTaken, Goes, Fine
<1>12. ASSUME NEW h \in Handlers, SaveFails(h) PROVE CopyTaken'
  <2>1. UNCHANGED <<rec, given, shown, saves>> /\ (Fine' => Fine)
        /\ Goes(handler, handler', h, "idle", 0, {})
    BY <1>12, SaveFailsDoes DEF Fine
  <2>2. Saved' = Saved
    BY <2>1, SavesDo
  <2> QED BY <1>0, <2>1, <2>2 DEF CopyTaken, Goes
<1>13. ASSUME NEW h \in Handlers, Mark(h) PROVE CopyTaken'
  <2>1. UNCHANGED <<rec, given, shown, saves>> /\ (Fine' => Fine)
        /\ Goes(handler, handler', h, "idle", 0, {})
    BY <1>13, MarkDoes DEF Fine
  <2>2. Saved' = Saved
    BY <2>1, SavesDo
  <2> QED BY <1>0, <2>1, <2>2 DEF CopyTaken, Goes
<1>14. ASSUME ClearLater PROVE CopyTaken'
  <2> SUFFICES ASSUME Fine' PROVE CopyTaken'
    BY DEF CopyTaken
  <2>1. UNCHANGED handler /\ AllRest
    BY <1>14, ClearLaterDoes DEF Fine, Saving, AllRest
  <2> QED BY <2>1 DEF CopyTaken, AllRest, Busy
<1>15. ASSUME Check PROVE CopyTaken'
  <2>1. UNCHANGED <<rec, handler, given, shown, saves>> /\ (Fine' => Fine)
    BY <1>15, CheckDoes DEF Fine
  <2>2. Saved' = Saved
    BY <2>1, SavesDo
  <2> QED BY <1>0, <2>1, <2>2 DEF CopyTaken
<1>16. ASSUME RecoverSave PROVE CopyTaken'
  <2>1. UNCHANGED <<rec, excused, given, shown, handler>> /\ Saved \subseteq Saved'
    BY <1>16, RecoverSaveDoes
  <2> QED BY <1>0, <2>1 DEF CopyTaken, Fine
<1>17. ASSUME NEW r \in Recordings, Remove(r) PROVE CopyTaken'
  <2>1. UNCHANGED <<rec, excused, handler, shown, saves>>
        /\ GivesLess
    BY <1>17, RemoveDoes
  <2>2. (Fine /\ rec > 0 => rec \in Recordings) /\ Saved' = Saved
    BY <2>1, Numbers, SavesDo
  <2> QED BY <1>0, <2>1, <2>2 DEF CopyTaken, Fine, GivesLess
<1>18. ASSUME Reload PROVE CopyTaken'
  BY <1>18, ReloadDoes DEF CopyTaken, AtRest
<1>19. ASSUME Crash PROVE CopyTaken'
  BY <1>19, CrashDoes DEF CopyTaken, AtRest
<1>20. CASE UNCHANGED <<rec, excused, shown, handler, given, saves>>
  BY <1>20, <1>0, SavesDo DEF CopyTaken, Fine
<1>90. ASSUME NEW w \in writes, FilingFails(w) PROVE CopyTaken'
  <2>1. UNCHANGED <<rec, excused, handler, shown, saves>> /\ GivesLess
    BY <1>90, FilingFailsDoes
  <2>2. (Fine /\ rec > 0 => rec \in Recordings) /\ Saved' = Saved
    BY <2>1, Numbers, SavesDo
  <2> QED BY <1>0, <2>1, <2>2 DEF CopyTaken, GivesLess, Fine
<1> QED
  BY <1>90, <1>1, <1>2, <1>3, <1>4, <1>5, <1>6, <1>7, <1>8, <1>9, <1>10, <1>11, <1>12, <1>13,
     <1>14, <1>15, <1>16, <1>17, <1>18, <1>19, <1>20, Writers
  DEF Writes

(* A final that is kept stays kept, unless the page is loaded anew: a final *)
(* leaves the queue when it is given to its meeting, a write that fails is  *)
(* remembered, a copy goes with its meeting, and a meeting begins empty.    *)
LEMMA KeptStays ==
    ASSUME WindowInv, OtherStep, ~Reload, ~Crash
    PROVE  \A f \in Finals : Begun(f) /\ Kept(f) => Kept(f)'
<1>c. unfiled \subseteq unfiled'
  BY HistoriesGrow
<1> SUFFICES ASSUME NEW f \in Finals, Begun(f), Kept(f), f \notin unfiled' PROVE Kept(f)'
  BY DEF Kept
<1>0. f[1] \in Recordings /\ f[2] # 0 /\ f = <<f[1], f[2]>> /\ f[1] <= rec
  BY WindowAssumption DEF Finals, Begun, Recordings
<1>a. \/ f[1] \in excused \/ f \in PairsIn(events) \/ f \in given[f[1]]
      \/ meta[f[1]] = "absent" /\ ~(f[1] = rec /\ StartComing)
  BY <1>c, QueueRead DEF Kept
<1>b. Kept(f)' <=> \/ f[1] \in excused' \/ f \in PairsIn(events') \/ f \in given'[f[1]]
                   \/ meta'[f[1]] = "absent" /\ ~(f[1] = rec' /\ StartComing')
  BY QueueRead DEF Kept
<1>1. ASSUME SyncSet PROVE Kept(f)'
  <2>1. UNCHANGED <<rec, given, meta, events>> /\ excused \subseteq excused'
    BY <1>1, SyncSetDoes
  <2> QED BY <1>a, <1>b, <2>1, QueueRead
<1>2. ASSUME Start PROVE Kept(f)'
  <2>1. UNCHANGED <<given, meta>> /\ excused \subseteq excused' /\ rec' = rec + 1
        /\ PairsIn(events) \subseteq PairsIn(events')
    BY <1>2, StartDoes DEF Joins
  <2>2. f[1] # rec'
    BY <1>0, <2>1, Numbers, WindowAssumption DEF Recordings
  <2> QED BY <1>a, <1>b, <2>1, <2>2
<1>3. ASSUME Emit PROVE Kept(f)'
  <2>1. UNCHANGED <<rec, given, meta>> /\ excused \subseteq excused'
        /\ (StartComing' => StartComing)
        /\ PairsIn(events) \subseteq PairsIn(events')
    BY <1>3, EmitDoes, QueueRead DEF Joins
  <2> QED BY <1>a, <1>b, <2>1
<1>4. ASSUME Started PROVE Kept(f)'
  <2>1. /\ UNCHANGED <<rec, given>> /\ excused \subseteq excused' /\ StartComing
        /\ PairsIn(events) = PairsIn(events') \cup {<<events[1].rec, events[1].seg>>}
        /\ 1 \in DOMAIN events /\ events[1].kind = "started"
        /\ \A r \in Recordings : meta'[r] = meta[r] \/ r = events[1].rec
    BY <1>4, StartedDoes, QueueRead DEF Leaves
  <2>2. events[1].seg = 0 /\ events[1].rec = rec
    BY <2>1 DEF WindowInv, QueueInv, OfCurrent
  <2> QED BY <1>0, <1>a, <1>b, <2>1, <2>2
<1>5. ASSUME Update PROVE Kept(f)'
  <2>1. /\ UNCHANGED <<rec, meta>> /\ excused \subseteq excused'
        /\ (StartComing' => StartComing)
        /\ PairsIn(events) = PairsIn(events') \cup {<<events[1].rec, events[1].seg>>}
        /\ 1 \in DOMAIN events
        /\ \A r \in Recordings : /\ given[r] \subseteq given'[r]
                                 /\ r \in listening
                                        => <<events[1].rec, events[1].seg>> \in given'[r]
    BY <1>5, UpdateDoes, QueueRead DEF Leaves
  <2>2. f # <<events[1].rec, events[1].seg>> => Kept(f)'
    BY <1>0, <1>a, <1>b, <2>1
  <2>3. f = <<events[1].rec, events[1].seg>> /\ Fine' => Kept(f)'
    BY <1>5, <1>0, <1>b, <2>1, FineUpdate
  <2>4. f = <<events[1].rec, events[1].seg>> /\ ~Fine' => Kept(f)'
    <3>1. events[1].rec = rec \/ events[1].rec \in excused
      BY <2>1 DEF WindowInv, QueueInv, OfCurrent
    <3> QED BY <1>b, <2>1, <3>1 DEF Fine
  <2> QED BY <2>2, <2>3, <2>4
<1>6. ASSUME Stopped PROVE Kept(f)'
  <2>1. /\ UNCHANGED <<rec, given, meta, excused>> /\ (StartComing' => StartComing)
        /\ PairsIn(events) = PairsIn(events') \cup {<<events[1].rec, events[1].seg>>}
        /\ 1 \in DOMAIN events /\ events[1].kind # "final"
    BY <1>6, StoppedDoes, QueueRead DEF Leaves
  <2>2. events[1].seg = 0
    BY <2>1 DEF WindowInv, QueueInv, OfCurrent
  <2> QED BY <1>0, <1>a, <1>b, <2>1, <2>2
<1>7. ASSUME StopComplete PROVE Kept(f)'
  <2>1. /\ UNCHANGED <<rec, given, meta, excused>> /\ (StartComing' => StartComing)
        /\ PairsIn(events) = PairsIn(events') \cup {<<events[1].rec, events[1].seg>>}
        /\ 1 \in DOMAIN events /\ events[1].kind # "final"
    BY <1>7, StopCompleteDoes, QueueRead DEF Leaves
  <2>2. events[1].seg = 0
    BY <2>1 DEF WindowInv, QueueInv, OfCurrent
  <2> QED BY <1>0, <1>a, <1>b, <2>1, <2>2
<1>8. ASSUME NEW c \in Callers, StopBegin(c) PROVE Kept(f)'
  <2>1. UNCHANGED <<rec, given, meta, events>> /\ excused \subseteq excused'
    BY <1>8, StopBeginDoes
  <2> QED BY <1>a, <1>b, <2>1, QueueRead
<1>9. ASSUME NEW c \in Callers, StopEnd(c) PROVE Kept(f)'
  <2>1. UNCHANGED <<rec, excused, given, meta>> /\ (StartComing' => StartComing)
        /\ PairsIn(events) \subseteq PairsIn(events')
    BY <1>9, StopEndDoes, QueueRead DEF Joins
  <2> QED BY <1>a, <1>b, <2>1
<1>10. ASSUME StopAgain PROVE Kept(f)'
  <2>1. UNCHANGED <<rec, given, meta>> /\ excused \subseteq excused'
        /\ (StartComing' => StartComing)
        /\ PairsIn(events) \subseteq PairsIn(events')
    BY <1>10, StopAgainDoes, QueueRead DEF Joins
  <2> QED BY <1>a, <1>b, <2>1
<1>11. ASSUME StopLost PROVE Kept(f)'
  <2>1. UNCHANGED <<rec, given, meta>> /\ excused \subseteq excused'
        /\ (StartComing' => StartComing)
        /\ PairsIn(events) \subseteq PairsIn(events')
    BY <1>11, StopLostDoes, QueueRead DEF Joins
  <2> QED BY <1>a, <1>b, <2>1
<1>12. ASSUME NEW h \in Handlers, Mark(h) PROVE Kept(f)'
  <2>1. UNCHANGED <<rec, given, events>> /\ excused \subseteq excused'
        /\ \A r \in Recordings : meta[r] = "absent" => meta'[r] = "absent"
    BY <1>12, MarkDoes
  <2> QED BY <1>0, <1>a, <1>b, <2>1, QueueRead
<1>13. ASSUME ClearLater PROVE Kept(f)'
  <2>1. UNCHANGED <<rec, given, meta, events>> /\ excused \subseteq excused'
    BY <1>13, ClearLaterDoes
  <2> QED BY <1>a, <1>b, <2>1, QueueRead
<1>14. ASSUME Check PROVE Kept(f)'
  <2>1. UNCHANGED <<rec, given, meta, events>> /\ excused \subseteq excused'
    BY <1>14, CheckDoes
  <2> QED BY <1>a, <1>b, <2>1, QueueRead
<1>15. ASSUME RecoverMark PROVE Kept(f)'
  <2>1. UNCHANGED <<rec, given, events>> /\ excused \subseteq excused'
        /\ \A r \in Recordings : meta[r] = "absent" => meta'[r] = "absent"
    BY <1>15, RecoverMarkDoes
  <2> QED BY <1>0, <1>a, <1>b, <2>1, QueueRead
<1>16. ASSUME NEW r \in Recordings, Remove(r) PROVE Kept(f)'
  <2>1. UNCHANGED <<rec, events, excused>> /\ ~StartComing
        /\ \A x \in Recordings :
              meta'[x] = "absent" \/ (meta'[x] = meta[x] /\ given'[x] = given[x])
    BY <1>16, RemoveDoes
  <2> QED BY <1>0, <1>a, <1>b, <2>1, QueueRead
<1>17. CASE UNCHANGED <<rec, excused, events, given, meta>>
  BY <1>a, <1>b, <1>17, QueueRead
<1>90. ASSUME NEW w \in writes, FilingFails(w) PROVE Kept(f)'
  <2>1. UNCHANGED <<rec, meta, events, excused>>
        /\ \A r \in Recordings : given[r] \subseteq given'[r] \cup unfiled'
    BY <1>90, FilingFailsDoes
  <2> QED BY <1>0, <1>a, <1>b, <2>1, QueueRead
<1> QED
  BY <1>90, <1>1, <1>2, <1>3, <1>4, <1>5, <1>6, <1>7, <1>8, <1>9, <1>10, <1>11, <1>12, <1>13,
     <1>14, <1>15, <1>16, <1>17, Writers
  DEF Writes

(* Everything in the list, or about to replace it, is kept.                 *)
LEMMA ListKeptStep ==
    WindowInv /\ OtherStep => ListKept'
<1> SUFFICES ASSUME WindowInv, OtherStep PROVE ListKept'
  OBVIOUS
<1>1. ASSUME Reload PROVE ListKept'
  BY <1>1, ReloadDoes DEF ListKept
<1>2. ASSUME Crash PROVE ListKept'
  BY <1>2, CrashDoes DEF ListKept
<1> SUFFICES ASSUME ~Reload, ~Crash PROVE ListKept'
  BY <1>1, <1>2
<1>3. \A f \in shown \cup sync.take : Kept(f)'
  <2>1. ListKept /\ shown \subseteq Finals /\ sync \in Syncs /\ \A f \in shown : Begun(f)
    BY DEF WindowInv, KeptInv, WindowTypes, PastInv, BegunFinals
  <2>2. \A f \in sync.take : f[1] = rec
    BY DEF WindowInv, ShownInv, SyncIsOfOne
  <2>3. \A f \in shown \cup sync.take : f \in Finals /\ Begun(f)
    BY <2>1, <2>2, Numbers DEF Syncs, Begun
  <2> QED BY <2>1, <2>3, KeptStays DEF ListKept
<1>4. ASSUME SyncRead PROVE ListKept'
  <2>1. /\ UNCHANGED <<rec, excused, shown>>
        /\ sync'.take = IF manager THEN {<<rec, s>> : s \in 1..said} ELSE {}
    BY <1>4, SyncReadDoes
  <2>2. ASSUME manager, NEW s \in 1..said PROVE Kept(<<rec, s>>)'
    <3>1. rec \in Recordings /\ said \in 0..MaxSegments /\ rec \in Nat
      BY <2>2, RecBegun DEF WindowInv, WindowTypes
    <3>2. <<rec, s>> \in Finals /\ Begun(<<rec, s>>)
      BY <3>1, WindowAssumption DEF Finals, Begun
    <3>3. Kept(<<rec, s>>)
      <4>1. CASE Fine
        BY <2>2, <4>1 DEF WindowInv, KeptInv, SaidKept
      <4>2. CASE ~Fine
        BY <4>2 DEF Fine, Kept
      <4> QED BY <4>1, <4>2
    <3>4. \A f \in Finals : Begun(f) /\ Kept(f) => Kept(f)'
      BY KeptStays
    <3> QED BY <2>1, <3>2, <3>3, <3>4
  <2> QED BY <1>3, <2>1, <2>2 DEF ListKept
<1>5. ASSUME SyncSet PROVE ListKept'
  BY <1>3, <1>5, SyncSetDoes DEF ListKept
<1>6. ASSUME SyncState PROVE ListKept'
  <2>1. shown' = shown /\ (sync' = sync \/ sync'.take = {})
    BY <1>6, SyncStateDoes
  <2> QED BY <1>3, <2>1 DEF ListKept
<1>7. ASSUME StartReturned PROVE ListKept'
  <2>1. shown' = {} /\ (sync' = sync \/ sync'.take = {})
    BY <1>7, StartReturnedDoes
  <2> QED BY <1>3, <2>1 DEF ListKept
<1>8. ASSUME ClearLater PROVE ListKept'
  <2>1. shown' = {} /\ (sync' = sync \/ sync'.take = {})
    BY <1>8, ClearLaterDoes
  <2> QED BY <1>3, <2>1 DEF ListKept
<1>9. ASSUME Started PROVE ListKept'
  <2>1. shown' = shown /\ (sync' = sync \/ sync'.take = {})
    BY <1>9, StartedDoes
  <2> QED BY <1>3, <2>1 DEF ListKept
<1>10. ASSUME Update PROVE ListKept'
  <2> PICK g : g = <<events[1].rec, events[1].seg>>
    OBVIOUS
  <2>1. /\ shown' \subseteq shown \cup {g} /\ (sync' = sync \/ sync'.take = {})
        /\ 1 \in DOMAIN events /\ events[1].kind = "final" /\ g \in PairsIn(events)
    BY <1>10, UpdateDoes DEF Leaves
  <2>2. events[1].seg > 0 /\ events[1].rec <= rec
    BY <2>1 DEF WindowInv, QueueInv, OfCurrent, PastInv, BegunIds
  <2>3. events[1].rec \in Recordings /\ events[1].seg \in 1..MaxSegments
    BY <2>1, <2>2, EventShapes, WindowAssumption
  <2>4. g \in Finals /\ Begun(g) /\ Kept(g)
    BY <2>1, <2>2, <2>3, QueueRead DEF Finals, Begun, Kept
  <2>5. Kept(g)'
    BY <2>4, KeptStays
  <2> QED BY <1>3, <2>1, <2>5 DEF ListKept
<1>11. CASE UNCHANGED <<shown, sync>>
  BY <1>3, <1>11 DEF ListKept
<1> QED
  BY <1>4, <1>5, <1>6, <1>7, <1>8, <1>9, <1>10, <1>11, Writers
  DEF Writes

(* Everything the recording has emitted is kept.                            *)
LEMMA SaidKeptStep ==
    WindowInv /\ OtherStep => SaidKept'
<1> SUFFICES ASSUME WindowInv, OtherStep, Fine', manager',
                    NEW s \in 1..said'
             PROVE  Kept(<<rec, s>>)'
  BY DEF SaidKept
<1>0. rec \in Nat /\ said \in 0..MaxSegments /\ rec \in 0..MaxRecordings
  BY Numbers DEF WindowInv, WindowTypes
<1>1. ASSUME Reload PROVE FALSE
  <2>1. manager /\ on
    BY <1>1, ReloadDoes DEF WindowInv, StopInv, ManagerHeld
  <2> QED BY <1>1, <2>1, FineBreak, ReloadDoes
<1>2. ASSUME Crash PROVE FALSE
  BY <1>2, CrashDoes
<1>3. ASSUME Start PROVE FALSE
  BY <1>3, StartDoes
<1>4. ASSUME Emit PROVE Kept(<<rec, s>>)'
  <2>1. UNCHANGED <<rec, excused, manager>> /\ said' = said + 1
        /\ PairsIn(events') = PairsIn(events) \cup {<<rec, said + 1>>}
    BY <1>4, EmitDoes DEF Joins
  <2>2. CASE s = said + 1
    BY <2>1, <2>2, QueueRead DEF Kept
  <2>3. CASE s # said + 1
    <3>1. s \in 1..said /\ rec > 0 /\ Fine /\ manager
      BY <1>0, <2>1, <2>3, RecBegun DEF Fine, Recordings
    <3>2. Kept(<<rec, s>>)
      BY <3>1 DEF WindowInv, KeptInv, SaidKept
    <3>3. <<rec, s>> \in Finals /\ Begun(<<rec, s>>)
      BY <1>0, <3>1, WindowAssumption DEF Finals, Recordings, Begun
    <3>4. ~Reload /\ ~Crash
      BY <1>1, <1>2
    <3>5. \A f \in Finals : Begun(f) /\ Kept(f) => Kept(f)'
      BY <3>4, KeptStays
    <3> QED BY <2>1, <3>2, <3>3, <3>5
  <2> QED BY <2>2, <2>3
<1>5. CASE UNCHANGED <<rec, said>> /\ ~Reload /\ ~Crash
  <2>0. manager
    <3>1. ~Start
      BY <1>0, <1>5, StartDoes
    <3>2. \A c \in Callers : ~StopBegin(c)
      BY StopBeginDoes
    <3> QED BY <1>5, <3>1, <3>2, Writers DEF Writes
  <2>1. s \in 1..said /\ rec > 0 /\ manager
    BY <1>5, <2>0, RecBegun DEF Recordings
  <2>2. Kept(<<rec, s>>)
    <3>1. CASE Fine
      BY <2>1, <3>1 DEF WindowInv, KeptInv, SaidKept
    <3>2. CASE ~Fine
      BY <3>2 DEF Fine, Kept
    <3> QED BY <3>1, <3>2
  <2>3. <<rec, s>> \in Finals /\ Begun(<<rec, s>>)
    BY <1>0, <2>1, WindowAssumption DEF Finals, Recordings, Begun
  <2>4. \A f \in Finals : Begun(f) /\ Kept(f) => Kept(f)'
    BY <1>5, KeptStays
  <2> QED BY <1>5, <2>2, <2>3, <2>4
<1> QED
  BY <1>1, <1>2, <1>3, <1>4, <1>5, Writers DEF Writes

(* A handler marks the meeting of the current recording, or an excused one. *)
LEMMA MarksItsOwn ==
    ASSUME WindowInv, NEW h \in Handlers, Mark(h)
    PROVE  Marked(h) \in excused' \cup {0, rec}
<1>1. CASE handler[h].id # 0
  BY <1>1, MarkDoes DEF Marked, WindowInv, MidInv, HandlesCurrent, Busy
<1>2. CASE handler[h].id = 0
  BY <1>2, MarkDoes DEF Marked
<1> QED BY <1>1, <1>2

(* So that the mark touches no meeting but that of the recording.           *)
LEMMA MarksTheRest ==
    ASSUME WindowInv, NEW h \in Handlers, Mark(h)
    PROVE  /\ \A r \in Recordings \ excused' :
                  meta'[r] = meta[r] \/ (r = rec /\ Fine /\ meta'[r] = "saved")
           /\ Fine /\ rec \in Recordings => meta'[rec] # "unsaved"
<1>1. \A r \in Recordings : meta'[r] = meta[r] \/ (r = Marked(h) /\ meta'[r] = "saved")
  BY MarkDoes
<1>2. excused \subseteq excused' /\ Busy(h)
  BY MarkDoes DEF Busy
<1>3. Marked(h) \in excused' \cup {0, rec}
  BY MarksItsOwn
<1>4. Fine => Marked(h) = rec
  BY <1>2, FineBusy, Numbers, WindowAssumption DEF Marked, Recordings
<1>5. ASSUME Fine, rec \in Recordings PROVE meta'[rec] # "unsaved"
  <2>1. meta'[rec] = IF meta[rec] # "absent" THEN "saved" ELSE meta[rec]
    BY <1>4, <1>5, MarkDoes
  <2> QED BY <2>1
<1> QED BY <1>1, <1>2, <1>3, <1>5, WindowAssumption DEF Fine, Recordings

(* A mark follows its save: of the handler that took the whole copy, or of  *)
(* the recovery that read it.                                               *)
LEMMA GivenSavedStep ==
    WindowInv /\ OtherStep => GivenSaved'
<1> SUFFICES ASSUME WindowInv, OtherStep PROVE GivenSaved'
  OBVIOUS
<1>0. GivenSaved /\ late \subseteq late'
  BY HistoriesGrow DEF WindowInv, SavesInv
<1>1. ASSUME SyncSet PROVE GivenSaved'
  <2>1. UNCHANGED <<given, meta, saves>> /\ excused \subseteq excused'
    BY <1>1, SyncSetDoes
  <2> QED BY <1>0, <2>1, SavesDo DEF GivenSaved
<1>2. ASSUME Start PROVE GivenSaved'
  <2>1. UNCHANGED <<given, meta, saves>> /\ excused \subseteq excused'
    BY <1>2, StartDoes
  <2> QED BY <1>0, <2>1, SavesDo DEF GivenSaved
<1>3. ASSUME Started PROVE GivenSaved'
  <2>1. UNCHANGED <<given, saves>> /\ excused \subseteq excused'
        /\ \A r \in Recordings : meta'[r] \in {meta[r], "unsaved"}
    BY <1>3, StartedDoes
  <2> QED BY <1>0, <2>1, SavesDo DEF GivenSaved
<1>4. ASSUME Update PROVE GivenSaved'
  <2>1. UNCHANGED <<meta, saves>> /\ excused \subseteq excused' /\ 1 \in DOMAIN events
        /\ events[1].kind # "started"
        /\ \A r \in Recordings : given'[r] = given[r] \/ r \in listening
    BY <1>4, UpdateDoes DEF Leaves
  <2>2. \A r \in Recordings : r \in listening => r \in excused \/ meta[r] = "unsaved"
    BY <2>1, AtHead DEF Recordings, Fine
  <2> QED BY <1>0, <2>1, <2>2, SavesDo DEF GivenSaved
<1>5. ASSUME NEW c \in Callers, StopBegin(c) PROVE GivenSaved'
  <2>1. UNCHANGED <<given, meta, saves>> /\ excused \subseteq excused'
    BY <1>5, StopBeginDoes
  <2> QED BY <1>0, <2>1, SavesDo DEF GivenSaved
<1>6. ASSUME StopAgain PROVE GivenSaved'
  <2>1. UNCHANGED <<given, meta, saves>> /\ excused \subseteq excused'
    BY <1>6, StopAgainDoes
  <2> QED BY <1>0, <2>1, SavesDo DEF GivenSaved
<1>7. ASSUME NEW h \in Handlers, Save(h) PROVE GivenSaved'
  <2>1. UNCHANGED <<excused, given, meta>> /\ Saved \subseteq Saved'
    BY <1>7, SaveDoes
  <2> QED BY <1>0, <2>1 DEF GivenSaved
<1>8. ASSUME NEW h \in Handlers, Mark(h) PROVE GivenSaved'
  <2>1. UNCHANGED <<rec, given, saves>> /\ excused \subseteq excused'
        /\ handler[h].pc = "marking"
    BY <1>8, MarkDoes
  <2>2. Fine /\ rec \in Recordings => given[rec] \subseteq Saved
    BY <2>1 DEF WindowInv, CopyInv, CopyTaken, Recordings
  <2>3. Saved' = Saved
    BY <2>1, SavesDo
  <2> QED BY <1>8, <1>0, <2>1, <2>2, <2>3, MarksTheRest DEF GivenSaved
<1>9. ASSUME ClearLater PROVE GivenSaved'
  <2>1. UNCHANGED <<given, meta, saves>> /\ excused \subseteq excused'
    BY <1>9, ClearLaterDoes
  <2> QED BY <1>0, <2>1, SavesDo DEF GivenSaved
<1>10. ASSUME Check PROVE GivenSaved'
  <2>1. UNCHANGED <<given, meta, saves>> /\ excused \subseteq excused'
    BY <1>10, CheckDoes
  <2> QED BY <1>0, <2>1, SavesDo DEF GivenSaved
<1>11. ASSUME RecoverSave PROVE GivenSaved'
  <2>1. UNCHANGED <<excused, given, meta>> /\ Saved \subseteq Saved'
    BY <1>11, RecoverSaveDoes
  <2> QED BY <1>0, <2>1 DEF GivenSaved
<1>12. ASSUME RecoverMark PROVE GivenSaved'
  <2>1. UNCHANGED <<excused, given, saves>> /\ recovery.pc = "saved"
        /\ \A r \in Recordings : meta'[r] = meta[r] \/ r = recovery.id
    BY <1>12, RecoverMarkDoes
  <2>2. recovery.id \notin excused => given[recovery.id] \subseteq Saved \cup late
    BY <2>1 DEF WindowInv, RecoveryInv, RecoversUnsaved
  <2> QED BY <1>0, <2>1, <2>2, SavesDo DEF GivenSaved
<1>13. ASSUME NEW r \in Recordings, Remove(r) PROVE GivenSaved'
  <2>1. UNCHANGED <<excused, saves>>
        /\ GivesLess
        /\ \A x \in Recordings : meta'[x] \in {meta[x], "absent"}
    BY <1>13, RemoveDoes
  <2> QED BY <1>0, <2>1, SavesDo DEF GivenSaved, GivesLess
<1>14. ASSUME Reload PROVE GivenSaved'
  <2>1. UNCHANGED <<meta, saves>> /\ GivesLess /\ excused \subseteq excused'
    BY <1>14, ReloadDoes
  <2> QED BY <1>0, <2>1, SavesDo DEF GivenSaved, GivesLess
<1>15. ASSUME Crash PROVE GivenSaved'
  <2>1. UNCHANGED <<meta, saves>> /\ GivesLess /\ excused \subseteq excused'
    BY <1>15, CrashDoes
  <2> QED BY <1>0, <2>1, SavesDo DEF GivenSaved, GivesLess
<1>16. CASE UNCHANGED <<excused, meta, given, saves>>
  BY <1>16, <1>0, SavesDo DEF GivenSaved
<1>90. ASSUME NEW w \in writes, FilingFails(w) PROVE GivenSaved'
  <2>1. UNCHANGED <<excused, meta, saves>> /\ GivesLess
    BY <1>90, FilingFailsDoes
  <2> QED BY <1>0, <2>1, SavesDo DEF GivenSaved, GivesLess
<1> QED
  BY <1>90, <1>1, <1>2, <1>3, <1>4, <1>5, <1>6, <1>7, <1>8, <1>9, <1>10, <1>11, <1>12, <1>13,
     <1>14, <1>15, <1>16, Writers
  DEF Writes

(* A save finds nothing of its recording in the database.                   *)
LEMMA SavedOnceStep ==
    WindowInv /\ OtherStep => SavedOnce'
<1> SUFFICES ASSUME WindowInv, OtherStep PROVE SavedOnce'
  OBVIOUS
<1>0. SavedOnce
  BY DEF WindowInv, SavesInv
<1>1. ASSUME SyncSet PROVE SavedOnce'
  <2>1. UNCHANGED <<saves>> /\ excused \subseteq excused'
    BY <1>1, SyncSetDoes
  <2> QED BY <1>0, <2>1 DEF SavedOnce
<1>2. ASSUME Start PROVE SavedOnce'
  <2>1. UNCHANGED <<saves>> /\ excused \subseteq excused'
    BY <1>2, StartDoes
  <2> QED BY <1>0, <2>1 DEF SavedOnce
<1>3. ASSUME Started PROVE SavedOnce'
  <2>1. UNCHANGED <<saves>> /\ excused \subseteq excused'
    BY <1>3, StartedDoes
  <2> QED BY <1>0, <2>1 DEF SavedOnce
<1>4. ASSUME Update PROVE SavedOnce'
  <2>1. UNCHANGED <<saves>> /\ excused \subseteq excused'
    BY <1>4, UpdateDoes
  <2> QED BY <1>0, <2>1 DEF SavedOnce
<1>5. ASSUME NEW c \in Callers, StopBegin(c) PROVE SavedOnce'
  <2>1. UNCHANGED <<saves>> /\ excused \subseteq excused'
    BY <1>5, StopBeginDoes
  <2> QED BY <1>0, <2>1 DEF SavedOnce
<1>6. ASSUME StopAgain PROVE SavedOnce'
  <2>1. UNCHANGED <<saves>> /\ excused \subseteq excused'
    BY <1>6, StopAgainDoes
  <2> QED BY <1>0, <2>1 DEF SavedOnce
<1>7. ASSUME NEW h \in Handlers, Save(h) PROVE SavedOnce'
  <2>1. UNCHANGED excused /\ handler[h].pc = "saving" /\ Adds(saves, saves', handler[h].take)
    BY <1>7, SaveDoes
  <2>2. \A f \in handler[h].take : f[1] = rec \/ f[1] \in excused
    BY <2>1 DEF WindowInv, ShownInv, TakesAreOfOne, Busy
  <2>3. Fine => ~HasSaved(rec)
    BY <2>1 DEF WindowInv, SavesInv, SavedIsOver
  <2>4. \A i \in DOMAIN saves : \A f \in saves[i] \cap handler[h].take : f[1] \in excused
    BY <2>2, <2>3 DEF HasSaved, Saved, Fine
  <2> QED BY <1>0, <2>1, <2>4 DEF SavedOnce, Adds
<1>8. ASSUME NEW h \in Handlers, Mark(h) PROVE SavedOnce'
  <2>1. UNCHANGED <<saves>> /\ excused \subseteq excused'
    BY <1>8, MarkDoes
  <2> QED BY <1>0, <2>1 DEF SavedOnce
<1>9. ASSUME ClearLater PROVE SavedOnce'
  <2>1. UNCHANGED <<saves>> /\ excused \subseteq excused'
    BY <1>9, ClearLaterDoes
  <2> QED BY <1>0, <2>1 DEF SavedOnce
<1>10. ASSUME Check PROVE SavedOnce'
  <2>1. UNCHANGED <<saves>> /\ excused \subseteq excused'
    BY <1>10, CheckDoes
  <2> QED BY <1>0, <2>1 DEF SavedOnce
<1>11. ASSUME RecoverSave PROVE SavedOnce'
  <2>1. UNCHANGED excused /\ recovery.pc = "read" /\ Adds(saves, saves', recovery.take)
    BY <1>11, RecoverSaveDoes
  <2>2. \A f \in recovery.take : f[1] = recovery.id \/ f[1] \in excused
    BY <2>1 DEF WindowInv, RecoveryInv, TakenIsOfOne
  <2>3. recovery.id \notin excused => ~HasSaved(recovery.id)
    BY <2>1 DEF WindowInv, RecoveryInv, RecoversUnsaved
  <2>4. \A i \in DOMAIN saves : \A f \in saves[i] \cap recovery.take : f[1] \in excused
    BY <2>2, <2>3 DEF HasSaved, Saved
  <2> QED BY <1>0, <2>1, <2>4 DEF SavedOnce, Adds
<1>12. ASSUME Reload PROVE SavedOnce'
  <2>1. UNCHANGED <<saves>> /\ excused \subseteq excused'
    BY <1>12, ReloadDoes
  <2> QED BY <1>0, <2>1 DEF SavedOnce
<1>13. ASSUME Crash PROVE SavedOnce'
  <2>1. UNCHANGED <<saves>> /\ excused \subseteq excused'
    BY <1>13, CrashDoes
  <2> QED BY <1>0, <2>1 DEF SavedOnce
<1>14. CASE UNCHANGED <<excused, saves>>
  BY <1>14, <1>0, SavesDo DEF SavedOnce
<1> QED
  BY <1>1, <1>2, <1>3, <1>4, <1>5, <1>6, <1>7, <1>8, <1>9, <1>10, <1>11, <1>12, <1>13,
     <1>14, Writers
  DEF Writes

(* A save writes finals of one recording.                                   *)
LEMMA OneRecordingPerSaveStep ==
    WindowInv /\ OtherStep => OneRecordingPerSave'
<1> SUFFICES ASSUME WindowInv, OtherStep PROVE OneRecordingPerSave'
  OBVIOUS
<1>0. OneRecordingPerSave
  BY DEF WindowInv, SavesInv
<1>1. ASSUME SyncSet PROVE OneRecordingPerSave'
  <2>1. UNCHANGED <<saves>> /\ excused \subseteq excused'
    BY <1>1, SyncSetDoes
  <2> QED BY <1>0, <2>1 DEF OneRecordingPerSave
<1>2. ASSUME Start PROVE OneRecordingPerSave'
  <2>1. UNCHANGED <<saves>> /\ excused \subseteq excused'
    BY <1>2, StartDoes
  <2> QED BY <1>0, <2>1 DEF OneRecordingPerSave
<1>3. ASSUME Started PROVE OneRecordingPerSave'
  <2>1. UNCHANGED <<saves>> /\ excused \subseteq excused'
    BY <1>3, StartedDoes
  <2> QED BY <1>0, <2>1 DEF OneRecordingPerSave
<1>4. ASSUME Update PROVE OneRecordingPerSave'
  <2>1. UNCHANGED <<saves>> /\ excused \subseteq excused'
    BY <1>4, UpdateDoes
  <2> QED BY <1>0, <2>1 DEF OneRecordingPerSave
<1>5. ASSUME NEW c \in Callers, StopBegin(c) PROVE OneRecordingPerSave'
  <2>1. UNCHANGED <<saves>> /\ excused \subseteq excused'
    BY <1>5, StopBeginDoes
  <2> QED BY <1>0, <2>1 DEF OneRecordingPerSave
<1>6. ASSUME StopAgain PROVE OneRecordingPerSave'
  <2>1. UNCHANGED <<saves>> /\ excused \subseteq excused'
    BY <1>6, StopAgainDoes
  <2> QED BY <1>0, <2>1 DEF OneRecordingPerSave
<1>7. ASSUME NEW h \in Handlers, Save(h) PROVE OneRecordingPerSave'
  <2>1. UNCHANGED excused /\ handler[h].pc = "saving" /\ Adds(saves, saves', handler[h].take)
    BY <1>7, SaveDoes
  <2>2. \A f, g \in handler[h].take : Alike(f, g)
    BY <2>1 DEF WindowInv, ShownInv, TakesAreOfOne, Busy
  <2> QED BY <1>0, <2>1, <2>2 DEF OneRecordingPerSave, Adds, Alike
<1>8. ASSUME NEW h \in Handlers, Mark(h) PROVE OneRecordingPerSave'
  <2>1. UNCHANGED <<saves>> /\ excused \subseteq excused'
    BY <1>8, MarkDoes
  <2> QED BY <1>0, <2>1 DEF OneRecordingPerSave
<1>9. ASSUME ClearLater PROVE OneRecordingPerSave'
  <2>1. UNCHANGED <<saves>> /\ excused \subseteq excused'
    BY <1>9, ClearLaterDoes
  <2> QED BY <1>0, <2>1 DEF OneRecordingPerSave
<1>10. ASSUME Check PROVE OneRecordingPerSave'
  <2>1. UNCHANGED <<saves>> /\ excused \subseteq excused'
    BY <1>10, CheckDoes
  <2> QED BY <1>0, <2>1 DEF OneRecordingPerSave
<1>11. ASSUME RecoverSave PROVE OneRecordingPerSave'
  <2>1. UNCHANGED excused /\ recovery.pc = "read" /\ Adds(saves, saves', recovery.take)
    BY <1>11, RecoverSaveDoes
  <2>2. \A f \in recovery.take : f[1] = recovery.id \/ f[1] \in excused
    BY <2>1 DEF WindowInv, RecoveryInv, TakenIsOfOne
  <2> QED BY <1>0, <2>1, <2>2 DEF OneRecordingPerSave, Adds
<1>12. ASSUME Reload PROVE OneRecordingPerSave'
  <2>1. UNCHANGED <<saves>> /\ excused \subseteq excused'
    BY <1>12, ReloadDoes
  <2> QED BY <1>0, <2>1 DEF OneRecordingPerSave
<1>13. ASSUME Crash PROVE OneRecordingPerSave'
  <2>1. UNCHANGED <<saves>> /\ excused \subseteq excused'
    BY <1>13, CrashDoes
  <2> QED BY <1>0, <2>1 DEF OneRecordingPerSave
<1>14. CASE UNCHANGED <<excused, saves>>
  BY <1>14, <1>0, SavesDo DEF OneRecordingPerSave
<1> QED
  BY <1>1, <1>2, <1>3, <1>4, <1>5, <1>6, <1>7, <1>8, <1>9, <1>10, <1>11, <1>12, <1>13,
     <1>14, Writers
  DEF Writes

(* A meeting that is in the database and still unsaved is about to be       *)
(* marked.                                                                  *)
LEMMA SaverOfSavedStep ==
    WindowInv /\ OtherStep => SaverOfSaved'
<1> SUFFICES ASSUME WindowInv, OtherStep PROVE SaverOfSaved'
  OBVIOUS
<1>0. SaverOfSaved
  BY DEF WindowInv, SavesInv
<1>1. ASSUME SyncSet PROVE SaverOfSaved'
  <2>1. UNCHANGED <<rec, handler, meta, saves, recovery>> /\ excused \subseteq excused'
    BY <1>1, SyncSetDoes
  <2> QED BY <1>0, <2>1, SavesDo DEF SaverOfSaved, HasSaved
<1>2. ASSUME Start PROVE SaverOfSaved'
  <2>1. UNCHANGED <<handler, meta, saves, recovery>> /\ excused \subseteq excused'
        /\ (Saving => rec \in excused')
    BY <1>2, StartDoes
  <2>2. \A h \in Handlers : Busy(h) => Saving
    BY DEF Saving
  <2> QED BY <1>0, <2>1, <2>2, SavesDo DEF SaverOfSaved, HasSaved, Busy
<1>3. ASSUME Started PROVE SaverOfSaved'
  <2>1. /\ UNCHANGED <<rec, handler, saves, recovery>> /\ excused \subseteq excused'
        /\ StartComing /\ 1 \in DOMAIN events /\ events[1].kind = "started"
        /\ \A r \in Recordings : meta'[r] = meta[r] \/ r = events[1].rec
    BY <1>3, StartedDoes, QueueRead DEF Leaves
  <2>2. events[1].rec = rec /\ (Fine => on)
    BY <2>1 DEF WindowInv, QueueInv, OfCurrent, StopInv, StartsClean
  <2>3. Fine => ~HasSaved(rec)
    BY <2>2 DEF WindowInv, SavesInv, SavedIsOver
  <2>4. Saved' = Saved
    BY <2>1, SavesDo
  <2> QED BY <1>0, <2>1, <2>2, <2>3, <2>4 DEF SaverOfSaved, HasSaved, Fine
<1>4. ASSUME Update PROVE SaverOfSaved'
  <2>1. UNCHANGED <<rec, handler, meta, saves, recovery>> /\ excused \subseteq excused'
    BY <1>4, UpdateDoes
  <2> QED BY <1>0, <2>1, SavesDo DEF SaverOfSaved, HasSaved
<1>5. ASSUME StopComplete PROVE SaverOfSaved'
  <2>1. UNCHANGED <<rec, excused, meta, saves, recovery>>
        /\ Alarmed(handler, handler', "provider", mid)
    BY <1>5, StopCompleteDoes
  <2>2. \A g \in Handlers : handler[g].pc = "marking" => handler'[g].pc = "marking"
    BY <2>1 DEF Alarmed, Goes
  <2> QED BY <1>0, <2>1, <2>2, SavesDo DEF SaverOfSaved, HasSaved
<1>6. ASSUME NEW c \in Callers, StopBegin(c) PROVE SaverOfSaved'
  <2>1. UNCHANGED <<rec, handler, meta, saves, recovery>> /\ excused \subseteq excused'
    BY <1>6, StopBeginDoes
  <2> QED BY <1>0, <2>1, SavesDo DEF SaverOfSaved, HasSaved
<1>7. ASSUME NEW c \in Callers, StopEnd(c) PROVE SaverOfSaved'
  <2>1. UNCHANGED <<rec, excused, meta, saves, recovery>>
        /\ (handler' = handler \/ Alarmed(handler, handler', "home", clicked))
    BY <1>7, StopEndDoes
  <2>2. \A g \in Handlers : handler[g].pc = "marking" => handler'[g].pc = "marking"
    BY <2>1 DEF Alarmed, Goes
  <2> QED BY <1>0, <2>1, <2>2, SavesDo DEF SaverOfSaved, HasSaved
<1>8. ASSUME StopAgain PROVE SaverOfSaved'
  <2>1. UNCHANGED <<rec, handler, meta, saves, recovery>> /\ excused \subseteq excused'
    BY <1>8, StopAgainDoes
  <2> QED BY <1>0, <2>1, SavesDo DEF SaverOfSaved, HasSaved
<1>9. ASSUME NEW h \in Handlers, Waited(h) PROVE SaverOfSaved'
  <2>1. UNCHANGED <<rec, excused, meta, saves, recovery>> /\ handler[h].pc = "waiting"
    BY <1>9, WaitedDoes
  <2>2. \A g \in Handlers : handler[g].pc = "marking" => handler'[g].pc = "marking"
    BY <1>9, <2>1, WaitedDoes DEF Goes
  <2> QED BY <1>0, <2>1, <2>2, SavesDo DEF SaverOfSaved, HasSaved
<1>10. ASSUME NEW h \in Handlers, Save(h) PROVE SaverOfSaved'
  <2>1. UNCHANGED <<rec, excused, meta, recovery>> /\ handler[h].pc = "saving"
        /\ Goes(handler, handler', h, "marking", handler[h].id, handler[h].take)
        /\ Saved' = Saved \cup handler[h].take
    BY <1>10, SaveDoes
  <2>2. \A f \in handler[h].take : f[1] = rec \/ f[1] \in excused
    BY <2>1 DEF WindowInv, ShownInv, TakesAreOfOne, Busy
  <2>3. \A r \in Recordings \ excused : HasSaved(r)' => r = rec \/ HasSaved(r)
    BY <2>1, <2>2 DEF HasSaved
  <2>4. handler'[h].pc = "marking" /\ \A g \in Handlers : handler[g].pc = "marking"
            => handler'[g].pc = "marking"
    BY <2>1 DEF Goes
  <2> QED BY <1>0, <2>1, <2>3, <2>4 DEF SaverOfSaved
<1>11. ASSUME NEW h \in Handlers, SaveFails(h) PROVE SaverOfSaved'
  <2>1. UNCHANGED <<rec, excused, meta, saves, recovery>> /\ handler[h].pc = "saving"
    BY <1>11, SaveFailsDoes
  <2>2. \A g \in Handlers : handler[g].pc = "marking" => handler'[g].pc = "marking"
    BY <1>11, <2>1, SaveFailsDoes DEF Goes
  <2> QED BY <1>0, <2>1, <2>2, SavesDo DEF SaverOfSaved, HasSaved
<1>12. ASSUME NEW h \in Handlers, Mark(h) PROVE SaverOfSaved'
  <2>1. UNCHANGED <<rec, saves, recovery>> /\ excused \subseteq excused'
        /\ handler[h].pc = "marking"
    BY <1>12, MarkDoes
  <2>2. Saved' = Saved
    BY <2>1, SavesDo
  <2>3. \A r \in Recordings \ excused' : meta'[r] = "unsaved" => r # rec /\ meta[r] = "unsaved"
    BY <1>12, <2>1, MarksTheRest DEF Fine
  <2> QED BY <1>0, <2>1, <2>2, <2>3 DEF SaverOfSaved, HasSaved
<1>13. ASSUME ClearLater PROVE SaverOfSaved'
  <2>1. UNCHANGED <<rec, handler, meta, saves, recovery>> /\ excused \subseteq excused'
    BY <1>13, ClearLaterDoes
  <2> QED BY <1>0, <2>1, SavesDo DEF SaverOfSaved, HasSaved
<1>14. ASSUME Check PROVE SaverOfSaved'
  <2>1. UNCHANGED <<rec, handler, meta, saves, recovery>> /\ excused \subseteq excused'
    BY <1>14, CheckDoes
  <2> QED BY <1>0, <2>1, SavesDo DEF SaverOfSaved, HasSaved
<1>15. ASSUME NEW r \in Recordings, RecoverRead(r) PROVE SaverOfSaved'
  <2>1. UNCHANGED <<rec, excused, meta, saves, handler>> /\ recovery.pc = "idle"
    BY <1>15, RecoverReadDoes
  <2> QED BY <1>0, <2>1, SavesDo DEF SaverOfSaved, HasSaved
<1>16. ASSUME RecoverSave PROVE SaverOfSaved'
  <2>1. UNCHANGED <<rec, excused, meta, handler>> /\ recovery.pc = "read"
        /\ Saved' = Saved \cup recovery.take /\ recovery'.pc = "saved"
        /\ recovery'.id = recovery.id
    BY <1>16, RecoverSaveDoes
  <2>2. \A f \in recovery.take : f[1] = recovery.id \/ f[1] \in excused
    BY <2>1 DEF WindowInv, RecoveryInv, TakenIsOfOne
  <2>3. \A r \in Recordings \ excused : HasSaved(r)' => r = recovery.id \/ HasSaved(r)
    BY <2>1, <2>2 DEF HasSaved
  <2> QED BY <1>0, <2>1, <2>3 DEF SaverOfSaved
<1>17. ASSUME RecoverFails PROVE SaverOfSaved'
  <2>1. UNCHANGED <<rec, excused, meta, saves, handler>> /\ recovery.pc = "read"
    BY <1>17, RecoverFailsDoes
  <2> QED BY <1>0, <2>1, SavesDo DEF SaverOfSaved, HasSaved
<1>18. ASSUME RecoverMark PROVE SaverOfSaved'
  <2>1. UNCHANGED <<rec, excused, saves, handler>>
        /\ \A r \in Recordings :
               IF r = recovery.id THEN meta'[r] # "unsaved" ELSE meta'[r] = meta[r]
    BY <1>18, RecoverMarkDoes
  <2> QED BY <1>0, <2>1, SavesDo DEF SaverOfSaved, HasSaved
<1>19. ASSUME NEW r \in Recordings, Remove(r) PROVE SaverOfSaved'
  <2>1. UNCHANGED <<rec, excused, saves, handler, recovery>>
        /\ \A x \in Recordings : meta'[x] \in {meta[x], "absent"}
    BY <1>19, RemoveDoes
  <2> QED BY <1>0, <2>1, SavesDo DEF SaverOfSaved, HasSaved
<1>20. ASSUME Reload PROVE SaverOfSaved'
  <2>1. UNCHANGED <<rec, meta, saves>> /\ excused' = excused \cup (Interrupted \ {0})
    BY <1>20, ReloadDoes
  <2>2. ~AllRest => rec \in Interrupted
    BY DEF Interrupted, AllRest
  <2>3. recovery.pc = "saved" => recovery.id \in Interrupted
    BY DEF Interrupted
  <2> QED BY <1>0, <2>1, <2>2, <2>3, SavesDo, RecordingShapes
          DEF SaverOfSaved, HasSaved, AllRest, Busy
<1>21. ASSUME Crash PROVE SaverOfSaved'
  <2>1. UNCHANGED <<rec, meta, saves>> /\ excused' = excused \cup (Interrupted \ {0})
    BY <1>21, CrashDoes
  <2>2. ~AllRest => rec \in Interrupted
    BY DEF Interrupted, AllRest
  <2>3. recovery.pc = "saved" => recovery.id \in Interrupted
    BY DEF Interrupted
  <2> QED BY <1>0, <2>1, <2>2, <2>3, SavesDo, RecordingShapes
          DEF SaverOfSaved, HasSaved, AllRest, Busy
<1>22. CASE UNCHANGED <<rec, excused, handler, meta, saves, recovery>>
  BY <1>22, <1>0, SavesDo DEF SaverOfSaved, HasSaved
<1> QED
  BY <1>1, <1>2, <1>3, <1>4, <1>5, <1>6, <1>7, <1>8, <1>9, <1>10, <1>11, <1>12, <1>13,
     <1>14, <1>15, <1>16, <1>17, <1>18, <1>19, <1>20, <1>21, <1>22, Writers
  DEF Writes

(* The dialog offers no meeting that is saved.                              *)
LEMMA OfferedUnsavedStep ==
    WindowInv /\ OtherStep => OfferedUnsaved'
<1> SUFFICES ASSUME WindowInv, OtherStep PROVE OfferedUnsaved'
  OBVIOUS
<1>0. OfferedUnsaved
  BY DEF WindowInv, SavesInv
<1>1. ASSUME SyncSet PROVE OfferedUnsaved'
  <2>1. UNCHANGED <<meta, offered>> /\ excused \subseteq excused'
    BY <1>1, SyncSetDoes
  <2> QED BY <1>0, <2>1 DEF OfferedUnsaved
<1>2. ASSUME Start PROVE OfferedUnsaved'
  <2>1. UNCHANGED <<meta, offered>> /\ excused \subseteq excused'
    BY <1>2, StartDoes
  <2> QED BY <1>0, <2>1 DEF OfferedUnsaved
<1>3. ASSUME Started PROVE OfferedUnsaved'
  <2>1. UNCHANGED offered /\ excused \subseteq excused'
        /\ \A r \in Recordings : meta'[r] \in {meta[r], "unsaved"}
    BY <1>3, StartedDoes
  <2> QED BY <1>0, <2>1, Numbers DEF OfferedUnsaved
<1>4. ASSUME Update PROVE OfferedUnsaved'
  <2>1. UNCHANGED <<meta, offered>> /\ excused \subseteq excused'
    BY <1>4, UpdateDoes
  <2> QED BY <1>0, <2>1 DEF OfferedUnsaved
<1>5. ASSUME NEW c \in Callers, StopBegin(c) PROVE OfferedUnsaved'
  <2>1. UNCHANGED <<meta, offered>> /\ excused \subseteq excused'
    BY <1>5, StopBeginDoes
  <2> QED BY <1>0, <2>1 DEF OfferedUnsaved
<1>6. ASSUME StopAgain PROVE OfferedUnsaved'
  <2>1. UNCHANGED <<meta, offered>> /\ excused \subseteq excused'
    BY <1>6, StopAgainDoes
  <2> QED BY <1>0, <2>1 DEF OfferedUnsaved
<1>7. ASSUME NEW h \in Handlers, Mark(h) PROVE OfferedUnsaved'
  <2>1. UNCHANGED offered /\ excused \subseteq excused' /\ Busy(h)
    BY <1>7, MarkDoes DEF Busy
  <2>2. Fine => rec \notin offered
    BY <2>1, FineBusy
  <2> QED BY <1>7, <1>0, <2>1, <2>2, MarksTheRest, Numbers DEF OfferedUnsaved, Fine
<1>8. ASSUME ClearLater PROVE OfferedUnsaved'
  <2>1. UNCHANGED <<meta, offered>> /\ excused \subseteq excused'
    BY <1>8, ClearLaterDoes
  <2> QED BY <1>0, <2>1 DEF OfferedUnsaved
<1>9. ASSUME Check PROVE OfferedUnsaved'
  <2>1. UNCHANGED meta /\ offered' = {r \in Recordings : meta[r] = "unsaved"}
    BY <1>9, CheckDoes
  <2> QED BY <2>1 DEF OfferedUnsaved
<1>10. ASSUME RecoverMark PROVE OfferedUnsaved'
  <2>1. UNCHANGED excused /\ offered' = offered \ {recovery.id}
        /\ \A r \in Recordings : meta'[r] = meta[r] \/ r = recovery.id
    BY <1>10, RecoverMarkDoes
  <2> QED BY <1>0, <2>1, Numbers DEF OfferedUnsaved
<1>11. ASSUME NEW r \in Recordings, Remove(r) PROVE OfferedUnsaved'
  <2>1. UNCHANGED excused /\ offered' = offered \ {r}
        /\ \A x \in Recordings : meta'[x] = meta[x] \/ x = r
    BY <1>11, RemoveDoes
  <2> QED BY <1>0, <2>1, Numbers DEF OfferedUnsaved
<1>12. ASSUME Reload PROVE OfferedUnsaved'
  BY <1>12, ReloadDoes DEF OfferedUnsaved
<1>13. ASSUME Crash PROVE OfferedUnsaved'
  BY <1>13, CrashDoes DEF OfferedUnsaved
<1>14. CASE UNCHANGED <<excused, meta, offered>>
  BY <1>14, <1>0 DEF OfferedUnsaved
<1> QED
  BY <1>1, <1>2, <1>3, <1>4, <1>5, <1>6, <1>7, <1>8, <1>9, <1>10, <1>11, <1>12, <1>13,
     <1>14, Writers
  DEF Writes

(* Once something of a recording is in the database it is over.             *)
LEMMA SavedIsOverStep ==
    WindowInv /\ OtherStep => SavedIsOver'
<1> SUFFICES ASSUME WindowInv, OtherStep PROVE SavedIsOver'
  OBVIOUS
<1>0. SavedIsOver
  BY DEF WindowInv, SavesInv
<1>1. ASSUME SyncSet PROVE SavedIsOver'
  <2>1. UNCHANGED <<rec, on, events, handler, saves>> /\ (Fine' => Fine)
    BY <1>1, SyncSetDoes DEF Fine
  <2> QED BY <1>0, <2>1, SavesDo DEF SavedIsOver, HasSaved
<1>2. ASSUME Start PROVE SavedIsOver'
  <2>1. rec' > rec /\ UNCHANGED saves
    BY <1>2, StartDoes, FineStart
  <2>2. \A f \in Saved : f[1] <= rec /\ f[1] \in Nat
    BY ListShapes, RecordingShapes DEF WindowInv, PastInv, BegunFinals, Begun
  <2>3. ~HasSaved(rec')
    BY <2>1, <2>2, Numbers DEF HasSaved
  <2>4. Saved' = Saved
    BY <2>1, SavesDo
  <2> QED BY <2>3, <2>4 DEF SavedIsOver, HasSaved
<1>3. ASSUME Emit PROVE SavedIsOver'
  <2>1. UNCHANGED <<rec, excused, saves>>
    BY <1>3, EmitDoes
  <2>2. Fine => on
    BY <1>3, EmitDoes, DrainsInPeace DEF NoStop, Draining
  <2> QED BY <1>0, <2>1, <2>2, SavesDo DEF SavedIsOver, Fine, HasSaved
<1>4. ASSUME Started PROVE SavedIsOver'
  <2>1. UNCHANGED <<rec, saves>> /\ (Fine' => Fine) /\ events # <<>>
    BY <1>4, StartedDoes DEF Leaves, Fine
  <2> QED BY <1>0, <2>1, SavesDo DEF SavedIsOver, HasSaved
<1>5. ASSUME Update PROVE SavedIsOver'
  <2>1. UNCHANGED <<rec, saves>> /\ (Fine' => Fine) /\ events # <<>>
    BY <1>5, UpdateDoes DEF Leaves, Fine
  <2> QED BY <1>0, <2>1, SavesDo DEF SavedIsOver, HasSaved
<1>6. ASSUME Stopped PROVE SavedIsOver'
  <2>1. UNCHANGED <<rec, saves>> /\ (Fine' => Fine) /\ events # <<>>
    BY <1>6, StoppedDoes DEF Leaves, Fine
  <2> QED BY <1>0, <2>1, SavesDo DEF SavedIsOver, HasSaved
<1>7. ASSUME StopComplete PROVE SavedIsOver'
  <2>1. UNCHANGED <<rec, saves>> /\ (Fine' => Fine) /\ events # <<>>
    BY <1>7, StopCompleteDoes DEF Leaves, Fine
  <2> QED BY <1>0, <2>1, SavesDo DEF SavedIsOver, HasSaved
<1>8. ASSUME NEW c \in Callers, StopBegin(c) PROVE SavedIsOver'
  <2>1. UNCHANGED <<rec, on, events, handler, saves>> /\ (Fine' => Fine)
    BY <1>8, StopBeginDoes DEF Fine
  <2> QED BY <1>0, <2>1, SavesDo DEF SavedIsOver, HasSaved
<1>9. ASSUME NEW c \in Callers, StopEnd(c) PROVE SavedIsOver'
  <2>1. UNCHANGED <<rec, excused, saves>> /\ ~NoStop
    BY <1>9, StopEndDoes DEF NoStop, Draining
  <2>2. Fine => on
    BY <2>1, DrainsInPeace
  <2> QED BY <1>0, <2>1, <2>2, SavesDo DEF SavedIsOver, Fine, HasSaved
<1>10. ASSUME StopAgain PROVE SavedIsOver'
  BY <1>10, StopAgainDoes DEF SavedIsOver, Fine
<1>11. ASSUME StopLost PROVE SavedIsOver'
  <2>1. ~Fine'
    BY <1>11, StopLostDoes, DrainsInPeace
       DEF WindowInv, StopInv, OneStop, Draining, Callers, Fine
  <2> QED BY <2>1 DEF SavedIsOver
<1>12. ASSUME NEW h \in Handlers, Waited(h) PROVE SavedIsOver'
  <2>1. UNCHANGED <<rec, excused, saves>> /\ handler[h].pc = "waiting"
    BY <1>12, WaitedDoes
  <2> QED BY <1>0, <2>1, SavesDo DEF SavedIsOver, Fine, HasSaved
<1>13. ASSUME NEW h \in Handlers, Save(h) PROVE SavedIsOver'
  <2> SUFFICES ASSUME Fine' PROVE SavedIsOver'
    BY DEF SavedIsOver
  <2>1. UNCHANGED <<rec, excused, on, events>> /\ handler[h].pc = "saving"
        /\ Goes(handler, handler', h, "marking", handler[h].id, handler[h].take)
    BY <1>13, SaveDoes
  <2>2. Fine /\ Busy(h)
    BY <2>1 DEF Fine, Busy
  <2>3. ~on /\ events = <<>> /\ \A g \in Handlers : Busy(g) => g = h
    BY <2>1, <2>2, FineBusy
  <2>4. \A g \in Handlers : handler'[g].pc \in {"idle", "marking"}
    BY <2>1, <2>3 DEF Goes, Busy
  <2> QED BY <2>1, <2>3, <2>4 DEF SavedIsOver
<1>14. ASSUME NEW h \in Handlers, SaveFails(h) PROVE SavedIsOver'
  <2>1. UNCHANGED <<rec, on, events, saves>> /\ (Fine' => Fine)
        /\ Goes(handler, handler', h, "idle", 0, {})
    BY <1>14, SaveFailsDoes DEF Fine
  <2> QED BY <1>0, <2>1, SavesDo DEF SavedIsOver, HasSaved, Goes
<1>15. ASSUME NEW h \in Handlers, Mark(h) PROVE SavedIsOver'
  <2>1. UNCHANGED <<rec, on, events, saves>> /\ (Fine' => Fine)
        /\ Goes(handler, handler', h, "idle", 0, {})
    BY <1>15, MarkDoes DEF Fine
  <2> QED BY <1>0, <2>1, SavesDo DEF SavedIsOver, HasSaved, Goes
<1>16. ASSUME ClearLater PROVE SavedIsOver'
  <2>1. UNCHANGED <<rec, on, events, handler, saves>> /\ (Fine' => Fine)
    BY <1>16, ClearLaterDoes DEF Fine
  <2> QED BY <1>0, <2>1, SavesDo DEF SavedIsOver, HasSaved
<1>17. ASSUME Check PROVE SavedIsOver'
  <2>1. UNCHANGED <<rec, on, events, handler, saves>> /\ (Fine' => Fine)
    BY <1>17, CheckDoes DEF Fine
  <2> QED BY <1>0, <2>1, SavesDo DEF SavedIsOver, HasSaved
<1>18. ASSUME RecoverSave PROVE SavedIsOver'
  <2>1. UNCHANGED <<rec, excused, on, events, handler>> /\ recovery.pc = "read"
        /\ Saved' = Saved \cup recovery.take
    BY <1>18, RecoverSaveDoes
  <2>2. \A f \in recovery.take : f[1] = recovery.id \/ f[1] \in excused
    BY <2>1 DEF WindowInv, RecoveryInv, TakenIsOfOne
  <2>3. Fine => (HasSaved(rec)' => rec = recovery.id \/ HasSaved(rec))
    BY <2>1, <2>2 DEF HasSaved, Fine
  <2>4. Fine /\ rec = recovery.id => ~on /\ events = <<>> /\ AllRest
    BY <2>1 DEF WindowInv, RecoveryInv, OfferedIsOver
  <2> QED BY <1>0, <2>1, <2>3, <2>4 DEF SavedIsOver, Fine, AllRest, Busy
<1>19. ASSUME Reload PROVE SavedIsOver'
  <2> SUFFICES ASSUME Fine' PROVE SavedIsOver'
    BY DEF SavedIsOver
  <2>1. ~on' /\ events' = <<>> /\ AtRest(handler')
    BY <1>19, FineBreak, ReloadDoes
  <2> QED BY <2>1 DEF SavedIsOver, AtRest
<1>20. ASSUME Crash PROVE SavedIsOver'
  <2> SUFFICES ASSUME Fine' PROVE SavedIsOver'
    BY DEF SavedIsOver
  <2>1. ~on' /\ events' = <<>> /\ AtRest(handler')
    BY <1>20, FineBreak, CrashDoes
  <2> QED BY <2>1 DEF SavedIsOver, AtRest
<1>21. CASE UNCHANGED <<rec, excused, on, events, handler, saves>>
  BY <1>21, <1>0, SavesDo DEF SavedIsOver, Fine, HasSaved
<1> QED
  BY <1>1, <1>2, <1>3, <1>4, <1>5, <1>6, <1>7, <1>8, <1>9, <1>10, <1>11, <1>12, <1>13,
     <1>14, <1>15, <1>16, <1>17, <1>18, <1>19, <1>20, <1>21, Writers
  DEF Writes

(* The dialog offers no recording that is still under way.                  *)
LEMMA OfferedIsOverStep ==
    WindowInv /\ OtherStep => OfferedIsOver'
<1> SUFFICES ASSUME WindowInv, OtherStep PROVE OfferedIsOver'
  OBVIOUS
<1>0. OfferedIsOver
  BY DEF WindowInv, RecoveryInv
<1>1. ASSUME SyncSet PROVE OfferedIsOver'
  <2>1. UNCHANGED <<rec, on, events, handler, offered, recovery>> /\ (Fine' => Fine)
    BY <1>1, SyncSetDoes DEF Fine
  <2> QED BY <1>0, <2>1 DEF OfferedIsOver, AllRest, Busy
<1>2. ASSUME Start PROVE OfferedIsOver'
  <2>1. rec' > rec /\ UNCHANGED <<offered, recovery>> /\ rec \in Nat /\ rec' \in Nat
    BY <1>2, StartDoes, FineStart
  <2>2. recovery.id <= rec /\ \A r \in offered : r <= rec
    BY DEF WindowInv, PastInv, BegunIds
  <2>3. rec' \notin offered /\ recovery.id # rec'
    BY <2>1, <2>2
  <2> QED BY <2>1, <2>3 DEF OfferedIsOver
<1>3. ASSUME Emit PROVE OfferedIsOver'
  <2>1. UNCHANGED <<rec, excused, offered, recovery>>
    BY <1>3, EmitDoes
  <2>2. Fine => on
    BY <1>3, EmitDoes, DrainsInPeace DEF NoStop, Draining
  <2> QED BY <1>0, <2>1, <2>2 DEF OfferedIsOver, Fine
<1>4. ASSUME Started PROVE OfferedIsOver'
  <2>1. UNCHANGED <<rec, offered, recovery>> /\ (Fine' => Fine) /\ events # <<>>
    BY <1>4, StartedDoes DEF Leaves, Fine
  <2> QED BY <1>0, <2>1 DEF OfferedIsOver
<1>5. ASSUME Update PROVE OfferedIsOver'
  <2>1. UNCHANGED <<rec, offered, recovery>> /\ (Fine' => Fine) /\ events # <<>>
    BY <1>5, UpdateDoes DEF Leaves, Fine
  <2> QED BY <1>0, <2>1 DEF OfferedIsOver
<1>6. ASSUME Stopped PROVE OfferedIsOver'
  <2>1. UNCHANGED <<rec, offered, recovery>> /\ (Fine' => Fine) /\ events # <<>>
    BY <1>6, StoppedDoes DEF Leaves, Fine
  <2> QED BY <1>0, <2>1 DEF OfferedIsOver
<1>7. ASSUME StopComplete PROVE OfferedIsOver'
  <2>1. UNCHANGED <<rec, offered, recovery>> /\ (Fine' => Fine) /\ events # <<>>
    BY <1>7, StopCompleteDoes DEF Leaves, Fine
  <2> QED BY <1>0, <2>1 DEF OfferedIsOver
<1>8. ASSUME NEW c \in Callers, StopBegin(c) PROVE OfferedIsOver'
  <2>1. UNCHANGED <<rec, on, events, handler, offered, recovery>> /\ (Fine' => Fine)
    BY <1>8, StopBeginDoes DEF Fine
  <2> QED BY <1>0, <2>1 DEF OfferedIsOver, AllRest, Busy
<1>9. ASSUME NEW c \in Callers, StopEnd(c) PROVE OfferedIsOver'
  <2>1. UNCHANGED <<rec, excused, offered, recovery>> /\ ~NoStop
    BY <1>9, StopEndDoes DEF NoStop, Draining
  <2>2. Fine => on
    BY <2>1, DrainsInPeace
  <2> QED BY <1>0, <2>1, <2>2 DEF OfferedIsOver, Fine
<1>10. ASSUME StopAgain PROVE OfferedIsOver'
  BY <1>10, StopAgainDoes DEF OfferedIsOver, Fine
<1>11. ASSUME StopLost PROVE OfferedIsOver'
  <2>1. ~Fine'
    BY <1>11, StopLostDoes, DrainsInPeace
       DEF WindowInv, StopInv, OneStop, Draining, Callers, Fine
  <2> QED BY <2>1 DEF OfferedIsOver
<1>12. ASSUME NEW h \in Handlers, Waited(h) PROVE OfferedIsOver'
  <2>1. UNCHANGED <<rec, offered, recovery>> /\ (Fine' => Fine) /\ Busy(h)
    BY <1>12, WaitedDoes DEF Fine, Busy
  <2> QED BY <1>0, <2>1 DEF OfferedIsOver, AllRest
<1>13. ASSUME NEW h \in Handlers, Save(h) PROVE OfferedIsOver'
  <2>1. UNCHANGED <<rec, offered, recovery>> /\ (Fine' => Fine) /\ Busy(h)
    BY <1>13, SaveDoes DEF Fine, Busy
  <2> QED BY <1>0, <2>1 DEF OfferedIsOver, AllRest
<1>14. ASSUME NEW h \in Handlers, SaveFails(h) PROVE OfferedIsOver'
  <2>1. UNCHANGED <<rec, offered, recovery>> /\ (Fine' => Fine) /\ Busy(h)
    BY <1>14, SaveFailsDoes DEF Fine, Busy
  <2> QED BY <1>0, <2>1 DEF OfferedIsOver, AllRest
<1>15. ASSUME NEW h \in Handlers, Mark(h) PROVE OfferedIsOver'
  <2>1. UNCHANGED <<rec, offered, recovery>> /\ (Fine' => Fine) /\ Busy(h)
    BY <1>15, MarkDoes DEF Fine, Busy
  <2> QED BY <1>0, <2>1 DEF OfferedIsOver, AllRest
<1>16. ASSUME ClearLater PROVE OfferedIsOver'
  <2>1. UNCHANGED <<rec, on, events, handler, offered, recovery>> /\ (Fine' => Fine)
    BY <1>16, ClearLaterDoes DEF Fine
  <2> QED BY <1>0, <2>1 DEF OfferedIsOver, AllRest, Busy
<1>17. ASSUME Check PROVE OfferedIsOver'
  <2> SUFFICES ASSUME Fine' PROVE OfferedIsOver'
    BY DEF OfferedIsOver
  <2>1. UNCHANGED <<rec, on, events, handler, recovery>> /\ Fine /\ resting
        /\ (rec \in offered' => ~on /\ ~StopComing)
    BY <1>17, CheckDoes DEF Fine
  <2>2. ~on /\ ~StopComing => events = <<>>
    BY <2>1, OverIsHeard
  <2>3. AllRest
    BY <2>1 DEF WindowInv, StopInv, OneHandler, AllRest
  <2> QED BY <1>0, <2>1, <2>2, <2>3 DEF OfferedIsOver, AllRest, Busy
<1>18. ASSUME NEW r \in Recordings, RecoverRead(r) PROVE OfferedIsOver'
  <2>1. UNCHANGED <<rec, on, events, handler, offered, excused>> /\ r \in offered
        /\ recovery'.id = r
    BY <1>18, RecoverReadDoes
  <2> QED BY <1>0, <2>1 DEF OfferedIsOver, AllRest, Busy, Fine
<1>19. ASSUME RecoverSave PROVE OfferedIsOver'
  <2>1. UNCHANGED <<rec, on, events, handler, excused>> /\ offered' \subseteq offered
        /\ (recovery'.pc # "idle" => recovery.pc # "idle" /\ recovery'.id = recovery.id)
    BY <1>19, RecoverSaveDoes
  <2> QED BY <1>0, <2>1 DEF OfferedIsOver, AllRest, Busy, Fine
<1>20. ASSUME RecoverFails PROVE OfferedIsOver'
  <2>1. UNCHANGED <<rec, on, events, handler, excused>> /\ offered' \subseteq offered
        /\ (recovery'.pc # "idle" => recovery.pc # "idle" /\ recovery'.id = recovery.id)
    BY <1>20, RecoverFailsDoes
  <2> QED BY <1>0, <2>1 DEF OfferedIsOver, AllRest, Busy, Fine
<1>21. ASSUME RecoverMark PROVE OfferedIsOver'
  <2>1. UNCHANGED <<rec, on, events, handler, excused>> /\ offered' \subseteq offered
        /\ (recovery'.pc # "idle" => recovery.pc # "idle" /\ recovery'.id = recovery.id)
    BY <1>21, RecoverMarkDoes
  <2> QED BY <1>0, <2>1 DEF OfferedIsOver, AllRest, Busy, Fine
<1>22. ASSUME NEW r \in Recordings, Remove(r) PROVE OfferedIsOver'
  <2>1. UNCHANGED <<rec, on, events, handler, excused, recovery>> /\ offered' \subseteq offered
    BY <1>22, RemoveDoes
  <2> QED BY <1>0, <2>1 DEF OfferedIsOver, AllRest, Busy, Fine
<1>23. ASSUME Reload PROVE OfferedIsOver'
  BY <1>23, ReloadDoes DEF OfferedIsOver
<1>24. ASSUME Crash PROVE OfferedIsOver'
  BY <1>24, CrashDoes DEF OfferedIsOver
<1>25. CASE UNCHANGED <<rec, excused, on, events, handler, offered, recovery>>
  BY <1>25, <1>0 DEF OfferedIsOver, AllRest, Busy, Fine
<1> QED
  BY <1>1, <1>2, <1>3, <1>4, <1>5, <1>6, <1>7, <1>8, <1>9, <1>10, <1>11, <1>12, <1>13,
     <1>14, <1>15, <1>16, <1>17, <1>18, <1>19, <1>20, <1>21, <1>22, <1>23, <1>24, <1>25,
     Writers
  DEF Writes

(* A recovery takes finals of one recording.                                *)
LEMMA TakenIsOfOneStep ==
    WindowInv /\ OtherStep => TakenIsOfOne'
<1> SUFFICES ASSUME WindowInv, OtherStep PROVE TakenIsOfOne'
  OBVIOUS
<1>0. TakenIsOfOne
  BY DEF WindowInv, RecoveryInv
<1>1. ASSUME SyncSet PROVE TakenIsOfOne'
  <2>1. UNCHANGED <<recovery>> /\ excused \subseteq excused'
    BY <1>1, SyncSetDoes
  <2> QED BY <1>0, <2>1 DEF TakenIsOfOne
<1>2. ASSUME Start PROVE TakenIsOfOne'
  <2>1. UNCHANGED <<recovery>> /\ excused \subseteq excused'
    BY <1>2, StartDoes
  <2> QED BY <1>0, <2>1 DEF TakenIsOfOne
<1>3. ASSUME Started PROVE TakenIsOfOne'
  <2>1. UNCHANGED <<recovery>> /\ excused \subseteq excused'
    BY <1>3, StartedDoes
  <2> QED BY <1>0, <2>1 DEF TakenIsOfOne
<1>4. ASSUME Update PROVE TakenIsOfOne'
  <2>1. UNCHANGED <<recovery>> /\ excused \subseteq excused'
    BY <1>4, UpdateDoes
  <2> QED BY <1>0, <2>1 DEF TakenIsOfOne
<1>5. ASSUME NEW c \in Callers, StopBegin(c) PROVE TakenIsOfOne'
  <2>1. UNCHANGED <<recovery>> /\ excused \subseteq excused'
    BY <1>5, StopBeginDoes
  <2> QED BY <1>0, <2>1 DEF TakenIsOfOne
<1>6. ASSUME StopAgain PROVE TakenIsOfOne'
  <2>1. UNCHANGED <<recovery>> /\ excused \subseteq excused'
    BY <1>6, StopAgainDoes
  <2> QED BY <1>0, <2>1 DEF TakenIsOfOne
<1>7. ASSUME NEW h \in Handlers, Mark(h) PROVE TakenIsOfOne'
  <2>1. UNCHANGED <<recovery>> /\ excused \subseteq excused'
    BY <1>7, MarkDoes
  <2> QED BY <1>0, <2>1 DEF TakenIsOfOne
<1>8. ASSUME ClearLater PROVE TakenIsOfOne'
  <2>1. UNCHANGED <<recovery>> /\ excused \subseteq excused'
    BY <1>8, ClearLaterDoes
  <2> QED BY <1>0, <2>1 DEF TakenIsOfOne
<1>9. ASSUME Check PROVE TakenIsOfOne'
  <2>1. UNCHANGED <<recovery>> /\ excused \subseteq excused'
    BY <1>9, CheckDoes
  <2> QED BY <1>0, <2>1 DEF TakenIsOfOne
<1>10. ASSUME NEW r \in Recordings, RecoverRead(r) PROVE TakenIsOfOne'
  <2>1. UNCHANGED excused /\ recovery'.id = r /\ recovery'.take \subseteq given[r]
    BY <1>10, RecoverReadDoes
  <2> QED BY <2>1 DEF TakenIsOfOne, WindowInv, CopyInv, CopyIsOfOne
<1>11. ASSUME RecoverSave PROVE TakenIsOfOne'
  BY <1>11, <1>0, RecoverSaveDoes, Numbers DEF TakenIsOfOne
<1>12. ASSUME RecoverFails PROVE TakenIsOfOne'
  BY <1>12, <1>0, RecoverFailsDoes, Numbers DEF TakenIsOfOne
<1>13. ASSUME RecoverMark PROVE TakenIsOfOne'
  BY <1>13, <1>0, RecoverMarkDoes, Numbers DEF TakenIsOfOne
<1>14. ASSUME Reload PROVE TakenIsOfOne'
  BY <1>14, ReloadDoes DEF TakenIsOfOne
<1>15. ASSUME Crash PROVE TakenIsOfOne'
  BY <1>15, CrashDoes DEF TakenIsOfOne
<1>16. CASE UNCHANGED <<excused, recovery>>
  BY <1>16, <1>0 DEF TakenIsOfOne
<1> QED
  BY <1>1, <1>2, <1>3, <1>4, <1>5, <1>6, <1>7, <1>8, <1>9, <1>10, <1>11, <1>12, <1>13,
     <1>14, <1>15, <1>16, Writers
  DEF Writes

(* A recovery under way is one of a recording.                              *)
LEMMA RecoveredBegun ==
    WindowInv /\ recovery.pc # "idle" => recovery.id \in Recordings
<1> SUFFICES ASSUME WindowInv, recovery.pc # "idle" PROVE recovery.id \in Recordings
  OBVIOUS
<1>1. recovery.id > 0
  BY DEF WindowInv, PastInv, BegunIds
<1>2. recovery.id \in 0..MaxRecordings
  BY RecoveryShape
<1> QED BY <1>1, <1>2, WindowAssumption DEF Recordings

(* A recovery is of a meeting that nobody else saves, and of all that it    *)
(* has been given, but for what it found being filed.                       *)
LEMMA RecoversUnsavedStep ==
    WindowInv /\ OtherStep => RecoversUnsaved'
<1> SUFFICES ASSUME WindowInv, OtherStep PROVE RecoversUnsaved'
  OBVIOUS
<1>0. RecoversUnsaved /\ late \subseteq late'
  BY HistoriesGrow DEF WindowInv, RecoveryInv
<1>1. ASSUME SyncSet PROVE RecoversUnsaved'
  <2>1. UNCHANGED <<saves, given, meta, recovery>> /\ excused \subseteq excused'
    BY <1>1, SyncSetDoes
  <2> QED BY <1>0, <2>1, SavesDo DEF RecoversUnsaved, HasSaved
<1>2. ASSUME Start PROVE RecoversUnsaved'
  <2>1. UNCHANGED <<saves, given, meta, recovery>> /\ excused \subseteq excused'
    BY <1>2, StartDoes
  <2> QED BY <1>0, <2>1, SavesDo DEF RecoversUnsaved, HasSaved
<1>3. ASSUME Started PROVE RecoversUnsaved'
  <2>0. recovery.pc # "idle" => recovery.id \in Recordings
    BY RecoveredBegun
  <2>1. UNCHANGED <<given, saves, recovery>> /\ excused \subseteq excused'
        /\ \A r \in Recordings : meta'[r] \in {meta[r], "unsaved"}
    BY <1>3, StartedDoes
  <2> QED BY <1>0, <2>0, <2>1, SavesDo DEF RecoversUnsaved, HasSaved
<1>4. ASSUME Update PROVE RecoversUnsaved'
  <2>0. recovery.pc # "idle" => recovery.id \in Recordings
    BY RecoveredBegun
  <2>1. UNCHANGED <<rec, meta, saves, recovery>> /\ excused \subseteq excused'
        /\ 1 \in DOMAIN events /\ events[1].kind # "started" /\ events # <<>>
        /\ \A r \in Recordings : given'[r] = given[r] \/ r \in listening
    BY <1>4, UpdateDoes DEF Leaves
  <2>2. recovery.pc # "idle" /\ recovery.id = rec => ~Fine
    BY <2>1 DEF WindowInv, RecoveryInv, OfferedIsOver
  <2>3. recovery.pc # "idle" /\ recovery.id \in listening => recovery.id \in excused
    BY <2>0, <2>1, <2>2, AtHead, RecordingShapes DEF Fine
  <2>4. recovery.pc # "idle" /\ recovery.id \notin excused
            => given'[recovery.id] = given[recovery.id]
    BY <2>0, <2>1, <2>3
  <2> QED BY <1>0, <2>1, <2>4, SavesDo DEF RecoversUnsaved, HasSaved
<1>5. ASSUME NEW c \in Callers, StopBegin(c) PROVE RecoversUnsaved'
  <2>1. UNCHANGED <<saves, given, meta, recovery>> /\ excused \subseteq excused'
    BY <1>5, StopBeginDoes
  <2> QED BY <1>0, <2>1, SavesDo DEF RecoversUnsaved, HasSaved
<1>6. ASSUME StopAgain PROVE RecoversUnsaved'
  <2>1. UNCHANGED <<saves, given, meta, recovery>> /\ excused \subseteq excused'
    BY <1>6, StopAgainDoes
  <2> QED BY <1>0, <2>1, SavesDo DEF RecoversUnsaved, HasSaved
<1>7. ASSUME NEW h \in Handlers, Save(h) PROVE RecoversUnsaved'
  <2>0. recovery.pc # "idle" => recovery.id \in Recordings
    BY RecoveredBegun
  <2>1. UNCHANGED <<rec, excused, given, meta, recovery>> /\ handler[h].pc = "saving"
        /\ Saved' = Saved \cup handler[h].take
    BY <1>7, SaveDoes
  <2>2. \A f \in handler[h].take : f[1] = rec \/ f[1] \in excused
    BY <2>1 DEF WindowInv, ShownInv, TakesAreOfOne, Busy
  <2>3. recovery.pc # "idle" /\ recovery.id \notin excused => recovery.id # rec
    BY <2>1, FineBusy DEF Fine, Busy
  <2>4. recovery.pc # "idle" /\ recovery.id \notin excused
            => (HasSaved(recovery.id)' => HasSaved(recovery.id))
    BY <2>1, <2>2, <2>3 DEF HasSaved
  <2> QED BY <1>0, <2>1, <2>4 DEF RecoversUnsaved
<1>8. ASSUME NEW h \in Handlers, Mark(h) PROVE RecoversUnsaved'
  <2>0. recovery.pc # "idle" => recovery.id \in Recordings
    BY RecoveredBegun
  <2>1. UNCHANGED <<rec, given, saves, recovery>> /\ excused \subseteq excused' /\ Busy(h)
    BY <1>8, MarkDoes DEF Busy
  <2>2. recovery.pc # "idle" /\ recovery.id = rec => ~Fine
    BY <2>1, FineBusy
  <2>3. recovery.pc # "idle" /\ recovery.id \notin excused'
            => meta'[recovery.id] = meta[recovery.id]
    BY <1>8, <2>0, <2>2, MarksTheRest
  <2> QED BY <1>0, <2>1, <2>3, SavesDo DEF RecoversUnsaved, HasSaved
<1>9. ASSUME ClearLater PROVE RecoversUnsaved'
  <2>1. UNCHANGED <<saves, given, meta, recovery>> /\ excused \subseteq excused'
    BY <1>9, ClearLaterDoes
  <2> QED BY <1>0, <2>1, SavesDo DEF RecoversUnsaved, HasSaved
<1>10. ASSUME Check PROVE RecoversUnsaved'
  <2>1. UNCHANGED <<saves, given, meta, recovery>> /\ excused \subseteq excused'
    BY <1>10, CheckDoes
  <2> QED BY <1>0, <2>1, SavesDo DEF RecoversUnsaved, HasSaved
<1>11. ASSUME NEW r \in Recordings, RecoverRead(r) PROVE RecoversUnsaved'
  <2>1. UNCHANGED <<excused, saves, given, meta>> /\ recovery'.pc = "read" /\ recovery'.id = r
        /\ given[r] \subseteq recovery'.take \cup late' /\ r \in offered /\ recovery.pc = "idle"
    BY <1>11, RecoverReadDoes
  <2>2. r \notin excused => meta[r] = "unsaved"
    BY <2>1 DEF WindowInv, SavesInv, OfferedUnsaved
  <2>3. r \notin excused => ~HasSaved(r)
    <3>1. r \notin excused /\ r = rec => AllRest
      BY <2>1 DEF WindowInv, RecoveryInv, OfferedIsOver, Fine
    <3> QED BY <2>1, <2>2, <3>1 DEF WindowInv, SavesInv, SaverOfSaved, AllRest, Busy
  <2> QED BY <2>1, <2>2, <2>3, SavesDo DEF RecoversUnsaved, HasSaved
<1>12. ASSUME RecoverSave PROVE RecoversUnsaved'
  <2>1. UNCHANGED <<excused, given, meta>> /\ recovery.pc = "read" /\ recovery'.pc = "saved"
        /\ recovery'.id = recovery.id /\ Saved' = Saved \cup recovery.take
    BY <1>12, RecoverSaveDoes
  <2> QED BY <1>0, <2>1 DEF RecoversUnsaved
<1>13. ASSUME RecoverFails PROVE RecoversUnsaved'
  BY <1>13, RecoverFailsDoes DEF RecoversUnsaved
<1>14. ASSUME RecoverMark PROVE RecoversUnsaved'
  BY <1>14, RecoverMarkDoes DEF RecoversUnsaved
<1>15. ASSUME NEW r \in Recordings, Remove(r) PROVE RecoversUnsaved'
  BY <1>15, RemoveDoes DEF RecoversUnsaved
<1>16. ASSUME Reload PROVE RecoversUnsaved'
  BY <1>16, ReloadDoes DEF RecoversUnsaved
<1>17. ASSUME Crash PROVE RecoversUnsaved'
  BY <1>17, CrashDoes DEF RecoversUnsaved
<1>18. CASE UNCHANGED <<excused, meta, given, saves, recovery>>
  BY <1>18, <1>0, SavesDo DEF RecoversUnsaved, HasSaved
<1>90. ASSUME NEW w \in writes, FilingFails(w) PROVE RecoversUnsaved'
  <2>0. recovery.pc # "idle" => recovery.id \in Recordings
    BY RecoveredBegun
  <2>1. UNCHANGED <<excused, saves, meta, recovery>> /\ GivesLess
    BY <1>90, FilingFailsDoes
  <2> QED BY <1>0, <2>0, <2>1, SavesDo DEF RecoversUnsaved, HasSaved, GivesLess
<1> QED
  BY <1>90, <1>1, <1>2, <1>3, <1>4, <1>5, <1>6, <1>7, <1>8, <1>9, <1>10, <1>11, <1>12, <1>13,
     <1>14, <1>15, <1>16, <1>17, <1>18, Writers
  DEF Writes

(* A mark of a stop that fails.                                              *)
LEMMA MarkLostStep ==
    ASSUME WindowInv, NEW h \in Handlers, MarkLost(h)
    PROVE  WindowInv'
<1> USE DEF backend, page, disk, filing, Nothing
<1>0. WindowTypes /\ rec \in Recordings /\ rec \in 1..rec
  <2>1. ~AllRest
    BY DEF MarkLost, AllRest, Busy
  <2> QED BY <2>1, RecBegun DEF WindowInv, Recordings
<1>1. /\ excused' = excused \cup {rec} /\ stored' = 0 /\ breaks < MaxBreaks
      /\ breaks' = breaks + 1 /\ timers' = timers + 1 /\ resting' = TRUE
      /\ UNCHANGED <<rec, said, on, manager, isRecording, starting, stop, clicked, events,
             shown, sync, meta, copy, writes, unfiled, late, saves, offered, recovery>>
  BY DEF MarkLost
<1>15. /\ mid' \in {0, mid} /\ mid' \in listening' \cup pending'
       /\ listening' \subseteq listening /\ pending' \subseteq pending \cup {0}
  <2>1. CASE SwitchTo(Nothing)
    BY <2>1 DEF SwitchTo, WindowInv, MidInv, Listens
  <2>2. CASE UNCHANGED <<mid, listening, pending>>
    BY <2>2 DEF WindowInv, MidInv, Listens
  <2> QED BY <2>1, <2>2 DEF MarkLost
<1>2. /\ handler' \in [Handlers -> Handles] /\ handler'[h].pc = "idle"
      /\ handler'[h].id = 0 /\ handler'[h].take = {}
      /\ \A g \in Handlers : g = h \/ handler'[g] = handler[g]
  <2>1. Resting \in Handles /\ Resting.pc = "idle" /\ Resting.id = 0 /\ Resting.take = {}
    BY WindowAssumption DEF Resting, Handles
  <2>2. handler' = [handler EXCEPT ![h] = Resting] /\ handler \in [Handlers -> Handles]
    BY <1>0 DEF MarkLost, WindowTypes
  <2> QED BY <2>1, <2>2
<1>3. UNCHANGED <<given, Saved, Coming, StopComing, StartComing, NoStop>>
  BY <1>1 DEF given, Saved, Coming, StopComing, StartComing, NoStop, Draining
<1>4. ~Fine' /\ ~StartIsNext /\ handler[h].pc = "marking"
  BY <1>1 DEF Fine, StartIsNext, AllRest, Busy, MarkLost
<1>5. WindowTypes'
  <2>1. breaks' \in 0..MaxBreaks /\ timers' \in Nat /\ stored' \in 0..MaxRecordings
        /\ resting' \in BOOLEAN
    BY <1>0, <1>1, WindowAssumption DEF WindowTypes
  <2>2. excused' \subseteq 1..rec'
    BY <1>0, <1>1 DEF WindowTypes
  <2>3. mid' \in 0..MaxRecordings /\ listening' \subseteq 0..MaxRecordings
        /\ pending' \subseteq 0..MaxRecordings
    BY <1>0, <1>15, WindowAssumption DEF WindowTypes
  <2> QED BY <1>0, <1>1, <1>2, <2>1, <2>2, <2>3 DEF WindowTypes
<1>6. PastInv'
  <2>1. BegunWork'
    BY <1>0, <1>1 DEF BegunWork, Recordings
  <2>2. BegunIds'
    BY <1>1, <1>0 DEF BegunIds, WindowInv, PastInv, Recordings
  <2>3. BegunFinals'
    BY <1>1, <1>2, <1>3 DEF BegunFinals, Begun, WindowInv, PastInv
  <2>4. NoneLater'
    BY <1>1, <1>3 DEF NoneLater, WindowInv, PastInv
  <2> QED BY <2>1, <2>2, <2>3, <2>4 DEF PastInv
<1>7. QueueInv'
  <2>1. OfCurrent'
    BY <1>1 DEF OfCurrent, WindowInv, QueueInv
  <2> QED BY <2>1, <1>4 DEF QueueInv, InOrder, StopLast
<1>8. StopInv'
  <2>1. ManagerHeld' /\ ClickedOne'
    BY <1>1, <1>3 DEF ManagerHeld, ClickedOne, WindowInv, StopInv
  <2> QED BY <2>1, <1>4
          DEF StopInv, OneStop, RecordsUndisturbed, CallIsLast, StartsClean, OneHandler
<1>9. MidInv'
  <2>1. Listens'
    BY <1>15 DEF Listens
  <2>2. IdsCurrent'
    BY <1>1, <1>4, <1>15 DEF IdsCurrent, WindowInv, MidInv
  <2>3. HandlesCurrent'
    BY <1>1, <1>2 DEF HandlesCurrent, Busy, WindowInv, MidInv
  <2> QED BY <2>1, <2>2, <2>3, <1>4 DEF MidInv, OneListener, MeetingKnown, MeetingNew
<1>10. ShownInv'
  <2>1. ListIsOfOne' /\ SyncIsOfOne' /\ NothingYet'
    BY <1>1 DEF ListIsOfOne, SyncIsOfOne, NothingYet, WindowInv, ShownInv
  <2>2. TakesAreOfOne'
    BY <1>1, <1>2 DEF TakesAreOfOne, Alike, Busy, WindowInv, ShownInv
  <2> QED BY <2>1, <2>2 DEF ShownInv
<1>11. CopyInv'
  <2>1. CopyIsOfOne'
    BY <1>1, <1>3 DEF CopyIsOfOne, WindowInv, CopyInv
  <2> QED BY <2>1, <1>4 DEF CopyInv, CopyNew, CopyShown, CopyTaken
<1>12. KeptInv'
  <2>1. ListKept'
    BY <1>1, <1>3 DEF ListKept, Kept, WindowInv, KeptInv
  <2> QED BY <2>1, <1>4 DEF KeptInv, SaidKept
<1>13. SavesInv'
  <2>1. GivenSaved'
    BY <1>1, <1>3 DEF GivenSaved, WindowInv, SavesInv
  <2>2. SavedOnce' /\ OneRecordingPerSave'
    BY <1>1 DEF SavedOnce, OneRecordingPerSave, WindowInv, SavesInv
  <2>3. SaverOfSaved'
    BY <1>1, <1>3 DEF SaverOfSaved, HasSaved, WindowInv, SavesInv
  <2>4. OfferedUnsaved'
    BY <1>1 DEF OfferedUnsaved, WindowInv, SavesInv
  <2> QED BY <2>1, <2>2, <2>3, <2>4, <1>4 DEF SavesInv, SavedIsOver
<1>14. RecoveryInv'
  <2>1. TakenIsOfOne'
    BY <1>1 DEF TakenIsOfOne, WindowInv, RecoveryInv
  <2>2. RecoversUnsaved'
    BY <1>1, <1>3 DEF RecoversUnsaved, HasSaved, WindowInv, RecoveryInv
  <2> QED BY <2>1, <2>2, <1>4 DEF RecoveryInv, OfferedIsOver
<1> QED
  BY <1>5, <1>6, <1>7, <1>8, <1>9, <1>10, <1>11, <1>12, <1>13, <1>14 DEF WindowInv

(* A mark of a recovery that fails.                                          *)
LEMMA RecoverMarkLostStep ==
    ASSUME WindowInv, RecoverMarkLost
    PROVE  WindowInv'
<1> USE DEF backend, page, disk, filing, Nothing
<1>1. /\ recovery.pc = "saved" /\ excused' = excused \cup {recovery.id}
      /\ breaks < MaxBreaks /\ breaks' = breaks + 1
      /\ UNCHANGED <<rec, said, on, manager, isRecording, resting, starting, stop, clicked,
             events, mid, stored, listening, pending, shown, sync, handler, timers, meta,
             copy, writes, unfiled, late, saves>>
      /\ offered' \subseteq offered
  BY DEF RecoverMarkLost
<1>2. recovery' \in Recoveries /\ recovery'.pc = "idle" /\ recovery'.id = 0
      /\ recovery'.take = {}
  BY WindowAssumption DEF RecoverMarkLost, Resting, Recoveries
<1>3. /\ UNCHANGED <<given, Saved, Coming, StopComing, StartComing, NoStop, AllRest>>
      /\ Fine' => Fine
      /\ StartIsNext => StartIsNext'
  BY <1>1
  DEF given, Saved, Coming, StopComing, StartComing, NoStop, Draining, AllRest, Busy,
      Fine, StartIsNext
<1>4. WindowTypes'
  <2>1. WindowTypes /\ recovery.id \in 1..rec
    <3>1. recovery.id \in Recordings /\ rec \in Nat
      BY <1>1, RecoveredBegun, Numbers
    <3>2. recovery.id <= rec
      BY DEF WindowInv, PastInv, BegunIds
    <3> QED BY <3>1, <3>2, WindowAssumption DEF WindowInv, Recordings
  <2>2. breaks' \in 0..MaxBreaks
    BY <2>1, <1>1, WindowAssumption DEF WindowTypes
  <2>3. excused' \subseteq 1..rec'
    BY <2>1, <1>1 DEF WindowTypes
  <2> QED BY <2>1, <1>1, <1>2, <2>2, <2>3 DEF WindowTypes
<1>5. PastInv'
  <2>1. BegunWork' /\ BegunIds'
    BY <1>1, <1>2, <1>3, Numbers DEF BegunWork, BegunIds, WindowInv, PastInv
  <2>2. BegunFinals' /\ NoneLater'
    BY <1>1, <1>2, <1>3 DEF BegunFinals, Begun, NoneLater, WindowInv, PastInv
  <2> QED BY <2>1, <2>2 DEF PastInv
<1>6. QueueInv'
  BY <1>1, <1>3 DEF QueueInv, OfCurrent, InOrder, StopLast, WindowInv
<1>7. StopInv'
  <2>1. ManagerHeld' /\ ClickedOne' /\ OneStop' /\ RecordsUndisturbed'
    BY <1>1, <1>3
    DEF ManagerHeld, ClickedOne, OneStop, RecordsUndisturbed, Draining, WindowInv, StopInv
  <2>2. CallIsLast' /\ StartsClean' /\ OneHandler'
    BY <1>1, <1>3
    DEF CallIsLast, StartsClean, OneHandler, Busy, KindIn, WindowInv, StopInv
  <2> QED BY <2>1, <2>2 DEF StopInv
<1>8. MidInv'
  <2>1. Listens' /\ HandlesCurrent' /\ OneListener'
    BY <1>1, <1>3 DEF Listens, HandlesCurrent, OneListener, Busy, WindowInv, MidInv
  <2>2. IdsCurrent'
    BY <1>1, <1>3 DEF IdsCurrent, WindowInv, MidInv
  <2>3. MeetingKnown' /\ MeetingNew'
    BY <1>1, <1>3 DEF MeetingKnown, MeetingNew, WindowInv, MidInv
  <2> QED BY <2>1, <2>2, <2>3 DEF MidInv
<1>9. ShownInv'
  BY <1>1
  DEF ShownInv, ListIsOfOne, SyncIsOfOne, NothingYet, TakesAreOfOne, Alike, Busy, WindowInv
<1>10. CopyInv'
  BY <1>1, <1>3 DEF CopyInv, CopyIsOfOne, CopyNew, CopyShown, CopyTaken, WindowInv
<1>11. KeptInv'
  BY <1>1, <1>3 DEF KeptInv, ListKept, SaidKept, Kept, WindowInv
<1>12. SavesInv'
  <2>1. GivenSaved' /\ OfferedUnsaved' /\ SavedIsOver'
    BY <1>1, <1>3
    DEF GivenSaved, OfferedUnsaved, SavedIsOver, HasSaved, WindowInv, SavesInv
  <2>2. SavedOnce' /\ OneRecordingPerSave'
    BY <1>1 DEF SavedOnce, OneRecordingPerSave, WindowInv, SavesInv
  <2>3. SaverOfSaved'
    BY <1>1, <1>3 DEF SaverOfSaved, HasSaved, WindowInv, SavesInv
  <2> QED BY <2>1, <2>2, <2>3 DEF SavesInv
<1>13. RecoveryInv'
  <2>1. OfferedIsOver'
    BY <1>1, <1>2, <1>3 DEF OfferedIsOver, WindowInv, RecoveryInv
  <2> QED BY <2>1, <1>2 DEF RecoveryInv, TakenIsOfOne, RecoversUnsaved
<1> QED
  BY <1>4, <1>5, <1>6, <1>7, <1>8, <1>9, <1>10, <1>11, <1>12, <1>13 DEF WindowInv

(* At the start nothing is at work, shown, kept or saved.                    *)
LEMMA WindowInitInv ==
    WindowInit => WindowInv
<1> SUFFICES ASSUME WindowInit PROVE WindowInv
  OBVIOUS
<1> USE WindowAssumption DEF WindowInit, Resting, Silent, Nothing
<1>0. /\ saves = <<>> /\ Saved = {} /\ events = <<>> /\ Coming = {} /\ DOMAIN events = {}
      /\ DOMAIN saves = {}
      /\ ~StopComing /\ ~StartComing /\ AllRest /\ NoStop /\ ~KindIn(events, "stop-complete")
  BY QueueRead, NoneIn DEF Saved, AllRest, NoStop, Busy, Draining
<1>g. given = [r \in Recordings |-> {}]
  BY DEF given
<1>1. WindowTypes
  <2>1. stop \in [Callers -> StopPcs] /\ meta \in [Recordings -> {"absent", "unsaved", "saved"}]
        /\ copy \in [Recordings -> SUBSET Finals]
    BY DEF StopPcs
  <2>2. Resting \in Handles /\ Resting \in Recoveries /\ Silent \in Syncs
    BY DEF Handles, Recoveries, Syncs
  <2>3. handler \in [Handlers -> Handles] /\ recovery \in Recoveries /\ sync \in Syncs
    BY <2>2
  <2>4. events \in Seq(Events) /\ saves \in Seq(SUBSET Finals)
    OBVIOUS
  <2>5. /\ rec \in 0..MaxRecordings /\ said \in 0..MaxSegments /\ excused \subseteq 1..rec
        /\ clicked \in 0..MaxRecordings /\ mid \in 0..MaxRecordings
        /\ stored \in 0..MaxRecordings
        /\ timers \in Nat /\ breaks \in 0..MaxBreaks
    OBVIOUS
  <2>6. /\ listening \subseteq 0..MaxRecordings /\ pending \subseteq 0..MaxRecordings
        /\ shown \subseteq Finals /\ offered \subseteq Recordings
        /\ writes \subseteq Recordings \X Finals /\ unfiled \subseteq Finals
        /\ late \subseteq Finals
    OBVIOUS
  <2>7. /\ on \in BOOLEAN /\ manager \in BOOLEAN /\ isRecording \in BOOLEAN
        /\ resting \in BOOLEAN /\ starting \in BOOLEAN
    OBVIOUS
  <2> HIDE DEF WindowInit
  <2> QED BY <2>1, <2>3, <2>4, <2>5, <2>6, <2>7 DEF WindowTypes
<1>2. PastInv
  BY <1>0, <1>g DEF PastInv, BegunWork, BegunIds, BegunFinals, NoneLater, Busy, Begun, Recordings
<1>3. QueueInv
  BY <1>0 DEF QueueInv, OfCurrent, InOrder, StopLast, Fine
<1>4. StopInv
  BY <1>0
  DEF StopInv, ManagerHeld, ClickedOne, OneStop, RecordsUndisturbed, CallIsLast,
      StartsClean, OneHandler, Draining, Fine, Busy, Callers, Handlers
<1>5. MidInv
  BY <1>0
  DEF MidInv, Listens, IdsCurrent, HandlesCurrent, OneListener, MeetingKnown,
      MeetingNew, Busy, Draining, StartIsNext, Fine
<1>6. ShownInv
  BY <1>0 DEF ShownInv, ListIsOfOne, SyncIsOfOne, NothingYet, TakesAreOfOne, Alike, Busy
<1>7. CopyInv
  BY <1>0, <1>g DEF CopyInv, CopyIsOfOne, CopyNew, CopyShown, CopyTaken, Fine
<1>8. KeptInv
  BY <1>0 DEF KeptInv, ListKept, SaidKept, Kept, Fine, Recordings
<1>9. SavesInv
  BY <1>0
  DEF SavesInv, GivenSaved, SavedOnce, OneRecordingPerSave, SaverOfSaved,
      OfferedUnsaved, SavedIsOver, Fine, HasSaved
<1>10. RecoveryInv
  BY <1>0 DEF RecoveryInv, OfferedIsOver, TakenIsOfOne, RecoversUnsaved, Busy, Fine, HasSaved
<1> QED
  BY <1>1, <1>2, <1>3, <1>4, <1>5, <1>6, <1>7, <1>8, <1>9, <1>10 DEF WindowInv

(* Every other step keeps the invariant, one part at a time.                 *)
LEMMA WindowInvOtherStep ==
    WindowInv /\ OtherStep => WindowInv'
<1> SUFFICES ASSUME WindowInv, OtherStep PROVE WindowInv'
  OBVIOUS
<1>1. WindowTypes'
  BY WindowTypesStep
<1>2. PastInv'
  BY BegunWorkStep, BegunIdsStep, BegunFinalsStep, NoneLaterStep DEF PastInv
<1>3. QueueInv'
  BY OfCurrentStep, InOrderStep, StopLastStep DEF QueueInv
<1>4. StopInv'
  BY ManagerHeldStep, ClickedOneStep, OneStopStep, RecordsUndisturbedStep, CallIsLastStep,
     StartsCleanStep, OneHandlerStep
  DEF StopInv
<1>5. MidInv'
  BY ListensStep, IdsCurrentStep, HandlesCurrentStep, OneListenerStep, MeetingKnownStep,
     MeetingNewStep
  DEF MidInv
<1>6. ShownInv'
  BY ListIsOfOneStep, SyncIsOfOneStep, NothingYetStep, TakesAreOfOneStep DEF ShownInv
<1>7. CopyInv'
  BY CopyIsOfOneStep, CopyNewStep, CopyShownStep, CopyTakenStep DEF CopyInv
<1>8. KeptInv'
  BY ListKeptStep, SaidKeptStep DEF KeptInv
<1>9. SavesInv'
  BY GivenSavedStep, SavedOnceStep, OneRecordingPerSaveStep, SaverOfSavedStep,
     OfferedUnsavedStep, SavedIsOverStep
  DEF SavesInv
<1>10. RecoveryInv'
  BY OfferedIsOverStep, TakenIsOfOneStep, RecoversUnsavedStep DEF RecoveryInv
<1> QED
  BY <1>1, <1>2, <1>3, <1>4, <1>5, <1>6, <1>7, <1>8, <1>9, <1>10 DEF WindowInv

(* And so does every step.                                                   *)
LEMMA WindowInvStep ==
    WindowInv /\ [WindowNext]_windowVars => WindowInv'
BY WindowInvOtherStep, MarkLostStep, RecoverMarkLostStep DEF OtherStep, MarkUnmade

(* The invariant, from the start on.                                         *)
LEMMA WindowInvHolds ==
    WindowSpec => []WindowInv
<1>1. WindowInit => WindowInv
  BY WindowInitInv
<1>2. WindowInv /\ [WindowNext]_windowVars => WindowInv'
  BY WindowInvStep
<1> QED BY <1>1, <1>2, PTL DEF WindowSpec

(* The recordings, finals and meeting ids of the window are the program's,   *)
(* whatever the order of starts, stops, saves, reloads and crashes.          *)
THEOREM WindowTypeCorrect ==
    WindowSpec => []WindowTypeOK
<1>1. WindowInv => WindowTypeOK
  BY Numbers, WindowAssumption DEF WindowInv, WindowTypes, WindowTypeOK, Recordings
<1> QED BY <1>1, WindowInvHolds, PTL

(* The mark savedToSQLite is never set on a meeting that has finals which    *)
(* are not in the database, but for those that were still being filed when a *)
(* recovery read the meeting.                                                *)
THEOREM SavedMeansSavedHolds ==
    WindowSpec => []SavedMeansSaved
<1>1. WindowInv => SavedMeansSaved
  <2>1. \A r \in Recordings : copy[r] \subseteq given[r]
    BY DEF given
  <2> QED BY <2>1 DEF WindowInv, SavesInv, GivenSaved, SavedMeansSaved
<1> QED BY <1>1, WindowInvHolds, PTL

(* A final in the list is on its way again, is filed or being filed under    *)
(* its own meeting, or is one of those whose filing has failed.              *)
THEOREM CopyCompleteHolds ==
    WindowSpec => []CopyComplete
<1>1. WindowInv => CopyComplete
  <2>1. \A f \in Finals : f \in given[f[1]] => f \in copy[f[1]] \/ <<f[1], f>> \in writes
    BY RecordingShapes DEF given
  <2>2. WindowInv => \A f \in shown : f \in Finals /\ Kept(f)
    BY DEF WindowInv, WindowTypes, KeptInv, ListKept
  <2> QED BY <2>1, <2>2 DEF Kept, CopyComplete
<1> QED BY <1>1, WindowInvHolds, PTL

(* No two saves, of a stop or of a recovery, write the same final.           *)
THEOREM SavedOnceHolds ==
    WindowSpec => []SavedOnce
<1>1. WindowInv => SavedOnce
  BY DEF WindowInv, SavesInv
<1> QED BY <1>1, WindowInvHolds, PTL

(* A meeting of the database has the finals of one recording.                *)
THEOREM OneRecordingPerSaveHolds ==
    WindowSpec => []OneRecordingPerSave
<1>1. WindowInv => OneRecordingPerSave
  BY DEF WindowInv, SavesInv
<1> QED BY <1>1, WindowInvHolds, PTL
=============================================================================
