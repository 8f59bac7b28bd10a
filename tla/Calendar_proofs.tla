---------------------------- MODULE Calendar_proofs ----------------------------
(* Theorems about Calendar, for any number of callers, events and           *)
(* recordings: links resolve, a recording is linked to its own event, a     *)
(* quiet disconnect is final, and the flag belongs to the one sync.         *)
(* The second half is about AudioPipeline, for any number of chunks and     *)
(* frames: a speech becomes one final, a segment's previews grow and end    *)
(* with it, and the mixer keeps all audio but the tail of the longer lane.  *)
EXTENDS Calendar, AudioPipeline, FiniteSetTheorems, WellFoundedInduction, TLAPS

Links == [event : Events, of : Meetings \cup {None}]
Saves == [pc : {"idle", "validate", "link", "clear", "saved"}, seen : Match \cup {None}]
Tasks == [pc : Pcs, kind : {"sync", "create"}, got : SUBSET Events]

(* What the callers and the links are functions of.                         *)
TaskInv == task \in [Callers -> Tasks]
CacheInv == cache \subseteq Events
LinkInv == link \in [Meetings -> Links \cup {None}] /\ save \in [Meetings -> Saves]

(* A caller that creates an event is not in a sync yet.                     *)
KindInv == \A c \in Callers :
    task[c].kind = "create" => task[c].pc \in {"tokens", "refresh", "insert"}

(* A match that is found is its recording's.  What is pending is the last   *)
(* recording's once that has reset it, and what a meeting is being linked   *)
(* to its own, as long as neither was mixed with another's.                 *)
Matches == [pc : {"idle", "reset", "look", "set"}, match : Match \cup {None}]
Owned(x, r) == x \in Match /\ (r \notin mixed => x.of = r)
FoundInv == \A r \in Recordings :
    prepare[r].pc = "set" => prepare[r].match \in Match /\ prepare[r].match.of = r
PendingInv ==
    /\ pending # None => pending \in Match
    /\ recording.n \in Recordings /\ prepare[recording.n].pc # "reset" /\ pending # None
           => Owned(pending, recording.n)
SeenInv == \A m \in Meetings :
    save[m].pc \in {"validate", "link", "clear"} => Owned(save[m].seen, m)
LinkedInv == \A m \in Meetings \ mixed : link[m] # None => link[m].of \in {m, None}
MatchInv ==
    /\ recording.n \in Nat /\ prepare \in [Recordings -> Matches]
    /\ FoundInv /\ PendingInv /\ SeenInv /\ LinkedInv

(* After a disconnect that found nobody at work, no caller gets further     *)
(* than the tokens that are no longer there.                                *)
QuietInv ==
    gone = "quiet" =>
        /\ keychain = "none"
        /\ dropping # "status" => account = "disconnected"
        /\ \A c \in Callers :
               task[c].pc \in {"idle", "authorize", "flag", "account", "tokens", "clear"}

-----------------------------------------------------------------------------
(* What the updates of one caller do, once and for all.                     *)
LEMMA TaskMoves ==
    ASSUME TaskInv, NEW c \in Callers
    PROVE  /\ \A pc \in Pcs : Goto(c, pc) =>
                  /\ TaskInv'
                  /\ \A d \in Callers : /\ task'[d].pc = IF d = c THEN pc ELSE task[d].pc
                                        /\ task'[d].kind = task[d].kind
                                        /\ task'[d].got = task[d].got
           /\ Leaves(c) =>
                  /\ TaskInv'
                  /\ \A d \in Callers : task'[d] = IF d = c THEN Idle ELSE task[d]
           /\ Enter(c) =>
                  /\ TaskInv'
                  /\ task'[c].pc = "flag" /\ task'[c].kind = "sync"
                  /\ \A d \in Callers : d # c => task'[d] = task[d]
<1> USE DEF TaskInv, Tasks
<1>1. \A pc \in Pcs : Goto(c, pc) =>
          /\ TaskInv'
          /\ \A d \in Callers : /\ task'[d].pc = IF d = c THEN pc ELSE task[d].pc
                                /\ task'[d].kind = task[d].kind
                                /\ task'[d].got = task[d].got
  BY DEF Goto
<1>2. Idle \in Tasks /\ [Idle EXCEPT !.pc = "flag"] \in Tasks
  BY DEF Idle, Pcs
<1>3. Leaves(c) => TaskInv' /\ \A d \in Callers : task'[d] = IF d = c THEN Idle ELSE task[d]
  BY <1>2 DEF Leaves
<1>4. Enter(c) => /\ TaskInv'
                  /\ task'[c].pc = "flag" /\ task'[c].kind = "sync"
                  /\ \A d \in Callers : d # c => task'[d] = task[d]
  BY <1>2 DEF Enter, Idle
<1> QED BY <1>1, <1>3, <1>4

LEMMA IdlePc == Idle.pc = "idle" /\ Idle.kind = "sync"
BY DEF Idle

(* Every step keeps the callers in order.                                    *)
LEMMA TaskStep ==
    TaskInv /\ [Next]_vars => TaskInv'
<1> SUFFICES ASSUME TaskInv, [Next]_vars PROVE TaskInv'
  OBVIOUS
<1> USE TaskMoves DEF At, Pcs, tokens, links, sync, HasToken, TaskInv
<1>1. ASSUME NEW c \in Callers, SetFlag(c) PROVE TaskInv'
  BY <1>1 DEF SetFlag
<1>2. ASSUME NEW c \in Callers, ReadAccount(c) PROVE TaskInv'
  BY <1>2 DEF ReadAccount
<1>3. ASSUME NEW c \in Callers, TokenMissing(c) PROVE TaskInv'
  BY <1>3 DEF TokenMissing
<1>4. ASSUME NEW c \in Callers, TokenRead(c) PROVE TaskInv'
  BY <1>4 DEF TokenRead
<1>5. ASSUME NEW c \in Callers, Refreshed(c) PROVE TaskInv'
  BY <1>5 DEF Refreshed
<1>6. ASSUME NEW c \in Callers, RefreshFails(c) PROVE TaskInv'
  BY <1>6 DEF RefreshFails, Failed
<1>7. ASSUME NEW c \in Callers, Fetched(c) PROVE TaskInv'
  BY ZenonT(30), <1>7 DEF Fetched, Tasks
<1>8. ASSUME NEW c \in Callers, FetchFails(c) PROVE TaskInv'
  BY <1>8 DEF FetchFails, Failed
<1>9. ASSUME NEW c \in Callers, Store(c) PROVE TaskInv'
  BY <1>9 DEF Store
<1>10. ASSUME NEW c \in Callers, MarkSynced(c) PROVE TaskInv'
  BY <1>10 DEF MarkSynced
<1>11. ASSUME NEW c \in Callers, ClearFlag(c) PROVE TaskInv'
  BY <1>11 DEF ClearFlag
<1>12. ASSUME NEW c \in Callers, SyncNow(c) PROVE TaskInv'
  BY <1>12 DEF SyncNow
<1>13. ASSUME NEW c \in Callers, Tick(c) PROVE TaskInv'
  BY <1>13 DEF Tick
<1>14. ASSUME NEW c \in Callers, Connect(c) PROVE TaskInv'
  BY <1>14 DEF Connect
<1>15. ASSUME NEW c \in Callers, Refused(c) PROVE TaskInv'
  BY <1>15 DEF Refused
<1>16. ASSUME NEW c \in Callers, Authorized(c) PROVE TaskInv'
  BY <1>16 DEF Authorized
<1>17. ASSUME NEW c \in Callers, Connected(c) PROVE TaskInv'
  BY <1>17 DEF Connected
<1>18. ASSUME NEW c \in Callers, CreateEvent(c) PROVE TaskInv'
  BY ZenonT(30), <1>18 DEF CreateEvent, Tasks
<1>19. ASSUME NEW c \in Callers, Inserted(c) PROVE TaskInv'
  BY <1>19 DEF Inserted
<1>20. ASSUME NEW c \in Callers, InsertFails(c) PROVE TaskInv'
  BY <1>20 DEF InsertFails
<1>21. CASE Forget
  BY <1>21 DEF Forget
<1>22. CASE MarkDisconnected
  BY <1>22 DEF MarkDisconnected
<1>23. CASE DropPending
  BY <1>23 DEF DropPending
<1>24. CASE StartRecording
  BY <1>24 DEF StartRecording
<1>25. ASSUME NEW r \in Recordings, LookUp(r) PROVE TaskInv'
  BY <1>25 DEF LookUp
<1>26. ASSUME NEW r \in Recordings, SetPending(r) PROVE TaskInv'
  BY <1>26 DEF SetPending
<1>37. ASSUME NEW r \in Recordings, ResetPending(r) PROVE TaskInv'
  BY <1>37 DEF ResetPending
<1>27. CASE StopRecording
  BY <1>27 DEF StopRecording
<1>28. ASSUME NEW m \in Meetings, SaveMeeting(m) PROVE TaskInv'
  BY <1>28 DEF SaveMeeting
<1>29. ASSUME NEW m \in Meetings, DropStale(m) PROVE TaskInv'
  BY <1>29 DEF DropStale
<1>30. ASSUME NEW m \in Meetings, Validate(m) PROVE TaskInv'
  BY <1>30 DEF Validate
<1>31. ASSUME NEW m \in Meetings, Link(m) PROVE TaskInv'
  BY <1>31 DEF Link
<1>38. ASSUME NEW m \in Meetings, LinkFails(m) PROVE TaskInv'
  BY <1>38 DEF LinkFails
<1>32. ASSUME NEW m \in Meetings, ClearPending(m) PROVE TaskInv'
  BY <1>32 DEF ClearPending
<1>33. ASSUME NEW m \in Meetings, ClearLink(m) PROVE TaskInv'
  BY <1>33 DEF ClearLink
<1>34. ASSUME NEW m \in Meetings, NEW e \in Events, SetLink(m, e) PROVE TaskInv'
  BY <1>34 DEF SetLink
<1>35. CASE Expire
  BY <1>35 DEF Expire
<1>36. CASE UNCHANGED vars
  BY <1>36 DEF vars
<1> QED
  BY <1>1, <1>2, <1>3, <1>4, <1>5, <1>6, <1>7, <1>8, <1>9, <1>10, <1>11, <1>12, <1>13,
     <1>14, <1>15, <1>16, <1>17, <1>18, <1>19, <1>20, <1>21, <1>22, <1>23, <1>24, <1>25,
     <1>26, <1>27, <1>28, <1>29, <1>30, <1>31, <1>32, <1>33, <1>34, <1>35, <1>36,
     <1>37, <1>38
  DEF Next, Step

(* Every step keeps a quiet disconnect: the tokens come back only by way of  *)
(* the user, and the account only by way of tokens.                         *)
LEMMA QuietStep ==
    TaskInv /\ QuietInv /\ [Next]_vars => QuietInv'
<1> SUFFICES ASSUME TaskInv, QuietInv, [Next]_vars PROVE QuietInv'
  OBVIOUS
<1> USE TaskMoves, IdlePc DEF TaskInv, QuietInv, At, Pcs, tokens, links, sync, HasToken
<1>1. ASSUME NEW c \in Callers, SetFlag(c) PROVE QuietInv'
  BY <1>1 DEF SetFlag
<1>2. ASSUME NEW c \in Callers, ReadAccount(c) PROVE QuietInv'
  BY <1>2 DEF ReadAccount
<1>3. ASSUME NEW c \in Callers, TokenMissing(c) PROVE QuietInv'
  BY <1>3 DEF TokenMissing
<1>4. ASSUME NEW c \in Callers, TokenRead(c) PROVE QuietInv'
  BY <1>4 DEF TokenRead
<1>5. ASSUME NEW c \in Callers, Refreshed(c) PROVE QuietInv'
  BY <1>5 DEF Refreshed
<1>6. ASSUME NEW c \in Callers, RefreshFails(c) PROVE QuietInv'
  BY <1>6 DEF RefreshFails, Failed
<1>7. ASSUME NEW c \in Callers, Fetched(c) PROVE QuietInv'
  BY <1>7 DEF Fetched, Tasks
<1>8. ASSUME NEW c \in Callers, FetchFails(c) PROVE QuietInv'
  BY <1>8 DEF FetchFails, Failed
<1>9. ASSUME NEW c \in Callers, Store(c) PROVE QuietInv'
  BY <1>9 DEF Store
<1>10. ASSUME NEW c \in Callers, MarkSynced(c) PROVE QuietInv'
  BY <1>10 DEF MarkSynced
<1>11. ASSUME NEW c \in Callers, ClearFlag(c) PROVE QuietInv'
  BY <1>11 DEF ClearFlag
<1>12. ASSUME NEW c \in Callers, SyncNow(c) PROVE QuietInv'
  BY <1>12 DEF SyncNow
<1>13. ASSUME NEW c \in Callers, Tick(c) PROVE QuietInv'
  BY <1>13 DEF Tick
<1>14. ASSUME NEW c \in Callers, Connect(c) PROVE QuietInv'
  BY <1>14 DEF Connect
<1>15. ASSUME NEW c \in Callers, Refused(c) PROVE QuietInv'
  BY <1>15 DEF Refused
<1>16. ASSUME NEW c \in Callers, Authorized(c) PROVE QuietInv'
  BY <1>16 DEF Authorized
<1>17. ASSUME NEW c \in Callers, Connected(c) PROVE QuietInv'
  BY <1>17 DEF Connected
<1>18. ASSUME NEW c \in Callers, CreateEvent(c) PROVE QuietInv'
  BY SMTT(30), <1>18 DEF CreateEvent, Tasks
<1>19. ASSUME NEW c \in Callers, Inserted(c) PROVE QuietInv'
  BY <1>19 DEF Inserted
<1>20. ASSUME NEW c \in Callers, InsertFails(c) PROVE QuietInv'
  BY <1>20 DEF InsertFails
<1>21. CASE Forget
  BY <1>21 DEF Forget, InService
<1>22. CASE MarkDisconnected
  BY <1>22 DEF MarkDisconnected
<1>23. CASE DropPending
  BY <1>23 DEF DropPending
<1>24. CASE StartRecording
  BY <1>24 DEF StartRecording
<1>25. ASSUME NEW r \in Recordings, LookUp(r) PROVE QuietInv'
  BY <1>25 DEF LookUp
<1>26. ASSUME NEW r \in Recordings, SetPending(r) PROVE QuietInv'
  BY <1>26 DEF SetPending
<1>37. ASSUME NEW r \in Recordings, ResetPending(r) PROVE QuietInv'
  BY <1>37 DEF ResetPending
<1>27. CASE StopRecording
  BY <1>27 DEF StopRecording
<1>28. ASSUME NEW m \in Meetings, SaveMeeting(m) PROVE QuietInv'
  BY <1>28 DEF SaveMeeting
<1>29. ASSUME NEW m \in Meetings, DropStale(m) PROVE QuietInv'
  BY <1>29 DEF DropStale
<1>30. ASSUME NEW m \in Meetings, Validate(m) PROVE QuietInv'
  BY <1>30 DEF Validate
<1>31. ASSUME NEW m \in Meetings, Link(m) PROVE QuietInv'
  BY <1>31 DEF Link
<1>38. ASSUME NEW m \in Meetings, LinkFails(m) PROVE QuietInv'
  BY <1>38 DEF LinkFails
<1>32. ASSUME NEW m \in Meetings, ClearPending(m) PROVE QuietInv'
  BY <1>32 DEF ClearPending
<1>33. ASSUME NEW m \in Meetings, ClearLink(m) PROVE QuietInv'
  BY <1>33 DEF ClearLink
<1>34. ASSUME NEW m \in Meetings, NEW e \in Events, SetLink(m, e) PROVE QuietInv'
  BY <1>34 DEF SetLink
<1>35. CASE Expire
  BY <1>35 DEF Expire
<1>36. CASE UNCHANGED vars
  BY <1>36 DEF vars
<1> QED
  BY <1>1, <1>2, <1>3, <1>4, <1>5, <1>6, <1>7, <1>8, <1>9, <1>10, <1>11, <1>12, <1>13,
     <1>14, <1>15, <1>16, <1>17, <1>18, <1>19, <1>20, <1>21, <1>22, <1>23, <1>24, <1>25,
     <1>26, <1>27, <1>28, <1>29, <1>30, <1>31, <1>32, <1>33, <1>34, <1>35, <1>36,
     <1>37, <1>38
  DEF Next, Step

(* Every step keeps the kinds: whoever enters a sync enters it as one.        *)
LEMMA KindStep ==
    TaskInv /\ KindInv /\ [Next]_vars => KindInv'
<1> SUFFICES ASSUME TaskInv, KindInv, [Next]_vars PROVE KindInv'
  OBVIOUS
<1> USE TaskMoves, IdlePc DEF TaskInv, KindInv, At, Pcs, tokens, links, sync, HasToken
<1>1. ASSUME NEW c \in Callers, SetFlag(c) PROVE KindInv'
  BY <1>1 DEF SetFlag
<1>2. ASSUME NEW c \in Callers, ReadAccount(c) PROVE KindInv'
  BY <1>2 DEF ReadAccount
<1>3. ASSUME NEW c \in Callers, TokenMissing(c) PROVE KindInv'
  BY <1>3 DEF TokenMissing
<1>4. ASSUME NEW c \in Callers, TokenRead(c) PROVE KindInv'
  BY <1>4 DEF TokenRead
<1>5. ASSUME NEW c \in Callers, Refreshed(c) PROVE KindInv'
  BY <1>5 DEF Refreshed
<1>6. ASSUME NEW c \in Callers, RefreshFails(c) PROVE KindInv'
  BY <1>6 DEF RefreshFails, Failed
<1>7. ASSUME NEW c \in Callers, Fetched(c) PROVE KindInv'
  BY SMTT(30), <1>7 DEF Fetched, Tasks
<1>8. ASSUME NEW c \in Callers, FetchFails(c) PROVE KindInv'
  BY <1>8 DEF FetchFails, Failed
<1>9. ASSUME NEW c \in Callers, Store(c) PROVE KindInv'
  BY <1>9 DEF Store
<1>10. ASSUME NEW c \in Callers, MarkSynced(c) PROVE KindInv'
  BY <1>10 DEF MarkSynced
<1>11. ASSUME NEW c \in Callers, ClearFlag(c) PROVE KindInv'
  BY <1>11 DEF ClearFlag
<1>12. ASSUME NEW c \in Callers, SyncNow(c) PROVE KindInv'
  BY <1>12 DEF SyncNow
<1>13. ASSUME NEW c \in Callers, Tick(c) PROVE KindInv'
  BY <1>13 DEF Tick
<1>14. ASSUME NEW c \in Callers, Connect(c) PROVE KindInv'
  BY <1>14 DEF Connect
<1>15. ASSUME NEW c \in Callers, Refused(c) PROVE KindInv'
  BY <1>15 DEF Refused
<1>16. ASSUME NEW c \in Callers, Authorized(c) PROVE KindInv'
  BY <1>16 DEF Authorized
<1>17. ASSUME NEW c \in Callers, Connected(c) PROVE KindInv'
  BY <1>17 DEF Connected
<1>18. ASSUME NEW c \in Callers, CreateEvent(c) PROVE KindInv'
  BY SMTT(30), <1>18 DEF CreateEvent, Tasks
<1>19. ASSUME NEW c \in Callers, Inserted(c) PROVE KindInv'
  BY <1>19 DEF Inserted
<1>20. ASSUME NEW c \in Callers, InsertFails(c) PROVE KindInv'
  BY <1>20 DEF InsertFails
<1>21. CASE Forget
  BY <1>21 DEF Forget
<1>22. CASE MarkDisconnected
  BY <1>22 DEF MarkDisconnected
<1>23. CASE DropPending
  BY <1>23 DEF DropPending
<1>24. CASE StartRecording
  BY <1>24 DEF StartRecording
<1>25. ASSUME NEW r \in Recordings, LookUp(r) PROVE KindInv'
  BY <1>25 DEF LookUp
<1>26. ASSUME NEW r \in Recordings, SetPending(r) PROVE KindInv'
  BY <1>26 DEF SetPending
<1>37. ASSUME NEW r \in Recordings, ResetPending(r) PROVE KindInv'
  BY <1>37 DEF ResetPending
<1>27. CASE StopRecording
  BY <1>27 DEF StopRecording
<1>28. ASSUME NEW m \in Meetings, SaveMeeting(m) PROVE KindInv'
  BY <1>28 DEF SaveMeeting
<1>29. ASSUME NEW m \in Meetings, DropStale(m) PROVE KindInv'
  BY <1>29 DEF DropStale
<1>30. ASSUME NEW m \in Meetings, Validate(m) PROVE KindInv'
  BY <1>30 DEF Validate
<1>31. ASSUME NEW m \in Meetings, Link(m) PROVE KindInv'
  BY <1>31 DEF Link
<1>38. ASSUME NEW m \in Meetings, LinkFails(m) PROVE KindInv'
  BY <1>38 DEF LinkFails
<1>32. ASSUME NEW m \in Meetings, ClearPending(m) PROVE KindInv'
  BY <1>32 DEF ClearPending
<1>33. ASSUME NEW m \in Meetings, ClearLink(m) PROVE KindInv'
  BY <1>33 DEF ClearLink
<1>34. ASSUME NEW m \in Meetings, NEW e \in Events, SetLink(m, e) PROVE KindInv'
  BY <1>34 DEF SetLink
<1>35. CASE Expire
  BY <1>35 DEF Expire
<1>36. CASE UNCHANGED vars
  BY <1>36 DEF vars
<1> QED
  BY <1>1, <1>2, <1>3, <1>4, <1>5, <1>6, <1>7, <1>8, <1>9, <1>10, <1>11, <1>12, <1>13,
     <1>14, <1>15, <1>16, <1>17, <1>18, <1>19, <1>20, <1>21, <1>22, <1>23, <1>24, <1>25,
     <1>26, <1>27, <1>28, <1>29, <1>30, <1>31, <1>32, <1>33, <1>34, <1>35, <1>36,
     <1>37, <1>38
  DEF Next, Step

(* Every step keeps the cache to events that Google listed.                  *)
LEMMA CacheStep ==
    TaskInv /\ CacheInv /\ [Next]_vars => CacheInv'
<1> SUFFICES ASSUME TaskInv, CacheInv, [Next]_vars PROVE CacheInv'
  OBVIOUS
<1> USE DEF TaskInv, CacheInv, tokens, links, sync
<1>1. ASSUME NEW c \in Callers, SetFlag(c) PROVE CacheInv'
  BY <1>1 DEF SetFlag
<1>2. ASSUME NEW c \in Callers, ReadAccount(c) PROVE CacheInv'
  BY <1>2 DEF ReadAccount
<1>3. ASSUME NEW c \in Callers, TokenMissing(c) PROVE CacheInv'
  BY <1>3 DEF TokenMissing
<1>4. ASSUME NEW c \in Callers, TokenRead(c) PROVE CacheInv'
  BY <1>4 DEF TokenRead
<1>5. ASSUME NEW c \in Callers, Refreshed(c) PROVE CacheInv'
  BY <1>5 DEF Refreshed
<1>6. ASSUME NEW c \in Callers, RefreshFails(c) PROVE CacheInv'
  BY <1>6 DEF RefreshFails, Failed
<1>7. ASSUME NEW c \in Callers, Fetched(c) PROVE CacheInv'
  BY <1>7 DEF Fetched
<1>8. ASSUME NEW c \in Callers, FetchFails(c) PROVE CacheInv'
  BY <1>8 DEF FetchFails, Failed
<1>9. ASSUME NEW c \in Callers, Store(c) PROVE CacheInv'
  BY <1>9 DEF Store, Tasks
<1>10. ASSUME NEW c \in Callers, MarkSynced(c) PROVE CacheInv'
  BY <1>10 DEF MarkSynced
<1>11. ASSUME NEW c \in Callers, ClearFlag(c) PROVE CacheInv'
  BY <1>11 DEF ClearFlag
<1>12. ASSUME NEW c \in Callers, SyncNow(c) PROVE CacheInv'
  BY <1>12 DEF SyncNow
<1>13. ASSUME NEW c \in Callers, Tick(c) PROVE CacheInv'
  BY <1>13 DEF Tick
<1>14. ASSUME NEW c \in Callers, Connect(c) PROVE CacheInv'
  BY <1>14 DEF Connect
<1>15. ASSUME NEW c \in Callers, Refused(c) PROVE CacheInv'
  BY <1>15 DEF Refused
<1>16. ASSUME NEW c \in Callers, Authorized(c) PROVE CacheInv'
  BY <1>16 DEF Authorized
<1>17. ASSUME NEW c \in Callers, Connected(c) PROVE CacheInv'
  BY <1>17 DEF Connected
<1>18. ASSUME NEW c \in Callers, CreateEvent(c) PROVE CacheInv'
  BY <1>18 DEF CreateEvent
<1>19. ASSUME NEW c \in Callers, Inserted(c) PROVE CacheInv'
  BY <1>19 DEF Inserted
<1>20. ASSUME NEW c \in Callers, InsertFails(c) PROVE CacheInv'
  BY <1>20 DEF InsertFails
<1>21. CASE Forget
  BY <1>21 DEF Forget
<1>22. CASE MarkDisconnected
  BY <1>22 DEF MarkDisconnected
<1>23. CASE DropPending
  BY <1>23 DEF DropPending
<1>24. CASE StartRecording
  BY <1>24 DEF StartRecording
<1>25. ASSUME NEW r \in Recordings, LookUp(r) PROVE CacheInv'
  BY <1>25 DEF LookUp
<1>26. ASSUME NEW r \in Recordings, SetPending(r) PROVE CacheInv'
  BY <1>26 DEF SetPending
<1>37. ASSUME NEW r \in Recordings, ResetPending(r) PROVE CacheInv'
  BY <1>37 DEF ResetPending
<1>27. CASE StopRecording
  BY <1>27 DEF StopRecording
<1>28. ASSUME NEW m \in Meetings, SaveMeeting(m) PROVE CacheInv'
  BY <1>28 DEF SaveMeeting
<1>29. ASSUME NEW m \in Meetings, DropStale(m) PROVE CacheInv'
  BY <1>29 DEF DropStale
<1>30. ASSUME NEW m \in Meetings, Validate(m) PROVE CacheInv'
  BY <1>30 DEF Validate
<1>31. ASSUME NEW m \in Meetings, Link(m) PROVE CacheInv'
  BY <1>31 DEF Link
<1>38. ASSUME NEW m \in Meetings, LinkFails(m) PROVE CacheInv'
  BY <1>38 DEF LinkFails
<1>32. ASSUME NEW m \in Meetings, ClearPending(m) PROVE CacheInv'
  BY <1>32 DEF ClearPending
<1>33. ASSUME NEW m \in Meetings, ClearLink(m) PROVE CacheInv'
  BY <1>33 DEF ClearLink
<1>34. ASSUME NEW m \in Meetings, NEW e \in Events, SetLink(m, e) PROVE CacheInv'
  BY <1>34 DEF SetLink
<1>35. CASE Expire
  BY <1>35 DEF Expire
<1>36. CASE UNCHANGED vars
  BY <1>36 DEF vars
<1> QED
  BY <1>1, <1>2, <1>3, <1>4, <1>5, <1>6, <1>7, <1>8, <1>9, <1>10, <1>11, <1>12, <1>13,
     <1>14, <1>15, <1>16, <1>17, <1>18, <1>19, <1>20, <1>21, <1>22, <1>23, <1>24, <1>25,
     <1>26, <1>27, <1>28, <1>29, <1>30, <1>31, <1>32, <1>33, <1>34, <1>35, <1>36,
     <1>37, <1>38
  DEF Next, Step

(* Every step keeps the flag with the one sync that is at work.             *)
LEMMA SyncStep ==
    TaskInv /\ KindInv /\ OneSync /\ [Next]_vars => OneSync'
<1> SUFFICES ASSUME TaskInv, KindInv, OneSync, [Next]_vars PROVE OneSync'
  OBVIOUS
<1> USE TaskMoves, IdlePc DEF TaskInv, KindInv, OneSync, Syncing, At, Pcs, tokens, links, sync, HasToken
<1>1. ASSUME NEW c \in Callers, SetFlag(c) PROVE OneSync'
  <2> HIDE DEF OneSync, Syncing
  <2>1. ~Syncing(c) /\ task[c].kind = "sync"
    BY <1>1 DEF SetFlag, Syncing, KindInv, Tasks
  <2>2. CASE syncing
    <3>1. UNCHANGED syncing /\ Leaves(c)
      BY <1>1, <2>2 DEF SetFlag
    <3>2. \A d \in Callers : Syncing(d)' <=> Syncing(d)
      BY <3>1, <2>1 DEF Syncing
    <3> QED BY <3>1, <3>2 DEF OneSync
  <2>3. CASE ~syncing
    <3>1. syncing' /\ Goto(c, "account")
      BY <1>1, <2>3 DEF SetFlag
    <3>2. \A d \in Callers : ~Syncing(d)
      BY <2>3 DEF OneSync
    <3>3. \A d \in Callers : Syncing(d)' <=> d = c
      BY <3>1, <3>2, <2>1 DEF Syncing
    <3> QED BY <3>1, <3>3 DEF OneSync
  <2> QED BY <2>2, <2>3
<1>2. ASSUME NEW c \in Callers, ReadAccount(c) PROVE OneSync'
  BY <1>2 DEF ReadAccount
<1>3. ASSUME NEW c \in Callers, TokenMissing(c) PROVE OneSync'
  BY <1>3 DEF TokenMissing
<1>4. ASSUME NEW c \in Callers, TokenRead(c) PROVE OneSync'
  BY <1>4 DEF TokenRead
<1>5. ASSUME NEW c \in Callers, Refreshed(c) PROVE OneSync'
  BY <1>5 DEF Refreshed
<1>6. ASSUME NEW c \in Callers, RefreshFails(c) PROVE OneSync'
  BY <1>6 DEF RefreshFails, Failed
<1>7. ASSUME NEW c \in Callers, Fetched(c) PROVE OneSync'
  <2> HIDE DEF OneSync, Syncing
  <2>1. PICK listed \in SUBSET Events :
            task' = [task EXCEPT ![c].pc = "store", ![c].got = listed]
    BY <1>7 DEF Fetched
  <2>2. \A d \in Callers : d # c => task'[d] = task[d]
    BY <2>1
  <2>3. task'[c].pc = "store" /\ task'[c].kind = task[c].kind
    <3>1. task'[c] = [task[c] EXCEPT !.pc = "store", !.got = listed]
      BY <2>1
    <3> QED BY <3>1 DEF Tasks
  <2>4. UNCHANGED syncing /\ \A d \in Callers : Syncing(d)' <=> Syncing(d)
    BY <1>7, <2>2, <2>3 DEF Fetched, Syncing
  <2> QED BY <2>4 DEF OneSync
<1>8. ASSUME NEW c \in Callers, FetchFails(c) PROVE OneSync'
  BY <1>8 DEF FetchFails, Failed
<1>9. ASSUME NEW c \in Callers, Store(c) PROVE OneSync'
  BY <1>9 DEF Store
<1>10. ASSUME NEW c \in Callers, MarkSynced(c) PROVE OneSync'
  BY <1>10 DEF MarkSynced
<1>11. ASSUME NEW c \in Callers, ClearFlag(c) PROVE OneSync'
  <2> HIDE DEF OneSync, Syncing
  <2>1. Syncing(c)
    BY <1>11 DEF ClearFlag, Syncing, KindInv, Tasks
  <2>2. \A d \in Callers : Syncing(d) => d = c
    BY <2>1 DEF OneSync
  <2>3. ~syncing' /\ Leaves(c)
    BY <1>11 DEF ClearFlag
  <2>4. \A d \in Callers : ~Syncing(d)'
    BY <2>2, <2>3 DEF Syncing
  <2> QED BY <2>3, <2>4 DEF OneSync
<1>12. ASSUME NEW c \in Callers, SyncNow(c) PROVE OneSync'
  BY <1>12 DEF SyncNow
<1>13. ASSUME NEW c \in Callers, Tick(c) PROVE OneSync'
  BY <1>13 DEF Tick
<1>14. ASSUME NEW c \in Callers, Connect(c) PROVE OneSync'
  BY <1>14 DEF Connect
<1>15. ASSUME NEW c \in Callers, Refused(c) PROVE OneSync'
  BY <1>15 DEF Refused
<1>16. ASSUME NEW c \in Callers, Authorized(c) PROVE OneSync'
  BY <1>16 DEF Authorized
<1>17. ASSUME NEW c \in Callers, Connected(c) PROVE OneSync'
  BY <1>17 DEF Connected
<1>18. ASSUME NEW c \in Callers, CreateEvent(c) PROVE OneSync'
  <2> HIDE DEF OneSync, Syncing
  <2>1. \A d \in Callers : /\ d = c => task'[d].kind = "create"
                           /\ d # c => task'[d] = task[d]
    BY SMTT(30), <1>18 DEF CreateEvent, Tasks
  <2>2. UNCHANGED syncing /\ \A d \in Callers : Syncing(d)' <=> Syncing(d)
    BY <1>18, <2>1 DEF CreateEvent, Syncing
  <2> QED BY <2>2 DEF OneSync
<1>19. ASSUME NEW c \in Callers, Inserted(c) PROVE OneSync'
  BY <1>19 DEF Inserted
<1>20. ASSUME NEW c \in Callers, InsertFails(c) PROVE OneSync'
  BY <1>20 DEF InsertFails
<1>21. CASE Forget
  BY <1>21 DEF Forget
<1>22. CASE MarkDisconnected
  BY <1>22 DEF MarkDisconnected
<1>23. CASE DropPending
  BY <1>23 DEF DropPending
<1>24. CASE StartRecording
  BY <1>24 DEF StartRecording
<1>25. ASSUME NEW r \in Recordings, LookUp(r) PROVE OneSync'
  BY <1>25 DEF LookUp
<1>26. ASSUME NEW r \in Recordings, SetPending(r) PROVE OneSync'
  BY <1>26 DEF SetPending
<1>37. ASSUME NEW r \in Recordings, ResetPending(r) PROVE OneSync'
  BY <1>37 DEF ResetPending
<1>27. CASE StopRecording
  BY <1>27 DEF StopRecording
<1>28. ASSUME NEW m \in Meetings, SaveMeeting(m) PROVE OneSync'
  BY <1>28 DEF SaveMeeting
<1>29. ASSUME NEW m \in Meetings, DropStale(m) PROVE OneSync'
  BY <1>29 DEF DropStale
<1>30. ASSUME NEW m \in Meetings, Validate(m) PROVE OneSync'
  BY <1>30 DEF Validate
<1>31. ASSUME NEW m \in Meetings, Link(m) PROVE OneSync'
  BY <1>31 DEF Link
<1>38. ASSUME NEW m \in Meetings, LinkFails(m) PROVE OneSync'
  BY <1>38 DEF LinkFails
<1>32. ASSUME NEW m \in Meetings, ClearPending(m) PROVE OneSync'
  BY <1>32 DEF ClearPending
<1>33. ASSUME NEW m \in Meetings, ClearLink(m) PROVE OneSync'
  BY <1>33 DEF ClearLink
<1>34. ASSUME NEW m \in Meetings, NEW e \in Events, SetLink(m, e) PROVE OneSync'
  BY <1>34 DEF SetLink
<1>35. CASE Expire
  BY <1>35 DEF Expire
<1>36. CASE UNCHANGED vars
  BY <1>36 DEF vars
<1> QED
  BY <1>1, <1>2, <1>3, <1>4, <1>5, <1>6, <1>7, <1>8, <1>9, <1>10, <1>11, <1>12, <1>13,
     <1>14, <1>15, <1>16, <1>17, <1>18, <1>19, <1>20, <1>21, <1>22, <1>23, <1>24, <1>25,
     <1>26, <1>27, <1>28, <1>29, <1>30, <1>31, <1>32, <1>33, <1>34, <1>35, <1>36,
     <1>37, <1>38
  DEF Next, Step

(* Every step keeps the types of links and saves.                            *)
LEMMA LinkTypeStep ==
    LinkInv /\ MatchInv /\ [Next]_vars => LinkInv'
<1> SUFFICES ASSUME LinkInv, MatchInv, [Next]_vars PROVE LinkInv'
  OBVIOUS
<1> USE NoneAssumption DEF LinkInv, MatchInv, Links, Saves, Match, links, tokens, sync, Meetings, Recordings
<1>1. ASSUME NEW c \in Callers, SetFlag(c) PROVE LinkInv'
  BY <1>1 DEF SetFlag
<1>2. ASSUME NEW c \in Callers, ReadAccount(c) PROVE LinkInv'
  BY <1>2 DEF ReadAccount
<1>3. ASSUME NEW c \in Callers, TokenMissing(c) PROVE LinkInv'
  BY <1>3 DEF TokenMissing
<1>4. ASSUME NEW c \in Callers, TokenRead(c) PROVE LinkInv'
  BY <1>4 DEF TokenRead
<1>5. ASSUME NEW c \in Callers, Refreshed(c) PROVE LinkInv'
  BY <1>5 DEF Refreshed
<1>6. ASSUME NEW c \in Callers, RefreshFails(c) PROVE LinkInv'
  BY <1>6 DEF RefreshFails, Failed
<1>7. ASSUME NEW c \in Callers, Fetched(c) PROVE LinkInv'
  BY <1>7 DEF Fetched
<1>8. ASSUME NEW c \in Callers, FetchFails(c) PROVE LinkInv'
  BY <1>8 DEF FetchFails, Failed
<1>9. ASSUME NEW c \in Callers, Store(c) PROVE LinkInv'
  BY <1>9 DEF Store, Cascade
<1>10. ASSUME NEW c \in Callers, MarkSynced(c) PROVE LinkInv'
  BY <1>10 DEF MarkSynced
<1>11. ASSUME NEW c \in Callers, ClearFlag(c) PROVE LinkInv'
  BY <1>11 DEF ClearFlag
<1>12. ASSUME NEW c \in Callers, SyncNow(c) PROVE LinkInv'
  BY <1>12 DEF SyncNow
<1>13. ASSUME NEW c \in Callers, Tick(c) PROVE LinkInv'
  BY <1>13 DEF Tick
<1>14. ASSUME NEW c \in Callers, Connect(c) PROVE LinkInv'
  BY <1>14 DEF Connect
<1>15. ASSUME NEW c \in Callers, Refused(c) PROVE LinkInv'
  BY <1>15 DEF Refused
<1>16. ASSUME NEW c \in Callers, Authorized(c) PROVE LinkInv'
  BY <1>16 DEF Authorized
<1>17. ASSUME NEW c \in Callers, Connected(c) PROVE LinkInv'
  BY <1>17 DEF Connected
<1>18. ASSUME NEW c \in Callers, CreateEvent(c) PROVE LinkInv'
  BY <1>18 DEF CreateEvent
<1>19. ASSUME NEW c \in Callers, Inserted(c) PROVE LinkInv'
  BY <1>19 DEF Inserted
<1>20. ASSUME NEW c \in Callers, InsertFails(c) PROVE LinkInv'
  BY <1>20 DEF InsertFails
<1>21. CASE Forget
  BY <1>21 DEF Forget
<1>22. CASE MarkDisconnected
  BY <1>22 DEF MarkDisconnected
<1>23. CASE DropPending
  BY <1>23 DEF DropPending
<1>24. CASE StartRecording
  BY <1>24 DEF StartRecording
<1>25. ASSUME NEW r \in Recordings, LookUp(r) PROVE LinkInv'
  BY <1>25 DEF LookUp
<1>26. ASSUME NEW r \in Recordings, SetPending(r) PROVE LinkInv'
  BY <1>26 DEF SetPending
<1>37. ASSUME NEW r \in Recordings, ResetPending(r) PROVE LinkInv'
  BY <1>37 DEF ResetPending
<1>27. CASE StopRecording
  BY <1>27 DEF StopRecording
<1>28. ASSUME NEW m \in Meetings, SaveMeeting(m) PROVE LinkInv'
  BY <1>28 DEF SaveMeeting, Saved, NoSave, PendingInv
<1>29. ASSUME NEW m \in Meetings, DropStale(m) PROVE LinkInv'
  BY <1>29 DEF DropStale
<1>30. ASSUME NEW m \in Meetings, Validate(m) PROVE LinkInv'
  BY <1>30 DEF Validate
<1>31. ASSUME NEW m \in Meetings, Link(m) PROVE LinkInv'
  BY <1>31 DEF Link, Saved
<1>38. ASSUME NEW m \in Meetings, LinkFails(m) PROVE LinkInv'
  BY <1>38 DEF LinkFails, Saved
<1>32. ASSUME NEW m \in Meetings, ClearPending(m) PROVE LinkInv'
  BY <1>32 DEF ClearPending, Saved
<1>33. ASSUME NEW m \in Meetings, ClearLink(m) PROVE LinkInv'
  BY <1>33 DEF ClearLink
<1>34. ASSUME NEW m \in Meetings, NEW e \in Events, SetLink(m, e) PROVE LinkInv'
  BY <1>34 DEF SetLink
<1>35. CASE Expire
  BY <1>35 DEF Expire
<1>36. CASE UNCHANGED vars
  BY <1>36 DEF vars
<1> QED
  BY <1>1, <1>2, <1>3, <1>4, <1>5, <1>6, <1>7, <1>8, <1>9, <1>10, <1>11, <1>12, <1>13,
     <1>14, <1>15, <1>16, <1>17, <1>18, <1>19, <1>20, <1>21, <1>22, <1>23, <1>24, <1>25,
     <1>26, <1>27, <1>28, <1>29, <1>30, <1>31, <1>32, <1>33, <1>34, <1>35, <1>36,
     <1>37, <1>38
  DEF Next, Step

(* What is kept of links and saves under a step that changes one of them.   *)
LEMMA SeenKept ==
    ASSUME SeenInv, mixed \subseteq mixed',
           \A m \in Meetings :
               save'[m].pc \in {"validate", "link", "clear"}
                   => /\ save[m].pc \in {"validate", "link", "clear"}
                      /\ save'[m].seen = save[m].seen
    PROVE  SeenInv'
<1> SUFFICES ASSUME NEW m \in Meetings, save'[m].pc \in {"validate", "link", "clear"}
             PROVE  Owned(save[m].seen, m)'
  BY DEF SeenInv, Owned
<1>1. save'[m].seen = save[m].seen /\ Owned(save[m].seen, m)
  BY DEF SeenInv
<1>2. m \notin mixed' => m \notin mixed
  OBVIOUS
<1> QED BY <1>1, <1>2 DEF Owned, Match

LEMMA LinkedKept ==
    ASSUME LinkedInv, mixed \subseteq mixed',
           \A m \in Meetings : link'[m] \in {link[m], None}
    PROVE  LinkedInv'
BY DEF LinkedInv

LEMMA PendingKept ==
    ASSUME PendingInv, mixed \subseteq mixed', UNCHANGED recording,
           pending' \in {pending, None},
           \A r \in Recordings : prepare'[r].pc # "reset" => prepare[r].pc # "reset" \/ pending' = None
    PROVE  PendingInv'
BY DEF PendingInv, Owned, Match

LEMMA FoundKept ==
    ASSUME FoundInv,
           \A r \in Recordings : prepare'[r].pc = "set" => prepare'[r] = prepare[r]
    PROVE  FoundInv'
BY DEF FoundInv, Match

(* A step that leaves all of it alone, or changes only what is given here,  *)
(* keeps what is pending, seen and linked.                                  *)
LEMMA MatchKept ==
    ASSUME MatchInv, UNCHANGED <<pending, recording, prepare, mixed>>,
           \A m \in Meetings : link'[m] \in {link[m], None},
           \A m \in Meetings :
               save'[m].pc \in {"validate", "link", "clear"}
                   => /\ save[m].pc \in {"validate", "link", "clear"}
                      /\ save'[m].seen = save[m].seen
    PROVE  MatchInv'
<1>1. SeenInv'
  BY SeenKept DEF MatchInv
<1>2. LinkedInv'
  BY LinkedKept DEF MatchInv
<1>3. PendingInv' /\ FoundInv'
  BY PendingKept, FoundKept DEF MatchInv
<1> QED BY <1>1, <1>2, <1>3 DEF MatchInv, Matches, Match

(* Every step keeps matches with their recordings: a match that is not its  *)
(* own reaches a recording only by a step that mixes it.                    *)
LEMMA MatchStep ==
    LinkInv /\ CacheInv /\ MatchInv /\ [Next]_vars => MatchInv'
<1> SUFFICES ASSUME LinkInv, CacheInv, MatchInv, [Next]_vars PROVE MatchInv'
  OBVIOUS
<1> USE DEF links, tokens, sync
<1>0. UNCHANGED links => MatchInv'
  BY MatchKept
<1>types. recording.n \in Nat /\ prepare \in [Recordings -> Matches]
  BY DEF MatchInv
<1>1. ASSUME NEW c \in Callers, Step(c), ~Store(c) PROVE MatchInv'
  <2>1. UNCHANGED links
    BY <1>1 DEF Step, SetFlag, ReadAccount, TokenMissing, TokenRead, Refreshed, RefreshFails,
                Fetched, FetchFails, Failed, MarkSynced, ClearFlag
  <2> QED BY <2>1, <1>0
<1>2. ASSUME NEW c \in Callers, Store(c) PROVE MatchInv'
  <2>1. \A m \in Meetings : link'[m] \in {link[m], None}
    BY <1>2 DEF Store, Cascade
  <2> QED BY <2>1, <1>2, MatchKept DEF Store
<1>3. ASSUME NEW c \in Callers,
             \/ SyncNow(c) \/ Tick(c) \/ Connect(c) \/ Refused(c) \/ Authorized(c)
             \/ Connected(c) \/ CreateEvent(c) \/ Inserted(c) \/ InsertFails(c)
      PROVE  MatchInv'
  <2>1. UNCHANGED links
    BY <1>3 DEF SyncNow, Tick, Connect, Refused, Authorized, Connected, CreateEvent, Inserted, InsertFails
  <2> QED BY <2>1, <1>0
<1>4. CASE Forget \/ MarkDisconnected \/ Expire \/ UNCHANGED vars
  <2>1. UNCHANGED links
    BY <1>4 DEF Forget, MarkDisconnected, Expire, vars
  <2> QED BY <2>1, <1>0
<1>5. CASE DropPending
  <2>1. PendingInv'
    BY <1>5, PendingKept DEF DropPending, MatchInv
  <2>2. SeenInv' /\ LinkedInv' /\ FoundInv'
    BY <1>5, SeenKept, LinkedKept, FoundKept DEF DropPending, MatchInv
  <2> QED BY <1>5, <2>1, <2>2 DEF DropPending, MatchInv, Matches, Match
<1>6. CASE StartRecording
  <2>1. /\ recording'.n = recording.n + 1 /\ recording'.n \in Recordings
        /\ prepare' = [prepare EXCEPT ![recording.n + 1].pc = "reset"]
    BY <1>6, <1>types, BoundsAssumption DEF StartRecording, Recordings
  <2>2. /\ prepare' \in [Recordings -> Matches]
        /\ prepare'[recording'.n].pc = "reset"
        /\ \A r \in Recordings : prepare'[r].pc = "set" => prepare'[r] = prepare[r]
    BY <2>1, <1>types DEF Matches
  <2>3. PendingInv'
    BY <1>6, <2>2 DEF PendingInv, MatchInv, StartRecording, Match
  <2>4. SeenInv' /\ LinkedInv' /\ FoundInv'
    BY <1>6, <2>2, SeenKept, LinkedKept, FoundKept DEF StartRecording, MatchInv
  <2> QED BY <2>1, <2>2, <2>3, <2>4, <1>types DEF MatchInv, Matches, Match
<1>7. CASE StopRecording
  <2>1. recording'.n = recording.n
    BY <1>7, <1>types DEF StopRecording
  <2>2. PendingInv'
    BY <1>7, <2>1 DEF StopRecording, PendingInv, MatchInv, Owned, Match
  <2>3. SeenInv' /\ LinkedInv' /\ FoundInv'
    BY <1>7, SeenKept, LinkedKept, FoundKept DEF StopRecording, MatchInv
  <2> QED BY <1>7, <2>1, <2>2, <2>3, <1>types DEF StopRecording, MatchInv, Matches, Match
<1>8. ASSUME NEW r \in Recordings, ResetPending(r) PROVE MatchInv'
  <2>1. /\ prepare' \in [Recordings -> Matches]
        /\ \A q \in Recordings : prepare'[q].pc = "set" => prepare'[q] = prepare[q]
    BY <1>8, <1>types DEF ResetPending, Matches
  <2>2. PendingInv'
    BY <1>8, PendingKept DEF ResetPending, MatchInv
  <2>3. SeenInv' /\ LinkedInv' /\ FoundInv'
    BY <1>8, <2>1, SeenKept, LinkedKept, FoundKept DEF ResetPending, MatchInv
  <2> QED BY <1>8, <2>1, <2>2, <2>3, <1>types DEF ResetPending, MatchInv, Matches, Match
<1>9. ASSUME NEW r \in Recordings, LookUp(r) PROVE MatchInv'
  <2>1. prepare[r].pc = "look" /\ UNCHANGED <<link, pending, recording, save, mixed>>
    BY <1>9 DEF LookUp
  <2>2. \A e \in Candidates : e \in Events
    BY DEF Candidates, BestMatches, CacheInv
  <2>3. CASE prepare' = [prepare EXCEPT ![r] = NoMatch]
    <3>1. NoMatch \in Matches
      BY DEF NoMatch, Matches
    <3>2. /\ prepare' \in [Recordings -> Matches]
          /\ \A q \in Recordings : prepare'[q].pc = "set" => prepare'[q] = prepare[q]
          /\ \A q \in Recordings : prepare'[q].pc # "reset" => prepare[q].pc # "reset"
      BY <2>1, <2>3, <3>1, <1>types DEF NoMatch
    <3>3. PendingInv' /\ FoundInv' /\ SeenInv' /\ LinkedInv'
      BY <2>1, <3>2, PendingKept, FoundKept, SeenKept, LinkedKept DEF MatchInv
    <3> QED BY <2>1, <3>2, <3>3, <1>types DEF MatchInv, Matches, Match
  <2>4. ASSUME NEW e \in Candidates,
               prepare' = [prepare EXCEPT ![r] = [pc |-> "set", match |-> [event |-> e, of |-> r]]]
        PROVE  MatchInv'
    <3>1. [event |-> e, of |-> r] \in Match
      BY <2>2 DEF Match
    <3>2. /\ prepare' \in [Recordings -> Matches]
          /\ prepare'[r].pc = "set" /\ prepare'[r].match = [event |-> e, of |-> r]
          /\ \A q \in Recordings : q # r => prepare'[q] = prepare[q]
      BY <2>4, <3>1, <1>types DEF Matches
    <3>3. FoundInv'
      BY <3>1, <3>2 DEF FoundInv, MatchInv, Match
    <3>4. \A q \in Recordings : prepare'[q].pc # "reset" => prepare[q].pc # "reset"
      BY <2>1, <3>2
    <3>5. PendingInv' /\ SeenInv' /\ LinkedInv'
      BY <2>1, <3>4, PendingKept, SeenKept, LinkedKept DEF MatchInv
    <3> QED BY <2>1, <3>2, <3>3, <3>5, <1>types DEF MatchInv, Matches, Match
  <2> QED BY <1>9, <2>3, <2>4 DEF LookUp
<1>10. ASSUME NEW r \in Recordings, SetPending(r) PROVE MatchInv'
  <2>1. /\ prepare[r].pc = "set" /\ pending' = prepare[r].match
        /\ prepare' = [prepare EXCEPT ![r] = NoMatch]
        /\ UNCHANGED <<recording, link, save>> /\ mixed \subseteq mixed'
    BY <1>10 DEF SetPending
  <2>2. prepare[r].match \in Match /\ prepare[r].match.of = r
    BY <2>1 DEF MatchInv, FoundInv
  <2>3. NoMatch \in Matches
    BY DEF NoMatch, Matches
  <2>4. /\ prepare' \in [Recordings -> Matches]
        /\ \A q \in Recordings : prepare'[q].pc = "set" => prepare'[q] = prepare[q]
        /\ \A q \in Recordings : prepare'[q].pc # "reset" => prepare[q].pc # "reset"
    BY <2>1, <2>3, <1>types DEF NoMatch
  <2>5. recording.n \in Recordings /\ prepare[recording.n].pc # "reset"
            => r = recording.n \/ recording.n \in mixed'
    BY <1>10 DEF SetPending
  <2>6. PendingInv'
    BY <2>1, <2>2, <2>4, <2>5 DEF PendingInv, Owned, Match
  <2>7. SeenInv' /\ LinkedInv' /\ FoundInv'
    BY <2>1, <2>4, SeenKept, LinkedKept, FoundKept DEF MatchInv
  <2> QED BY <2>1, <2>4, <2>6, <2>7, <1>types DEF MatchInv, Matches, Match
<1>11. ASSUME NEW m \in Meetings, SaveMeeting(m) PROVE MatchInv'
  <2>1. /\ UNCHANGED <<link, pending, recording, prepare>> /\ mixed \subseteq mixed'
        /\ m \notin mixed' => m = recording.n /\ prepare[m].pc # "reset" /\ m \notin mixed
    BY <1>11 DEF SaveMeeting
  <2>2. PendingInv' /\ LinkedInv' /\ FoundInv'
    BY <2>1, PendingKept, LinkedKept, FoundKept DEF MatchInv
  <2>3. \A k \in Meetings : k # m => save'[k] = save[k]
    BY <1>11 DEF SaveMeeting, LinkInv
  <2>4. save'[m].pc \in {"validate", "link", "clear"} => pending # None /\ save'[m].seen = pending
    BY <1>11 DEF SaveMeeting, LinkInv, Saved
  <2>5. save'[m].pc \in {"validate", "link", "clear"} => Owned(save[m].seen, m)'
    BY <2>1, <2>4 DEF MatchInv, PendingInv, Owned, Meetings, Match
  <2>6. ASSUME NEW k \in Meetings, k # m, save'[k].pc \in {"validate", "link", "clear"}
        PROVE  Owned(save[k].seen, k)'
    BY <2>1, <2>3, <2>6 DEF MatchInv, SeenInv, Owned, Match
  <2>7. SeenInv'
    BY <2>5, <2>6 DEF SeenInv
  <2> QED BY <2>1, <2>2, <2>7, <1>types DEF MatchInv, Matches, Match
<1>12. ASSUME NEW m \in Meetings, DropStale(m) \/ Validate(m) PROVE MatchInv'
  BY <1>12, MatchKept DEF DropStale, Validate, LinkInv, Saves
<1>13. ASSUME NEW m \in Meetings, Link(m) PROVE MatchInv'
  <2>1. /\ save[m].pc = "link" /\ UNCHANGED <<pending, recording, prepare, mixed>>
        /\ link' = [link EXCEPT ![m] = save[m].seen]
        /\ save' = [save EXCEPT ![m].pc = "clear"]
    BY <1>13 DEF Link
  <2>2. Owned(save[m].seen, m)
    BY <2>1 DEF MatchInv, SeenInv
  <2>3. LinkedInv'
    BY <2>1, <2>2 DEF MatchInv, LinkedInv, Owned, LinkInv, Meetings
  <2>4. SeenInv'
    BY <2>1, SeenKept DEF MatchInv, LinkInv, Saves
  <2>5. PendingInv' /\ FoundInv'
    BY <2>1, PendingKept, FoundKept DEF MatchInv
  <2> QED BY <2>1, <2>3, <2>4, <2>5, <1>types DEF MatchInv, Matches, Match
<1>17. ASSUME NEW m \in Meetings, LinkFails(m) PROVE MatchInv'
  BY <1>17, MatchKept DEF LinkFails, Saved, LinkInv
<1>14. ASSUME NEW m \in Meetings, ClearPending(m) PROVE MatchInv'
  <2>1. PendingInv'
    BY <1>14, PendingKept DEF ClearPending, MatchInv
  <2>2. SeenInv'
    BY <1>14, SeenKept DEF ClearPending, MatchInv, LinkInv, Saved
  <2>3. LinkedInv' /\ FoundInv'
    BY <1>14, LinkedKept, FoundKept DEF ClearPending, MatchInv
  <2> QED BY <1>14, <2>1, <2>2, <2>3 DEF ClearPending, MatchInv, Matches, Match
<1>15. ASSUME NEW m \in Meetings, ClearLink(m) PROVE MatchInv'
  BY <1>15, MatchKept DEF ClearLink, LinkInv
<1>16. ASSUME NEW m \in Meetings, NEW e \in Events, SetLink(m, e) PROVE MatchInv'
  <2>1. LinkedInv'
    BY <1>16 DEF SetLink, LinkedInv, MatchInv, LinkInv
  <2>2. SeenInv' /\ PendingInv' /\ FoundInv'
    BY <1>16, SeenKept, PendingKept, FoundKept DEF SetLink, MatchInv
  <2> QED BY <1>16, <2>1, <2>2 DEF SetLink, MatchInv, Matches, Match
<1> QED
  BY <1>1, <1>2, <1>3, <1>4, <1>5, <1>6, <1>7, <1>8, <1>9, <1>10, <1>11, <1>12, <1>13,
     <1>14, <1>15, <1>16, <1>17
  DEF Next

(* Every step keeps links to events that are there: a sync cascades, and a   *)
(* link is made only to an event of the cache.                              *)
LEMMA ResolveStep ==
    LinkInv /\ LinksResolve /\ [Next]_vars => LinksResolve'
<1> SUFFICES ASSUME LinkInv, LinksResolve, [Next]_vars PROVE LinksResolve'
  OBVIOUS
<1> USE DEF LinkInv, LinksResolve, links, tokens, sync
<1>1. ASSUME NEW c \in Callers, SetFlag(c) PROVE LinksResolve'
  BY <1>1 DEF SetFlag
<1>2. ASSUME NEW c \in Callers, ReadAccount(c) PROVE LinksResolve'
  BY <1>2 DEF ReadAccount
<1>3. ASSUME NEW c \in Callers, TokenMissing(c) PROVE LinksResolve'
  BY <1>3 DEF TokenMissing
<1>4. ASSUME NEW c \in Callers, TokenRead(c) PROVE LinksResolve'
  BY <1>4 DEF TokenRead
<1>5. ASSUME NEW c \in Callers, Refreshed(c) PROVE LinksResolve'
  BY <1>5 DEF Refreshed
<1>6. ASSUME NEW c \in Callers, RefreshFails(c) PROVE LinksResolve'
  BY <1>6 DEF RefreshFails, Failed
<1>7. ASSUME NEW c \in Callers, Fetched(c) PROVE LinksResolve'
  BY <1>7 DEF Fetched
<1>8. ASSUME NEW c \in Callers, FetchFails(c) PROVE LinksResolve'
  BY <1>8 DEF FetchFails, Failed
<1>9. ASSUME NEW c \in Callers, Store(c) PROVE LinksResolve'
  BY <1>9 DEF Store, Cascade
<1>10. ASSUME NEW c \in Callers, MarkSynced(c) PROVE LinksResolve'
  BY <1>10 DEF MarkSynced
<1>11. ASSUME NEW c \in Callers, ClearFlag(c) PROVE LinksResolve'
  BY <1>11 DEF ClearFlag
<1>12. ASSUME NEW c \in Callers, SyncNow(c) PROVE LinksResolve'
  BY <1>12 DEF SyncNow
<1>13. ASSUME NEW c \in Callers, Tick(c) PROVE LinksResolve'
  BY <1>13 DEF Tick
<1>14. ASSUME NEW c \in Callers, Connect(c) PROVE LinksResolve'
  BY <1>14 DEF Connect
<1>15. ASSUME NEW c \in Callers, Refused(c) PROVE LinksResolve'
  BY <1>15 DEF Refused
<1>16. ASSUME NEW c \in Callers, Authorized(c) PROVE LinksResolve'
  BY <1>16 DEF Authorized
<1>17. ASSUME NEW c \in Callers, Connected(c) PROVE LinksResolve'
  BY <1>17 DEF Connected
<1>18. ASSUME NEW c \in Callers, CreateEvent(c) PROVE LinksResolve'
  BY <1>18 DEF CreateEvent
<1>19. ASSUME NEW c \in Callers, Inserted(c) PROVE LinksResolve'
  BY <1>19 DEF Inserted
<1>20. ASSUME NEW c \in Callers, InsertFails(c) PROVE LinksResolve'
  BY <1>20 DEF InsertFails
<1>21. CASE Forget
  BY <1>21 DEF Forget
<1>22. CASE MarkDisconnected
  BY <1>22 DEF MarkDisconnected
<1>23. CASE DropPending
  BY <1>23 DEF DropPending
<1>24. CASE StartRecording
  BY <1>24 DEF StartRecording
<1>25. ASSUME NEW r \in Recordings, LookUp(r) PROVE LinksResolve'
  BY <1>25 DEF LookUp
<1>26. ASSUME NEW r \in Recordings, SetPending(r) PROVE LinksResolve'
  BY <1>26 DEF SetPending
<1>37. ASSUME NEW r \in Recordings, ResetPending(r) PROVE LinksResolve'
  BY <1>37 DEF ResetPending
<1>27. CASE StopRecording
  BY <1>27 DEF StopRecording
<1>28. ASSUME NEW m \in Meetings, SaveMeeting(m) PROVE LinksResolve'
  BY <1>28 DEF SaveMeeting
<1>29. ASSUME NEW m \in Meetings, DropStale(m) PROVE LinksResolve'
  BY <1>29 DEF DropStale
<1>30. ASSUME NEW m \in Meetings, Validate(m) PROVE LinksResolve'
  BY <1>30 DEF Validate
<1>31. ASSUME NEW m \in Meetings, Link(m) PROVE LinksResolve'
  BY <1>31 DEF Link
<1>38. ASSUME NEW m \in Meetings, LinkFails(m) PROVE LinksResolve'
  BY <1>38 DEF LinkFails
<1>32. ASSUME NEW m \in Meetings, ClearPending(m) PROVE LinksResolve'
  BY <1>32 DEF ClearPending
<1>33. ASSUME NEW m \in Meetings, ClearLink(m) PROVE LinksResolve'
  BY <1>33 DEF ClearLink
<1>34. ASSUME NEW m \in Meetings, NEW e \in Events, SetLink(m, e) PROVE LinksResolve'
  BY <1>34 DEF SetLink
<1>35. CASE Expire
  BY <1>35 DEF Expire
<1>36. CASE UNCHANGED vars
  BY <1>36 DEF vars
<1> QED
  BY <1>1, <1>2, <1>3, <1>4, <1>5, <1>6, <1>7, <1>8, <1>9, <1>10, <1>11, <1>12, <1>13,
     <1>14, <1>15, <1>16, <1>17, <1>18, <1>19, <1>20, <1>21, <1>22, <1>23, <1>24, <1>25,
     <1>26, <1>27, <1>28, <1>29, <1>30, <1>31, <1>32, <1>33, <1>34, <1>35, <1>36,
     <1>37, <1>38
  DEF Next, Step

-----------------------------------------------------------------------------
IInv == TaskInv /\ KindInv /\ CacheInv /\ LinkInv /\ MatchInv /\ QuietInv /\ OneSync /\ LinksResolve

LEMMA Invariance == Spec => []IInv
<1>1. Init => IInv
  <2> SUFFICES ASSUME Init PROVE IInv
    OBVIOUS
  <2>1. TaskInv /\ KindInv /\ CacheInv /\ OneSync /\ QuietInv
    BY IdlePc DEF Init, KindInv, CacheInv, TaskInv, Tasks, Idle, Pcs, OneSync, Syncing, QuietInv
  <2>2. LinkInv /\ LinksResolve
    BY DEF Init, LinkInv, Saves, NoSave, LinksResolve
  <2>3. MatchInv
    BY DEF Init, MatchInv, NoSave, NoMatch, Matches, FoundInv, PendingInv, SeenInv, LinkedInv
  <2> QED BY <2>1, <2>2, <2>3 DEF IInv
<1>2. IInv /\ [Next]_vars => IInv'
  BY TaskStep, KindStep, CacheStep, LinkTypeStep, MatchStep, QuietStep, SyncStep, ResolveStep DEF IInv
<1> QED BY <1>1, <1>2, PTL DEF Spec

(* Whatever Google lists and in whatever order syncs and links come, no     *)
(* meeting keeps a link to an event that is gone.                           *)
THEOREM LinksResolveHolds == Spec => []LinksResolve
<1>1. IInv => LinksResolve
  BY DEF IInv
<1> QED BY <1>1, Invariance, PTL

(* However many recordings follow each other, and however long the lookup   *)
(* or the link of one takes, a meeting is linked to its own match, unless   *)
(* its transcript was saved after the next recording's start or before its  *)
(* own reset, or another recording's lookup ended after that reset.         *)
THEOREM OwnEventHolds == Spec => []OwnEvent
<1>1. IInv => OwnEvent
  BY DEF IInv, MatchInv, LinkedInv, OwnEvent, Meetings
<1> QED BY <1>1, Invariance, PTL

(* A disconnect that finds no command at work is final, for any number of   *)
(* callers that come later.                                                 *)
THEOREM StaysDisconnectedHolds == Spec => []StaysDisconnected
<1>1. IInv => StaysDisconnected
  BY DEF IInv, QuietInv, StaysDisconnected
<1> QED BY <1>1, Invariance, PTL

(* set_sync_in_progress lets one sync in, and every way out of it lets the  *)
(* next one in.                                                             *)
THEOREM OneSyncHolds == Spec => []OneSync
<1>1. IInv => OneSync
  BY DEF IInv
<1> QED BY <1>1, Invariance, PTL

-----------------------------------------------------------------------------
(* AudioPipeline: the lanes and what was emitted, then the mixer, then the  *)
(* previews.                                                                *)

(* What the lanes hold while an item is looked at: segments may be done.    *)
Piece == [speech : Nat, start : Nat, end : Nat, length : Nat]
Pieces == Seq(Piece)
Heard == [speaking : BOOLEAN, speech : Nat, begun : Nat, rest : BOOLEAN,
          inSpeech : BOOLEAN, current : Nat, processed : Nat, startSample : Nat,
          done : Pieces, id : Segment, lastEnd : Nat, lastCount : Nat]

Output == [seg : Segment, speech : Nat, end : Nat, final : BOOLEAN]
Item == [kind : {"audio", "flush"}, lane : Lanes, length : 0..MaxLength]

(* How many of a lane's speeches are over.                                  *)
Over(L) == IF L.speaking THEN L.speech - 1 ELSE L.speech

(* The finals of a lane that have been sent are those of its first t        *)
(* speeches, each once; all of them if somebody was there to receive them.  *)
FinalAt(i, l) == emitted[i].final /\ emitted[i].seg.lane = l
SentUpTo(l, t) ==
    /\ \A i \in 1..Len(emitted) : FinalAt(i, l) => emitted[i].speech \in 1..t
    /\ \A i, j \in 1..Len(emitted) :
           FinalAt(i, l) /\ FinalAt(j, l) /\ emitted[i].speech = emitted[j].speech => i = j
    /\ listening => \A k \in 1..t : \E i \in 1..Len(emitted) :
                        FinalAt(i, l) /\ emitted[i].speech = k

(* A lane that has not been flushed knows of the speech its session is in,  *)
(* and how long it is.                                                      *)
Whole(L) ==
    /\ L \in Heard /\ L.inSpeech = L.speaking
    /\ L.speaking => /\ L.speech > 0 /\ L.current > 0
                     /\ L.processed = L.begun + L.current
IdOk(l, L) == L.id = NoId \/ L.id.lane = l
Unflushed(l) == Whole(lane[l]) /\ SentUpTo(l, Over(lane[l]))

(* After a flush no more audio comes in, and only a speech below MinFinal   *)
(* has been left out.                                                       *)
NoAudio == "state" \notin senders /\ \A i \in 1..Len(channel) : channel[i].kind = "flush"
Short(L) == L.speech > 0 /\ L.processed < L.begun + MinFinal
Flushed(l) ==
    /\ NoAudio /\ lane[l].inSpeech = FALSE /\ lane[l].rest = FALSE
    /\ \/ SentUpTo(l, lane[l].speech)
       \/ Short(lane[l]) /\ SentUpTo(l, lane[l].speech - 1)

LanesInv ==
    /\ emitted \in Seq(Output) /\ lane \in [Lanes -> Heard]
    /\ \A l \in Lanes : lane[l].done = <<>> /\ IdOk(l, lane[l])
    /\ \A l \in Lanes : Unflushed(l) \/ Flushed(l)
    /\ pipe = "ended" => \A l \in Lanes : Flushed(l)

(* Flush signals follow all audio.                                          *)
ItemsInv ==
    /\ channel \in Seq(Item)
    /\ "state" \in senders =>
           control = "recording" /\ \A i \in 1..Len(channel) : channel[i].kind = "audio"
    /\ \A i, j \in 1..Len(channel) :
           i < j /\ channel[i].kind = "flush" => channel[j].kind = "flush"

-----------------------------------------------------------------------------
LEMMA Limits == /\ Window \in Nat /\ Window > 0 /\ MinFinal \in Nat /\ MinFinal > 0
                /\ MaxLength \in Nat /\ MaxLength <= Window
BY PipelineAssumption

(* Every non-empty set of numbers has a least one.                          *)
LEMMA LeastNumber ==
    ASSUME NEW S, S \subseteq Nat, S # {}
    PROVE  \E n \in S : \A m \in S : n <= m
<1> DEFINE R == OpToRel(<, Nat)
<1>1. IsWellFoundedOn(R, Nat)
  BY NatLessThanWellFounded
<1>2. PICK n \in S : \A m \in S : <<m, n>> \notin R
  BY <1>1, WFMin
<1>3. ASSUME NEW m \in S PROVE n <= m
  <2>1. <<m, n>> \notin R /\ <<m, n>> \in Nat \X Nat
    BY <1>2
  <2>2. ~(m < n)
    BY <2>1 DEF OpToRel
  <2> QED BY <2>2
<1> QED BY <1>2, <1>3

(* A function may be defined by its first value and by what leads from each *)
(* value to the next.                                                       *)
Steps(N, S) == [1..N -> [S -> S]]
Follows(f, N, S, a, G) ==
    f \in [0..N -> S] /\ f[0] = a /\ \A n \in 1..N : f[n] = G[n][f[n - 1]]

LEMMA RecursionDefines ==
    ASSUME NEW N \in Nat, NEW S, NEW a \in S, NEW G \in Steps(N, S)
    PROVE  \E f : Follows(f, N, S, a, G)
<1> USE DEF Steps, Follows
<1> DEFINE Good(m, f) == f[0] = a /\ \A n \in 1..m : f[n] = G[n][f[n - 1]]
           Bad == {m \in 0..N : \A f \in [0..m -> S] : ~Good(m, f)}
<1>1. SUFFICES ASSUME Bad # {} PROVE FALSE
  <2>1. N \notin Bad => \E f \in [0..N -> S] : Good(N, f)
    OBVIOUS
  <2> QED BY <2>1
<1>2. PICK m \in Bad : \A n \in Bad : m <= n
  <2>1. Bad \subseteq Nat
    OBVIOUS
  <2> HIDE DEF Bad
  <2> QED BY <2>1, <1>1, LeastNumber
<1>3. CASE m = 0
  <2> DEFINE f == [i \in 0..0 |-> a]
  <2>1. f \in [0..0 -> S] /\ f[0] = a /\ 1..0 = {}
    OBVIOUS
  <2> HIDE DEF f
  <2> QED BY <1>2, <1>3, <2>1
<1>4. CASE m > 0
  <2>1. m - 1 \in 0..N /\ m \in 1..N
    BY <1>4
  <2>7. m - 1 \notin Bad
    <3> HIDE DEF Bad
    <3> QED BY <1>2, <2>1
  <2>2. PICK f \in [0..(m - 1) -> S] : Good(m - 1, f)
    BY <2>1, <2>7
  <2> DEFINE g == [i \in 0..m |-> IF i = m THEN G[m][f[m - 1]] ELSE f[i]]
  <2>3. f[m - 1] \in S /\ G[m] \in [S -> S]
    BY <2>1
  <2>4. g \in [0..m -> S]
    BY <2>1, <2>3
  <2>5. g[0] = a
    BY <2>1, <2>2, <1>4
  <2>6. ASSUME NEW n \in 1..m PROVE g[n] = G[n][g[n - 1]]
    <3>1. CASE n = m
      BY <3>1, <2>1
    <3>2. CASE n # m
      <4>1. n \in 1..(m - 1) /\ n - 1 \in 0..(m - 1) /\ n - 1 # m
        BY <3>2, <2>1
      <4>2. f[n] = G[n][f[n - 1]]
        BY <2>2, <4>1
      <4> QED BY <3>2, <4>1, <4>2
    <3> QED BY <3>1, <3>2
  <2> HIDE DEF g
  <2> QED BY <1>2, <2>4, <2>5, <2>6
<1> QED BY <1>2, <1>3, <1>4

(* The steps of the filter of Finals.                                       *)
LEMMA FinalsSteps ==
    ASSUME NEW L \in Heard
    PROVE  \E f \in [0..Len(L.done) -> Seq(Piece)] :
               /\ f[0] = <<>> /\ Finals(L) = f[Len(L.done)]
               /\ \A n \in 1..Len(L.done) :
                      f[n] = IF L.done[n].length < MinFinal THEN f[n - 1]
                             ELSE Append(f[n - 1], L.done[n])
<1> DEFINE N == Len(L.done)
           Longer(n, s) == IF L.done[n].length < MinFinal THEN s ELSE Append(s, L.done[n])
           G == [n \in 1..N |-> [s \in Seq(Piece) |-> Longer(n, s)]]
           Long(f) == f = [n \in 0..N |-> IF n = 0 THEN <<>>
                                          ELSE IF L.done[n].length < MinFinal THEN f[n - 1]
                                          ELSE Append(f[n - 1], L.done[n])]
<1>1. N \in Nat /\ L.done \in Seq(Piece) /\ <<>> \in Seq(Piece)
  BY DEF Heard, Pieces
<1>2. G \in [1..N -> [Seq(Piece) -> Seq(Piece)]]
  <2>1. ASSUME NEW n \in 1..N, NEW s \in Seq(Piece) PROVE Longer(n, s) \in Seq(Piece)
    BY <1>1
  <2> HIDE DEF Longer, N
  <2> QED BY <2>1
<1>3. PICK f \in [0..N -> Seq(Piece)] :
          f[0] = <<>> /\ \A n \in 1..N : f[n] = G[n][f[n - 1]]
  <2>1. G \in Steps(N, Seq(Piece))
    BY <1>2 DEF Steps
  <2>2. \E f : Follows(f, N, Seq(Piece), <<>>, G)
    <3> HIDE DEF G, N
    <3> QED BY <1>1, <2>1, RecursionDefines
  <2> HIDE DEF G, N
  <2> QED BY <2>2 DEF Follows
<1>4. \A n \in 1..N : n - 1 \in 0..N /\ f[n] = Longer(n, f[n - 1])
  <2> TAKE n \in 1..N
  <2>1. n - 1 \in 0..N
    BY <1>1
  <2>2. f[n - 1] \in Seq(Piece)
    BY <2>1
  <2>3. G[n][f[n - 1]] = Longer(n, f[n - 1])
    <3> HIDE DEF Longer, N
    <3> QED BY <2>2
  <2> HIDE DEF G, Longer, N
  <2> QED BY <1>3, <2>1, <2>3
<1>5. \A n \in 0..N : n = 0 \/ n \in 1..N
  BY <1>1
<1>6. Long(f)
  <2> HIDE DEF N
  <2> QED BY <1>3, <1>4, <1>5
<1> DEFINE g == CHOOSE h : Long(h)
<1>7. Long(g)
  <2> HIDE DEF Long
  <2> QED BY <1>6
<1>8. Finals(L) = g[N]
  BY DEF Finals
<1>9. \A n \in 0..N : g[n] = IF n = 0 THEN <<>> ELSE Longer(n, g[n - 1])
  BY <1>7
<1>10. \A n \in 0..N : g[n] = f[n]
  <2> DEFINE Bad == {n \in 0..N : g[n] # f[n]}
  <2>1. SUFFICES ASSUME Bad # {} PROVE FALSE
    OBVIOUS
  <2>2. Bad \subseteq Nat
    BY <1>1
  <2>3. PICK m \in Bad : \A n \in Bad : m <= n
    <3> HIDE DEF Bad
    <3> QED BY <2>1, <2>2, LeastNumber
  <2>4. m \in 1..N /\ m - 1 \in 0..N /\ m - 1 \notin Bad
    <3> HIDE DEF Long, g, N
    <3> QED BY <2>3, <1>1, <1>3, <1>9
  <2> HIDE DEF Longer, g, N
  <2> QED BY <2>3, <2>4, <1>1, <1>4, <1>9
<1> HIDE DEF g, N
<1> QED BY SMTT(30), <1>1, <1>3, <1>4, <1>8, <1>10 DEF N

(* If only the last segment may be short, the finals are the segments, but  *)
(* for the last if it is.                                                   *)
LEMMA FinalsAre ==
    ASSUME NEW L \in Heard,
           \A n \in 1..Len(L.done) : n < Len(L.done) => L.done[n].length >= MinFinal
    PROVE  /\ Finals(L) \in Seq(Piece)
           /\ Len(Finals(L)) = IF Len(L.done) = 0 \/ L.done[Len(L.done)].length >= MinFinal
                               THEN Len(L.done) ELSE Len(L.done) - 1
           /\ \A i \in 1..Len(Finals(L)) : Finals(L)[i] = L.done[i]
<1> DEFINE N == Len(L.done)
           Long(n) == L.done[n].length >= MinFinal
<1>1. /\ N \in Nat /\ L.done \in Seq(Piece) /\ MinFinal \in Nat
      /\ \A n \in 1..N : L.done[n] \in Piece /\ L.done[n].length \in Nat
  <2>1. L.done \in Seq(Piece)
    BY DEF Heard, Pieces
  <2>2. \A p \in Piece : p.length \in Nat
    BY DEF Piece
  <2> QED BY <2>1, <2>2, Limits
<1>2. PICK f \in [0..N -> Seq(Piece)] :
          /\ f[0] = <<>> /\ Finals(L) = f[N]
          /\ \A n \in 1..N : f[n] = IF L.done[n].length < MinFinal THEN f[n - 1]
                                    ELSE Append(f[n - 1], L.done[n])
  BY FinalsSteps
<1>3. \A n \in 1..N : n - 1 \in 0..N /\ f[n] = IF Long(n) THEN Append(f[n - 1], L.done[n]) ELSE f[n - 1]
  BY <1>1, <1>2
<1> DEFINE Copy(n) == Len(f[n]) = n /\ \A i \in 1..n : f[n][i] = L.done[i]
           Bad == {n \in 0..N : (n < N \/ n = 0 \/ Long(n)) /\ ~Copy(n)}
<1>4. Bad = {}
  <2>1. SUFFICES ASSUME Bad # {} PROVE FALSE
    OBVIOUS
  <2>2. Bad \subseteq Nat
    BY <1>1
  <2>3. PICK n \in Bad : \A m \in Bad : n <= m
    <3> HIDE DEF Bad
    <3> QED BY <2>1, <2>2, LeastNumber
  <2>4. n # 0
    <3>1. Copy(0)
      BY <1>2
    <3> HIDE DEF Copy
    <3> QED BY <2>3, <3>1
  <2>5. n \in 1..N /\ n - 1 \in 0..N /\ n - 1 < N /\ Long(n)
    <3> HIDE DEF Copy
    <3>1. n \in 0..N /\ (n < N \/ n = 0 \/ Long(n))
      BY <2>3
    <3> HIDE DEF Long, Bad
    <3>2. n \in 1..N /\ n - 1 \in 0..N /\ n - 1 < N
      BY <3>1, <2>4, <1>1
    <3>3. n < N => Long(n)
      BY <3>2 DEF Long
    <3> QED BY <3>1, <3>2, <3>3, <2>4
  <2>6. n - 1 \notin Bad
    <3> HIDE DEF Bad, N
    <3> QED BY <2>3, <2>5, <1>1
  <2>7. Copy(n - 1)
    <3> HIDE DEF Copy, Long
    <3> QED BY <2>5, <2>6
  <2>8. f[n] = Append(f[n - 1], L.done[n]) /\ f[n - 1] \in Seq(Piece)
    BY <1>2, <1>3, <2>5
  <2>9. Copy(n)
    <3>1. Len(f[n]) = n
      BY <2>5, <2>7, <2>8
    <3>2. ASSUME NEW i \in 1..n PROVE f[n][i] = L.done[i]
      <4>1. CASE i = n
        BY <4>1, <2>5, <2>7, <2>8
      <4>2. CASE i # n
        <5>1. i \in 1..(n - 1)
          BY <4>2, <2>5
        <5> QED BY <5>1, <2>5, <2>7, <2>8
      <4> QED BY <4>1, <4>2
    <3> QED BY <3>1, <3>2
  <2> HIDE DEF Copy
  <2> QED BY <2>3, <2>9
<1>5. \A n \in 0..N : n < N \/ n = 0 \/ Long(n) => Copy(n)
  <2> HIDE DEF Copy, Long
  <2> QED BY <1>4
<1>6. CASE N = 0 \/ Long(N)
  <2>1. Copy(N)
    <3> HIDE DEF Copy, Long, N
    <3> QED BY <1>1, <1>5, <1>6
  <2> QED BY <1>1, <1>2, <1>6, <2>1
<1>7. CASE ~(N = 0 \/ Long(N))
  <2>1. N \in 1..N /\ N - 1 \in 0..N /\ N - 1 < N
    <3> HIDE DEF N, Long
    <3> QED BY <1>1, <1>7
  <2>2. Copy(N - 1) /\ f[N] = f[N - 1]
    <3> HIDE DEF Copy, N, Long
    <3> QED BY <1>3, <1>5, <1>7, <2>1
  <2> QED BY <1>1, <1>2, <1>7, <2>1, <2>2
<1> QED BY <1>6, <1>7

-----------------------------------------------------------------------------
(* Since L0, the speeches that are over have become segments, in order.     *)
Since(L0, L) ==
    /\ Whole(L) /\ L.id = L0.id /\ Over(L0) \in Nat
    /\ Over(L) = Over(L0) + Len(L.done)
    /\ \A i \in 1..Len(L.done) :
           L.done[i].speech = Over(L0) + i /\ L.done[i].length = MinFinal

LEMMA FrameType ==
    ASSUME NEW L \in Heard, NEW changes \in BOOLEAN
    PROVE  Frame(L, changes) \in Heard
<1>1. SpeechStarts(L) \in Heard
  <2>1. L.speech + 1 \in Nat /\ L.processed \in Nat
        /\ L.processed + (IF Relative THEN 0 ELSE L.processed) \in Nat
    BY DEF Heard
  <2>2. \A k, b, s \in Nat :
            [L EXCEPT !.speaking = TRUE, !.speech = k, !.begun = b, !.inSpeech = TRUE,
                      !.current = 0, !.startSample = s] \in Heard
    BY DEF Heard
  <2> QED BY <2>1, <2>2 DEF SpeechStarts
<1>2. SpeechEnds(L) \in Heard
  <2> DEFINE p == [speech |-> L.speech, start |-> L.begun, end |-> L.processed,
                   length |-> MinFinal]
  <2>1. p \in Piece
    BY Limits DEF Heard, Piece
  <2>2. Append(L.done, p) \in Pieces
    BY <2>1 DEF Heard, Pieces
  <2>3. SpeechEnds(L) = [L EXCEPT !.speaking = FALSE, !.inSpeech = FALSE, !.current = 0,
                                  !.done = Append(L.done, p)]
    BY DEF SpeechEnds
  <2>4. \A d \in Pieces : [L EXCEPT !.speaking = FALSE, !.inSpeech = FALSE, !.current = 0,
                                   !.done = d] \in Heard
    BY DEF Heard
  <2> HIDE DEF p
  <2> QED BY <2>2, <2>3, <2>4
<1>3. ASSUME NEW M \in Heard
      PROVE  [M EXCEPT !.current = IF M.inSpeech THEN @ + 1 ELSE @, !.processed = @ + 1] \in Heard
  <2>1. (IF M.inSpeech THEN M.current + 1 ELSE M.current) \in Nat /\ M.processed + 1 \in Nat
    BY DEF Heard
  <2>2. \A a, b \in Nat : [M EXCEPT !.current = a, !.processed = b] \in Heard
    BY DEF Heard
  <2> QED BY <2>1, <2>2
<1> QED BY <1>1, <1>2, <1>3 DEF Frame

LEMMA FrameSince ==
    ASSUME NEW L0, NEW L, Since(L0, L), NEW changes \in BOOLEAN
    PROVE  Since(L0, Frame(L, changes)) /\ Frame(L, changes).rest = L.rest
<1> SUFFICES ASSUME NEW F, F = Frame(L, changes) PROVE Since(L0, F) /\ F.rest = L.rest
  OBVIOUS
<1>1. L \in Heard /\ F \in Heard /\ Over(L0) \in Nat /\ MinFinal \in Nat
  BY FrameType, Limits DEF Since, Whole
<1>2. CASE ~changes
  <2>1. F = [L EXCEPT !.current = IF L.inSpeech THEN @ + 1 ELSE @, !.processed = @ + 1]
    BY <1>2 DEF Frame
  <2>2. /\ F.speaking = L.speaking /\ F.inSpeech = L.inSpeech /\ F.speech = L.speech
        /\ F.begun = L.begun /\ F.done = L.done /\ F.id = L.id /\ F.rest = L.rest
        /\ F.current = IF L.inSpeech THEN L.current + 1 ELSE L.current
        /\ F.processed = L.processed + 1
    BY <1>1, <2>1 DEF Heard
  <2>3. L.current \in Nat /\ L.processed \in Nat /\ L.begun \in Nat
    BY <1>1 DEF Heard
  <2>4. Whole(F)
    <3>1. Whole(L)
      BY DEF Since
    <3>2. F.inSpeech = F.speaking
      BY <2>2, <3>1 DEF Whole
    <3>3. CASE F.speaking
      <4>1. /\ L.speech > 0 /\ L.current > 0 /\ L.processed = L.begun + L.current
            /\ L.inSpeech = TRUE
        BY <2>2, <3>1, <3>3 DEF Whole
      <4>2. F.current = L.current + 1
        BY <2>2, <4>1
      <4>3. F.speech > 0 /\ F.current > 0 /\ F.processed = F.begun + F.current
        BY <2>2, <2>3, <4>1, <4>2
      <4> QED BY <1>1, <3>2, <4>3 DEF Whole
    <3> QED BY <1>1, <3>2, <3>3 DEF Whole
  <2> QED BY <2>2, <2>4 DEF Since, Over
<1>3. CASE changes /\ L.speaking
  <2> DEFINE p == [speech |-> L.speech, start |-> L.begun, end |-> L.processed,
                   length |-> MinFinal]
  <2>1. F = [SpeechEnds(L) EXCEPT !.current = IF SpeechEnds(L).inSpeech THEN @ + 1 ELSE @,
                                  !.processed = @ + 1]
    BY <1>3 DEF Frame
  <2>2. /\ F.speaking = FALSE /\ F.inSpeech = FALSE /\ F.speech = L.speech /\ F.done = Append(L.done, p)
        /\ F.id = L.id /\ F.rest = L.rest
    BY <1>1, <2>1 DEF SpeechEnds, Heard
  <2>3. p \in Piece /\ L.done \in Seq(Piece)
    BY <1>1 DEF Heard, Piece, Pieces
  <2>8. Len(L.done) \in Nat
    BY <2>3
  <2>11. L.speech \in Nat /\ Over(L0) \in Nat
    BY <1>1 DEF Heard
  <2>12. p.speech = L.speech /\ p.length = MinFinal
    OBVIOUS
  <2> HIDE DEF p
  <2>4. Whole(F)
    BY <1>1, <2>2 DEF Whole
  <2>5. \A i \in 1..Len(L.done) :
            L.done[i].speech = Over(L0) + i /\ L.done[i].length = MinFinal
    BY DEF Since
  <2>13. Over(F) = L.speech
    BY <2>2 DEF Over
  <2>14. L.speech - 1 = Over(L0) + Len(L.done)
    BY <1>3 DEF Over, Since
  <2>15. L.speech = Over(L0) + (Len(L.done) + 1)
    BY <2>8, <2>11, <2>14
  <2>6. Len(F.done) = Len(L.done) + 1 /\ F.done[Len(L.done) + 1] = p
        /\ \A i \in 1..Len(L.done) : F.done[i] = L.done[i]
    BY <2>2, <2>3
  <2>7. \A i \in 1..Len(F.done) : i \in 1..Len(L.done) \/ i = Len(L.done) + 1
    BY <2>3, <2>6
  <2>9. Over(F) = Over(L0) + Len(F.done)
    BY <2>6, <2>13, <2>15
  <2>10. ASSUME NEW i \in 1..Len(F.done)
         PROVE  F.done[i].speech = Over(L0) + i /\ F.done[i].length = MinFinal
    <3>1. CASE i \in 1..Len(L.done)
      BY <3>1, <2>5, <2>6
    <3>2. CASE i = Len(L.done) + 1
      BY <3>2, <2>6, <2>12, <2>15
    <3> QED BY <2>7, <3>1, <3>2
  <2> QED BY <1>1, <2>2, <2>4, <2>9, <2>10 DEF Since
<1>4. CASE changes /\ ~L.speaking
  <2>1. F = [SpeechStarts(L) EXCEPT !.current = IF SpeechStarts(L).inSpeech THEN @ + 1 ELSE @,
                                    !.processed = @ + 1]
    BY <1>4 DEF Frame
  <2>2. /\ F.speaking = TRUE /\ F.inSpeech = TRUE /\ F.speech = L.speech + 1 /\ F.done = L.done
        /\ F.id = L.id /\ F.rest = L.rest /\ F.current = 1
        /\ F.begun = L.processed /\ F.processed = L.processed + 1
    BY <1>1, <2>1 DEF SpeechStarts, Heard
  <2>3. L.speech \in Nat /\ L.processed \in Nat
    BY <1>1 DEF Heard
  <2>6. F.speech > 0 /\ F.current > 0 /\ F.processed = F.begun + F.current
    BY <2>2, <2>3
  <2>4. Whole(F)
    BY <1>1, <2>2, <2>6 DEF Whole
  <2>7. F.speech - 1 = L.speech
    BY <2>2, <2>3
  <2>5. Over(F) = Over(L)
    BY <2>2, <2>7, <1>4 DEF Over
  <2> QED BY <2>2, <2>4, <2>5 DEF Since
<1> QED BY <1>2, <1>3, <1>4

(* What holds at first and from each number to the next holds up to n.      *)
LEMMA Climbs ==
    ASSUME NEW n \in Nat, NEW S, 0 \in S, \A i \in 1..n : i - 1 \in S => i \in S
    PROVE  n \in S
<1> DEFINE Bad == (0..n) \ S
<1>1. SUFFICES ASSUME Bad # {} PROVE FALSE
  <2>1. n \in 0..n
    OBVIOUS
  <2> QED BY <2>1
<1>2. PICK i \in Bad : \A j \in Bad : i <= j
  <2>1. Bad \subseteq Nat
    OBVIOUS
  <2> HIDE DEF Bad
  <2> QED BY <1>1, <2>1, LeastNumber
<1>3. i \in 0..n /\ i # 0
  BY <1>2
<1>4. i \in 1..n /\ i - 1 \in 0..n
  BY <1>3
<1>5. i - 1 \notin Bad
  <2>1. ~(i <= i - 1)
    BY <1>4
  <2> HIDE DEF Bad
  <2> QED BY <1>2, <2>1
<1> QED BY <1>2, <1>4, <1>5

(* The frames of a chunk, one after the other.                              *)
Heeds(f, L, n, frames, rest) ==
    /\ f[0] = L /\ \A i \in 1..n : f[i] = Frame(f[i - 1], frames[i])
    /\ ProcessAudio(L, frames, rest) = [f[n] EXCEPT !.rest = rest]

LEMMA ProcessSteps ==
    ASSUME NEW L \in Heard, NEW n \in Nat, NEW frames \in [1..n -> BOOLEAN],
           NEW rest \in BOOLEAN
    PROVE  \E f \in [0..n -> Heard] : Heeds(f, L, n, frames, rest)
<1> DEFINE G == [i \in 1..n |-> [M \in Heard |-> Frame(M, frames[i])]]
           Through(h) == h = [i \in 0..n |-> IF i = 0 THEN L ELSE Frame(h[i - 1], frames[i])]
<1>1. Len(frames) = n
  OBVIOUS
<1>2. \A i \in 1..n : i - 1 \in 0..n /\ frames[i] \in BOOLEAN
  OBVIOUS
<1>3. G \in Steps(n, Heard)
  BY FrameType DEF Steps
<1>4. PICK f : Follows(f, n, Heard, L, G)
  <2> HIDE DEF G
  <2> QED BY <1>1, <1>3, RecursionDefines
<1>5. f \in [0..n -> Heard] /\ f[0] = L
  BY <1>4 DEF Follows
<1>6. ASSUME NEW i \in 1..n PROVE f[i] = Frame(f[i - 1], frames[i])
  <2>1. f[i] = G[i][f[i - 1]]
    BY <1>4 DEF Follows
  <2>2. f[i - 1] \in Heard
    BY <1>2, <1>5
  <2> QED BY <2>1, <2>2
<1>7. \A i \in 0..n : i = 0 \/ i \in 1..n
  OBVIOUS
<1>8. Through(f)
  <2>1. f = [i \in 0..n |-> f[i]]
    BY <1>5
  <2>2. \A i \in 0..n : f[i] = IF i = 0 THEN L ELSE Frame(f[i - 1], frames[i])
    BY <1>5, <1>6, <1>7
  <2> QED BY <2>1, <2>2
<1> DEFINE g == CHOOSE h : Through(h)
<1>9. Through(g)
  <2> HIDE DEF Through
  <2> QED BY <1>8
<1>10. ProcessAudio(L, frames, rest) = [g[n] EXCEPT !.rest = rest]
  BY <1>1 DEF ProcessAudio
<1>11. \A i \in 0..n : g[i] = IF i = 0 THEN L ELSE Frame(g[i - 1], frames[i])
  BY <1>9
<1> HIDE DEF g
<1> DEFINE Same == {i \in 0..n : g[i] = f[i]}
<1>12. 0 \in Same
  BY <1>5, <1>11
<1>13. ASSUME NEW i \in 1..n, i - 1 \in Same PROVE i \in Same
  <2>1. g[i] = Frame(g[i - 1], frames[i])
    BY <1>11
  <2> QED BY <1>6, <1>13, <2>1
<1>14. n \in Same
  <2> HIDE DEF Same
  <2> QED BY <1>12, <1>13, Climbs
<1>15. ProcessAudio(L, frames, rest) = [f[n] EXCEPT !.rest = rest]
  BY <1>10, <1>14
<1>16. Heeds(f, L, n, frames, rest)
  BY <1>5, <1>6, <1>15 DEF Heeds
<1> QED BY <1>5, <1>16

(* The rest of a chunk matters only to the next.                            *)
LEMMA RestOf ==
    ASSUME NEW M \in Heard, NEW rest \in BOOLEAN, NEW P, P = [M EXCEPT !.rest = rest]
    PROVE  /\ P \in Heard /\ P.rest = rest
           /\ P.speaking = M.speaking /\ P.inSpeech = M.inSpeech /\ P.speech = M.speech
           /\ P.begun = M.begun /\ P.done = M.done /\ P.id = M.id
           /\ P.current = M.current /\ P.processed = M.processed
           /\ P.startSample = M.startSample /\ P.lastEnd = M.lastEnd
           /\ P.lastCount = M.lastCount
BY DEF Heard

LEMMA ProcessSince ==
    ASSUME NEW L, Since(L, L), NEW n \in Nat, NEW frames \in [1..n -> BOOLEAN],
           NEW rest \in BOOLEAN
    PROVE  Since(L, ProcessAudio(L, frames, rest))
<1>1. L \in Heard
  BY DEF Since, Whole
<1>2. PICK f \in [0..n -> Heard] : Heeds(f, L, n, frames, rest)
  BY <1>1, ProcessSteps
<1>3. \A i \in 1..n : i \in 0..n /\ frames[i] \in BOOLEAN
  OBVIOUS
<1> DEFINE Good == {i \in 0..n : Since(L, f[i])}
<1>4. 0 \in Good
  BY <1>2 DEF Heeds
<1>5. \A i \in 1..n : i - 1 \in Good => i \in Good
  BY <1>2, <1>3, FrameSince DEF Heeds
<1>6. n \in Good
  <2> HIDE DEF Good
  <2> QED BY <1>4, <1>5, Climbs
<1>7. Since(L, f[n]) /\ ProcessAudio(L, frames, rest) = [f[n] EXCEPT !.rest = rest]
  BY <1>2, <1>6 DEF Heeds
<1>8. SUFFICES ASSUME NEW M, Since(L, M), NEW P, P = [M EXCEPT !.rest = rest]
               PROVE  Since(L, P)
  BY <1>7
<1>9. M \in Heard
  BY <1>8 DEF Since, Whole
<1> QED BY <1>8, <1>9, RestOf DEF Since, Whole, Over

-----------------------------------------------------------------------------
(* Naming a segment, and what previews and finals do to a lane.             *)
Named(L, M) ==
    /\ M \in Heard
    /\ M.speaking = L.speaking /\ M.inSpeech = L.inSpeech /\ M.speech = L.speech
    /\ M.begun = L.begun /\ M.rest = L.rest
    /\ M.current = L.current /\ M.processed = L.processed

LEMMA IdOfLane ==
    ASSUME NEW l \in Lanes, NEW L \in Heard, IdOk(l, L), NEW start \in Nat
    PROVE  SegmentId(l, L, start) \in Segment /\ SegmentId(l, L, start).lane = l
<1>1. [lane |-> l, start |-> start] \in Segment
  BY DEF Segment
<1>2. L.id \in Segment
  BY DEF Heard
<1> QED BY <1>1, <1>2 DEF SegmentId, IdOk

LEMMA Cleared ==
    ASSUME NEW L \in Heard
    PROVE  Named(L, ClearSegment(L)) /\ ClearSegment(L).id = NoId /\ ClearSegment(L).done = L.done
<1>1. NoId \in Segment
  BY DEF NoId, Segment
<1>2. \A x \in Segment : [L EXCEPT !.id = x, !.lastEnd = 0, !.lastCount = 0] \in Heard
  BY DEF Heard
<1> QED BY <1>1, <1>2 DEF ClearSegment, Named, Heard

LEMMA Previewed ==
    ASSUME NEW l \in Lanes, NEW L \in Heard, IdOk(l, L)
    PROVE  /\ Named(L, AfterPreview(l, L)) /\ IdOk(l, AfterPreview(l, L))
           /\ AfterPreview(l, L).done = L.done
           /\ PreviewOf(l, L) \in Seq(Output) /\ Len(PreviewOf(l, L)) \in {0, 1}
           /\ \A i \in 1..Len(PreviewOf(l, L)) : ~PreviewOf(l, L)[i].final
<1>1. /\ L.startSample \in Nat /\ L.processed \in Nat /\ L.current \in Nat
      /\ L.speech \in Nat
  BY DEF Heard
<1>2. SegmentId(l, L, L.startSample) \in Segment /\ SegmentId(l, L, L.startSample).lane = l
  BY <1>1, IdOfLane
<1>3. ASSUME NEW M, M = AfterPreview(l, L)
      PROVE  Named(L, M) /\ IdOk(l, M) /\ M.done = L.done
  <2>1. CASE M = L
    BY <2>1 DEF Named
  <2>2. CASE M = ClearSegment(L)
    BY <2>2, Cleared DEF IdOk
  <2>3. CASE M = [L EXCEPT !.id = SegmentId(l, L, L.startSample),
                           !.lastEnd = L.processed, !.lastCount = L.current]
    <3>1. \A x \in Segment : \A a, b \in Nat :
              [L EXCEPT !.id = x, !.lastEnd = a, !.lastCount = b] \in Heard
      BY DEF Heard
    <3>2. M \in Heard /\ M.id = SegmentId(l, L, L.startSample)
      BY <1>1, <1>2, <2>3, <3>1 DEF Heard
    <3> QED BY <1>2, <2>3, <3>2 DEF Named, IdOk, Heard
  <2> QED BY <1>3, <2>1, <2>2, <2>3 DEF AfterPreview
<1>4. ASSUME NEW out, out = PreviewOf(l, L)
      PROVE  out \in Seq(Output) /\ Len(out) \in {0, 1} /\ \A i \in 1..Len(out) : ~out[i].final
  <2>1. CASE out = <<>>
    BY <2>1
  <2>2. CASE out = <<[seg |-> SegmentId(l, L, L.startSample), speech |-> L.speech,
                      end |-> L.processed, final |-> FALSE]>>
    <3>1. [seg |-> SegmentId(l, L, L.startSample), speech |-> L.speech,
           end |-> L.processed, final |-> FALSE] \in Output
      BY <1>1, <1>2 DEF Output
    <3> QED BY <2>2, <3>1
  <2> QED BY <1>4, <2>1, <2>2 DEF PreviewOf
<1> QED BY <1>3, <1>4

LEMMA Finished ==
    ASSUME NEW l \in Lanes, NEW L \in Heard, IdOk(l, L)
    PROVE  Named(L, AfterFinals(L)) /\ IdOk(l, AfterFinals(L)) /\ AfterFinals(L).done = <<>>
<1>1. PICK M : M = (IF Finals(L) # <<>> THEN ClearSegment(L) ELSE L)
  OBVIOUS
<1>2. Named(L, M) /\ IdOk(l, M)
  BY <1>1, Cleared DEF Named, IdOk
<1>3. <<>> \in Pieces
  BY DEF Pieces
<1>4. \A d \in Pieces : [M EXCEPT !.done = d] \in Heard
  BY <1>2 DEF Named, Heard
<1>5. PICK F : F = [M EXCEPT !.done = <<>>]
  OBVIOUS
<1>6. /\ F \in Heard /\ F.done = <<>> /\ F.id = M.id
      /\ F.speaking = M.speaking /\ F.inSpeech = M.inSpeech /\ F.speech = M.speech
      /\ F.begun = M.begun /\ F.rest = M.rest
      /\ F.current = M.current /\ F.processed = M.processed
  BY <1>2, <1>3, <1>4, <1>5 DEF Named, Heard
<1>7. AfterFinals(L) = F
  BY <1>1, <1>5 DEF AfterFinals
<1> QED BY <1>2, <1>6, <1>7 DEF Named, IdOk

LEMMA FinalsSent ==
    ASSUME NEW l \in Lanes, NEW L \in Heard, IdOk(l, L), Finals(L) \in Seq(Piece)
    PROVE  /\ FinalsOf(l, L) \in Seq(Output) /\ Len(FinalsOf(l, L)) = Len(Finals(L))
           /\ \A i \in 1..Len(Finals(L)) :
                  /\ FinalsOf(l, L)[i].final /\ FinalsOf(l, L)[i].seg.lane = l
                  /\ FinalsOf(l, L)[i].speech = Finals(L)[i].speech
<1> DEFINE s(i) == Finals(L)[i]
           o(i) == [seg |-> SegmentId(l, IF i = 1 THEN L ELSE ClearSegment(L), s(i).start),
                    speech |-> s(i).speech, end |-> s(i).end, final |-> TRUE]
<1>1. FinalsOf(l, L) = [i \in 1..Len(Finals(L)) |-> o(i)]
  BY DEF FinalsOf
<1>2. ASSUME NEW i \in 1..Len(Finals(L))
      PROVE  o(i) \in Output /\ o(i).final /\ o(i).seg.lane = l /\ o(i).speech = s(i).speech
  <2>1. s(i) \in Piece
    OBVIOUS
  <2>2. s(i).start \in Nat /\ s(i).speech \in Nat /\ s(i).end \in Nat
    BY <2>1 DEF Piece
  <2>3. PICK M \in Heard : M = (IF i = 1 THEN L ELSE ClearSegment(L)) /\ IdOk(l, M)
    BY Cleared DEF Named, IdOk
  <2>4. SegmentId(l, M, s(i).start) \in Segment /\ SegmentId(l, M, s(i).start).lane = l
    <3> HIDE DEF s
    <3> QED BY <2>2, <2>3, IdOfLane
  <2> HIDE DEF s
  <2> QED BY <2>2, <2>3, <2>4 DEF Output
<1>3. Len(Finals(L)) \in Nat
  OBVIOUS
<1> HIDE DEF o
<1> QED BY <1>1, <1>2, <1>3

(* What a lane has to tell: the n speeches after the first t.               *)
Tells(t, M, n) ==
    /\ Finals(M) \in Seq(Piece) /\ Len(Finals(M)) = n
    /\ \A i \in 1..n : Finals(M)[i].speech = t + i

LEMMA SinceTells ==
    ASSUME NEW L, NEW M, Since(L, M)
    PROVE  Tells(Over(L), M, Len(M.done))
<1>1. M \in Heard /\ M.done \in Seq(Piece) /\ Len(M.done) \in Nat
  BY DEF Since, Whole, Heard, Pieces
<1>2. \A i \in 1..Len(M.done) : M.done[i].length >= MinFinal /\ M.done[i].speech = Over(L) + i
  BY Limits DEF Since
<1>3. Len(M.done) = 0 \/ Len(M.done) \in 1..Len(M.done)
  BY <1>1
<1>4. /\ Finals(M) \in Seq(Piece) /\ Len(Finals(M)) = Len(M.done)
      /\ \A i \in 1..Len(Finals(M)) : Finals(M)[i] = M.done[i]
  BY <1>1, <1>2, <1>3, FinalsAre
<1> QED BY <1>2, <1>4 DEF Tells

(* What a flush tells of a lane that was not flushed: every speech, but a   *)
(* short one.                                                               *)
LEMMA SinceItself ==
    ASSUME NEW L, Whole(L), L.done = <<>>
    PROVE  Over(L) \in Nat /\ Since(L, L)
<1>1. Over(L) \in Nat
  <2>1. L.speech \in Nat /\ (L.speaking => L.speech > 0)
    BY DEF Whole, Heard
  <2> QED BY <2>1 DEF Over
<1>2. Len(L.done) = 0 /\ 1..0 = {} /\ Over(L) = Over(L) + 0
  BY <1>1
<1> QED BY <1>1, <1>2 DEF Since

LEMMA FlushTells ==
    ASSUME NEW l \in Lanes, NEW L, Whole(L), L.done = <<>>, IdOk(l, L), NEW changes \in BOOLEAN
    PROVE  \E n \in Nat :
               /\ Tells(Over(L), FlushLane(L, changes), n) /\ Over(L) \in Nat
               /\ FlushLane(L, changes) \in Heard /\ IdOk(l, FlushLane(L, changes))
               /\ FlushLane(L, changes).inSpeech = FALSE
               /\ FlushLane(L, changes).rest = FALSE
               /\ \/ Over(L) + n = FlushLane(L, changes).speech
                  \/ /\ Short(FlushLane(L, changes))
                     /\ Over(L) + n = FlushLane(L, changes).speech - 1
<1>1. Over(L) \in Nat
  BY SinceItself
<1>2. Since(L, L)
  BY SinceItself
<1> DEFINE M == IF L.rest THEN Frame([L EXCEPT !.rest = FALSE], changes) ELSE L
<1>3. Since(L, M) /\ M.rest = FALSE
  <2>1. CASE ~L.rest
    <3>1. L.rest = FALSE
      BY <2>1 DEF Whole, Heard
    <3> QED BY <1>2, <2>1, <3>1
  <2>2. CASE L.rest
    <3>1. PICK K : K = [L EXCEPT !.rest = FALSE]
      OBVIOUS
    <3>2. /\ K \in Heard /\ K.rest = FALSE /\ K.done = L.done /\ K.id = L.id
          /\ K.speaking = L.speaking /\ K.inSpeech = L.inSpeech /\ K.speech = L.speech
          /\ K.begun = L.begun /\ K.current = L.current /\ K.processed = L.processed
      BY <3>1 DEF Whole, Heard
    <3>3. Since(L, K)
      BY <1>2, <3>2 DEF Since, Whole, Over
    <3> QED BY ZenonT(30), <2>2, <3>1, <3>2, <3>3, FrameSince
  <2> QED BY <2>1, <2>2
<1>4. FlushLane(L, changes) =
          IF M.inSpeech /\ M.current > 0
          THEN [M EXCEPT !.done = Append(@, [speech |-> M.speech, start |-> M.startSample,
                                             end |-> M.processed, length |-> M.current]),
                         !.current = 0, !.inSpeech = FALSE]
          ELSE M
  BY DEF FlushLane
<1> HIDE DEF M
<1>5. M \in Heard /\ M.id = L.id /\ IdOk(l, M)
  BY <1>3 DEF Since, Whole, IdOk
<1>6. /\ M.speech \in Nat /\ M.current \in Nat /\ M.processed \in Nat /\ M.begun \in Nat
      /\ M.startSample \in Nat /\ M.done \in Seq(Piece) /\ Len(M.done) \in Nat
  BY <1>5 DEF Heard, Pieces
<1>7. CASE ~(M.inSpeech /\ M.current > 0)
  <2>1. FlushLane(L, changes) = M
    BY <1>4, <1>7
  <2>2. M.inSpeech = FALSE /\ M.speaking = FALSE
    BY <1>3, <1>7 DEF Since, Whole, Heard
  <2>3. Over(L) + Len(M.done) = M.speech
    BY <1>3, <2>2 DEF Since, Over
  <2>4. Tells(Over(L), M, Len(M.done))
    BY <1>3, SinceTells
  <2> QED BY <1>1, <1>3, <1>5, <1>6, <2>1, <2>2, <2>3, <2>4
<1>8. CASE M.inSpeech /\ M.current > 0
  <2> DEFINE p == [speech |-> M.speech, start |-> M.startSample,
                   end |-> M.processed, length |-> M.current]
             N == Len(M.done)
  <2>1. PICK F : F = [M EXCEPT !.done = Append(M.done, p), !.current = 0, !.inSpeech = FALSE]
    OBVIOUS
  <2>2. FlushLane(L, changes) = F
    BY <1>4, <1>8, <2>1
  <2>3. p \in Piece /\ p.speech = M.speech /\ p.length = M.current
    BY <1>6 DEF Piece
  <2> HIDE DEF p
  <2>4. Append(M.done, p) \in Pieces
    BY <1>6, <2>3 DEF Pieces
  <2>5. \A d \in Pieces : [M EXCEPT !.done = d, !.current = 0, !.inSpeech = FALSE] \in Heard
    BY <1>5 DEF Heard
  <2>6. F \in Heard /\ F.done = Append(M.done, p) /\ F.inSpeech = FALSE /\ F.rest = FALSE
        /\ F.id = M.id /\ F.speech = M.speech /\ F.begun = M.begun
        /\ F.processed = M.processed
    BY <1>3, <1>5, <2>1, <2>4, <2>5 DEF Heard
  <2>7. IdOk(l, F)
    BY <1>5, <2>6 DEF IdOk
  <2>8. /\ M.speaking /\ M.speech > 0 /\ M.processed = M.begun + M.current
        /\ Over(M) = Over(L) + N
        /\ \A i \in 1..N : M.done[i].speech = Over(L) + i /\ M.done[i].length = MinFinal
    BY <1>3, <1>8 DEF Since, Whole
  <2>9. M.speech - 1 = Over(L) + N
    BY <2>8 DEF Over
  <2>10. M.speech = Over(L) + (N + 1)
    BY <1>1, <1>6, <2>9
  <2>11. /\ Len(F.done) = N + 1 /\ F.done[N + 1] = p
         /\ \A i \in 1..N : F.done[i] = M.done[i]
    BY <1>6, <2>3, <2>6
  <2>12. \A i \in 1..(N + 1) : i \in 1..N \/ i = N + 1
    BY <1>6
  <2>13. \A i \in 1..(N + 1) : F.done[i].speech = Over(L) + i
    BY <2>3, <2>8, <2>10, <2>11, <2>12
  <2>14. \A i \in 1..Len(F.done) : i < Len(F.done) => F.done[i].length >= MinFinal
    <3>1. ASSUME NEW i \in 1..(N + 1), i < N + 1 PROVE F.done[i].length >= MinFinal
      <4>1. i \in 1..N
        BY <1>6, <3>1
      <4> QED BY <2>8, <2>11, <4>1, Limits
    <3> QED BY <2>11, <3>1
  <2>15. /\ Finals(F) \in Seq(Piece)
         /\ Len(Finals(F)) = IF Len(F.done) = 0 \/ F.done[Len(F.done)].length >= MinFinal
                             THEN Len(F.done) ELSE Len(F.done) - 1
         /\ \A i \in 1..Len(Finals(F)) : Finals(F)[i] = F.done[i]
    BY <2>6, <2>14, FinalsAre
  <2>16. Len(Finals(F)) = IF M.current >= MinFinal THEN N + 1 ELSE N
    <3>1. Len(F.done) # 0 /\ (N + 1) - 1 = N
      BY <1>6, <2>11
    <3> QED BY <2>3, <2>11, <2>15, <3>1
  <2>17. CASE M.current >= MinFinal
    <3>1. Tells(Over(L), F, N + 1)
      BY <2>13, <2>15, <2>16, <2>17 DEF Tells
    <3>2. N + 1 \in Nat /\ Over(L) + (N + 1) = F.speech
      BY <1>6, <2>6, <2>10
    <3> HIDE DEF N
    <3> QED BY <1>1, <2>2, <2>6, <2>7, <3>1, <3>2
  <2>18. CASE ~(M.current >= MinFinal)
    <3>1. \A i \in 1..N : i \in 1..(N + 1)
      BY <1>6
    <3>2. Tells(Over(L), F, N)
      BY <2>13, <2>15, <2>16, <2>18, <3>1 DEF Tells
    <3>3. Short(F)
      BY <1>6, <2>6, <2>8, <2>18, Limits DEF Short
    <3>4. N \in Nat /\ Over(L) + N = F.speech - 1
      BY <1>6, <2>6, <2>9
    <3> HIDE DEF N
    <3> QED BY <1>1, <2>2, <2>6, <2>7, <3>2, <3>3, <3>4
  <2> QED BY <2>17, <2>18
<1> QED BY <1>7, <1>8

(* A second flush finds nothing.                                            *)
LEMMA FlushAgain ==
    ASSUME NEW L \in Heard, L.done = <<>>, L.inSpeech = FALSE, L.rest = FALSE,
           NEW changes \in BOOLEAN
    PROVE  FlushLane(L, changes) = L /\ Finals(L) = <<>>
<1>1. FlushLane(L, changes) = L
  BY DEF FlushLane
<1>2. Len(L.done) = 0 /\ 1..0 = {}
  OBVIOUS
<1>3. Finals(L) \in Seq(Piece) /\ Len(Finals(L)) = 0
  BY <1>2, FinalsAre
<1> QED BY <1>1, <1>3

-----------------------------------------------------------------------------
(* What is sent is the finals of the next m speeches of the lane, from the  *)
(* place o on, and nothing else of its finals.                              *)
Block(l, out, o, m, t) ==
    /\ out \in Seq(Output) /\ o + m <= Len(out)
    /\ \A i \in 1..Len(out) : out[i].final /\ out[i].seg.lane = l => i \in (o + 1)..(o + m)
    /\ \A i \in 1..m : /\ out[o + i].final /\ out[o + i].seg.lane = l
                       /\ out[o + i].speech = t + i

LEMMA SentMore ==
    ASSUME NEW l \in Lanes, NEW out, NEW o \in Nat, NEW m \in Nat, NEW t \in Nat,
           emitted \in Seq(Output), Block(l, out, o, m, t), Emit(out), listening' = listening,
           SentUpTo(l, t)
    PROVE  SentUpTo(l, t + m)' /\ emitted' \in Seq(Output)
<1> DEFINE E == Len(emitted)
<1>1. /\ E \in Nat /\ Len(out) \in Nat /\ out \in Seq(Output)
  BY DEF Block
<1>2. CASE ~listening
  <2>1. emitted' = emitted /\ ~listening'
    BY <1>2 DEF Emit
  <2>2. \A k \in 1..t : k \in 1..(t + m)
    OBVIOUS
  <2> QED BY <1>2, <2>1, <2>2 DEF SentUpTo, FinalAt
<1>3. CASE listening
  <2>1. emitted' = emitted \o out
    BY <1>3 DEF Emit
  <2>2. /\ emitted' \in Seq(Output) /\ Len(emitted') = E + Len(out)
        /\ \A i \in 1..E : emitted'[i] = emitted[i]
        /\ \A i \in 1..Len(out) : emitted'[E + i] = out[i]
    BY <1>1, <2>1
  <2>3. ASSUME NEW i \in 1..Len(emitted')
        PROVE  \/ i \in 1..E
               \/ i - E \in 1..Len(out) /\ i = E + (i - E)
    BY <1>1, <2>2
  <2>4. ASSUME NEW i \in 1..Len(emitted'), FinalAt(i, l)'
        PROVE  \/ i \in 1..E /\ FinalAt(i, l) /\ emitted'[i].speech = emitted[i].speech
                  /\ emitted[i].speech \in 1..t
               \/ \E k \in 1..m : i = E + (o + k) /\ emitted'[i].speech = t + k
    <3>1. CASE i \in 1..E
      BY <2>2, <2>4, <3>1 DEF FinalAt, SentUpTo
    <3>2. CASE i - E \in 1..Len(out) /\ i = E + (i - E)
      <4>1. emitted'[i] = out[i - E]
        BY <2>2, <3>2
      <4>2. out[i - E].final /\ out[i - E].seg.lane = l
        BY <2>4, <4>1 DEF FinalAt
      <4>3. i - E \in (o + 1)..(o + m)
        BY <3>2, <4>2 DEF Block
      <4>4. (i - E) - o \in 1..m /\ i - E = o + ((i - E) - o)
        BY <4>3
      <4> QED BY <3>2, <4>1, <4>4 DEF Block
    <3> QED BY <2>3, <3>1, <3>2
  <2>5. ASSUME NEW i \in 1..Len(emitted'), FinalAt(i, l)'
        PROVE  emitted'[i].speech \in 1..(t + m)
    BY <2>4, <2>5
  <2>6. ASSUME NEW i \in 1..Len(emitted'), NEW j \in 1..Len(emitted'),
               FinalAt(i, l)', FinalAt(j, l)', emitted'[i].speech = emitted'[j].speech
        PROVE  i = j
    <3>1. CASE i \in 1..E /\ FinalAt(i, l) /\ emitted'[i].speech = emitted[i].speech
               /\ emitted[i].speech \in 1..t
      <4>1. ASSUME NEW k \in 1..m, emitted'[j].speech = t + k PROVE FALSE
        <5>1. emitted'[i].speech \in 1..t
          BY <3>1
        <5>2. emitted'[i].speech = t + k
          BY <2>6, <4>1
        <5>3. t + k \notin 1..t
          OBVIOUS
        <5> QED BY <5>1, <5>2, <5>3
      <4>2. j \in 1..E /\ FinalAt(j, l) /\ emitted'[j].speech = emitted[j].speech
        BY <2>4, <2>6, <4>1
      <4> QED BY <2>6, <3>1, <4>2 DEF SentUpTo
    <3>2. ASSUME NEW k \in 1..m, i = E + (o + k), emitted'[i].speech = t + k PROVE i = j
      <4>1. ~(emitted'[j].speech \in 1..t)
        BY <2>6, <3>2
      <4>2. PICK n \in 1..m : j = E + (o + n) /\ emitted'[j].speech = t + n
        BY <2>4, <2>6, <4>1
      <4>3. k = n
        BY <2>6, <3>2, <4>2
      <4> QED BY <3>2, <4>2, <4>3
    <3> QED BY <2>4, <2>6, <3>1, <3>2
  <2>7. ASSUME NEW k \in 1..(t + m)
        PROVE  \E i \in 1..Len(emitted') : FinalAt(i, l)' /\ emitted'[i].speech = k
    <3>1. CASE k \in 1..t
      <4>1. PICK i \in 1..E : FinalAt(i, l) /\ emitted[i].speech = k
        BY <1>3, <3>1 DEF SentUpTo
      <4>2. i \in 1..Len(emitted')
        BY <1>1, <2>2
      <4> QED BY <2>2, <4>1, <4>2 DEF FinalAt
    <3>2. CASE k \notin 1..t
      <4>1. k - t \in 1..m /\ k = t + (k - t)
        BY <3>2
      <4>2. o + (k - t) \in 1..Len(out) /\ E + (o + (k - t)) \in 1..Len(emitted')
        <5>1. o + m <= Len(out)
          BY DEF Block
        <5>2. k - t \in Nat /\ k - t >= 1 /\ k - t <= m
          BY <4>1
        <5> HIDE DEF E
        <5>3. o + (k - t) \in 1..Len(out)
          BY <1>1, <5>1, <5>2
        <5>4. \A p \in 1..Len(out) : E + p \in 1..(E + Len(out))
          BY <1>1
        <5> QED BY <2>2, <5>3, <5>4
      <4>3. emitted'[E + (o + (k - t))] = out[o + (k - t)]
        BY <2>2, <4>2
      <4> QED BY <4>1, <4>2, <4>3 DEF Block, FinalAt
    <3> QED BY <3>1, <3>2
  <2> HIDE DEF E
  <2> QED BY <2>2, <2>5, <2>6, <2>7 DEF SentUpTo
<1> QED BY <1>2, <1>3

-----------------------------------------------------------------------------
(* The items of the channel, step by step.                                  *)
LEMMA ItemsStep ==
    ASSUME ItemsInv, PipelineNext
    PROVE  ItemsInv'
<1> USE DEF ItemsInv
<1>1. ASSUME UNCHANGED channel, senders' \subseteq senders, "state" \in senders' => control' = control
      PROVE  ItemsInv'
  BY <1>1
<1>2. ASSUME channel # <<>>, channel' = Tail(channel), UNCHANGED ctl
      PROVE  ItemsInv'
  <2>1. /\ channel' \in Seq(Item) /\ Len(channel') = Len(channel) - 1 /\ Len(channel) \in Nat
        /\ \A i \in 1..Len(channel') : channel'[i] = channel[i + 1]
    BY <1>2
  <2>2. \A i \in 1..Len(channel') : i + 1 \in 1..Len(channel)
    BY <2>1
  <2>3. senders' = senders /\ control' = control
    BY <1>2 DEF ctl
  <2>4. \A i, j \in 1..Len(channel') : i < j => i + 1 < j + 1
    OBVIOUS
  <2> QED BY <2>1, <2>2, <2>3, <2>4
<1>3. ASSUME NEW l \in Lanes, NEW n \in 1..MaxLength, Capture(l, n)
      PROVE  ItemsInv'
  <2> DEFINE c == [kind |-> "audio", lane |-> l, length |-> n]
  <2>1. c \in Item /\ c.kind = "audio"
    BY Limits DEF Item
  <2> HIDE DEF c
  <2>2. channel' = Append(channel, c) /\ "state" \in senders /\ senders' = senders /\ control' = control
    BY <1>3 DEF Capture, c
  <2>3. /\ channel' \in Seq(Item) /\ Len(channel') = Len(channel) + 1 /\ Len(channel) \in Nat
        /\ \A i \in 1..Len(channel) : channel'[i] = channel[i]
        /\ channel'[Len(channel) + 1] = c
    BY <2>1, <2>2
  <2>4. \A i \in 1..Len(channel') : i \in 1..Len(channel) \/ i = Len(channel) + 1
    BY <2>3
  <2>5. \A i \in 1..Len(channel') : channel'[i].kind = "audio"
    BY <2>1, <2>2, <2>3, <2>4
  <2> QED BY <2>2, <2>3, <2>5
<1>4. ASSUME FlushSignal
      PROVE  ItemsInv'
  <2> DEFINE c == [kind |-> "flush", lane |-> "mic_in", length |-> 0]
  <2>1. c \in Item /\ c.kind = "flush"
    BY Limits DEF Item, Lanes
  <2> HIDE DEF c
  <2>2. channel' = Append(channel, c) /\ control = "flushing" /\ senders' = senders
    BY <1>4 DEF FlushSignal, c
  <2>3. /\ channel' \in Seq(Item) /\ Len(channel') = Len(channel) + 1 /\ Len(channel) \in Nat
        /\ \A i \in 1..Len(channel) : channel'[i] = channel[i]
        /\ channel'[Len(channel) + 1] = c
    BY <2>1, <2>2
  <2>4. \A i \in 1..Len(channel') : i \in 1..Len(channel) \/ i = Len(channel) + 1
    BY <2>3
  <2>5. \A i, j \in 1..Len(channel') : i < j => i \in 1..Len(channel)
    BY <2>3
  <2> QED BY <2>1, <2>2, <2>3, <2>4, <2>5
<1>5. CASE Pipe
  <2>1. ASSUME NEW n, NEW frames, NEW rest, PipeChunk(frames, rest) PROVE ItemsInv'
    BY <1>2, <2>1 DEF PipeChunk
  <2>2. ASSUME NEW changes, PipeFlush(changes) PROVE ItemsInv'
    BY <1>2, <2>2 DEF PipeFlush
  <2>3. ASSUME NEW changes, PipeEnd(changes) PROVE ItemsInv'
    BY <1>1, <2>3 DEF PipeEnd, ctl
  <2> QED BY <1>5, <2>1, <2>2, <2>3 DEF Pipe
<1>6. CASE Manager
  <2>1. CASE StopStreams
    BY <1>1, <2>1 DEF StopStreams
  <2>2. CASE StopPipeline
    BY <1>1, <2>2 DEF StopPipeline
  <2>3. CASE Abandon
    BY <1>1, <2>3 DEF Abandon
  <2> QED BY <1>4, <1>6, <2>1, <2>2, <2>3 DEF Manager
<1>7. CASE AudioFails
  BY <1>1, <1>7 DEF AudioFails
<1>8. CASE TranscriptionGone
  BY <1>1, <1>8 DEF TranscriptionGone, ctl
<1>9. CASE Terminated
  BY <1>1, <1>9 DEF Terminated, pipelineVars, ctl
<1> QED BY <1>3, <1>5, <1>6, <1>7, <1>8, <1>9 DEF PipelineNext

-----------------------------------------------------------------------------
(* Blocks among what an item sends.                                         *)
Quiet(l, out) ==
    out \in Seq(Output) /\ \A i \in 1..Len(out) : ~(out[i].final /\ out[i].seg.lane = l)
Told(l, out, m, t) ==
    /\ out \in Seq(Output) /\ Len(out) = m
    /\ \A i \in 1..m : out[i].final /\ out[i].seg.lane = l /\ out[i].speech = t + i

LEMMA QuietBlock ==
    ASSUME NEW l, NEW out, Quiet(l, out), NEW t
    PROVE  Block(l, out, 0, 0, t)
<1>1. out \in Seq(Output) /\ Len(out) \in Nat /\ 0 + 0 <= Len(out)
  BY DEF Quiet
<1>2. 1..0 = {}
  OBVIOUS
<1> QED BY <1>1, <1>2 DEF Quiet, Block

LEMMA QuietBoth ==
    ASSUME NEW l, NEW p, Quiet(l, p), NEW q, Quiet(l, q)
    PROVE  Quiet(l, p \o q)
<1>1. p \in Seq(Output) /\ q \in Seq(Output)
  BY DEF Quiet
<1>2. /\ p \o q \in Seq(Output) /\ Len(p \o q) = Len(p) + Len(q)
      /\ Len(p) \in Nat /\ Len(q) \in Nat
      /\ \A i \in 1..Len(p) : (p \o q)[i] = p[i]
      /\ \A i \in 1..Len(q) : (p \o q)[Len(p) + i] = q[i]
  BY <1>1
<1>3. \A i \in 1..Len(p \o q) :
          \/ i \in 1..Len(p)
          \/ i - Len(p) \in 1..Len(q) /\ i = Len(p) + (i - Len(p))
  BY <1>2
<1> QED BY <1>2, <1>3 DEF Quiet

LEMMA ToldQuiet ==
    ASSUME NEW l, NEW k, k # l, NEW m, NEW t, NEW out, Told(l, out, m, t)
    PROVE  Quiet(k, out)
BY DEF Told, Quiet

LEMMA BlockAfter ==
    ASSUME NEW l, NEW p, Quiet(l, p), NEW m \in Nat, NEW t \in Nat, NEW f, Told(l, f, m, t)
    PROVE  Block(l, p \o f, Len(p), m, t)
<1>1. p \in Seq(Output) /\ f \in Seq(Output) /\ Len(f) = m
  BY DEF Quiet, Told
<1>2. /\ p \o f \in Seq(Output) /\ Len(p \o f) = Len(p) + m /\ Len(p) \in Nat
      /\ \A i \in 1..Len(p) : (p \o f)[i] = p[i]
      /\ \A i \in 1..m : (p \o f)[Len(p) + i] = f[i]
  BY <1>1
<1>3. Len(p) + m <= Len(p \o f)
  BY <1>2
<1>4. \A i \in 1..Len(p \o f) : i \in 1..Len(p) \/ i \in (Len(p) + 1)..(Len(p) + m)
  BY <1>2
<1>5. ASSUME NEW i \in 1..Len(p \o f), (p \o f)[i].final, (p \o f)[i].seg.lane = l
      PROVE  i \in (Len(p) + 1)..(Len(p) + m)
  BY <1>2, <1>4, <1>5 DEF Quiet
<1> QED BY <1>2, <1>3, <1>5 DEF Told, Block

LEMMA BlockBefore ==
    ASSUME NEW l, NEW p, Quiet(l, p), NEW m \in Nat, NEW t \in Nat, NEW f, Told(l, f, m, t)
    PROVE  Block(l, f \o p, 0, m, t)
<1>1. p \in Seq(Output) /\ f \in Seq(Output) /\ Len(f) = m
  BY DEF Quiet, Told
<1>2. /\ f \o p \in Seq(Output) /\ Len(f \o p) = m + Len(p) /\ Len(p) \in Nat
      /\ \A i \in 1..m : (f \o p)[i] = f[i]
      /\ \A i \in 1..Len(p) : (f \o p)[m + i] = p[i]
  BY <1>1
<1>3. 0 + m <= Len(f \o p) /\ (0 + 1)..(0 + m) = 1..m /\ \A i \in 1..m : 0 + i = i
  BY <1>2
<1>4. \A i \in 1..Len(f \o p) : i \in 1..m \/ (i - m \in 1..Len(p) /\ i = m + (i - m))
  BY <1>2
<1>5. ASSUME NEW i \in 1..Len(f \o p), (f \o p)[i].final, (f \o p)[i].seg.lane = l
      PROVE  i \in 1..m
  BY <1>2, <1>4, <1>5 DEF Quiet
<1> QED BY <1>2, <1>3, <1>5 DEF Told, Block

LEMMA FinalsTold ==
    ASSUME NEW l \in Lanes, NEW M \in Heard, IdOk(l, M), NEW n \in Nat, NEW t \in Nat,
           Tells(t, M, n)
    PROVE  Told(l, FinalsOf(l, M), n, t)
<1>1. /\ Finals(M) \in Seq(Piece) /\ Len(Finals(M)) = n
      /\ \A i \in 1..n : Finals(M)[i].speech = t + i
  BY DEF Tells
<1> QED BY <1>1, FinalsSent DEF Told

-----------------------------------------------------------------------------
(* The lanes, step by step.  A chunk comes to lanes that are not flushed.   *)
LEMMA LanesChunk ==
    ASSUME LanesInv, ItemsInv, NEW n \in Nat, NEW frames \in [1..n -> BOOLEAN],
           NEW rest \in BOOLEAN, PipeChunk(frames, rest)
    PROVE  LanesInv' /\ \A l \in Lanes : Whole(lane'[l])
<1>1. /\ channel[1] \in Item /\ 1 \in 1..Len(channel) /\ Head(channel) = channel[1]
      /\ Head(channel).kind = "audio" /\ pipe = "running" /\ UNCHANGED <<pipe, listening>>
  BY DEF PipeChunk, ItemsInv
<1>2. PICK k \in Lanes : k = Head(channel).lane
  BY <1>1 DEF Item
<1>3. \A l \in Lanes : Unflushed(l)
  <2>1. ~NoAudio
    BY <1>1 DEF NoAudio
  <2> QED BY <2>1 DEF LanesInv, Flushed
<1>4. PICK L : L = lane[k]
  OBVIOUS
<1>5. PICK heard : heard = ProcessAudio(L, frames, rest)
  OBVIOUS
<1>6. PICK shown : shown = AfterPreview(k, heard)
  OBVIOUS
<1>7. PICK after : after = AfterFinals(shown)
  OBVIOUS
<1>8. /\ Emit(PreviewOf(k, heard) \o FinalsOf(k, shown))
      /\ lane' = [lane EXCEPT ![k] = after]
  BY <1>2, <1>4, <1>5, <1>6, <1>7 DEF PipeChunk
<1>9. Whole(L) /\ L.done = <<>> /\ IdOk(k, L) /\ SentUpTo(k, Over(L))
  BY <1>2, <1>3, <1>4 DEF LanesInv, Unflushed
<1>10. Over(L) \in Nat /\ Since(L, heard)
  BY <1>5, <1>9, SinceItself, ProcessSince
<1> DEFINE m == Len(heard.done)
           t == Over(L)
<1>11. heard \in Heard /\ IdOk(k, heard) /\ m \in Nat /\ Tells(t, heard, m)
  <2>1. heard \in Heard /\ heard.id = L.id
    BY <1>10 DEF Since, Whole
  <2>2. IdOk(k, heard)
    BY <1>9, <2>1 DEF IdOk
  <2>3. m \in Nat
    BY <2>1 DEF Heard, Pieces
  <2>4. Tells(t, heard, m)
    BY <1>10, SinceTells
  <2> QED BY <2>1, <2>2, <2>3, <2>4
<1>12. /\ Named(heard, shown) /\ IdOk(k, shown) /\ shown.done = heard.done
       /\ Quiet(k, PreviewOf(k, heard))
       /\ \A l \in Lanes : Quiet(l, PreviewOf(k, heard))
  BY <1>2, <1>6, <1>11, Previewed DEF Quiet
<1>13. Tells(t, shown, m) /\ shown \in Heard
  <2>1. Finals(shown) = Finals(heard)
    BY <1>12 DEF Finals
  <2> QED BY <1>11, <1>12, <2>1 DEF Tells, Named
<1>14. Told(k, FinalsOf(k, shown), m, t)
  <2> HIDE DEF m, t
  <2> QED BY <1>2, <1>10, <1>11, <1>12, <1>13, FinalsTold DEF t
<1>15. Named(shown, after) /\ IdOk(k, after) /\ after.done = <<>>
  BY <1>2, <1>7, <1>12, <1>13, Finished
<1>16. Whole(after) /\ Over(after) = t + m
  BY <1>10, <1>12, <1>15 DEF Since, Whole, Named, Over
<1> DEFINE p == PreviewOf(k, heard)
           f == FinalsOf(k, shown)
<1> HIDE DEF m, t, p, f
<1>17. t \in Nat /\ m \in Nat /\ SentUpTo(k, t)
  BY <1>9, <1>10, <1>11 DEF t
<1>18. Emit(p \o f) /\ Quiet(k, p) /\ Told(k, f, m, t) /\ Len(p) \in Nat
  BY <1>8, <1>12, <1>14 DEF p, f, Quiet
<1>19. emitted \in Seq(Output) /\ listening' = listening
  BY <1>1 DEF LanesInv
<1>20. SentUpTo(k, t + m)' /\ emitted' \in Seq(Output)
  <2>1. Block(k, p \o f, Len(p), m, t)
    BY <1>17, <1>18, BlockAfter
  <2> QED BY <1>2, <1>17, <1>18, <1>19, <2>1, SentMore
<1>21. ASSUME NEW l \in Lanes, l # k PROVE SentUpTo(l, Over(lane[l]) + 0)'
  <2>1. Over(lane[l]) \in Nat /\ SentUpTo(l, Over(lane[l]))
    BY <1>3, SinceItself DEF Unflushed, LanesInv
  <2>2. Quiet(l, p)
    BY <1>12 DEF p
  <2>3. Quiet(l, p \o f)
    BY <1>18, <1>21, <2>2, ToldQuiet, QuietBoth
  <2>4. PICK s \in Nat : s = Over(lane[l])
    BY <2>1
  <2>5. SentUpTo(l, s)
    BY <2>1, <2>4
  <2>6. SentUpTo(l, s + 0)'
    BY <1>18, <1>19, <2>3, <2>5, QuietBlock, SentMore
  <2>7. lane'[l] = lane[l]
    BY <1>8, <1>21 DEF LanesInv
  <2> QED BY <2>4, <2>6, <2>7 DEF SentUpTo, FinalAt
<1>22. ASSUME NEW l \in Lanes
       PROVE  Unflushed(l)' /\ lane'[l] \in Heard /\ lane'[l].done = <<>> /\ IdOk(l, lane'[l])
  <2>1. CASE l = k
    <3>1. lane'[l] = after
      BY <1>2, <1>8, <2>1 DEF LanesInv
    <3>2. SentUpTo(l, Over(lane[l]))'
      BY <1>16, <1>20, <2>1, <3>1 DEF SentUpTo, FinalAt
    <3> QED BY <1>15, <1>16, <2>1, <3>1, <3>2 DEF Unflushed, Whole
  <2>2. CASE l # k
    <3>1. lane'[l] = lane[l]
      BY <1>8, <2>2 DEF LanesInv
    <3>2. Over(lane[l]) \in Nat /\ Whole(lane[l]) /\ lane[l].done = <<>> /\ IdOk(l, lane[l])
      BY <1>3, SinceItself DEF Unflushed, LanesInv
    <3>3. Over(lane'[l]) + 0 = Over(lane'[l])
      BY <3>1, <3>2
    <3>4. SentUpTo(l, Over(lane[l]))'
      BY <1>21, <2>2, <3>3 DEF SentUpTo, FinalAt
    <3> QED BY <3>1, <3>2, <3>4 DEF Unflushed, Whole
  <2> QED BY <2>1, <2>2
<1>23. lane' \in [Lanes -> Heard]
  BY <1>8, <1>15 DEF LanesInv, Named
<1>24. pipe' # "ended"
  BY <1>1
<1> QED BY <1>20, <1>22, <1>23, <1>24 DEF LanesInv, Unflushed

-----------------------------------------------------------------------------
(* A flush ends what a lane was saying, be it the first or a later one.     *)
Ends(l, F, t, n) ==
    /\ F \in Heard /\ IdOk(l, F) /\ F.inSpeech = FALSE /\ F.rest = FALSE
    /\ Tells(t, F, n)
    /\ t + n = F.speech \/ (Short(F) /\ t + n = F.speech - 1)

LEMMA FlushOne ==
    ASSUME LanesInv, NEW l \in Lanes, NEW changes \in BOOLEAN
    PROVE  \E t, n \in Nat :
               SentUpTo(l, t) /\ Ends(l, FlushLane(lane[l], changes), t, n)
<1>1. lane[l] \in Heard /\ lane[l].done = <<>> /\ IdOk(l, lane[l])
  BY DEF LanesInv
<1>2. CASE Unflushed(l)
  <2>1. PICK L : L = lane[l]
    OBVIOUS
  <2>2. Whole(L) /\ SentUpTo(l, Over(L))
    BY <1>2, <2>1 DEF Unflushed
  <2>3. PICK n \in Nat :
               /\ Tells(Over(L), FlushLane(L, changes), n) /\ Over(L) \in Nat
               /\ FlushLane(L, changes) \in Heard /\ IdOk(l, FlushLane(L, changes))
               /\ FlushLane(L, changes).inSpeech = FALSE
               /\ FlushLane(L, changes).rest = FALSE
               /\ \/ Over(L) + n = FlushLane(L, changes).speech
                  \/ /\ Short(FlushLane(L, changes))
                     /\ Over(L) + n = FlushLane(L, changes).speech - 1
    BY <1>1, <2>1, <2>2, FlushTells
  <2>4. Ends(l, FlushLane(L, changes), Over(L), n)
    BY <2>3 DEF Ends
  <2> QED BY <2>1, <2>2, <2>3, <2>4
<1>3. CASE Flushed(l)
  <2>1. PICK L : L = lane[l]
    OBVIOUS
  <2>2. L.inSpeech = FALSE /\ L.rest = FALSE
    BY <1>3, <2>1 DEF Flushed
  <2>3. FlushLane(L, changes) = L /\ Finals(L) = <<>>
    BY <1>1, <2>1, <2>2, FlushAgain
  <2>4. ASSUME NEW t \in Nat PROVE Tells(t, L, 0)
    BY <2>3 DEF Tells
  <2>5. L.speech \in Nat
    BY <1>1, <2>1 DEF Heard
  <2>6. CASE SentUpTo(l, L.speech)
    <3>1. L.speech + 0 = L.speech
      BY <2>5
    <3>2. Ends(l, L, L.speech, 0)
      BY <1>1, <2>1, <2>2, <2>4, <2>5, <3>1 DEF Ends
    <3> QED BY <2>1, <2>3, <2>5, <2>6, <3>2
  <2>7. CASE Short(L) /\ SentUpTo(l, L.speech - 1)
    <3>1. L.speech - 1 \in Nat /\ (L.speech - 1) + 0 = L.speech - 1
      BY <2>5, <2>7 DEF Short
    <3>2. Ends(l, L, L.speech - 1, 0)
      BY <1>1, <2>1, <2>2, <2>4, <2>7, <3>1 DEF Ends
    <3> QED BY <2>1, <2>3, <2>7, <3>1, <3>2
  <2> QED BY <1>3, <2>1, <2>6, <2>7 DEF Flushed
<1> QED BY <1>2, <1>3 DEF LanesInv

LEMMA LanesFlush ==
    ASSUME LanesInv, NEW changes \in Changes, FlushAll(changes), NoAudio, NoAudio',
           listening' = listening
    PROVE  LanesInv' /\ \A l \in Lanes : Flushed(l)'
<1>1. /\ "mic_in" \in Lanes /\ "system_out" \in Lanes
      /\ \A l \in Lanes : l = "mic_in" \/ l = "system_out"
  BY DEF Lanes
<1>2. changes["mic_in"] \in BOOLEAN /\ changes["system_out"] \in BOOLEAN
  BY <1>1 DEF Changes
<1>3. PICK mic : mic = FlushLane(lane["mic_in"], changes["mic_in"])
  OBVIOUS
<1>4. PICK sys : sys = FlushLane(lane["system_out"], changes["system_out"])
  OBVIOUS
<1>5. PICK out : out = FinalsOf("mic_in", mic) \o FinalsOf("system_out", sys)
  OBVIOUS
<1>6. /\ Emit(out)
      /\ lane' = [l \in Lanes |-> AfterFinals(IF l = "mic_in" THEN mic ELSE sys)]
  BY <1>3, <1>4, <1>5 DEF FlushAll
<1>7. PICK s, n \in Nat : SentUpTo("mic_in", s) /\ Ends("mic_in", mic, s, n)
  BY <1>1, <1>2, <1>3, FlushOne
<1>8. PICK t, m \in Nat : SentUpTo("system_out", t) /\ Ends("system_out", sys, t, m)
  BY <1>1, <1>2, <1>4, FlushOne
<1>9. Told("mic_in", FinalsOf("mic_in", mic), n, s)
  BY <1>1, <1>7, FinalsTold DEF Ends
<1>10. Told("system_out", FinalsOf("system_out", sys), m, t)
  BY <1>1, <1>8, FinalsTold DEF Ends
<1>11. Block("mic_in", out, 0, n, s)
  BY <1>5, <1>7, <1>9, <1>10, ToldQuiet, BlockBefore
<1>12. Block("system_out", out, n, m, t)
  <2>1. Quiet("system_out", FinalsOf("mic_in", mic))
    BY <1>9, ToldQuiet
  <2>2. Len(FinalsOf("mic_in", mic)) = n
    BY <1>9 DEF Told
  <2> QED BY <1>5, <1>8, <1>10, <2>1, <2>2, BlockAfter
<1>13. SentUpTo("mic_in", s + n)' /\ emitted' \in Seq(Output)
  BY <1>1, <1>6, <1>7, <1>11, SentMore DEF LanesInv
<1>14. SentUpTo("system_out", t + m)'
  BY <1>1, <1>6, <1>7, <1>8, <1>12, SentMore DEF LanesInv
<1>15. ASSUME NEW l \in Lanes, NEW F, NEW a \in Nat, NEW b \in Nat, Ends(l, F, a, b),
              lane'[l] = AfterFinals(F), SentUpTo(l, a + b)'
       PROVE  Flushed(l)' /\ lane'[l] \in Heard /\ lane'[l].done = <<>> /\ IdOk(l, lane'[l])
  <2>1. Named(F, lane'[l]) /\ lane'[l].done = <<>> /\ IdOk(l, lane'[l])
    BY <1>15, Finished DEF Ends
  <2>2. /\ lane'[l] \in Heard /\ lane'[l].inSpeech = FALSE /\ lane'[l].rest = FALSE
        /\ lane'[l].speech = F.speech /\ lane'[l].processed = F.processed
        /\ lane'[l].begun = F.begun
    BY <1>15, <2>1 DEF Named, Ends
  <2>3. CASE a + b = F.speech
    <3>1. SentUpTo(l, lane[l].speech)'
      BY <1>15, <2>2, <2>3 DEF SentUpTo, FinalAt
    <3> QED BY <2>1, <2>2, <3>1 DEF Flushed
  <2>4. CASE Short(F) /\ a + b = F.speech - 1
    <3>1. SentUpTo(l, lane[l].speech - 1)'
      BY <1>15, <2>2, <2>4 DEF SentUpTo, FinalAt
    <3>2. Short(lane'[l])
      BY <2>2, <2>4 DEF Short
    <3> QED BY <2>1, <2>2, <3>1, <3>2 DEF Flushed
  <2> QED BY <1>15, <2>3, <2>4 DEF Ends
<1>16. lane'["mic_in"] = AfterFinals(mic) /\ lane'["system_out"] = AfterFinals(sys)
  BY <1>1, <1>6
<1>17. \A l \in Lanes :
           Flushed(l)' /\ lane'[l] \in Heard /\ lane'[l].done = <<>> /\ IdOk(l, lane'[l])
  BY <1>1, <1>7, <1>8, <1>13, <1>14, <1>15, <1>16
<1>18. lane' \in [Lanes -> Heard]
  BY <1>6, <1>17
<1> QED BY <1>13, <1>17, <1>18 DEF LanesInv

(* Whatever leaves the lanes and their finals alone must leave a channel    *)
(* without audio without audio.                                             *)
LEMMA LanesKept ==
    ASSUME LanesInv, UNCHANGED <<lane, emitted, pipe>>, listening' => listening,
           NoAudio => NoAudio'
    PROVE  LanesInv'
<1>1. ASSUME NEW l \in Lanes
      PROVE  /\ Unflushed(l) => Unflushed(l)'
             /\ Flushed(l) => Flushed(l)'
  <2>1. PICK L : L = lane[l] /\ L = lane'[l]
    OBVIOUS
  <2>2. \A t : SentUpTo(l, t) => SentUpTo(l, t)'
    BY DEF SentUpTo, FinalAt
  <2> QED BY <2>1, <2>2 DEF Unflushed, Flushed, SentUpTo, FinalAt
<1> QED BY <1>1 DEF LanesInv

(* Every step takes a chunk, flushes lanes that no audio will come to, or   *)
(* leaves the lanes and their finals alone.                                 *)
LEMMA StepKinds ==
    ASSUME ItemsInv, PipelineNext
    PROVE  \/ \E n \in 0..MaxLength : \E frames \in [1..n -> BOOLEAN], rest \in BOOLEAN :
                  PipeChunk(frames, rest)
           \/ \E changes \in Changes :
                  FlushAll(changes) /\ NoAudio /\ NoAudio' /\ listening' = listening
           \/ /\ UNCHANGED <<lane, emitted, pipe>> /\ (listening' => listening)
              /\ NoAudio => NoAudio'
<1>1. ASSUME UNCHANGED <<lane, emitted, pipe, channel>>, listening' => listening,
             senders' \subseteq senders
      PROVE  /\ UNCHANGED <<lane, emitted, pipe>> /\ (listening' => listening)
             /\ NoAudio => NoAudio'
  BY <1>1 DEF NoAudio
<1>2. ASSUME NEW changes \in Changes, PipeFlush(changes)
      PROVE  FlushAll(changes) /\ NoAudio /\ NoAudio' /\ listening' = listening
  <2>1. /\ channel \in Seq(Item) /\ channel # <<>> /\ channel[1].kind = "flush"
        /\ channel' = Tail(channel) /\ senders' = senders
    BY <1>2 DEF PipeFlush, ItemsInv, ctl
  <2>2. /\ Len(channel) \in Nat /\ 1 \in 1..Len(channel)
        /\ Len(channel') = Len(channel) - 1
        /\ \A i \in 1..Len(channel') : channel'[i] = channel[i + 1]
    BY <2>1
  <2>3. \A i \in 1..Len(channel) : i = 1 \/ 1 < i
    OBVIOUS
  <2>4. \A i \in 1..Len(channel) : channel[i].kind = "flush"
    BY <2>1, <2>2, <2>3 DEF ItemsInv
  <2>5. "state" \notin senders
    <3>1. channel[1].kind # "audio"
      BY <2>1
    <3> QED BY <2>2, <3>1 DEF ItemsInv
  <2>6. \A i \in 1..Len(channel') : i + 1 \in 1..Len(channel)
    BY <2>2
  <2>7. NoAudio /\ NoAudio'
    BY <2>1, <2>2, <2>4, <2>5, <2>6 DEF NoAudio
  <2> QED BY <1>2, <2>7 DEF PipeFlush
<1>3. ASSUME NEW changes \in Changes, PipeEnd(changes)
      PROVE  FlushAll(changes) /\ NoAudio /\ NoAudio' /\ listening' = listening
  <2>1. channel = <<>> /\ senders = {} /\ channel' = channel /\ senders' = senders
        /\ FlushAll(changes) /\ listening' = listening
    BY <1>3 DEF PipeEnd, ctl
  <2> QED BY <2>1 DEF NoAudio
<1>4. ASSUME NEW l \in Lanes, NEW n \in 1..MaxLength, Capture(l, n)
      PROVE  UNCHANGED <<lane, emitted, pipe, listening>> /\ ~NoAudio
  BY <1>4 DEF Capture, NoAudio
<1>5. ASSUME FlushSignal
      PROVE  UNCHANGED <<lane, emitted, pipe, listening>> /\ (NoAudio => NoAudio')
  <2> DEFINE c == [kind |-> "flush", lane |-> "mic_in", length |-> 0]
  <2>1. c \in Item /\ c.kind = "flush"
    BY Limits DEF Item, Lanes
  <2> HIDE DEF c
  <2>2. channel' = Append(channel, c) /\ channel \in Seq(Item) /\ senders' = senders
        /\ UNCHANGED <<lane, emitted, pipe, listening>>
    BY <1>5 DEF FlushSignal, c, ItemsInv
  <2>3. \A i \in 1..Len(channel') :
            (i \in 1..Len(channel) /\ channel'[i] = channel[i]) \/ channel'[i] = c
    BY <2>1, <2>2
  <2>4. NoAudio => NoAudio'
    BY <2>1, <2>2, <2>3 DEF NoAudio
  <2> QED BY <2>2, <2>4
<1>6. CASE Pipe
  BY <1>2, <1>3, <1>6 DEF Pipe
<1>7. CASE Manager
  <2>1. CASE StopStreams
    BY <1>1, <2>1 DEF StopStreams
  <2>2. CASE StopPipeline
    BY <1>1, <2>2 DEF StopPipeline
  <2>3. CASE Abandon
    BY <1>1, <2>3 DEF Abandon
  <2> QED BY <1>5, <1>7, <2>1, <2>2, <2>3 DEF Manager
<1>8. CASE AudioFails
  BY <1>1, <1>8 DEF AudioFails
<1>9. CASE TranscriptionGone
  BY <1>1, <1>9 DEF TranscriptionGone, ctl
<1>10. CASE Terminated
  BY <1>1, <1>10 DEF Terminated, pipelineVars, ctl
<1> QED BY <1>4, <1>6, <1>7, <1>8, <1>9, <1>10 DEF PipelineNext

LEMMA LanesStep ==
    ASSUME LanesInv, ItemsInv, PipelineNext
    PROVE  LanesInv'
<1>1. ASSUME NEW n \in 0..MaxLength, NEW frames \in [1..n -> BOOLEAN],
             NEW rest \in BOOLEAN, PipeChunk(frames, rest)
      PROVE  LanesInv'
  <2>1. n \in Nat
    BY Limits
  <2> QED BY <1>1, <2>1, LanesChunk
<1> QED BY <1>1, StepKinds, LanesFlush, LanesKept

LEMMA SpeechesInit ==
    ASSUME PipelineInit
    PROVE  LanesInv /\ ItemsInv
<1> USE DEF PipelineInit
<1>1. Lane0 \in Heard /\ Lane0.done = <<>> /\ Lane0.id = NoId
  <2>1. NoId \in Segment /\ <<>> \in Pieces
    BY DEF NoId, Segment, Pieces
  <2> QED BY <2>1 DEF Lane0, Heard
<1>2. Lane0.speaking = FALSE /\ Lane0.inSpeech = FALSE /\ Lane0.speech = 0
  BY DEF Lane0
<1>3. Whole(Lane0) /\ Over(Lane0) = 0
  BY <1>1, <1>2 DEF Whole, Over
<1>4. 1..0 = {} /\ Len(emitted) = 0 /\ Len(channel) = 0
  OBVIOUS
<1>5. \A l \in Lanes : SentUpTo(l, 0)
  BY <1>4 DEF SentUpTo
<1>6. \A l \in Lanes : lane[l] = Lane0
  OBVIOUS
<1>7. \A l \in Lanes : Unflushed(l) /\ IdOk(l, lane[l])
  BY <1>1, <1>3, <1>5, <1>6 DEF Unflushed, IdOk
<1>8. LanesInv
  BY <1>1, <1>6, <1>7 DEF LanesInv
<1>9. ItemsInv
  BY <1>4 DEF ItemsInv
<1> QED BY <1>8, <1>9

LEMMA SpeechesStep ==
    ASSUME LanesInv, ItemsInv, [PipelineNext]_pipelineVars
    PROVE  LanesInv' /\ ItemsInv'
<1>1. CASE PipelineNext
  BY <1>1, LanesStep, ItemsStep
<1>2. CASE UNCHANGED pipelineVars
  <2>1. UNCHANGED <<lane, emitted, pipe, channel, listening, senders, control>>
    BY <1>2 DEF pipelineVars, ctl
  <2>2. NoAudio => NoAudio'
    BY <2>1 DEF NoAudio
  <2>3. LanesInv'
    BY <2>1, <2>2, LanesKept
  <2> QED BY <2>1, <2>3 DEF ItemsInv
<1> QED BY <1>1, <1>2

LEMMA LanesAlways == PipelineSpec => [](LanesInv /\ ItemsInv)
BY SpeechesInit, SpeechesStep, PTL DEF PipelineSpec

LEMMA OncePerSpeech ==
    ASSUME LanesInv
    PROVE  SpeechOnce
<1> SUFFICES ASSUME NEW l \in Lanes, NEW k \in 1..lane[l].speech
             PROVE  /\ Cardinality(FinalsFor(l, k)) <= 1
                    /\ pipe = "ended" /\ listening /\ FinalsFor(l, k) = {} =>
                           k = lane[l].speech /\ lane[l].processed < lane[l].begun + MinFinal
  BY DEF SpeechOnce
<1>1. lane[l].speech \in Nat
  BY DEF LanesInv, Heard
<1>2. PICK t : SentUpTo(l, t)
  BY DEF LanesInv, Unflushed, Flushed
<1>3. \A i, j \in FinalsFor(l, k) : i = j
  BY <1>2 DEF SentUpTo, FinalAt, FinalsFor
<1>4. Cardinality(FinalsFor(l, k)) <= 1
  <2>1. CASE FinalsFor(l, k) = {}
    BY <2>1, FS_EmptySet
  <2>2. CASE FinalsFor(l, k) # {}
    <3>1. PICK i : FinalsFor(l, k) = {i}
      BY <1>3, <2>2
    <3> QED BY <3>1, FS_Singleton
  <2> QED BY <2>1, <2>2
<1>5. ASSUME pipe = "ended", listening, FinalsFor(l, k) = {}
      PROVE  k = lane[l].speech /\ Short(lane[l])
  <2>1. \A s : SentUpTo(l, s) => k \notin 1..s
    BY <1>5 DEF SentUpTo, FinalAt, FinalsFor
  <2>2. Short(lane[l]) /\ SentUpTo(l, lane[l].speech - 1)
    BY <1>5, <2>1 DEF LanesInv, Flushed
  <2>3. k \notin 1..(lane[l].speech - 1)
    BY <2>1, <2>2
  <2> QED BY <1>1, <2>2, <2>3
<1> QED BY <1>4, <1>5 DEF Short

(* Whatever ends a speech (silence, one of the flush signals, the close of  *)
(* the channel), it becomes at most one final; and exactly one by the end   *)
(* of the pipeline, if it is long enough to be told from noise and somebody *)
(* listens (pipeline.rs:1045, 1176).                                        *)
THEOREM SpeechOnceHolds == PipelineSpec => []SpeechOnce
BY LanesAlways, OncePerSpeech, PTL

-----------------------------------------------------------------------------
(* The mixer: each chunk completes at most one window.                      *)
MixInv ==
    /\ ring \in [Lanes -> Nat] /\ added \in [Lanes -> Nat] /\ windows \in Nat
    /\ MixConserves

LEMMA WindowsIn ==
    ASSUME NEW n \in Nat
    PROVE  /\ n < Window => n \div Window = 0
           /\ Window <= n /\ n < 2 * Window => n \div Window = 1
BY Limits

LEMMA WindowMore ==
    ASSUME NEW w \in Nat
    PROVE  (w + 0) * Window = w * Window /\ (w + 1) * Window = w * Window + Window
           /\ 0 * Window = 0 /\ 1 * Window = Window
BY Limits

LEMMA MaxOfTwo ==
    ASSUME NEW a \in Nat, NEW b \in Nat, a >= b
    PROVE  Max({a, b}) = a
BY DEF Max

LEMMA MinOfTwo ==
    ASSUME NEW a \in Nat, NEW b \in Nat, a <= b
    PROVE  Min({a, b}) = a
BY DEF Min

LEMMA MixStep ==
    ASSUME MixInv, NEW l \in Lanes, NEW n \in 0..MaxLength, Mix(l, n)
    PROVE  MixInv'
<1>1. PICK k \in Lanes : k # l /\ Lanes = {l, k}
  BY DEF Lanes
<1>2. PICK r \in Nat, s \in Nat, a \in Nat, b \in Nat, w \in Nat :
          r = ring[l] /\ s = ring[k] /\ a = added[l] /\ b = added[k] /\ w = windows
  BY DEF MixInv
<1>3. PICK W \in Nat, total \in Nat : W = Window /\ W > 0 /\ total = w * Window
  BY Limits
<1>4. n \in Nat /\ n <= W
  BY <1>3, Limits
<1>5. /\ r < W /\ s < W /\ a <= total + r /\ b <= total + s /\ total + r + s <= a + b
  <2>1. ring[l] < Window /\ added[l] <= windows * Window + ring[l]
    BY DEF MixInv, MixConserves
  <2>2. ring[k] < Window /\ added[k] <= windows * Window + ring[k]
    BY DEF MixInv, MixConserves
  <2>3. windows * Window + ring["mic_in"] + ring["system_out"]
            <= added["mic_in"] + added["system_out"]
    BY DEF MixInv, MixConserves
  <2>4. (l = "mic_in" /\ k = "system_out") \/ (l = "system_out" /\ k = "mic_in")
    BY <1>1 DEF Lanes
  <2>5. total + r + s <= a + b
    BY <1>2, <1>3, <2>3, <2>4
  <2> QED BY <1>2, <1>3, <2>1, <2>2, <2>5
<1> DEFINE filled == [ring EXCEPT ![l] = Min({@ + n, 8 * Window})]
<1>6. filled \in [Lanes -> Nat] /\ filled[l] = r + n /\ filled[k] = s
  <2>1. r + n \in Nat /\ 8 * Window \in Nat /\ r + n <= 8 * Window
    BY <1>3, <1>4, <1>5
  <2>2. Min({r + n, 8 * Window}) = r + n
    BY <2>1, MinOfTwo
  <2> QED BY <1>1, <1>2, <2>1, <2>2 DEF MixInv
<1>7. /\ ring' = [j \in Lanes |-> IF filled[j] > Mixable(filled) * Window
                                  THEN filled[j] - Mixable(filled) * Window ELSE 0]
      /\ windows' = windows + Mixable(filled) /\ added' = [added EXCEPT ![l] = @ + n]
  BY DEF Mix
<1>8. Mixable(filled) = Max({(r + n) \div Window, s \div Window})
  <2> HIDE DEF filled
  <2>1. {filled[j] \div Window : j \in Lanes} = {(r + n) \div Window, s \div Window}
    BY <1>1, <1>6
  <2> QED BY <2>1 DEF Mixable
<1> HIDE DEF filled
<1>9. s \div Window = 0
  BY <1>3, <1>5, WindowsIn
<1>10. added' \in [Lanes -> Nat] /\ added'[l] = a + n /\ added'[k] = b
  BY <1>1, <1>2, <1>4, <1>7 DEF MixInv
<1>11. ASSUME NEW x \in Nat, NEW y \in Nat, NEW v \in Nat, NEW u \in Nat,
              ring' \in [Lanes -> Nat], ring'[l] = x, ring'[k] = y, windows' = v,
              v * Window = u, x < W, y < W, a + n <= u + x, b <= u + y,
              u + x + y <= (a + n) + b
       PROVE  MixInv'
  <2>1. \A j \in Lanes : ring'[j] < Window /\ added'[j] <= windows' * Window + ring'[j]
    BY <1>1, <1>3, <1>10, <1>11
  <2>2. (l = "mic_in" /\ k = "system_out") \/ (l = "system_out" /\ k = "mic_in")
    BY <1>1 DEF Lanes
  <2>3. windows' * Window + ring'["mic_in"] + ring'["system_out"]
            <= added'["mic_in"] + added'["system_out"]
    <3>1. CASE l = "mic_in" /\ k = "system_out"
      BY <1>10, <1>11, <3>1
    <3>2. CASE l = "system_out" /\ k = "mic_in"
      <4>1. u + y + x <= b + (a + n)
        BY <1>4, <1>11
      <4> QED BY <1>10, <1>11, <3>2, <4>1
    <3> QED BY <2>2, <3>1, <3>2
  <2> QED BY <1>10, <1>11, <2>1, <2>3 DEF MixInv, MixConserves
<1>12. CASE r + n < W
  <2>1. Mixable(filled) = 0
    <3>1. (r + n) \div Window = 0
      BY <1>3, <1>4, <1>12, WindowsIn
    <3> QED BY <1>8, <1>9, <3>1, MaxOfTwo
  <2>2. Mixable(filled) * Window = 0 /\ windows' = w /\ w * Window = total
    BY <1>2, <1>3, <1>7, <2>1, WindowMore
  <2>3. ring' \in [Lanes -> Nat] /\ ring'[l] = r + n /\ ring'[k] = s
    BY <1>1, <1>4, <1>6, <1>7, <2>2
  <2>4. r + n \in Nat /\ a + n <= total + (r + n) /\ total + (r + n) + s <= (a + n) + b
    BY <1>4, <1>5
  <2> QED BY <1>5, <1>11, <1>12, <2>2, <2>3, <2>4
<1>13. CASE ~(r + n < W)
  <2>1. Mixable(filled) = 1
    <3>1. (r + n) \div Window = 1
      <4>1. Window <= r + n /\ r + n < 2 * Window /\ r + n \in Nat
        BY <1>3, <1>4, <1>5, <1>13
      <4> QED BY <4>1, WindowsIn
    <3> QED BY <1>8, <1>9, <3>1, MaxOfTwo
  <2>2. Mixable(filled) * Window = W /\ windows' = w + 1 /\ (w + 1) * Window = total + W
    BY <1>2, <1>3, <1>7, <2>1, WindowMore
  <2>3. (r + n) - W \in Nat /\ (r + n > W => (r + n) - W > 0) /\ ~(r + n > W) => (r + n) - W = 0
    BY <1>3, <1>4, <1>13
  <2>4. ring' \in [Lanes -> Nat] /\ ring'[l] = (r + n) - W /\ ring'[k] = 0
    BY <1>1, <1>3, <1>4, <1>5, <1>6, <1>7, <1>13, <2>2
  <2>5. /\ (r + n) - W < W /\ 0 < W /\ a + n <= (total + W) + ((r + n) - W)
        /\ b <= (total + W) + 0
        /\ (total + W) + ((r + n) - W) + 0 <= (a + n) + b
        /\ total + W \in Nat /\ w + 1 \in Nat /\ 0 \in Nat /\ (r + n) - W \in Nat
    BY <1>3, <1>4, <1>5, <1>13
  <2> QED BY <1>11, <2>2, <2>4, <2>5
<1> QED BY <1>12, <1>13

LEMMA MixAlways == PipelineSpec => []MixInv
<1>1. PipelineInit => MixInv
  <2> SUFFICES ASSUME PipelineInit PROVE MixInv
    OBVIOUS
  <2>1. 0 * Window = 0 /\ 0 < Window
    BY Limits
  <2>2. /\ ring = [l \in Lanes |-> 0] /\ added = [l \in Lanes |-> 0] /\ windows = 0
        /\ "mic_in" \in Lanes /\ "system_out" \in Lanes
    BY DEF PipelineInit, Lanes
  <2> QED BY <2>1, <2>2, Limits DEF MixInv, MixConserves
<1>2. ItemsInv /\ MixInv /\ [PipelineNext]_pipelineVars => MixInv'
  <2> SUFFICES ASSUME ItemsInv, MixInv, [PipelineNext]_pipelineVars PROVE MixInv'
    OBVIOUS
  <2>1. ASSUME UNCHANGED mixer PROVE MixInv'
    BY <2>1 DEF mixer, MixInv, MixConserves
  <2>2. ASSUME NEW frames, NEW rest, PipeChunk(frames, rest) PROVE MixInv'
    <3>1. Head(channel) \in Item
      BY <2>2 DEF PipeChunk, ItemsInv
    <3>2. Head(channel).lane \in Lanes /\ Head(channel).length \in 0..MaxLength
      BY <3>1 DEF Item
    <3> QED BY <2>2, <3>2, MixStep DEF PipeChunk
  <2>3. CASE Pipe
    BY <2>1, <2>2, <2>3 DEF Pipe, PipeFlush, PipeEnd
  <2>4. CASE Manager
    BY <2>1, <2>4 DEF Manager, StopStreams, FlushSignal, StopPipeline, Abandon
  <2>5. CASE AudioFails \/ TranscriptionGone \/ Terminated \/ UNCHANGED pipelineVars
    BY <2>1, <2>5 DEF AudioFails, TranscriptionGone, Terminated, pipelineVars
  <2>6. CASE \E l \in Lanes, n \in 1..MaxLength : Capture(l, n)
    BY <2>1, <2>6 DEF Capture
  <2> QED BY <2>3, <2>4, <2>5, <2>6 DEF PipelineNext
<1> QED BY <1>1, <1>2, LanesAlways, PTL DEF PipelineSpec

(* The ring buffer of the mixer never gets to drop samples (pipeline.rs:95):*)
(* between two chunks less than a window of either lane waits, and what was *)
(* saved covers both lanes but for what waits.                              *)
THEOREM MixConservesHolds == PipelineSpec => []MixConserves
<1>1. MixInv => MixConserves
  BY DEF MixInv
<1> QED BY <1>1, MixAlways, PTL

-----------------------------------------------------------------------------
(* When the speech of a lane began, or the next one will at the earliest;   *)
(* how far its previews have come.                                          *)
Onset(L) == IF L.speaking THEN L.begun ELSE L.processed
Shown(L) == IF L.id # NoId THEN L.lastEnd ELSE Onset(L)

(* The marks of a lane between two items: an id belongs to the speech under *)
(* way and is that of its last preview.                                     *)
Marks(L) ==
    /\ L.speaking => L.begun <= L.startSample
    /\ L.id = NoId => L.lastCount = 0
    /\ L.id # NoId =>
           /\ L.speaking /\ L.id.start = L.startSample
           /\ L.lastCount > 0 /\ L.lastEnd = L.begun + L.lastCount
           /\ L.lastEnd <= L.processed /\ L.startSample + MinPreview <= L.lastEnd

(* What a lane has sent, and what it may send: no final is named after what *)
(* is yet to begin, and no preview is ahead of the marks.                   *)
Before(L, x) == IF x.final THEN x.seg.start < Onset(L) ELSE x.end <= Shown(L)
News(L, x) == x.seg.start >= Onset(L) /\ (x.final \/ x.end > Shown(L))

(* What n frames make of a lane.                                            *)
Grown(L0, M, n) ==
    /\ Since(L0, M) /\ M.lastEnd = L0.lastEnd /\ M.lastCount = L0.lastCount
    /\ M.processed = L0.processed + n
    /\ M.speaking => M.begun <= M.startSample
    /\ M.done = <<>> /\ L0.speaking =>
           M.speaking /\ M.begun = L0.begun /\ M.startSample = L0.startSample
    /\ M.done # <<>> \/ ~L0.speaking => Onset(M) >= L0.processed
    /\ M.done # <<>> => Onset(M) > L0.processed
    /\ \A i \in 1..Len(M.done) :
           /\ Onset(L0) <= M.done[i].start /\ M.done[i].start < Onset(M)
           /\ i > 1 => L0.processed <= M.done[i].start
    /\ \A i, j \in 1..Len(M.done) : i < j => M.done[i].start < M.done[j].start

LEMMA FrameGrown ==
    ASSUME NEW L0 \in Heard, Whole(L0), NEW L, NEW n \in Nat, Grown(L0, L, n),
           NEW changes \in BOOLEAN
    PROVE  Grown(L0, Frame(L, changes), n + 1)
<1> SUFFICES ASSUME NEW F, F = Frame(L, changes) PROVE Grown(L0, F, n + 1)
  OBVIOUS
<1>1. /\ L \in Heard /\ F \in Heard /\ Since(L0, F) /\ Whole(L) /\ Whole(F)
      /\ L.processed = L0.processed + n
  <2>1. Since(L0, L) /\ L.processed = L0.processed + n
    BY DEF Grown
  <2>2. Since(L0, F)
    BY <2>1, FrameSince
  <2> QED BY <2>1, <2>2 DEF Since, Whole
<1>2. /\ L.current \in Nat /\ L.processed \in Nat /\ L.begun \in Nat /\ L.startSample \in Nat
      /\ L0.processed \in Nat /\ L0.begun \in Nat /\ L.done \in Seq(Piece)
      /\ Len(L.done) \in Nat
  BY <1>1 DEF Heard, Pieces
<1>3. Onset(L0) \in Nat /\ Onset(L0) <= L0.processed
  <2>1. L0.speaking => L0.begun <= L0.processed
    BY <1>2 DEF Whole, Heard
  <2> QED BY <1>2, <2>1 DEF Onset
<1>7. \A i \in 1..Len(L.done) : L.done[i].start \in Nat
  <2>1. \A q \in Piece : q.start \in Nat
    BY DEF Piece
  <2>2. \A i \in 1..Len(L.done) : L.done[i] \in Piece
    BY <1>2
  <2> QED BY <2>1, <2>2
<1>4. CASE ~changes
  <2>1. F = [L EXCEPT !.current = IF L.inSpeech THEN @ + 1 ELSE @, !.processed = @ + 1]
    BY <1>4 DEF Frame
  <2>2. /\ F.speaking = L.speaking /\ F.begun = L.begun /\ F.done = L.done
        /\ F.startSample = L.startSample /\ F.lastEnd = L.lastEnd
        /\ F.lastCount = L.lastCount /\ F.processed = L.processed + 1
    BY <1>1, <2>1 DEF Heard
  <2>3. Onset(F) \in Nat /\ Onset(L) \in Nat /\ Onset(L) <= Onset(F)
    BY <1>2, <2>2 DEF Onset
  <2>5. F.processed = L0.processed + (n + 1)
    BY SMTT(30), <1>1, <1>2, <2>2
  <2>6. /\ F.done # <<>> \/ ~L0.speaking => Onset(F) >= L0.processed
        /\ F.done # <<>> => Onset(F) > L0.processed
    BY <1>2, <2>2, <2>3 DEF Grown
  <2>7. ASSUME NEW i \in 1..Len(F.done)
        PROVE  /\ Onset(L0) <= F.done[i].start /\ F.done[i].start < Onset(F)
               /\ i > 1 => L0.processed <= F.done[i].start
    <3>1. /\ Onset(L0) <= L.done[i].start /\ L.done[i].start < Onset(L)
          /\ i > 1 => L0.processed <= L.done[i].start
      BY <2>2 DEF Grown
    <3> QED BY <1>7, <2>2, <2>3, <3>1
  <2> QED BY <1>1, <2>2, <2>5, <2>6, <2>7 DEF Grown
<1>5. CASE changes /\ L.speaking
  <2> DEFINE p == [speech |-> L.speech, start |-> L.begun, end |-> L.processed,
                   length |-> MinFinal]
             N == Len(L.done)
  <2>1. F = [SpeechEnds(L) EXCEPT !.current = IF SpeechEnds(L).inSpeech THEN @ + 1 ELSE @,
                                  !.processed = @ + 1]
    BY <1>5 DEF Frame
  <2>2. /\ F.speaking = FALSE /\ F.done = Append(L.done, p)
        /\ F.lastEnd = L.lastEnd /\ F.lastCount = L.lastCount
        /\ F.processed = L.processed + 1
    BY <1>1, <2>1 DEF SpeechEnds, Heard
  <2>3. p \in Piece /\ p.start = L.begun
    BY <1>1, Limits DEF Heard, Piece
  <2> HIDE DEF p
  <2>4. /\ Len(F.done) = N + 1 /\ F.done[N + 1] = p /\ F.done # <<>>
        /\ \A i \in 1..N : F.done[i] = L.done[i]
    BY SMTT(30), <1>2, <2>2, <2>3
  <2>5. \A i \in 1..(N + 1) : i \in 1..N \/ i = N + 1
    BY <1>2
  <2>6. Onset(F) = L.processed + 1 /\ Onset(L) = L.begun /\ L.begun < L.processed
    <3>1. L.current > 0 /\ L.processed = L.begun + L.current
      BY <1>1, <1>5 DEF Whole
    <3>2. Onset(F) = L.processed + 1 /\ Onset(L) = L.begun
      BY <1>5, <2>2 DEF Onset
    <3>3. L.begun < L.processed
      BY <1>2, <3>1
    <3> QED BY <3>2, <3>3
  <2>7. L.begun >= Onset(L0) /\ (N > 0 => L.begun >= L0.processed)
    <3>1. CASE L.done = <<>> /\ L0.speaking
      BY <1>2, <3>1 DEF Grown, Onset
    <3>2. CASE L.done # <<>> \/ ~L0.speaking
      <4>1. Onset(L) >= L0.processed
        BY <3>2 DEF Grown
      <4> QED BY <1>2, <1>3, <2>6, <4>1
    <3> QED BY <3>1, <3>2
  <2>8. ASSUME NEW i \in 1..N
        PROVE  /\ Onset(L0) <= F.done[i].start /\ F.done[i].start < L.begun
               /\ i > 1 => L0.processed <= F.done[i].start
               /\ F.done[i].start \in Nat
    BY <1>7, <2>4, <2>6 DEF Grown
  <2>9. F.done[N + 1].start = L.begun
    BY <2>3, <2>4
  <2>10. ASSUME NEW i \in 1..Len(F.done)
         PROVE  /\ Onset(L0) <= F.done[i].start /\ F.done[i].start < Onset(F)
                /\ i > 1 => L0.processed <= F.done[i].start
    <3>1. CASE i \in 1..N
      <4> HIDE DEF N
      <4> QED BY <1>2, <2>6, <2>8, <3>1
    <3>2. CASE i = N + 1
      <4>1. i > 1 => N > 0
        BY <1>2, <3>2
      <4> HIDE DEF N
      <4> QED BY <1>2, <2>6, <2>7, <2>9, <3>2, <4>1
    <3> QED BY <2>4, <2>5, <3>1, <3>2
  <2>11. ASSUME NEW i \in 1..Len(F.done), NEW j \in 1..Len(F.done), i < j
         PROVE  F.done[i].start < F.done[j].start
    <3>1. i \in 1..N
      BY <1>2, <2>4, <2>11
    <3>2. CASE j \in 1..N
      BY <2>4, <2>11, <3>1, <3>2 DEF Grown
    <3>3. CASE j = N + 1
      BY <2>8, <2>9, <3>1, <3>3
    <3> QED BY <2>4, <2>5, <3>2, <3>3
  <2>12. /\ F.processed = L0.processed + (n + 1) /\ Onset(F) > L0.processed
         /\ Onset(F) >= L0.processed
    BY <1>1, <1>2, <2>2, <2>6
  <2> HIDE DEF N
  <2> QED BY <1>1, <2>2, <2>4, <2>10, <2>11, <2>12 DEF Grown
<1>6. CASE changes /\ ~L.speaking
  <2>1. F = [SpeechStarts(L) EXCEPT !.current = IF SpeechStarts(L).inSpeech THEN @ + 1 ELSE @,
                                    !.processed = @ + 1]
    BY <1>6 DEF Frame
  <2>2. /\ F.speaking = TRUE /\ F.done = L.done
        /\ F.startSample = L.processed + (IF Relative THEN 0 ELSE L.processed)
        /\ F.begun = L.processed /\ F.processed = L.processed + 1
        /\ F.lastEnd = L.lastEnd /\ F.lastCount = L.lastCount
    BY <1>1, <2>1 DEF SpeechStarts, Heard
  <2>3. Onset(F) = Onset(L) /\ Onset(L) = L.processed
    BY <1>6, <2>2 DEF Onset
  <2>4. F.begun <= F.startSample
    BY <1>2, <2>2
  <2>5. ~(L.done = <<>> /\ L0.speaking)
    BY <1>6 DEF Grown
  <2>6. F.processed = L0.processed + (n + 1)
    BY SMTT(30), <1>1, <1>2, <2>2
  <2> QED BY <1>1, <2>2, <2>3, <2>4, <2>5, <2>6 DEF Grown
<1> QED BY <1>4, <1>5, <1>6

LEMMA GrownItself ==
    ASSUME NEW L, Whole(L), L.done = <<>>, Marks(L)
    PROVE  Grown(L, L, 0)
<1>1. L \in Heard /\ Since(L, L)
  BY SinceItself DEF Whole
<1>2. L.processed \in Nat /\ L.begun \in Nat
  BY <1>1 DEF Heard
<1>3. Onset(L) >= L.processed \/ L.speaking
  BY <1>2 DEF Onset
<1>4. Len(L.done) = 0 /\ 1..0 = {} /\ L.processed = L.processed + 0
  BY <1>2
<1> QED BY <1>1, <1>3, <1>4 DEF Grown, Marks

LEMMA ProcessGrown ==
    ASSUME NEW L, Whole(L), L.done = <<>>, Marks(L), NEW n \in Nat,
           NEW frames \in [1..n -> BOOLEAN], NEW rest \in BOOLEAN
    PROVE  Grown(L, ProcessAudio(L, frames, rest), n)
<1>1. L \in Heard /\ Since(L, L)
  BY SinceItself DEF Whole
<1>2. PICK f \in [0..n -> Heard] : Heeds(f, L, n, frames, rest)
  BY <1>1, ProcessSteps
<1>3. \A i \in 1..n : i \in 0..n /\ frames[i] \in BOOLEAN /\ i - 1 \in Nat /\ (i - 1) + 1 = i
  OBVIOUS
<1>4. Grown(L, L, 0)
  BY GrownItself
<1> DEFINE Good == {i \in 0..n : Grown(L, f[i], i)}
<1>5. 0 \in Good
  BY <1>2, <1>4 DEF Heeds
<1>6. \A i \in 1..n : i - 1 \in Good => i \in Good
  BY <1>1, <1>2, <1>3, FrameGrown DEF Heeds
<1>7. n \in Good
  <2> HIDE DEF Good
  <2> QED BY <1>5, <1>6, Climbs
<1>8. Grown(L, f[n], n) /\ ProcessAudio(L, frames, rest) = [f[n] EXCEPT !.rest = rest]
  BY <1>2, <1>7 DEF Heeds
<1>9. Since(L, ProcessAudio(L, frames, rest))
  BY <1>1, ProcessSince
<1>10. SUFFICES ASSUME NEW M, Grown(L, M, n), NEW P, P = [M EXCEPT !.rest = rest],
                       Since(L, P)
                PROVE  Grown(L, P, n)
  BY <1>8, <1>9
<1>11. M \in Heard
  BY <1>10 DEF Grown, Since, Whole
<1> QED BY <1>10, <1>11, RestOf DEF Grown, Onset

-----------------------------------------------------------------------------
(* What a chunk sends on a lane whose marks were L.                         *)
Apart(out) == \A i, j \in 1..Len(out) : i < j => out[i].seg # out[j].seg
Novel(l, L, out) ==
    /\ out \in Seq(Output) /\ Apart(out)
    /\ \A i \in 1..Len(out) : out[i].seg.lane = l /\ News(L, out[i])

LEMMA MarksBound ==
    ASSUME NEW L, Whole(L), Marks(L)
    PROVE  /\ Onset(L) \in Nat /\ Shown(L) \in Nat /\ Onset(L) <= L.processed
           /\ Shown(L) <= L.processed /\ L.processed \in Nat
<1>1. /\ L.processed \in Nat /\ L.begun \in Nat /\ L.lastEnd \in Nat /\ L.current \in Nat
  BY DEF Whole, Heard
<1>2. L.speaking => L.begun <= L.processed
  BY <1>1 DEF Whole
<1>3. Onset(L) \in Nat /\ Onset(L) <= L.processed
  BY <1>1, <1>2 DEF Onset
<1>4. L.id # NoId => L.lastEnd <= L.processed
  BY DEF Marks
<1> QED BY <1>1, <1>3, <1>4 DEF Shown

LEMMA SinceFinals ==
    ASSUME NEW L, NEW M, Since(L, M)
    PROVE  /\ Finals(M) \in Seq(Piece) /\ Len(Finals(M)) = Len(M.done)
           /\ \A i \in 1..Len(Finals(M)) : Finals(M)[i] = M.done[i]
<1>1. M \in Heard /\ M.done \in Seq(Piece) /\ Len(M.done) \in Nat
  BY DEF Since, Whole, Heard, Pieces
<1>2. \A i \in 1..Len(M.done) : M.done[i].length >= MinFinal
  BY Limits DEF Since
<1>3. Len(M.done) = 0 \/ Len(M.done) \in 1..Len(M.done)
  BY <1>1
<1> QED BY <1>1, <1>2, <1>3, FinalsAre

(* The finals of a chunk or of a flush: the first may bear the id.          *)
LEMMA FinalsSay ==
    ASSUME NEW l \in Lanes, NEW L, Whole(L), Marks(L), IdOk(l, L), NEW n \in Nat, NEW M,
           Grown(L, M, n), NEW S \in Heard, S.done = M.done, S.id \in {L.id, NoId},
           M.done # <<>>
    PROVE  /\ Novel(l, L, FinalsOf(l, S))
           /\ \A i \in 1..Len(FinalsOf(l, S)) :
                  FinalsOf(l, S)[i].final /\ FinalsOf(l, S)[i].seg.start < Onset(M)
<1> DEFINE o == FinalsOf(l, S)
           N == Len(M.done)
<1>1. Since(L, M) /\ M \in Heard /\ Whole(M)
  BY DEF Grown, Since, Whole
<1>2. /\ Finals(M) \in Seq(Piece) /\ Len(Finals(M)) = N
      /\ \A i \in 1..N : Finals(M)[i] = M.done[i]
  BY <1>1, SinceFinals
<1>3. Finals(S) = Finals(M)
  BY DEF Finals
<1>4. IdOk(l, S)
  BY DEF IdOk
<1>5. o \in Seq(Output) /\ Len(o) = N /\ \A i \in 1..N : o[i].final /\ o[i].seg.lane = l
  BY <1>2, <1>3, <1>4, FinalsSent
<1>6. \A i \in 1..N : M.done[i].start \in Nat
  <2>1. \A q \in Piece : q.start \in Nat
    BY DEF Piece
  <2>2. \A i \in 1..N : M.done[i] \in Piece
    BY SMTT(30), <1>1 DEF Heard, Pieces
  <2> QED BY <2>1, <2>2
<1>7. ASSUME NEW i \in 1..N
      PROVE  o[i].seg = SegmentId(l, IF i = 1 THEN S ELSE ClearSegment(S), M.done[i].start)
  BY <1>2, <1>3 DEF FinalsOf
<1>8. /\ Onset(L) \in Nat /\ Onset(L) <= L.processed /\ L.processed \in Nat
      /\ Onset(M) > L.processed /\ Onset(M) \in Nat /\ MinPreview \in Nat /\ MinPreview > 0
  <2>1. M.processed \in Nat /\ M.begun \in Nat
    BY <1>1 DEF Heard
  <2>2. Onset(M) \in Nat
    BY <2>1 DEF Onset
  <2>3. MinPreview \in Nat /\ MinPreview > 0
    BY PipelineAssumption
  <2> QED BY <2>2, <2>3, MarksBound DEF Grown
<1>9. ASSUME NEW i \in 1..N, i > 1
      PROVE  o[i].seg.start = M.done[i].start
  <2>1. ClearSegment(S).id = NoId
    BY Cleared
  <2>2. o[i].seg = SegmentId(l, ClearSegment(S), M.done[i].start)
    BY <1>7, <1>9
  <2> QED BY <2>1, <2>2 DEF SegmentId
<1>10. ASSUME 1 \in 1..N
       PROVE  \/ o[1].seg.start = M.done[1].start
              \/ /\ o[1].seg.start = L.startSample /\ L.startSample \in Nat
                 /\ Onset(L) <= L.startSample /\ L.startSample < L.processed
  <2>1. o[1].seg = SegmentId(l, S, M.done[1].start)
    BY <1>7, <1>10
  <2>2. CASE S.id = NoId
    BY <2>1, <2>2 DEF SegmentId
  <2>3. CASE S.id # NoId
    <3>1. S.id = L.id /\ L.id # NoId /\ o[1].seg = L.id
      BY <2>1, <2>3 DEF SegmentId
    <3>2. /\ L.id.start = L.startSample /\ L.startSample \in Nat /\ L.lastEnd \in Nat
          /\ L.begun \in Nat
          /\ L.startSample + MinPreview <= L.lastEnd /\ L.lastEnd <= L.processed
          /\ Onset(L) <= L.startSample
      BY <3>1 DEF Marks, Whole, Heard, Onset
    <3>3. L.startSample < L.processed
      BY <1>8, <3>2
    <3> QED BY <3>1, <3>2, <3>3
  <2> QED BY <2>2, <2>3
<1>11. \A i \in 1..N : /\ Onset(L) <= M.done[i].start /\ M.done[i].start < Onset(M)
                       /\ i > 1 => L.processed <= M.done[i].start
  BY DEF Grown
<1>12. \A i \in 1..N : i > 1 \/ (i = 1 /\ 1 \in 1..N)
  OBVIOUS
<1> HIDE DEF o, N
<1>13. ASSUME NEW i \in 1..N
       PROVE  Onset(L) <= o[i].seg.start /\ o[i].seg.start < Onset(M)
  <2>1. CASE i > 1
    BY <1>9, <1>11, <2>1
  <2>2. CASE i = 1 /\ 1 \in 1..N
    BY <1>8, <1>10, <1>11, <2>2
  <2> QED BY <1>12, <2>1, <2>2
<1>14. ASSUME NEW i \in 1..N, NEW j \in 1..N, i < j
       PROVE  o[i].seg.start < o[j].seg.start
  <2>1. M.done[i].start < M.done[j].start
    BY <1>14 DEF Grown, N
  <2>2. j > 1 /\ o[j].seg.start = M.done[j].start /\ L.processed <= M.done[j].start
    BY <1>9, <1>11, <1>14
  <2>3. CASE i > 1
    BY <1>9, <2>1, <2>2, <2>3
  <2>4. CASE i = 1 /\ 1 \in 1..N
    <3>1. CASE o[1].seg.start = M.done[1].start
      BY <2>1, <2>2, <2>4, <3>1
    <3>2. CASE o[1].seg.start = L.startSample /\ L.startSample < L.processed /\ L.startSample \in Nat
      BY <1>6, <1>8, <2>2, <2>4, <3>2
    <3> QED BY <1>10, <2>4, <3>1, <3>2
  <2> QED BY <1>12, <2>3, <2>4
<1>15. Apart(o)
  <2>1. \A i \in 1..N : o[i].seg.start \in Nat
    BY <1>6, <1>9, <1>10, <1>12
  <2> QED BY <1>5, <1>14, <2>1 DEF Apart
<1> QED BY <1>5, <1>8, <1>13, <1>15 DEF Novel, News, o

LEMMA NothingDone ==
    ASSUME NEW l \in Lanes, NEW F \in Heard, IdOk(l, F), F.done = <<>>
    PROVE  FinalsOf(l, F) \in Seq(Output) /\ Len(FinalsOf(l, F)) = 0
<1>1. Len(F.done) = 0 /\ 1..0 = {}
  OBVIOUS
<1>2. Finals(F) \in Seq(Piece) /\ Len(Finals(F)) = 0
  BY <1>1, FinalsAre
<1> QED BY ZenonT(30), <1>2, FinalsSent

(* A lane that has moved on from L to A, having sent out.                   *)
Onward(l, L, A, out) ==
    /\ Marks(A) /\ Onset(L) <= Onset(A) /\ Shown(L) <= Shown(A)
    /\ Novel(l, L, out) /\ \A i \in 1..Len(out) : Before(A, out[i])

LEMMA ChunkSays ==
    ASSUME NEW l \in Lanes, NEW L, Whole(L), L.done = <<>>, IdOk(l, L), Marks(L),
           NEW n \in 0..MaxLength, NEW M, Grown(L, M, n), NEW S, S = AfterPreview(l, M),
           NEW A, A = AfterFinals(S)
    PROVE  Onward(l, L, A, PreviewOf(l, M) \o FinalsOf(l, S))
<1>1. Since(L, M) /\ M \in Heard /\ Whole(M) /\ M.id = L.id /\ IdOk(l, M)
  BY DEF Grown, Since, Whole, IdOk
<1>2. /\ Named(M, S) /\ IdOk(l, S) /\ S.done = M.done
      /\ PreviewOf(l, M) \in Seq(Output)
  BY <1>1, Previewed
<1>3. S \in Heard /\ Named(S, A) /\ A \in Heard
  BY <1>2, Finished DEF Named
<1>4. /\ A.speaking = M.speaking /\ A.begun = M.begun /\ A.processed = M.processed
      /\ A.current = M.current
  BY <1>2, <1>3 DEF Named
<1>5. Onset(A) = Onset(M)
  BY <1>4 DEF Onset
<1>6. /\ M.processed \in Nat /\ M.begun \in Nat /\ M.startSample \in Nat /\ M.current \in Nat
      /\ n \in Nat /\ n <= MinPreview /\ MinPreview \in Nat /\ MinPreview > 0
      /\ MinInterval \in Nat /\ MinInterval > 0 /\ MinGrowth \in Nat /\ MinGrowth > 0
  BY <1>1, PipelineAssumption DEF Heard
<1>7. /\ Onset(L) \in Nat /\ Shown(L) \in Nat /\ Onset(L) <= L.processed
      /\ Shown(L) <= L.processed /\ L.processed \in Nat /\ M.processed = L.processed + n
      /\ L.lastEnd \in Nat /\ L.lastCount \in Nat /\ L.begun \in Nat
  BY MarksBound DEF Grown, Whole, Heard
<1>8. /\ M.lastEnd = L.lastEnd /\ M.lastCount = L.lastCount
      /\ M.speaking => M.begun <= M.startSample /\ M.inSpeech = TRUE /\ M.current > 0
                       /\ M.processed = M.begun + M.current
      /\ ~M.speaking => M.inSpeech = FALSE
  BY <1>1 DEF Grown, Whole, Heard
<1>9. ASSUME M.done # <<>> PROVE ~PreviewDue(M)
  <2>1. SUFFICES ASSUME PreviewDue(M) PROVE FALSE
    OBVIOUS
  <2>2. M.speaking /\ M.processed >= M.startSample + MinPreview
    BY <1>1, <2>1 DEF PreviewDue, Whole
  <2>3. M.begun > L.processed
    BY <1>9, <2>2 DEF Grown, Onset
  <2> QED BY <1>6, <1>7, <1>8, <2>2, <2>3
<1>10. A.startSample = M.startSample
  <2>1. S.startSample = M.startSample
    BY <1>1 DEF AfterPreview, ClearSegment, Heard
  <2>2. ClearSegment(S).startSample = S.startSample /\ ClearSegment(S) \in Heard
    BY <1>3, Cleared DEF ClearSegment, Named, Heard
  <2> QED BY <1>3, <2>1, <2>2 DEF AfterFinals, Heard
<1>11. CASE M.done # <<>>
  <2>1. PreviewOf(l, M) = <<>>
    BY <1>9, <1>11 DEF PreviewOf
  <2>2. S.id \in {L.id, NoId}
    <3>1. S = M \/ S = ClearSegment(M)
      BY <1>9, <1>11 DEF AfterPreview
    <3> QED BY <1>1, <3>1, Cleared
  <2>3. /\ Novel(l, L, FinalsOf(l, S)) /\ FinalsOf(l, S) \in Seq(Output)
        /\ \A i \in 1..Len(FinalsOf(l, S)) :
               FinalsOf(l, S)[i].final /\ FinalsOf(l, S)[i].seg.start < Onset(M)
    BY <1>2, <1>3, <1>6, <1>11, <2>2, FinalsSay DEF Novel
  <2>4. PreviewOf(l, M) \o FinalsOf(l, S) = FinalsOf(l, S)
    BY <2>1, <2>3
  <2>5. Finals(S) # <<>>
    <3>1. Len(M.done) # 0
      BY <1>1, <1>11 DEF Heard, Pieces
    <3>2. Finals(S) = Finals(M)
      BY <1>2 DEF Finals
    <3> QED BY <1>1, <3>1, <3>2, SinceFinals
  <2>6. A.id = NoId /\ A.lastCount = 0
    <3>1. PICK C : C = ClearSegment(S)
      OBVIOUS
    <3>2. C \in Heard /\ C.id = NoId
      BY <1>3, <3>1, Cleared DEF Named
    <3>3. C.lastCount = 0
      BY <1>3, <3>1 DEF ClearSegment, Heard
    <3>4. A = [C EXCEPT !.done = <<>>]
      BY <2>5, <3>1 DEF AfterFinals
    <3> QED BY <3>2, <3>3, <3>4 DEF Heard
  <2>7. Marks(A)
    BY <1>4, <1>8, <1>10, <2>6 DEF Marks
  <2>8. Shown(A) = Onset(M) /\ Onset(M) > L.processed /\ Onset(M) \in Nat
    BY <1>5, <1>6, <1>11, <2>6 DEF Shown, Grown, Onset
  <2>9. Onset(L) <= Onset(A) /\ Shown(L) <= Shown(A)
    BY <1>5, <1>7, <2>8
  <2>10. \A i \in 1..Len(FinalsOf(l, S)) : Before(A, FinalsOf(l, S)[i])
    BY <1>5, <2>3 DEF Before
  <2> QED BY <2>3, <2>4, <2>7, <2>9, <2>10 DEF Onward
<1>12. CASE M.done = <<>>
  <2>1. Finals(S) = <<>>
    <3>1. Finals(S) = Finals(M) /\ Len(M.done) = 0
      BY <1>2, <1>12 DEF Finals
    <3>2. Len(Finals(M)) = 0 /\ Finals(M) \in Seq(Piece)
      BY <1>1, <3>1, SinceFinals
    <3> QED BY <3>1, <3>2
  <2>2. FinalsOf(l, S) = <<>>
    <3>1. FinalsOf(l, S) \in Seq(Output) /\ Len(FinalsOf(l, S)) = 0
      BY <1>2, <1>3, <1>12, NothingDone
    <3> QED BY <3>1
  <2>3. PreviewOf(l, M) \o FinalsOf(l, S) = PreviewOf(l, M)
    BY <1>2, <2>2
  <2>4. A.id = S.id /\ A.lastEnd = S.lastEnd /\ A.lastCount = S.lastCount
    <3>1. A = [S EXCEPT !.done = <<>>]
      BY <2>1 DEF AfterFinals
    <3> QED BY <1>3, <3>1 DEF Heard
  <2>5. Onset(M) \in Nat /\ Onset(L) <= Onset(M)
    <3>1. CASE L.speaking
      BY <1>6, <1>7, <1>12, <3>1 DEF Grown, Onset
    <3>2. CASE ~L.speaking
      <4>1. Onset(M) >= L.processed /\ Onset(M) \in Nat
        BY <1>6, <3>2 DEF Grown, Onset
      <4> QED BY <1>7, <4>1
    <3> QED BY <3>1, <3>2
  <2>6. ASSUME PreviewOf(l, M) = <<>>
        PROVE  Novel(l, L, PreviewOf(l, M)) /\ \A i \in 1..Len(PreviewOf(l, M)) :
                   Before(A, PreviewOf(l, M)[i])
    <3>1. Len(PreviewOf(l, M)) = 0 /\ 1..0 = {}
      BY <2>6
    <3> QED BY <1>2, <3>1 DEF Novel, Apart
  <2>7. L.id # NoId => /\ L.speaking /\ M.speaking /\ M.begun = L.begun
                       /\ M.startSample = L.startSample /\ L.id.start = L.startSample
                       /\ L.lastCount > 0 /\ L.lastEnd = L.begun + L.lastCount
                       /\ L.lastEnd <= L.processed
                       /\ L.startSample + MinPreview <= L.lastEnd
    BY <1>12 DEF Marks, Grown
  <2>8. CASE ~M.speaking
    <3>1. S = ClearSegment(M) /\ PreviewOf(l, M) = <<>>
      BY <1>8, <2>8 DEF AfterPreview, PreviewOf, PreviewDue
    <3>2. A.id = NoId /\ A.lastCount = 0
      BY <1>1, <2>4, <3>1 DEF ClearSegment, Heard
    <3>3. Marks(A)
      BY <1>4, <2>8, <3>2 DEF Marks
    <3>4. Shown(A) = M.processed
      BY <1>5, <2>8, <3>2 DEF Shown, Onset
    <3>5. Shown(L) <= Shown(A)
      BY <1>6, <1>7, <3>4
    <3> QED BY <1>5, <2>3, <2>5, <2>6, <3>1, <3>3, <3>5 DEF Onward
  <2>9. CASE M.speaking /\ ~PreviewDue(M)
    <3>1. S = M /\ PreviewOf(l, M) = <<>>
      BY <1>8, <2>9 DEF AfterPreview, PreviewOf
    <3>2. A.id = L.id /\ A.lastEnd = L.lastEnd /\ A.lastCount = L.lastCount
      BY <1>1, <1>8, <2>4, <3>1
    <3>3. L.id # NoId => L.lastEnd <= A.processed
      BY <1>4, <1>6, <1>7, <2>7
    <3>4. Marks(A)
      BY <1>4, <1>8, <1>10, <2>7, <3>2, <3>3 DEF Marks
    <3>5. Shown(L) <= Shown(A)
      BY <1>5, <1>7, <2>5, <3>2 DEF Shown
    <3> QED BY <1>5, <2>3, <2>5, <2>6, <3>1, <3>4, <3>5 DEF Onward
  <2>10. CASE M.speaking /\ PreviewDue(M)
    <3>1. PICK s : s = SegmentId(l, M, M.startSample)
      OBVIOUS
    <3>2. s \in Segment /\ s.lane = l /\ s # NoId
      BY <1>1, <1>6, <3>1, IdOfLane DEF NoId, Lanes
    <3>3. S = [M EXCEPT !.id = s, !.lastEnd = M.processed, !.lastCount = M.current]
      BY <1>8, <2>10, <3>1 DEF AfterPreview
    <3>4. A.id = s /\ A.lastEnd = M.processed /\ A.lastCount = M.current
      BY <1>1, <2>4, <3>3 DEF Heard
    <3>5. s.start = M.startSample
      <4>1. CASE L.id = NoId
        BY <1>1, <3>1, <4>1 DEF SegmentId
      <4>2. CASE L.id # NoId
        BY <1>1, <2>7, <3>1, <4>2 DEF SegmentId
      <4> QED BY <4>1, <4>2
    <3>6. M.startSample + MinPreview <= M.processed
      BY <1>6, <2>10 DEF PreviewDue
    <3>7. Marks(A)
      BY <1>4, <1>6, <1>8, <1>10, <2>10, <3>2, <3>4, <3>5, <3>6 DEF Marks
    <3>8. Shown(A) = M.processed /\ Shown(L) <= Shown(A)
      BY <1>6, <1>7, <3>2, <3>4 DEF Shown
    <3>9. Shown(L) < M.processed
      <4>1. CASE L.id = NoId
        <5>1. Shown(L) = Onset(L) /\ Onset(M) = M.begun
          BY <2>10, <4>1 DEF Shown, Onset
        <5> QED BY <1>6, <1>7, <1>8, <2>5, <2>10, <5>1
      <4>2. CASE L.id # NoId
        <5>1. Shown(L) = L.lastEnd
          BY <4>2 DEF Shown
        <5>2. \/ L.lastCount = 0
              \/ M.processed >= L.lastEnd + MinInterval
              \/ M.current >= L.lastCount + MinGrowth
          BY <1>8, <2>10 DEF PreviewDue
        <5>3. M.current >= L.lastCount + MinGrowth => M.processed > L.lastEnd
          BY SMTT(30), <1>6, <1>7, <1>8, <2>7, <2>10, <4>2
        <5>4. M.processed >= L.lastEnd + MinInterval => M.processed > L.lastEnd
          BY <1>6, <1>7
        <5> QED BY <2>7, <4>2, <5>1, <5>2, <5>3, <5>4
      <4> QED BY <4>1, <4>2
    <3>10. PICK x : x = [seg |-> s, speech |-> M.speech, end |-> M.processed, final |-> FALSE]
      OBVIOUS
    <3>11. PreviewOf(l, M) = <<x>>
      BY <2>10, <3>1, <3>10 DEF PreviewOf
    <3>12. News(L, x) /\ Before(A, x) /\ x.seg.lane = l
      <4>1. Onset(L) <= M.startSample
        BY <1>6, <1>7, <1>8, <2>5, <2>10 DEF Onset
      <4>2. x.seg = s /\ x.end = M.processed /\ x.final = FALSE
        BY <3>10
      <4>3. s.start >= Onset(L) /\ M.processed > Shown(L) /\ M.processed <= Shown(A)
        BY <1>6, <1>7, <3>5, <3>8, <3>9, <4>1
      <4> QED BY <3>2, <4>2, <4>3 DEF News, Before
    <3>13. Len(<<x>>) = 1 /\ <<x>>[1] = x /\ \A i \in 1..1 : i = 1
      OBVIOUS
    <3>14. Novel(l, L, <<x>>) /\ \A i \in 1..Len(<<x>>) : Before(A, <<x>>[i])
      BY <1>2, <3>11, <3>12, <3>13 DEF Novel, Apart
    <3> QED BY <1>5, <2>3, <2>5, <3>7, <3>8, <3>11, <3>14 DEF Onward
  <2> QED BY <2>8, <2>9, <2>10
<1> QED BY <1>11, <1>12

LEMMA FlushSays ==
    ASSUME NEW l \in Lanes, NEW L, Whole(L), L.done = <<>>, IdOk(l, L), Marks(L),
           NEW changes \in BOOLEAN
    PROVE  Novel(l, L, FinalsOf(l, FlushLane(L, changes)))
<1> DEFINE M == IF L.rest THEN Frame([L EXCEPT !.rest = FALSE], changes) ELSE L
<1>1. \E n \in Nat : n <= 1 /\ Grown(L, M, n)
  <2>1. Grown(L, L, 0)
    BY GrownItself
  <2>2. CASE ~L.rest
    BY <2>1, <2>2
  <2>3. CASE L.rest
    <3>1. PICK K : K = [L EXCEPT !.rest = FALSE]
      OBVIOUS
    <3>2. L \in Heard
      BY DEF Whole
    <3>3. /\ K \in Heard /\ K.speaking = L.speaking /\ K.inSpeech = L.inSpeech
          /\ K.speech = L.speech /\ K.begun = L.begun /\ K.done = L.done /\ K.id = L.id
          /\ K.current = L.current /\ K.processed = L.processed
          /\ K.startSample = L.startSample /\ K.lastEnd = L.lastEnd
          /\ K.lastCount = L.lastCount
      BY <3>1, <3>2 DEF Heard
    <3>4. Since(L, L) /\ Onset(K) = Onset(L)
      BY <3>3, SinceItself DEF Onset
    <3>5. Since(L, K)
      BY <3>3, <3>4 DEF Since, Whole, Over
    <3>6. Grown(L, K, 0)
      BY <2>1, <3>3, <3>4, <3>5 DEF Grown
    <3>7. Grown(L, Frame(K, changes), 0 + 1)
      BY <3>2, <3>6, FrameGrown
    <3> QED BY <2>3, <3>1, <3>7
  <2> QED BY <2>2, <2>3
<1>2. FlushLane(L, changes) =
          IF M.inSpeech /\ M.current > 0
          THEN [M EXCEPT !.done = Append(@, [speech |-> M.speech, start |-> M.startSample,
                                             end |-> M.processed, length |-> M.current]),
                         !.current = 0, !.inSpeech = FALSE]
          ELSE M
  BY DEF FlushLane
<1> HIDE DEF M
<1>3. PICK n \in Nat : n <= 1 /\ Grown(L, M, n)
  BY <1>1
<1>4. Since(L, M) /\ M \in Heard /\ Whole(M) /\ M.id = L.id /\ IdOk(l, M)
  BY <1>3 DEF Grown, Since, Whole, IdOk
<1>5. ASSUME NEW F \in Heard, IdOk(l, F), F.done = <<>>
      PROVE  Novel(l, L, FinalsOf(l, F))
  <2>1. FinalsOf(l, F) \in Seq(Output) /\ Len(FinalsOf(l, F)) = 0 /\ 1..0 = {}
    BY <1>5, NothingDone
  <2> QED BY <2>1 DEF Novel, Apart
<1>6. CASE ~(M.inSpeech /\ M.current > 0)
  <2>1. FlushLane(L, changes) = M
    BY <1>2, <1>6
  <2>2. CASE M.done = <<>>
    BY <1>4, <1>5, <2>1, <2>2
  <2>3. CASE M.done # <<>>
    BY <1>3, <1>4, <2>1, <2>3, FinalsSay
  <2> QED BY <2>2, <2>3
<1>7. CASE M.inSpeech /\ M.current > 0
  <2>1. /\ M.speaking /\ M.processed = M.begun + M.current /\ M.current > 0
        /\ M.processed = L.processed + n /\ M.begun <= M.startSample
    BY <1>3, <1>4, <1>7 DEF Whole, Grown
  <2>2. /\ M.speech \in Nat /\ M.current \in Nat /\ M.processed \in Nat /\ M.begun \in Nat
        /\ M.startSample \in Nat /\ L.processed \in Nat /\ Onset(L) \in Nat
        /\ Onset(L) <= L.processed
    BY <1>4, MarksBound DEF Heard
  <2>3. M.done = <<>>
    <3>1. SUFFICES ASSUME M.done # <<>> PROVE FALSE
      OBVIOUS
    <3>2. M.begun > L.processed
      BY <1>3, <2>1, <3>1 DEF Grown, Onset
    <3> QED BY <1>3, <2>1, <2>2, <3>2
  <2>4. Onset(L) <= M.startSample
    <3>1. CASE L.speaking
      BY <1>3, <2>1, <2>3, <3>1 DEF Grown, Onset
    <3>2. CASE ~L.speaking
      <4>1. M.begun >= L.processed
        BY <1>3, <2>1, <3>2 DEF Grown, Onset
      <4> QED BY <2>1, <2>2, <4>1
    <3> QED BY <3>1, <3>2
  <2> DEFINE p == [speech |-> M.speech, start |-> M.startSample,
                   end |-> M.processed, length |-> M.current]
  <2>5. PICK F : F = [M EXCEPT !.done = Append(M.done, p), !.current = 0, !.inSpeech = FALSE]
    OBVIOUS
  <2>6. FlushLane(L, changes) = F
    BY <1>2, <1>7, <2>5
  <2>7. p \in Piece /\ p.start = M.startSample
    BY <2>2 DEF Piece
  <2> HIDE DEF p
  <2>8. Append(M.done, p) = <<p>> /\ <<p>> \in Pieces
    BY <2>3, <2>7 DEF Pieces
  <2>9. \A d \in Pieces : [M EXCEPT !.done = d, !.current = 0, !.inSpeech = FALSE] \in Heard
    BY <1>4 DEF Heard
  <2>10. F \in Heard /\ F.done = <<p>> /\ F.id = L.id
    BY <1>4, <2>5, <2>8, <2>9 DEF Heard
  <2>11. Len(F.done) = 1 /\ F.done[1] = p /\ ~(1 < 1) /\ \A i \in 1..1 : i = 1
    BY <2>10
  <2>12. /\ Finals(F) \in Seq(Piece)
         /\ Len(Finals(F)) = IF Len(F.done) = 0 \/ F.done[Len(F.done)].length >= MinFinal
                             THEN Len(F.done) ELSE Len(F.done) - 1
         /\ \A i \in 1..Len(Finals(F)) : Finals(F)[i] = F.done[i]
    BY <2>10, <2>11, FinalsAre
  <2>13. Len(Finals(F)) \in {0, 1}
    BY <2>11, <2>12
  <2> DEFINE o == FinalsOf(l, F)
  <2>14. IdOk(l, F)
    BY <2>10 DEF IdOk
  <2>15. /\ o \in Seq(Output) /\ Len(o) = Len(Finals(F))
         /\ \A i \in 1..Len(o) : o[i].final /\ o[i].seg.lane = l
    BY <2>10, <2>12, <2>14, FinalsSent
  <2>16. ASSUME NEW i \in 1..Len(o) PROVE i = 1 /\ o[i].seg.start = M.startSample
    <3>1. i = 1 /\ Finals(F)[1] = p
      BY <2>11, <2>12, <2>13, <2>15
    <3>2. o[1].seg = SegmentId(l, F, p.start)
      BY <2>15, <3>1 DEF FinalsOf
    <3>3. CASE L.id = NoId
      BY <2>7, <2>10, <3>1, <3>2, <3>3 DEF SegmentId
    <3>4. CASE L.id # NoId
      <4>1. L.id.start = M.startSample
        BY <1>3, <2>3, <3>4 DEF Marks, Grown
      <4> QED BY <2>10, <3>1, <3>2, <3>4, <4>1 DEF SegmentId
    <3> QED BY <3>3, <3>4
  <2> HIDE DEF o
  <2>17. Apart(o)
    BY <2>16 DEF Apart
  <2>18. \A i \in 1..Len(o) : News(L, o[i])
    BY <2>2, <2>4, <2>15, <2>16 DEF News
  <2>19. Novel(l, L, o)
    BY <2>15, <2>17, <2>18 DEF Novel
  <2> QED BY <2>6, <2>19 DEF o
<1> QED BY <1>6, <1>7

-----------------------------------------------------------------------------
(* What has been sent of a lane that may send more is behind its marks.     *)
Said(l) ==
    \A i \in 1..Len(emitted) : emitted[i].seg.lane = l => Before(lane[l], emitted[i])
Still(l) == NoAudio /\ lane[l].inSpeech = FALSE /\ lane[l].rest = FALSE
Vocal(l) == Whole(lane[l]) /\ Marks(lane[l]) /\ Said(l)
NamesInv == \A l \in Lanes : Still(l) \/ Vocal(l)

(* What may be sent.                                                        *)
Due(x) == \E l \in Lanes : x.seg.lane = l /\ Vocal(l) /\ News(lane[l], x)

LEMMA DisciplineMore ==
    ASSUME emitted \in Seq(Output), SegmentDiscipline, NEW out \in Seq(Output), Apart(out),
           \A i \in 1..Len(out) : Due(out[i]), Emit(out)
    PROVE  SegmentDiscipline'
<1>1. CASE ~listening
  <2>1. emitted' = emitted
    BY <1>1 DEF Emit
  <2> QED BY <2>1 DEF SegmentDiscipline
<1>2. CASE listening
  <2> DEFINE E == Len(emitted)
  <2>1. emitted' = emitted \o out
    BY <1>2 DEF Emit
  <2>2. /\ Len(emitted') = E + Len(out) /\ E \in Nat /\ Len(out) \in Nat
        /\ \A i \in 1..E : emitted'[i] = emitted[i]
        /\ \A i \in 1..Len(out) : emitted'[E + i] = out[i]
    BY <2>1
  <2>3. ASSUME NEW i \in 1..Len(emitted')
        PROVE  \/ i \in 1..E
               \/ i - E \in 1..Len(out) /\ i = E + (i - E)
    BY <2>2
  <2>4. \A x \in Output : x.seg.start \in Nat /\ x.end \in Nat /\ x.final \in BOOLEAN
    BY DEF Output, Segment
  <2>5. SUFFICES ASSUME NEW i \in 1..Len(emitted'), NEW j \in 1..Len(emitted'), i < j,
                        emitted'[i].seg = emitted'[j].seg
                 PROVE  /\ ~emitted'[i].final
                        /\ ~emitted'[j].final => emitted'[i].end < emitted'[j].end
    BY DEF SegmentDiscipline
  <2>6. CASE i \in 1..E /\ j \in 1..E
    BY <2>2, <2>5, <2>6 DEF SegmentDiscipline
  <2>7. CASE i \in 1..E /\ j - E \in 1..Len(out) /\ j = E + (j - E)
    <3>1. emitted'[i] = emitted[i] /\ emitted'[j] = out[j - E]
      BY <2>2, <2>7
    <3>2. PICK x \in Output, y \in Output : x = emitted[i] /\ y = out[j - E]
      BY <2>7
    <3>3. PICK l \in Lanes : y.seg.lane = l /\ Vocal(l) /\ News(lane[l], y)
      BY <2>7, <3>2 DEF Due
    <3>4. x.seg = y.seg /\ Before(lane[l], x)
      BY <2>5, <2>7, <3>1, <3>2, <3>3 DEF Vocal, Said
    <3>5. Onset(lane[l]) \in Nat /\ Shown(lane[l]) \in Nat
      BY <3>3, MarksBound DEF Vocal
    <3>6. ~x.final
      BY <2>4, <3>2, <3>3, <3>4, <3>5 DEF Before, News
    <3>7. ~y.final => x.end < y.end
      BY <2>4, <3>2, <3>3, <3>4, <3>5, <3>6 DEF Before, News
    <3> QED BY <3>1, <3>2, <3>6, <3>7
  <2>8. CASE i - E \in 1..Len(out) /\ j - E \in 1..Len(out) /\ i = E + (i - E) /\ j = E + (j - E)
    <3>1. emitted'[i] = out[i - E] /\ emitted'[j] = out[j - E]
      BY <2>2, <2>8
    <3>2. i - E < j - E
      BY <2>2, <2>5, <2>8
    <3> QED BY <2>5, <2>8, <3>1, <3>2 DEF Apart
  <2>9. ~(j \in 1..E /\ i - E \in 1..Len(out))
    BY <2>2, <2>5
  <2> HIDE DEF E
  <2> QED BY <2>3, <2>6, <2>7, <2>8, <2>9
<1> QED BY <1>1, <1>2

LEMMA NamesChunk ==
    ASSUME LanesInv, ItemsInv, NamesInv, SegmentDiscipline, NEW n \in 0..MaxLength,
           NEW frames \in [1..n -> BOOLEAN], NEW rest \in BOOLEAN, PipeChunk(frames, rest)
    PROVE  NamesInv' /\ SegmentDiscipline'
<1>1. /\ channel[1] \in Item /\ 1 \in 1..Len(channel) /\ Head(channel) = channel[1]
      /\ Head(channel).kind = "audio" /\ n \in Nat
  BY Limits DEF PipeChunk, ItemsInv
<1>2. PICK k \in Lanes : k = Head(channel).lane
  BY <1>1 DEF Item
<1>3. \A l \in Lanes : Vocal(l) /\ lane[l].done = <<>> /\ IdOk(l, lane[l])
  <2>1. ~NoAudio
    BY <1>1 DEF NoAudio
  <2> QED BY <2>1 DEF LanesInv, NamesInv, Still
<1>4. PICK L, M : L = lane[k] /\ M = ProcessAudio(L, frames, rest)
  OBVIOUS
<1>5. PICK S, A : S = AfterPreview(k, M) /\ A = AfterFinals(S)
  OBVIOUS
<1>6. PICK out : out = PreviewOf(k, M) \o FinalsOf(k, S)
  OBVIOUS
<1>7. Emit(out) /\ lane' = [lane EXCEPT ![k] = A]
  BY <1>2, <1>4, <1>5, <1>6 DEF PipeChunk
<1>8. Whole(L) /\ Marks(L) /\ L.done = <<>> /\ IdOk(k, L)
  BY <1>3, <1>4 DEF Vocal
<1>9. Grown(L, M, n)
  BY <1>1, <1>4, <1>8, ProcessGrown
<1>10. Onward(k, L, A, out)
  BY <1>5, <1>6, <1>8, <1>9, ChunkSays
<1>11. /\ out \in Seq(Output) /\ Apart(out) /\ emitted \in Seq(Output)
       /\ \A i \in 1..Len(out) : out[i].seg.lane = k /\ News(L, out[i]) /\ Before(A, out[i])
  BY <1>10 DEF Onward, Novel, LanesInv
<1>12. \A i \in 1..Len(out) : Due(out[i])
  BY <1>3, <1>4, <1>11 DEF Due
<1>13. SegmentDiscipline'
  BY <1>7, <1>11, <1>12, DisciplineMore
<1>14. LanesInv' /\ \A l \in Lanes : Whole(lane'[l])
  BY <1>1, LanesChunk
<1>15. lane'[k] = A /\ \A l \in Lanes : l # k => lane'[l] = lane[l]
  BY <1>7 DEF LanesInv
<1>16. ASSUME NEW x \in Output, Before(L, x) PROVE Before(A, x)
  <2>1. Whole(A) /\ Marks(A) /\ Onset(L) <= Onset(A) /\ Shown(L) <= Shown(A)
    BY <1>10, <1>14, <1>15 DEF Onward
  <2>2. /\ Onset(L) \in Nat /\ Onset(A) \in Nat /\ Shown(L) \in Nat /\ Shown(A) \in Nat
        /\ x.seg.start \in Nat /\ x.end \in Nat
    BY <1>8, <2>1, MarksBound DEF Output, Segment
  <2> QED BY <1>16, <2>1, <2>2 DEF Before
<1>17. ASSUME NEW i \in 1..Len(emitted')
       PROVE  \/ i \in 1..Len(emitted) /\ emitted'[i] = emitted[i] /\ emitted[i] \in Output
              \/ \E j \in 1..Len(out) : emitted'[i] = out[j]
  <2>1. CASE ~listening
    BY <1>7, <1>11, <2>1 DEF Emit
  <2>2. CASE listening
    <3>1. emitted' = emitted \o out
      BY <1>7, <2>2 DEF Emit
    <3>2. i \in 1..Len(emitted) \/ i - Len(emitted) \in 1..Len(out)
      BY <1>11, <3>1
    <3> QED BY SMTT(30), <1>11, <3>1, <3>2
  <2> QED BY <2>1, <2>2
<1>18. ASSUME NEW l \in Lanes PROVE Vocal(l)'
  <2>1. CASE l = k
    <3>1. Marks(lane'[l])
      BY <1>10, <1>15, <2>1 DEF Onward
    <3>2. ASSUME NEW i \in 1..Len(emitted'), emitted'[i].seg.lane = l
          PROVE  Before(lane'[l], emitted'[i])
      <4>1. CASE i \in 1..Len(emitted) /\ emitted'[i] = emitted[i] /\ emitted[i] \in Output
        <5>1. Before(L, emitted[i])
          BY <1>3, <1>4, <2>1, <3>2, <4>1 DEF Vocal, Said
        <5> QED BY <1>15, <1>16, <2>1, <4>1, <5>1
      <4>2. CASE \E j \in 1..Len(out) : emitted'[i] = out[j]
        BY <1>11, <1>15, <2>1, <4>2
      <4> QED BY <1>17, <4>1, <4>2
    <3> QED BY <1>14, <3>1, <3>2 DEF Vocal, Said
  <2>2. CASE l # k
    <3>1. lane'[l] = lane[l] /\ Whole(lane[l]) /\ Marks(lane[l])
      BY <1>3, <1>15, <2>2 DEF Vocal
    <3>2. ASSUME NEW i \in 1..Len(emitted'), emitted'[i].seg.lane = l
          PROVE  Before(lane'[l], emitted'[i])
      <4>1. i \in 1..Len(emitted) /\ emitted'[i] = emitted[i]
        BY <1>11, <1>17, <2>2, <3>2
      <4> QED BY <1>3, <3>1, <3>2, <4>1 DEF Vocal, Said
    <3> QED BY <3>1, <3>2 DEF Vocal, Said
  <2> QED BY <2>1, <2>2
<1> QED BY <1>13, <1>18 DEF NamesInv

LEMMA FlushDue ==
    ASSUME LanesInv, NamesInv, NEW l \in Lanes, NEW changes \in BOOLEAN, NEW f,
           f = FinalsOf(l, FlushLane(lane[l], changes))
    PROVE  /\ f \in Seq(Output) /\ Apart(f)
           /\ \A i \in 1..Len(f) : f[i].seg.lane = l /\ Due(f[i])
<1>1. PICK L : L = lane[l]
  OBVIOUS
<1>2. L \in Heard /\ L.done = <<>> /\ IdOk(l, L)
  BY <1>1 DEF LanesInv
<1>3. CASE Vocal(l)
  <2>1. Novel(l, L, f)
    BY <1>1, <1>2, <1>3, FlushSays DEF Vocal
  <2> QED BY <1>1, <1>3, <2>1 DEF Novel, Due
<1>4. CASE Still(l)
  <2>1. L.inSpeech = FALSE /\ L.rest = FALSE
    BY <1>1, <1>4 DEF Still
  <2>2. f = FinalsOf(l, L)
    BY <1>1, <1>2, <2>1, FlushAgain
  <2>3. f \in Seq(Output) /\ Len(f) = 0 /\ 1..0 = {}
    BY <1>2, <2>2, NothingDone
  <2> QED BY <2>3 DEF Apart
<1> QED BY <1>3, <1>4 DEF NamesInv

LEMMA NamesFlush ==
    ASSUME LanesInv, NamesInv, SegmentDiscipline, NEW changes \in Changes, FlushAll(changes),
           NoAudio, NoAudio', listening' = listening
    PROVE  NamesInv' /\ SegmentDiscipline'
<1>1. /\ "mic_in" \in Lanes /\ "system_out" \in Lanes
      /\ changes["mic_in"] \in BOOLEAN /\ changes["system_out"] \in BOOLEAN
  BY DEF Lanes, Changes
<1>2. PICK p, q : /\ p = FinalsOf("mic_in", FlushLane(lane["mic_in"], changes["mic_in"]))
                  /\ q = FinalsOf("system_out", FlushLane(lane["system_out"], changes["system_out"]))
  OBVIOUS
<1>3. Emit(p \o q)
  BY <1>2 DEF FlushAll
<1>4. /\ p \in Seq(Output) /\ Apart(p)
      /\ \A i \in 1..Len(p) : p[i].seg.lane = "mic_in" /\ Due(p[i])
  BY <1>1, <1>2, FlushDue
<1>5. /\ q \in Seq(Output) /\ Apart(q)
      /\ \A i \in 1..Len(q) : q[i].seg.lane = "system_out" /\ Due(q[i])
  BY <1>1, <1>2, FlushDue
<1>6. /\ p \o q \in Seq(Output) /\ Len(p \o q) = Len(p) + Len(q)
      /\ Len(p) \in Nat /\ Len(q) \in Nat
      /\ \A i \in 1..Len(p) : (p \o q)[i] = p[i]
      /\ \A i \in 1..Len(q) : (p \o q)[Len(p) + i] = q[i]
  BY <1>4, <1>5
<1>7. \A i \in 1..Len(p \o q) :
          \/ i \in 1..Len(p)
          \/ i - Len(p) \in 1..Len(q) /\ i = Len(p) + (i - Len(p))
  BY <1>6
<1>8. \A i \in 1..Len(p \o q) : Due((p \o q)[i])
  BY <1>4, <1>5, <1>6, <1>7
<1>9. Apart(p \o q)
  <2>1. SUFFICES ASSUME NEW i \in 1..Len(p \o q), NEW j \in 1..Len(p \o q), i < j
                 PROVE  (p \o q)[i].seg # (p \o q)[j].seg
    BY DEF Apart
  <2>2. CASE i \in 1..Len(p) /\ j \in 1..Len(p)
    BY <1>4, <1>6, <2>1, <2>2 DEF Apart
  <2>3. CASE i \in 1..Len(p) /\ j - Len(p) \in 1..Len(q) /\ j = Len(p) + (j - Len(p))
    <3>1. (p \o q)[i].seg.lane = "mic_in" /\ (p \o q)[j].seg.lane = "system_out"
      BY SMTT(30), <1>4, <1>5, <1>6, <2>3
    <3> QED BY <3>1
  <2>4. CASE i - Len(p) \in 1..Len(q) /\ i = Len(p) + (i - Len(p))
             /\ j - Len(p) \in 1..Len(q) /\ j = Len(p) + (j - Len(p))
    <3>1. i - Len(p) < j - Len(p)
      BY <1>6, <2>1
    <3> QED BY <1>5, <1>6, <2>4, <3>1 DEF Apart
  <2>5. ~(j \in 1..Len(p) /\ i - Len(p) \in 1..Len(q))
    BY <1>6, <2>1
  <2> QED BY <1>7, <2>2, <2>3, <2>4, <2>5
<1>10. SegmentDiscipline'
  BY <1>3, <1>6, <1>8, <1>9, DisciplineMore DEF LanesInv
<1>11. NamesInv'
  BY LanesFlush DEF NamesInv, Still, Flushed
<1> QED BY <1>10, <1>11

LEMMA NamesStep ==
    ASSUME LanesInv, ItemsInv, NamesInv, SegmentDiscipline, [PipelineNext]_pipelineVars
    PROVE  NamesInv' /\ SegmentDiscipline'
<1>1. ASSUME UNCHANGED <<lane, emitted, pipe>>, NoAudio => NoAudio'
      PROVE  NamesInv' /\ SegmentDiscipline'
  BY <1>1 DEF NamesInv, Vocal, Said, Still, SegmentDiscipline
<1>2. CASE PipelineNext
  BY <1>1, <1>2, StepKinds, NamesChunk, NamesFlush
<1>3. CASE UNCHANGED pipelineVars
  <2>1. UNCHANGED <<lane, emitted, pipe, channel, senders>>
    BY <1>3 DEF pipelineVars, ctl
  <2> QED BY <1>1, <2>1 DEF NoAudio
<1> QED BY <1>2, <1>3

(* Whatever is heard, per segment id the previews grow and nothing follows  *)
(* the final, which is what the transcription task takes from the pipeline  *)
(* (pipeline.rs:899, 950).                                                  *)
THEOREM SegmentDisciplineHolds == PipelineSpec => []SegmentDiscipline
<1>1. PipelineInit => NamesInv /\ SegmentDiscipline
  <2> SUFFICES ASSUME PipelineInit PROVE NamesInv /\ SegmentDiscipline
    OBVIOUS
  <2>1. Len(emitted) = 0 /\ 1..0 = {}
    BY DEF PipelineInit
  <2>2. ASSUME NEW l \in Lanes PROVE Vocal(l)
    <3>1. lane[l] = Lane0
      BY DEF PipelineInit
    <3>2. Lane0.speaking = FALSE /\ Lane0.inSpeech = FALSE /\ Lane0.id = NoId
          /\ Lane0.lastCount = 0
      BY DEF Lane0
    <3>3. Lane0 \in Heard
      BY <3>1, SpeechesInit DEF LanesInv
    <3>4. Whole(Lane0) /\ Marks(Lane0)
      BY <3>2, <3>3 DEF Whole, Marks
    <3> QED BY <2>1, <3>1, <3>4 DEF Vocal, Said
  <2> QED BY <2>1, <2>2 DEF NamesInv, SegmentDiscipline
<1>2. LanesInv /\ ItemsInv /\ NamesInv /\ SegmentDiscipline /\ [PipelineNext]_pipelineVars
          => (NamesInv /\ SegmentDiscipline)'
  BY NamesStep
<1> QED BY <1>1, <1>2, LanesAlways, PTL DEF PipelineSpec

(* The rest of the types.                                                   *)
CountsInv ==
    /\ control \in {"recording", "flushing", "joining", "abandoned"}
    /\ senders \subseteq {"state", "manager"}
    /\ flushes \in 0..Flushes /\ received \in 0..MaxChunks
    /\ pipe \in {"running", "ended"} /\ listening \in BOOLEAN

LEMMA CountsStep ==
    ASSUME CountsInv, [PipelineNext]_pipelineVars
    PROVE  CountsInv'
<1> USE DEF CountsInv
<1>1. Flushes \in Nat /\ MaxChunks \in Nat
  BY PipelineAssumption
<1>2. CASE Pipe
  <2>1. ASSUME NEW frames, NEW rest, PipeChunk(frames, rest) PROVE CountsInv'
    BY <2>1 DEF PipeChunk, ctl
  <2>2. ASSUME NEW changes, PipeFlush(changes) PROVE CountsInv'
    BY <2>2 DEF PipeFlush, ctl
  <2>3. ASSUME NEW changes, PipeEnd(changes) PROVE CountsInv'
    BY <2>3 DEF PipeEnd, ctl
  <2> QED BY <1>2, <2>1, <2>2, <2>3 DEF Pipe
<1>3. CASE Manager
  <2>1. CASE StopStreams
    BY <2>1 DEF StopStreams
  <2>2. CASE FlushSignal
    BY <1>1, <2>2 DEF FlushSignal
  <2>3. CASE StopPipeline
    BY <2>3 DEF StopPipeline
  <2>4. CASE Abandon
    BY <2>4 DEF Abandon
  <2> QED BY <1>3, <2>1, <2>2, <2>3, <2>4 DEF Manager
<1>4. CASE AudioFails
  BY <1>4 DEF AudioFails
<1>5. CASE TranscriptionGone
  BY <1>5 DEF TranscriptionGone, ctl
<1>6. CASE Terminated \/ UNCHANGED pipelineVars
  BY <1>6 DEF Terminated, pipelineVars, ctl
<1>7. ASSUME NEW l \in Lanes, NEW n \in 1..MaxLength, Capture(l, n) PROVE CountsInv'
  BY <1>1, <1>7 DEF Capture
<1> QED BY <1>2, <1>3, <1>4, <1>5, <1>6, <1>7 DEF PipelineNext

(* Every variable of the pipeline stays in its type, and no finished segment*)
(* is left behind in a lane between two items of the channel.               *)
THEOREM PipelineTypeCorrect == PipelineSpec => []PipelineTypeOK
<1>1. PipelineInit => CountsInv
  BY PipelineAssumption DEF PipelineInit, CountsInv
<1>2. CountsInv /\ [PipelineNext]_pipelineVars => CountsInv'
  BY CountsStep
<1>3. LanesInv /\ ItemsInv /\ MixInv /\ CountsInv => PipelineTypeOK
  <2> SUFFICES ASSUME LanesInv, ItemsInv, MixInv, CountsInv PROVE PipelineTypeOK
    OBVIOUS
  <2>1. ASSUME NEW l \in Lanes PROVE lane[l] \in LaneState
    <3>1. lane[l] \in Heard /\ lane[l].done \in {<<>>}
      BY DEF LanesInv
    <3> QED BY <3>1 DEF Heard, LaneState
  <2>2. lane \in [Lanes -> LaneState]
    BY <2>1 DEF LanesInv
  <2>3. channel \in Seq([kind : {"audio", "flush"}, lane : Lanes, length : 0..MaxLength])
    BY DEF ItemsInv, Item
  <2>4. emitted \in Seq([seg : Segment, speech : Nat, end : Nat, final : BOOLEAN])
    BY DEF LanesInv, Output
  <2> QED BY <2>2, <2>3, <2>4 DEF PipelineTypeOK, MixInv, CountsInv
<1> QED BY <1>1, <1>2, <1>3, LanesAlways, MixAlways, PTL DEF PipelineSpec
=============================================================================
