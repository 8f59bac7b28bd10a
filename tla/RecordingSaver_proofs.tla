------------------------ MODULE RecordingSaver_proofs ------------------------
(* Theorems about RecordingSaver, for recordings of any length, checkpoints *)
(* of any size and a crash at any instant: the audio that was accepted is   *)
(* kept exactly once, it can be read from disk until somebody starts a      *)
(* recovery, a completed meeting has all of it, and it is played in order.  *)
EXTENDS RecordingSaver, BatchJobs, FiniteSetTheorems, WellFoundedInduction, TLAPS

Tasks == {"recv", "check", "encode", "encoding", "ended"}
Merging == {"merge", "merging", "remove", "write_transcripts", "write_metadata", "saved"}
Merged == {"remove", "write_transcripts", "write_metadata", "saved"}

(* Who may touch the buffer: the task until the stop has passed the lock,   *)
(* finalize from there on; after it the buffer is empty.                    *)
PlaceInv ==
    /\ task \in Tasks /\ phase \in Phases
    /\ phase # "recording" => ~isSaving
    /\ phase \notin {"recording", "stopping"} => task \notin {"encode", "encoding"}
    /\ task \in {"encode", "encoding"} => hasSaver /\ buffer # {}
    /\ phase \in {"flush", "flushing"} => buffer # {}
    /\ phase \in Merging => buffer = {}

(* A chunk that is on its way has not been accepted yet.                    *)
QueueInv ==
    /\ chan \in Seq(Chunks) /\ sent \in 0..MaxChunks
    /\ accepted \subseteq 1..sent
    /\ \A k \in 1..Len(chan) : chan[k] <= sent /\ chan[k] \notin accepted
    /\ \A k, l \in 1..Len(chan) : k # l => chan[k] # chan[l]
HandInv ==
    task = "check" =>
        /\ taskChunk \in 1..sent /\ taskChunk \notin accepted
        /\ \A k \in 1..Len(chan) : chan[k] # taskChunk

(* Every checkpoint has audio of its own, so there is room for the next one;*)
(* the one that is being encoded has the buffer.                            *)
FileInv ==
    /\ files \in [Index -> FileStates] /\ contents \in [Index -> SUBSET Chunks]
    /\ count \in Index /\ Cardinality(Checkpointed) >= count
    /\ buffer \subseteq Chunks
    /\ task = "encoding" \/ phase = "flushing" => contents[count] = buffer

(* Until a recovery starts, the checkpoints are there or have been merged.  *)
AllGood == \A i \in 0..count-1 : files[i] = "good"
AllMerged == audio = [state |-> "good", parts |-> [k \in 1..count |-> k - 1]]
DiskInv ==
    recovery = "idle" =>
        /\ phase \notin Merged \cup {"failed"} => AllGood
        /\ phase \in Merged => AllMerged
        /\ phase = "failed" => AllGood \/ AllMerged

(* The transcript is written again before the metadata say that it is.      *)
MetaInv ==
    /\ added \in Nat
    /\ phase # "saved" => segments = added
    /\ phase \in {"write_metadata", "saved"} /\ hasFolder => transcripts = added
    /\ status = "completed" => phase = "saved" /\ hasFolder

-----------------------------------------------------------------------------
LEMMA Given == MaxChunks \in Nat /\ Interval \in Nat /\ Interval > 0
BY SaverAssumption

(* Every step keeps the task and the stop apart.                            *)
LEMMA PlaceStep ==
    PlaceInv /\ [Next]_vars => PlaceInv'
<1> SUFFICES ASSUME PlaceInv, [Next]_vars PROVE PlaceInv'
  OBVIOUS
<1> USE DEF input, taskV, setup, meeting, disk, rec
<1>1. CASE PipelineSend
  BY <1>1 DEF PipelineSend, PlaceInv, Tasks, Phases, Merging
<1>2. CASE PipelineEnd
  BY <1>2 DEF PipelineEnd, PlaceInv, Tasks, Phases, Merging
<1>3. ASSUME NEW b \in BOOLEAN, AddTranscriptSegment(b) PROVE PlaceInv'
  BY <1>3 DEF AddTranscriptSegment, WriteTranscriptsJson, PlaceInv, Tasks, Phases, Merging
<1>4. CASE TaskRecv
  BY <1>4 DEF TaskRecv, PlaceInv, Tasks, Phases, Merging
<1>5. CASE TaskEnd
  BY <1>5 DEF TaskEnd, PlaceInv, Tasks, Phases, Merging
<1>6. CASE TaskDiscard
  BY <1>6 DEF TaskDiscard, PlaceInv, Tasks, Phases, Merging
<1>7. CASE TaskAddChunk
  <2>1. phase = "recording" /\ phase' = phase /\ hasSaver' /\ buffer' # {}
    BY <1>7 DEF TaskAddChunk, PlaceInv
  <2>2. task' \in {"recv", "encode"}
    BY <1>7 DEF TaskAddChunk
  <2> QED BY <1>7, <2>1, <2>2 DEF TaskAddChunk, PlaceInv, Tasks, Phases, Merging
<1>8. CASE EncodeStart
  BY <1>8 DEF EncodeStart, InTask, InFinalize, PlaceInv, Tasks, Phases, Merging
<1>9. CASE EncodeOk
  BY <1>9 DEF EncodeOk, InTask, InFinalize, PlaceInv, Tasks, Phases, Merging
<1>10. CASE EncodeFail
  BY <1>10 DEF EncodeFail, InTask, InFinalize, PlaceInv, Tasks, Phases, Merging
<1>11. CASE StopSaving
  BY <1>11 DEF StopSaving, PlaceInv, Tasks, Phases, Merging
<1>12. CASE SkipAudio
  BY <1>12 DEF SkipAudio, PlaceInv, Tasks, Phases, Merging
<1>13. CASE Finalize
  BY <1>13 DEF Finalize, PlaceInv, Tasks, Phases, Merging
<1>14. CASE MergeStart
  BY <1>14 DEF MergeStart, PlaceInv, Tasks, Phases, Merging
<1>15. CASE MergeOk
  BY <1>15 DEF MergeOk, PlaceInv, Tasks, Phases, Merging
<1>16. CASE MergeFail
  BY <1>16 DEF MergeFail, PlaceInv, Tasks, Phases, Merging
<1>17. ASSUME NEW i \in Index, RemoveCheckpoint(i) PROVE PlaceInv'
  BY <1>17 DEF RemoveCheckpoint, PlaceInv, Tasks, Phases, Merging
<1>18. CASE RemoveDone
  BY <1>18 DEF RemoveDone, PlaceInv, Tasks, Phases, Merging
<1>19. ASSUME NEW b \in BOOLEAN, WriteTranscripts(b) PROVE PlaceInv'
  BY <1>19 DEF WriteTranscripts, WriteTranscriptsJson, PlaceInv, Tasks, Phases, Merging
<1>20. ASSUME NEW b \in BOOLEAN, WriteMetadata(b) PROVE PlaceInv'
  BY <1>20 DEF WriteMetadata, PlaceInv, Tasks, Phases, Merging
<1>21. CASE FrontendSaves
  BY <1>21 DEF FrontendSaves, PlaceInv, Tasks, Phases, Merging
<1>22. CASE Crash
  BY <1>22 DEF Crash, PlaceInv, Tasks, Phases, Merging
<1>23. CASE RecoverNothing
  BY <1>23 DEF RecoverNothing, MayRecover, PlaceInv, Tasks, Phases, Merging
<1>24. CASE RecoverStart
  BY <1>24 DEF RecoverStart, MayRecover, PlaceInv, Tasks, Phases, Merging
<1>25. CASE RecoverOk
  BY <1>25 DEF RecoverOk, PlaceInv, Tasks, Phases, Merging
<1>26. CASE RecoverFail
  BY <1>26 DEF RecoverFail, MayRecover, PlaceInv, Tasks, Phases, Merging
<1>27. ASSUME NEW b \in BOOLEAN, RecoverSaveMeeting(b) PROVE PlaceInv'
  BY <1>27 DEF RecoverSaveMeeting, PlaceInv, Tasks, Phases, Merging
<1>28. CASE CleanupCheckpoints
  BY <1>28 DEF CleanupCheckpoints, PlaceInv, Tasks, Phases, Merging
<1>29. CASE UNCHANGED vars
  BY <1>29 DEF vars, PlaceInv, Tasks, Phases, Merging
<1> QED
  BY <1>1, <1>2, <1>3, <1>4, <1>5, <1>6, <1>7, <1>8, <1>9, <1>10, <1>11, <1>12, <1>13,
     <1>14, <1>15, <1>16, <1>17, <1>18, <1>19, <1>20, <1>21, <1>22, <1>23, <1>24, <1>25,
     <1>26, <1>27, <1>28, <1>29
  DEF Next, Pipeline, Task, Encode, StopAndSave, Recover

(* Every step keeps the chunks in the channel new and apart.                *)
LEMMA QueueStep ==
    PlaceInv /\ QueueInv /\ HandInv /\ [Next]_vars => QueueInv'
<1> SUFFICES ASSUME PlaceInv, QueueInv, HandInv, [Next]_vars PROVE QueueInv'
  OBVIOUS
<1> USE DEF input, taskV, setup, meeting, disk, rec
<1>1. CASE PipelineSend
  <2>1. sent + 1 \in Chunks /\ sent' = sent + 1 /\ chan' = Append(chan, sent + 1)
    BY <1>1, Given DEF PipelineSend, QueueInv, Chunks
  <2>2. chan' \in Seq(Chunks) /\ sent' \in 0..MaxChunks
    BY <2>1 DEF QueueInv, Chunks
  <2>3. /\ Len(chan') = Len(chan) + 1
        /\ \A k \in 1..Len(chan) : chan'[k] = chan[k]
        /\ chan'[Len(chan) + 1] = sent + 1
    BY <2>1 DEF QueueInv
  <2>4. \A k \in 1..Len(chan) : chan[k] \in Chunks
    BY DEF QueueInv
  <2>5. accepted' = accepted /\ accepted \subseteq 1..sent'
    BY <1>1, <2>1 DEF PipelineSend, QueueInv
  <2>6. \A k \in 1..Len(chan') : chan'[k] <= sent' /\ chan'[k] \notin accepted'
    BY <2>1, <2>3, <2>4, <2>5 DEF QueueInv, Chunks
  <2>7. \A k, l \in 1..Len(chan') : k # l => chan'[k] # chan'[l]
    BY <2>1, <2>3, <2>4 DEF QueueInv, Chunks
  <2> QED BY <2>2, <2>5, <2>6, <2>7 DEF QueueInv
<1>2. CASE PipelineEnd
  BY <1>2 DEF PipelineEnd, QueueInv, Chunks
<1>3. ASSUME NEW b \in BOOLEAN, AddTranscriptSegment(b) PROVE QueueInv'
  BY <1>3 DEF AddTranscriptSegment, WriteTranscriptsJson, QueueInv, Chunks
<1>4. CASE TaskRecv
  <2>1. /\ chan' \in Seq(Chunks) /\ Len(chan') = Len(chan) - 1
        /\ \A k \in 1..Len(chan') : chan'[k] = chan[k + 1] /\ k + 1 \in 1..Len(chan)
    BY <1>4 DEF TaskRecv, QueueInv
  <2> QED BY <1>4, <2>1 DEF TaskRecv, QueueInv
<1>5. CASE TaskEnd
  <2>1. chan' = <<>> /\ UNCHANGED <<sent, accepted>>
    BY <1>5 DEF TaskEnd
  <2> QED BY <2>1 DEF QueueInv
<1>6. CASE TaskDiscard
  BY <1>6 DEF TaskDiscard, QueueInv, Chunks
<1>7. CASE TaskAddChunk
  <2>1. taskChunk \in 1..sent /\ \A k \in 1..Len(chan) : chan[k] # taskChunk
    BY <1>7 DEF TaskAddChunk, HandInv
  <2> QED BY <1>7, <2>1 DEF TaskAddChunk, QueueInv
<1>8. CASE EncodeStart
  BY <1>8 DEF EncodeStart, InTask, InFinalize, QueueInv, Chunks
<1>9. CASE EncodeOk
  BY <1>9 DEF EncodeOk, InTask, InFinalize, QueueInv, Chunks
<1>10. CASE EncodeFail
  BY <1>10 DEF EncodeFail, InTask, InFinalize, QueueInv, Chunks
<1>11. CASE StopSaving
  BY <1>11 DEF StopSaving, QueueInv, Chunks
<1>12. CASE SkipAudio
  BY <1>12 DEF SkipAudio, QueueInv, Chunks
<1>13. CASE Finalize
  BY <1>13 DEF Finalize, QueueInv, Chunks
<1>14. CASE MergeStart
  BY <1>14 DEF MergeStart, QueueInv, Chunks
<1>15. CASE MergeOk
  BY <1>15 DEF MergeOk, QueueInv, Chunks
<1>16. CASE MergeFail
  BY <1>16 DEF MergeFail, QueueInv, Chunks
<1>17. ASSUME NEW i \in Index, RemoveCheckpoint(i) PROVE QueueInv'
  BY <1>17 DEF RemoveCheckpoint, QueueInv, Chunks
<1>18. CASE RemoveDone
  BY <1>18 DEF RemoveDone, QueueInv, Chunks
<1>19. ASSUME NEW b \in BOOLEAN, WriteTranscripts(b) PROVE QueueInv'
  BY <1>19 DEF WriteTranscripts, WriteTranscriptsJson, QueueInv, Chunks
<1>20. ASSUME NEW b \in BOOLEAN, WriteMetadata(b) PROVE QueueInv'
  BY <1>20 DEF WriteMetadata, QueueInv, Chunks
<1>21. CASE FrontendSaves
  BY <1>21 DEF FrontendSaves, QueueInv, Chunks
<1>22. CASE Crash
  BY <1>22 DEF Crash, QueueInv, Chunks
<1>23. CASE RecoverNothing
  BY <1>23 DEF RecoverNothing, MayRecover, QueueInv, Chunks
<1>24. CASE RecoverStart
  BY <1>24 DEF RecoverStart, MayRecover, QueueInv, Chunks
<1>25. CASE RecoverOk
  BY <1>25 DEF RecoverOk, QueueInv, Chunks
<1>26. CASE RecoverFail
  BY <1>26 DEF RecoverFail, MayRecover, QueueInv, Chunks
<1>27. ASSUME NEW b \in BOOLEAN, RecoverSaveMeeting(b) PROVE QueueInv'
  BY <1>27 DEF RecoverSaveMeeting, QueueInv, Chunks
<1>28. CASE CleanupCheckpoints
  BY <1>28 DEF CleanupCheckpoints, QueueInv, Chunks
<1>29. CASE UNCHANGED vars
  BY <1>29 DEF vars, QueueInv, Chunks
<1> QED
  BY <1>1, <1>2, <1>3, <1>4, <1>5, <1>6, <1>7, <1>8, <1>9, <1>10, <1>11, <1>12, <1>13,
     <1>14, <1>15, <1>16, <1>17, <1>18, <1>19, <1>20, <1>21, <1>22, <1>23, <1>24, <1>25,
     <1>26, <1>27, <1>28, <1>29
  DEF Next, Pipeline, Task, Encode, StopAndSave, Recover

(* Every step keeps the chunk in the task's hand new.                       *)
LEMMA HandStep ==
    QueueInv /\ HandInv /\ [Next]_vars => HandInv'
<1> SUFFICES ASSUME QueueInv, HandInv, [Next]_vars PROVE HandInv'
  OBVIOUS
<1> USE DEF input, taskV, setup, meeting, disk, rec
<1>1. CASE PipelineSend
  <2>1. /\ Len(chan') = Len(chan) + 1
        /\ \A k \in 1..Len(chan) : chan'[k] = chan[k]
        /\ chan'[Len(chan) + 1] = sent + 1 /\ sent' = sent + 1 /\ sent \in Nat
    BY <1>1 DEF PipelineSend, QueueInv
  <2> QED BY <1>1, <2>1 DEF PipelineSend, HandInv
<1>2. CASE PipelineEnd
  BY <1>2 DEF PipelineEnd, HandInv
<1>3. ASSUME NEW b \in BOOLEAN, AddTranscriptSegment(b) PROVE HandInv'
  BY <1>3 DEF AddTranscriptSegment, WriteTranscriptsJson, HandInv
<1>4. CASE TaskRecv
  <2>1. /\ Len(chan') = Len(chan) - 1 /\ Len(chan) \in Nat \ {0}
        /\ \A k \in 1..Len(chan') : chan'[k] = chan[k + 1] /\ k + 1 \in 1..Len(chan)
        /\ taskChunk' = chan[1] /\ chan[1] \in Chunks
    BY <1>4 DEF TaskRecv, QueueInv
  <2> QED BY <1>4, <2>1 DEF TaskRecv, QueueInv, HandInv, Chunks
<1>5. CASE TaskEnd
  BY <1>5 DEF TaskEnd, HandInv
<1>6. CASE TaskDiscard
  BY <1>6 DEF TaskDiscard, HandInv
<1>7. CASE TaskAddChunk
  BY <1>7 DEF TaskAddChunk, HandInv
<1>8. CASE EncodeStart
  BY <1>8 DEF EncodeStart, InTask, InFinalize, HandInv
<1>9. CASE EncodeOk
  BY <1>9 DEF EncodeOk, InTask, InFinalize, HandInv
<1>10. CASE EncodeFail
  BY <1>10 DEF EncodeFail, InTask, InFinalize, HandInv
<1>11. CASE StopSaving
  BY <1>11 DEF StopSaving, HandInv
<1>12. CASE SkipAudio
  BY <1>12 DEF SkipAudio, HandInv
<1>13. CASE Finalize
  BY <1>13 DEF Finalize, HandInv
<1>14. CASE MergeStart
  BY <1>14 DEF MergeStart, HandInv
<1>15. CASE MergeOk
  BY <1>15 DEF MergeOk, HandInv
<1>16. CASE MergeFail
  BY <1>16 DEF MergeFail, HandInv
<1>17. ASSUME NEW i \in Index, RemoveCheckpoint(i) PROVE HandInv'
  BY <1>17 DEF RemoveCheckpoint, HandInv
<1>18. CASE RemoveDone
  BY <1>18 DEF RemoveDone, HandInv
<1>19. ASSUME NEW b \in BOOLEAN, WriteTranscripts(b) PROVE HandInv'
  BY <1>19 DEF WriteTranscripts, WriteTranscriptsJson, HandInv
<1>20. ASSUME NEW b \in BOOLEAN, WriteMetadata(b) PROVE HandInv'
  BY <1>20 DEF WriteMetadata, HandInv
<1>21. CASE FrontendSaves
  BY <1>21 DEF FrontendSaves, HandInv
<1>22. CASE Crash
  BY <1>22 DEF Crash, HandInv
<1>23. CASE RecoverNothing
  BY <1>23 DEF RecoverNothing, MayRecover, HandInv
<1>24. CASE RecoverStart
  BY <1>24 DEF RecoverStart, MayRecover, HandInv
<1>25. CASE RecoverOk
  BY <1>25 DEF RecoverOk, HandInv
<1>26. CASE RecoverFail
  BY <1>26 DEF RecoverFail, MayRecover, HandInv
<1>27. ASSUME NEW b \in BOOLEAN, RecoverSaveMeeting(b) PROVE HandInv'
  BY <1>27 DEF RecoverSaveMeeting, HandInv
<1>28. CASE CleanupCheckpoints
  BY <1>28 DEF CleanupCheckpoints, HandInv
<1>29. CASE UNCHANGED vars
  BY <1>29 DEF vars, HandInv
<1> QED
  BY <1>1, <1>2, <1>3, <1>4, <1>5, <1>6, <1>7, <1>8, <1>9, <1>10, <1>11, <1>12, <1>13,
     <1>14, <1>15, <1>16, <1>17, <1>18, <1>19, <1>20, <1>21, <1>22, <1>23, <1>24, <1>25,
     <1>26, <1>27, <1>28, <1>29
  DEF Next, Pipeline, Task, Encode, StopAndSave, Recover

-----------------------------------------------------------------------------
(* What a finished checkpoint does to the chunks on disk.                   *)
LEMMA OneMore ==
    ASSUME count \in Index, count' = count + 1, contents' = contents,
           contents \in [Index -> SUBSET Chunks]
    PROVE  Checkpointed' = Checkpointed \cup contents[count]
<1>1. \A i : i \in 0..count'-1 <=> i \in 0..count-1 \/ i = count
  BY Given DEF Index
<1> QED BY <1>1 DEF Checkpointed

LEMMA ChunksFinite == IsFiniteSet(Chunks) /\ Cardinality(Chunks) = MaxChunks
BY Given, FS_Interval DEF Chunks

LEMMA CheckpointedChunks == FileInv => Checkpointed \subseteq Chunks /\ IsFiniteSet(Checkpointed)
<1> SUFFICES ASSUME FileInv PROVE Checkpointed \subseteq Chunks /\ IsFiniteSet(Checkpointed)
  OBVIOUS
<1>1. \A i \in 0..count-1 : contents[i] \subseteq Chunks
  BY Given DEF FileInv, Index
<1>2. Checkpointed \subseteq Chunks
  BY <1>1 DEF Checkpointed
<1> QED BY <1>2, ChunksFinite, FS_Subset

(* The only step that writes into a checkpoint writes into the next one.    *)
LEMMA Started ==
    ASSUME FileInv, EncodeStart
    PROVE  /\ contents' \in [Index -> SUBSET Chunks] /\ files' \in [Index -> FileStates]
           /\ contents'[count] = buffer /\ files'[count] = "partial"
           /\ \A i \in Index \ {count} : contents'[i] = contents[i] /\ files'[i] = files[i]
           /\ Checkpointed' = Checkpointed
<1>1. /\ contents' \in [Index -> SUBSET Chunks] /\ files' \in [Index -> FileStates]
      /\ contents'[count] = buffer /\ files'[count] = "partial"
      /\ \A i \in Index \ {count} : contents'[i] = contents[i] /\ files'[i] = files[i]
  BY DEF EncodeStart, FileInv, FileStates
<1>2. \A i \in 0..count-1 : i \in Index \ {count}
  BY Given DEF FileInv, Index
<1>3. count' = count
  BY DEF EncodeStart
<1>4. \A i \in 0..count-1 : contents'[i] = contents[i]
  BY <1>1, <1>2
<1> QED BY <1>1, <1>3, <1>4 DEF Checkpointed

(* Every step keeps room for the next checkpoint.                           *)
LEMMA FileStep ==
    PlaceInv /\ QueueInv /\ HandInv /\ FileInv /\ AcceptedExactlyOnce /\ [Next]_vars
        => FileInv'
<1> SUFFICES ASSUME PlaceInv, QueueInv, HandInv, FileInv, AcceptedExactlyOnce,
                    [Next]_vars
             PROVE  FileInv'
  OBVIOUS
<1> USE DEF input, taskV, setup, meeting, disk, rec
<1>1. CASE PipelineSend
  <2>1. UNCHANGED <<contents, count>> /\ Checkpointed' = Checkpointed
    BY <1>1 DEF PipelineSend, Checkpointed
  <2> QED BY <1>1, <2>1 DEF PipelineSend, FileInv, FileStates, PlaceInv
<1>2. CASE PipelineEnd
  <2>1. UNCHANGED <<contents, count>> /\ Checkpointed' = Checkpointed
    BY <1>2 DEF PipelineEnd, Checkpointed
  <2> QED BY <1>2, <2>1 DEF PipelineEnd, FileInv, FileStates, PlaceInv
<1>3. ASSUME NEW b \in BOOLEAN, AddTranscriptSegment(b) PROVE FileInv'
  <2>1. UNCHANGED <<contents, count>> /\ Checkpointed' = Checkpointed
    BY <1>3 DEF AddTranscriptSegment, WriteTranscriptsJson, Checkpointed
  <2> QED BY <1>3, <2>1 DEF AddTranscriptSegment, WriteTranscriptsJson, FileInv, FileStates, PlaceInv
<1>4. CASE TaskRecv
  <2>1. UNCHANGED <<contents, count>> /\ Checkpointed' = Checkpointed
    BY <1>4 DEF TaskRecv, Checkpointed
  <2> QED BY <1>4, <2>1 DEF TaskRecv, FileInv, FileStates, PlaceInv
<1>5. CASE TaskEnd
  <2>1. UNCHANGED <<contents, count>> /\ Checkpointed' = Checkpointed
    BY <1>5 DEF TaskEnd, Checkpointed
  <2> QED BY <1>5, <2>1 DEF TaskEnd, FileInv, FileStates, PlaceInv
<1>6. CASE TaskDiscard
  <2>1. UNCHANGED <<contents, count>> /\ Checkpointed' = Checkpointed
    BY <1>6 DEF TaskDiscard, Checkpointed
  <2> QED BY <1>6, <2>1 DEF TaskDiscard, FileInv, FileStates, PlaceInv
<1>7. CASE TaskAddChunk
  <2>1. UNCHANGED <<contents, count>> /\ Checkpointed' = Checkpointed
    BY <1>7 DEF TaskAddChunk, Checkpointed
  <2>2. taskChunk \in Chunks /\ phase = "recording" /\ task' # "encoding"
    BY <1>7, Given DEF TaskAddChunk, HandInv, QueueInv, PlaceInv, Chunks
  <2> QED BY <1>7, <2>1, <2>2 DEF TaskAddChunk, FileInv
<1>8. CASE EncodeStart
  <2>1. UNCHANGED <<count, buffer>>
    BY <1>8 DEF EncodeStart
  <2> QED BY <1>8, <2>1, Started DEF FileInv
<1>9. CASE EncodeOk
  <2>1. /\ contents[count] = buffer /\ buffer # {}
        /\ task' # "encoding" /\ phase' # "flushing"
    BY <1>9 DEF EncodeOk, InTask, InFinalize, FileInv, PlaceInv
  <2>2. /\ count' = count + 1 /\ contents' = contents /\ buffer' = {}
        /\ files' = [files EXCEPT ![count] = "good"]
    BY <1>9 DEF EncodeOk
  <2>3. Checkpointed' = Checkpointed \cup buffer
    BY <2>1, <2>2, OneMore DEF FileInv
  <2>4. PICK e \in buffer : e \notin Checkpointed /\ e \in Chunks
    BY <2>1 DEF AcceptedExactlyOnce, FileInv
  <2>5. Checkpointed' \subseteq Chunks /\ IsFiniteSet(Checkpointed')
    BY <2>3, CheckpointedChunks, ChunksFinite, FS_Subset DEF FileInv
  <2>6. Cardinality(Checkpointed \cup {e}) = Cardinality(Checkpointed) + 1
    BY <2>4, CheckpointedChunks, FS_AddElement
  <2>7. Cardinality(Checkpointed \cup {e}) <= Cardinality(Checkpointed')
    BY <2>3, <2>4, <2>5, FS_Subset
  <2>8. Cardinality(Checkpointed') <= MaxChunks
    BY <2>5, ChunksFinite, FS_Subset
  <2>9. Cardinality(Checkpointed) \in Nat /\ Cardinality(Checkpointed') \in Nat
    BY <2>5, CheckpointedChunks, FS_CardinalityType
  <2>10. count' \in Index /\ Cardinality(Checkpointed') >= count'
    BY <2>2, <2>6, <2>7, <2>8, <2>9, Given DEF FileInv, Index
  <2> QED BY <2>1, <2>2, <2>10 DEF FileInv, FileStates
<1>10. CASE EncodeFail
  <2>1. UNCHANGED <<contents, count>> /\ Checkpointed' = Checkpointed
    BY <1>10 DEF EncodeFail, InTask, InFinalize, Checkpointed
  <2> QED BY <1>10, <2>1 DEF EncodeFail, InTask, InFinalize, FileInv, FileStates, PlaceInv
<1>11. CASE StopSaving
  <2>1. UNCHANGED <<contents, count>> /\ Checkpointed' = Checkpointed
    BY <1>11 DEF StopSaving, Checkpointed
  <2> QED BY <1>11, <2>1 DEF StopSaving, FileInv, FileStates, PlaceInv
<1>12. CASE SkipAudio
  <2>1. UNCHANGED <<contents, count>> /\ Checkpointed' = Checkpointed
    BY <1>12 DEF SkipAudio, Checkpointed
  <2> QED BY <1>12, <2>1 DEF SkipAudio, FileInv, FileStates, PlaceInv
<1>13. CASE Finalize
  <2>1. UNCHANGED <<contents, count>> /\ Checkpointed' = Checkpointed
    BY <1>13 DEF Finalize, Checkpointed
  <2> QED BY <1>13, <2>1 DEF Finalize, FileInv, FileStates, PlaceInv
<1>14. CASE MergeStart
  <2>1. UNCHANGED <<contents, count>> /\ Checkpointed' = Checkpointed
    BY <1>14 DEF MergeStart, Checkpointed
  <2> QED BY <1>14, <2>1 DEF MergeStart, FileInv, FileStates, PlaceInv
<1>15. CASE MergeOk
  <2>1. UNCHANGED <<contents, count>> /\ Checkpointed' = Checkpointed
    BY <1>15 DEF MergeOk, Checkpointed
  <2> QED BY <1>15, <2>1 DEF MergeOk, FileInv, FileStates, PlaceInv
<1>16. CASE MergeFail
  <2>1. UNCHANGED <<contents, count>> /\ Checkpointed' = Checkpointed
    BY <1>16 DEF MergeFail, Checkpointed
  <2> QED BY <1>16, <2>1 DEF MergeFail, FileInv, FileStates, PlaceInv
<1>17. ASSUME NEW i \in Index, RemoveCheckpoint(i) PROVE FileInv'
  <2>1. UNCHANGED <<contents, count>> /\ Checkpointed' = Checkpointed
    BY <1>17 DEF RemoveCheckpoint, Checkpointed
  <2> QED BY <1>17, <2>1 DEF RemoveCheckpoint, FileInv, FileStates, PlaceInv
<1>18. CASE RemoveDone
  <2>1. UNCHANGED <<contents, count>> /\ Checkpointed' = Checkpointed
    BY <1>18 DEF RemoveDone, Checkpointed
  <2> QED BY <1>18, <2>1 DEF RemoveDone, FileInv, FileStates, PlaceInv
<1>19. ASSUME NEW b \in BOOLEAN, WriteTranscripts(b) PROVE FileInv'
  <2>1. UNCHANGED <<contents, count>> /\ Checkpointed' = Checkpointed
    BY <1>19 DEF WriteTranscripts, WriteTranscriptsJson, Checkpointed
  <2> QED BY <1>19, <2>1 DEF WriteTranscripts, WriteTranscriptsJson, FileInv, FileStates, PlaceInv
<1>20. ASSUME NEW b \in BOOLEAN, WriteMetadata(b) PROVE FileInv'
  <2>1. UNCHANGED <<contents, count>> /\ Checkpointed' = Checkpointed
    BY <1>20 DEF WriteMetadata, Checkpointed
  <2> QED BY <1>20, <2>1 DEF WriteMetadata, FileInv, FileStates, PlaceInv
<1>21. CASE FrontendSaves
  <2>1. UNCHANGED <<contents, count>> /\ Checkpointed' = Checkpointed
    BY <1>21 DEF FrontendSaves, Checkpointed
  <2> QED BY <1>21, <2>1 DEF FrontendSaves, FileInv, FileStates, PlaceInv
<1>22. CASE Crash
  <2>1. UNCHANGED <<contents, count>> /\ Checkpointed' = Checkpointed
    BY <1>22 DEF Crash, Checkpointed
  <2> QED BY <1>22, <2>1 DEF Crash, FileInv, FileStates, PlaceInv
<1>23. CASE RecoverNothing
  <2>1. UNCHANGED <<contents, count>> /\ Checkpointed' = Checkpointed
    BY <1>23 DEF RecoverNothing, MayRecover, Checkpointed
  <2> QED BY <1>23, <2>1 DEF RecoverNothing, MayRecover, FileInv, FileStates, PlaceInv
<1>24. CASE RecoverStart
  <2>1. UNCHANGED <<contents, count>> /\ Checkpointed' = Checkpointed
    BY <1>24 DEF RecoverStart, MayRecover, Checkpointed
  <2> QED BY <1>24, <2>1 DEF RecoverStart, MayRecover, FileInv, FileStates, PlaceInv
<1>25. CASE RecoverOk
  <2>1. UNCHANGED <<contents, count>> /\ Checkpointed' = Checkpointed
    BY <1>25 DEF RecoverOk, Checkpointed
  <2> QED BY <1>25, <2>1 DEF RecoverOk, FileInv, FileStates, PlaceInv
<1>26. CASE RecoverFail
  <2>1. UNCHANGED <<contents, count>> /\ Checkpointed' = Checkpointed
    BY <1>26 DEF RecoverFail, MayRecover, Checkpointed
  <2> QED BY <1>26, <2>1 DEF RecoverFail, MayRecover, FileInv, FileStates, PlaceInv
<1>27. ASSUME NEW b \in BOOLEAN, RecoverSaveMeeting(b) PROVE FileInv'
  <2>1. UNCHANGED <<contents, count>> /\ Checkpointed' = Checkpointed
    BY <1>27 DEF RecoverSaveMeeting, Checkpointed
  <2> QED BY <1>27, <2>1 DEF RecoverSaveMeeting, FileInv, FileStates, PlaceInv
<1>28. CASE CleanupCheckpoints
  <2>1. UNCHANGED <<contents, count>> /\ Checkpointed' = Checkpointed
    BY <1>28 DEF CleanupCheckpoints, Checkpointed
  <2> QED BY <1>28, <2>1 DEF CleanupCheckpoints, FileInv, FileStates, PlaceInv
<1>29. CASE UNCHANGED vars
  BY <1>29 DEF vars, FileInv, Checkpointed
<1> QED
  BY <1>1, <1>2, <1>3, <1>4, <1>5, <1>6, <1>7, <1>8, <1>9, <1>10, <1>11, <1>12, <1>13,
     <1>14, <1>15, <1>16, <1>17, <1>18, <1>19, <1>20, <1>21, <1>22, <1>23, <1>24, <1>25,
     <1>26, <1>27, <1>28, <1>29
  DEF Next, Pipeline, Task, Encode, StopAndSave, Recover

(* Every step keeps every accepted chunk, once.                             *)
LEMMA AcceptedStep ==
    HandInv /\ FileInv /\ AcceptedExactlyOnce /\ [Next]_vars => AcceptedExactlyOnce'
<1> SUFFICES ASSUME HandInv, FileInv, AcceptedExactlyOnce, [Next]_vars PROVE AcceptedExactlyOnce'
  OBVIOUS
<1> USE DEF input, taskV, setup, meeting, disk, rec
<1>1. CASE PipelineSend
  BY <1>1 DEF PipelineSend, AcceptedExactlyOnce, Checkpointed
<1>2. CASE PipelineEnd
  BY <1>2 DEF PipelineEnd, AcceptedExactlyOnce, Checkpointed
<1>3. ASSUME NEW b \in BOOLEAN, AddTranscriptSegment(b) PROVE AcceptedExactlyOnce'
  BY <1>3 DEF AddTranscriptSegment, WriteTranscriptsJson, AcceptedExactlyOnce, Checkpointed
<1>4. CASE TaskRecv
  BY <1>4 DEF TaskRecv, AcceptedExactlyOnce, Checkpointed
<1>5. CASE TaskEnd
  BY <1>5 DEF TaskEnd, AcceptedExactlyOnce, Checkpointed
<1>6. CASE TaskDiscard
  BY <1>6 DEF TaskDiscard, AcceptedExactlyOnce, Checkpointed
<1>7. CASE TaskAddChunk
  <2>1. taskChunk \notin accepted /\ buffer' = buffer \cup {taskChunk}
        /\ accepted' = accepted \cup {taskChunk}
    BY <1>7 DEF TaskAddChunk, HandInv
  <2>2. UNCHANGED <<contents, count>> /\ Checkpointed' = Checkpointed
    BY <1>7 DEF TaskAddChunk, Checkpointed
  <2> QED BY <2>1, <2>2 DEF AcceptedExactlyOnce
<1>8. CASE EncodeStart
  <2>1. UNCHANGED <<count, buffer, accepted>>
    BY <1>8 DEF EncodeStart
  <2>2. \A i \in 0..count-1 : contents'[i] = contents[i]
    BY <1>8, Started, Given DEF FileInv, Index
  <2> QED BY <1>8, <2>1, <2>2, Started DEF AcceptedExactlyOnce
<1>9. CASE EncodeOk
  <2>1. contents[count] = buffer
    BY <1>9 DEF EncodeOk, InTask, InFinalize, FileInv
  <2>2. /\ count' = count + 1 /\ contents' = contents /\ buffer' = {} /\ accepted' = accepted
    BY <1>9 DEF EncodeOk
  <2>3. Checkpointed' = Checkpointed \cup buffer
    BY <2>1, <2>2, OneMore DEF FileInv
  <2>4. \A i \in 0..count-1 : contents[i] \subseteq Checkpointed
    BY DEF Checkpointed
  <2>5. \A i \in 0..count'-1 : i \in 0..count-1 \/ i = count
    BY <2>2, Given DEF FileInv, Index
  <2>6. ASSUME NEW i \in 0..count'-1, NEW j \in 0..count'-1, i # j
        PROVE  contents'[i] \cap contents'[j] = {}
    BY <2>1, <2>2, <2>4, <2>5, <2>6 DEF AcceptedExactlyOnce
  <2> QED BY <2>2, <2>3, <2>6 DEF AcceptedExactlyOnce
<1>10. CASE EncodeFail
  BY <1>10 DEF EncodeFail, InTask, InFinalize, AcceptedExactlyOnce, Checkpointed
<1>11. CASE StopSaving
  BY <1>11 DEF StopSaving, AcceptedExactlyOnce, Checkpointed
<1>12. CASE SkipAudio
  BY <1>12 DEF SkipAudio, AcceptedExactlyOnce, Checkpointed
<1>13. CASE Finalize
  BY <1>13 DEF Finalize, AcceptedExactlyOnce, Checkpointed
<1>14. CASE MergeStart
  BY <1>14 DEF MergeStart, AcceptedExactlyOnce, Checkpointed
<1>15. CASE MergeOk
  BY <1>15 DEF MergeOk, AcceptedExactlyOnce, Checkpointed
<1>16. CASE MergeFail
  BY <1>16 DEF MergeFail, AcceptedExactlyOnce, Checkpointed
<1>17. ASSUME NEW i \in Index, RemoveCheckpoint(i) PROVE AcceptedExactlyOnce'
  BY <1>17 DEF RemoveCheckpoint, AcceptedExactlyOnce, Checkpointed
<1>18. CASE RemoveDone
  BY <1>18 DEF RemoveDone, AcceptedExactlyOnce, Checkpointed
<1>19. ASSUME NEW b \in BOOLEAN, WriteTranscripts(b) PROVE AcceptedExactlyOnce'
  BY <1>19 DEF WriteTranscripts, WriteTranscriptsJson, AcceptedExactlyOnce, Checkpointed
<1>20. ASSUME NEW b \in BOOLEAN, WriteMetadata(b) PROVE AcceptedExactlyOnce'
  BY <1>20 DEF WriteMetadata, AcceptedExactlyOnce, Checkpointed
<1>21. CASE FrontendSaves
  BY <1>21 DEF FrontendSaves, AcceptedExactlyOnce, Checkpointed
<1>22. CASE Crash
  BY <1>22 DEF Crash, AcceptedExactlyOnce, Checkpointed
<1>23. CASE RecoverNothing
  BY <1>23 DEF RecoverNothing, MayRecover, AcceptedExactlyOnce, Checkpointed
<1>24. CASE RecoverStart
  BY <1>24 DEF RecoverStart, MayRecover, AcceptedExactlyOnce, Checkpointed
<1>25. CASE RecoverOk
  BY <1>25 DEF RecoverOk, AcceptedExactlyOnce, Checkpointed
<1>26. CASE RecoverFail
  BY <1>26 DEF RecoverFail, MayRecover, AcceptedExactlyOnce, Checkpointed
<1>27. ASSUME NEW b \in BOOLEAN, RecoverSaveMeeting(b) PROVE AcceptedExactlyOnce'
  BY <1>27 DEF RecoverSaveMeeting, AcceptedExactlyOnce, Checkpointed
<1>28. CASE CleanupCheckpoints
  BY <1>28 DEF CleanupCheckpoints, AcceptedExactlyOnce, Checkpointed
<1>29. CASE UNCHANGED vars
  BY <1>29 DEF vars, AcceptedExactlyOnce, Checkpointed
<1> QED
  BY <1>1, <1>2, <1>3, <1>4, <1>5, <1>6, <1>7, <1>8, <1>9, <1>10, <1>11, <1>12, <1>13,
     <1>14, <1>15, <1>16, <1>17, <1>18, <1>19, <1>20, <1>21, <1>22, <1>23, <1>24, <1>25,
     <1>26, <1>27, <1>28, <1>29
  DEF Next, Pipeline, Task, Encode, StopAndSave, Recover

(* Every step keeps the checkpoints readable until they are merged.         *)
LEMMA DiskStep ==
    PlaceInv /\ FileInv /\ DiskInv /\ [Next]_vars => DiskInv'
<1> SUFFICES ASSUME PlaceInv, FileInv, DiskInv, [Next]_vars PROVE DiskInv'
  OBVIOUS
<1> USE DEF input, taskV, setup, meeting, disk, rec
<1>1. CASE PipelineSend
  BY <1>1 DEF PipelineSend, DiskInv, AllGood, AllMerged, Merged
<1>2. CASE PipelineEnd
  BY <1>2 DEF PipelineEnd, DiskInv, AllGood, AllMerged, Merged
<1>3. ASSUME NEW b \in BOOLEAN, AddTranscriptSegment(b) PROVE DiskInv'
  BY <1>3 DEF AddTranscriptSegment, WriteTranscriptsJson, DiskInv, AllGood, AllMerged, Merged
<1>4. CASE TaskRecv
  BY <1>4 DEF TaskRecv, DiskInv, AllGood, AllMerged, Merged
<1>5. CASE TaskEnd
  BY <1>5 DEF TaskEnd, DiskInv, AllGood, AllMerged, Merged
<1>6. CASE TaskDiscard
  BY <1>6 DEF TaskDiscard, DiskInv, AllGood, AllMerged, Merged
<1>7. CASE TaskAddChunk
  BY <1>7 DEF TaskAddChunk, DiskInv, AllGood, AllMerged, Merged
<1>8. CASE EncodeStart
  <2>1. UNCHANGED <<count, audio, recovery>> /\ phase' \notin Merged \cup {"failed"}
        /\ phase \notin Merged \cup {"failed"}
    BY <1>8 DEF EncodeStart, InTask, InFinalize, PlaceInv, Merged, Phases
  <2>2. \A i \in 0..count-1 : files'[i] = files[i]
    BY <1>8, Started, Given DEF FileInv, Index
  <2> QED BY <2>1, <2>2 DEF DiskInv, AllGood
<1>9. CASE EncodeOk
  <2>1. UNCHANGED <<audio, recovery>> /\ phase' \notin Merged \cup {"failed"}
        /\ phase \notin Merged \cup {"failed"}
    BY <1>9 DEF EncodeOk, InTask, InFinalize, PlaceInv, Merged, Phases
  <2>2. count' = count + 1 /\ files' = [files EXCEPT ![count] = "good"]
    BY <1>9 DEF EncodeOk
  <2>3. \A i \in 0..count'-1 : i \in Index /\ (i \in 0..count-1 \/ i = count)
    BY <2>2, Given DEF FileInv, Index
  <2>4. AllGood => AllGood'
    BY <2>2, <2>3 DEF AllGood, FileInv
  <2> QED BY <2>1, <2>4 DEF DiskInv
<1>10. CASE EncodeFail
  BY <1>10 DEF EncodeFail, InTask, InFinalize, DiskInv, AllGood, AllMerged, Merged
<1>11. CASE StopSaving
  BY <1>11 DEF StopSaving, DiskInv, AllGood, AllMerged, Merged
<1>12. CASE SkipAudio
  BY <1>12 DEF SkipAudio, DiskInv, AllGood, AllMerged, Merged
<1>13. CASE Finalize
  BY <1>13 DEF Finalize, DiskInv, AllGood, AllMerged, Merged
<1>14. CASE MergeStart
  BY <1>14 DEF MergeStart, DiskInv, AllGood, AllMerged, Merged
<1>15. CASE MergeOk
  BY <1>15 DEF MergeOk, DiskInv, AllGood, AllMerged, Merged
<1>16. CASE MergeFail
  BY <1>16 DEF MergeFail, DiskInv, AllGood, AllMerged, Merged
<1>17. ASSUME NEW i \in Index, RemoveCheckpoint(i) PROVE DiskInv'
  BY <1>17 DEF RemoveCheckpoint, DiskInv, AllGood, AllMerged, Merged
<1>18. CASE RemoveDone
  BY <1>18 DEF RemoveDone, DiskInv, AllGood, AllMerged, Merged
<1>19. ASSUME NEW b \in BOOLEAN, WriteTranscripts(b) PROVE DiskInv'
  BY <1>19 DEF WriteTranscripts, WriteTranscriptsJson, DiskInv, AllGood, AllMerged, Merged
<1>20. ASSUME NEW b \in BOOLEAN, WriteMetadata(b) PROVE DiskInv'
  BY <1>20 DEF WriteMetadata, DiskInv, AllGood, AllMerged, Merged
<1>21. CASE FrontendSaves
  BY <1>21 DEF FrontendSaves, DiskInv, AllGood, AllMerged, Merged
<1>22. CASE Crash
  BY <1>22 DEF Crash, DiskInv, AllGood, AllMerged, Merged
<1>23. CASE RecoverNothing
  BY <1>23 DEF RecoverNothing, MayRecover, DiskInv, AllGood, AllMerged, Merged
<1>24. CASE RecoverStart
  BY <1>24 DEF RecoverStart, MayRecover, DiskInv, AllGood, AllMerged, Merged
<1>25. CASE RecoverOk
  BY <1>25 DEF RecoverOk, DiskInv, AllGood, AllMerged, Merged
<1>26. CASE RecoverFail
  BY <1>26 DEF RecoverFail, MayRecover, DiskInv, AllGood, AllMerged, Merged
<1>27. ASSUME NEW b \in BOOLEAN, RecoverSaveMeeting(b) PROVE DiskInv'
  BY <1>27 DEF RecoverSaveMeeting, DiskInv, AllGood, AllMerged, Merged
<1>28. CASE CleanupCheckpoints
  BY <1>28 DEF CleanupCheckpoints, DiskInv, AllGood, AllMerged, Merged
<1>29. CASE UNCHANGED vars
  BY <1>29 DEF vars, DiskInv, AllGood, AllMerged
<1> QED
  BY <1>1, <1>2, <1>3, <1>4, <1>5, <1>6, <1>7, <1>8, <1>9, <1>10, <1>11, <1>12, <1>13,
     <1>14, <1>15, <1>16, <1>17, <1>18, <1>19, <1>20, <1>21, <1>22, <1>23, <1>24, <1>25,
     <1>26, <1>27, <1>28, <1>29
  DEF Next, Pipeline, Task, Encode, StopAndSave, Recover

(* Every step keeps the metadata true.                                      *)
LEMMA MetaStep ==
    MetaInv /\ [Next]_vars => MetaInv'
<1> SUFFICES ASSUME MetaInv, [Next]_vars PROVE MetaInv'
  OBVIOUS
<1> USE DEF input, taskV, setup, meeting, disk, rec
<1>1. CASE PipelineSend
  BY <1>1 DEF PipelineSend, MetaInv
<1>2. CASE PipelineEnd
  BY <1>2 DEF PipelineEnd, MetaInv
<1>3. ASSUME NEW b \in BOOLEAN, AddTranscriptSegment(b) PROVE MetaInv'
  BY <1>3 DEF AddTranscriptSegment, WriteTranscriptsJson, MetaInv
<1>4. CASE TaskRecv
  BY <1>4 DEF TaskRecv, MetaInv
<1>5. CASE TaskEnd
  BY <1>5 DEF TaskEnd, MetaInv
<1>6. CASE TaskDiscard
  BY <1>6 DEF TaskDiscard, MetaInv
<1>7. CASE TaskAddChunk
  BY <1>7 DEF TaskAddChunk, MetaInv
<1>8. CASE EncodeStart
  BY <1>8 DEF EncodeStart, InTask, InFinalize, MetaInv
<1>9. CASE EncodeOk
  BY <1>9 DEF EncodeOk, InTask, InFinalize, MetaInv
<1>10. CASE EncodeFail
  BY <1>10 DEF EncodeFail, InTask, InFinalize, MetaInv
<1>11. CASE StopSaving
  BY <1>11 DEF StopSaving, MetaInv
<1>12. CASE SkipAudio
  BY <1>12 DEF SkipAudio, MetaInv
<1>13. CASE Finalize
  BY <1>13 DEF Finalize, MetaInv
<1>14. CASE MergeStart
  BY <1>14 DEF MergeStart, MetaInv
<1>15. CASE MergeOk
  BY <1>15 DEF MergeOk, MetaInv
<1>16. CASE MergeFail
  BY <1>16 DEF MergeFail, MetaInv
<1>17. ASSUME NEW i \in Index, RemoveCheckpoint(i) PROVE MetaInv'
  BY <1>17 DEF RemoveCheckpoint, MetaInv
<1>18. CASE RemoveDone
  BY <1>18 DEF RemoveDone, MetaInv
<1>19. ASSUME NEW b \in BOOLEAN, WriteTranscripts(b) PROVE MetaInv'
  BY <1>19 DEF WriteTranscripts, WriteTranscriptsJson, MetaInv
<1>20. ASSUME NEW b \in BOOLEAN, WriteMetadata(b) PROVE MetaInv'
  BY <1>20 DEF WriteMetadata, MetaInv
<1>21. CASE FrontendSaves
  BY <1>21 DEF FrontendSaves, MetaInv
<1>22. CASE Crash
  BY <1>22 DEF Crash, MetaInv
<1>23. CASE RecoverNothing
  BY <1>23 DEF RecoverNothing, MayRecover, MetaInv
<1>24. CASE RecoverStart
  BY <1>24 DEF RecoverStart, MayRecover, MetaInv
<1>25. CASE RecoverOk
  BY <1>25 DEF RecoverOk, MetaInv
<1>26. CASE RecoverFail
  BY <1>26 DEF RecoverFail, MayRecover, MetaInv
<1>27. ASSUME NEW b \in BOOLEAN, RecoverSaveMeeting(b) PROVE MetaInv'
  BY <1>27 DEF RecoverSaveMeeting, MetaInv
<1>28. CASE CleanupCheckpoints
  BY <1>28 DEF CleanupCheckpoints, MetaInv
<1>29. CASE UNCHANGED vars
  BY <1>29 DEF vars, MetaInv
<1> QED
  BY <1>1, <1>2, <1>3, <1>4, <1>5, <1>6, <1>7, <1>8, <1>9, <1>10, <1>11, <1>12, <1>13,
     <1>14, <1>15, <1>16, <1>17, <1>18, <1>19, <1>20, <1>21, <1>22, <1>23, <1>24, <1>25,
     <1>26, <1>27, <1>28, <1>29
  DEF Next, Pipeline, Task, Encode, StopAndSave, Recover

-----------------------------------------------------------------------------
IInv == /\ PlaceInv /\ QueueInv /\ HandInv /\ FileInv
        /\ AcceptedExactlyOnce /\ DiskInv /\ MetaInv

LEMMA Invariance == Spec => []IInv
<1>1. Init => IInv
  <2> SUFFICES ASSUME Init PROVE IInv
    OBVIOUS
  <2>1. 0..count-1 = {} /\ count = 0 /\ 0 \in Index
    BY Given DEF Init, Index
  <2>2. Checkpointed = {}
    BY <2>1 DEF Checkpointed
  <2>3. PlaceInv
    BY DEF Init, PlaceInv, Tasks, Phases, Merging
  <2>4. QueueInv /\ HandInv
    BY Given DEF Init, QueueInv, HandInv
  <2>5. FileInv
    BY <2>1, <2>2, FS_EmptySet DEF Init, FileInv, FileStates
  <2>6. AcceptedExactlyOnce
    BY <2>1, <2>2 DEF Init, AcceptedExactlyOnce
  <2>7. DiskInv
    BY <2>1 DEF Init, DiskInv, AllGood, Merged
  <2>8. MetaInv
    BY DEF Init, MetaInv
  <2> QED BY <2>3, <2>4, <2>5, <2>6, <2>7, <2>8 DEF IInv
<1>2. IInv /\ [Next]_vars => IInv'
  BY PlaceStep, QueueStep, HandStep, FileStep, AcceptedStep, DiskStep, MetaStep DEF IInv
<1> QED BY <1>1, <1>2, PTL DEF Spec

(* What was merged is what the checkpoints hold.                            *)
LEMMA MergedAudio == FileInv /\ AllMerged => InAudio = Checkpointed
<1> SUFFICES ASSUME FileInv, AllMerged PROVE InAudio = Checkpointed
  OBVIOUS
<1>1. count \in Nat
  BY DEF FileInv, Index
<1>2. Len(audio.parts) = count /\ \A k \in 1..count : audio.parts[k] = k - 1
  BY <1>1 DEF AllMerged
<1>3. \A i \in 0..count-1 : i + 1 \in 1..count /\ (i + 1) - 1 = i
  BY <1>1
<1>4. \A k \in 1..count : k - 1 \in 0..count-1
  BY <1>1
<1>5. InAudio \subseteq Checkpointed
  BY <1>2, <1>4 DEF InAudio, Checkpointed
<1>6. \A i \in 0..count-1 : i + 1 \in 1..Len(audio.parts) /\ audio.parts[i + 1] = i
  BY <1>2, <1>3
<1>7. Checkpointed \subseteq InAudio
  BY <1>6 DEF InAudio, Checkpointed
<1> QED BY <1>5, <1>7

(* For any recording and any failures of ffmpeg: no accepted audio is lost  *)
(* or written twice.                                                        *)
THEOREM AcceptedExactlyOnceHolds == Spec => []AcceptedExactlyOnce
<1>1. IInv => AcceptedExactlyOnce
  BY DEF IInv
<1> QED BY <1>1, Invariance, PTL

(* Whenever the process dies, what a finished checkpoint held can be read   *)
(* from the folder until somebody starts a recovery.                        *)
THEOREM CheckpointedOnDiskHolds == Spec => []CheckpointedOnDisk
<1>1. IInv => CheckpointedOnDisk
  <2> SUFFICES ASSUME IInv, recovery = "idle" PROVE Checkpointed \subseteq OnDisk
    BY DEF CheckpointedOnDisk
  <2>1. AllGood \/ AllMerged
    BY DEF IInv, DiskInv
  <2>2. CASE AllMerged
    BY <2>2, MergedAudio DEF IInv, OnDisk
  <2>3. CASE AllGood
    <3>1. \A i \in 0..count-1 : i \in Index
      BY Given DEF IInv, FileInv, Index
    <3>2. \A i \in 0..count-1 : i \in GoodFiles
      BY <2>3, <3>1 DEF AllGood, GoodFiles
    <3> QED BY <3>2 DEF Checkpointed, OnDisk
  <2> QED BY <2>1, <2>2, <2>3
<1> QED BY <1>1, Invariance, PTL

(* For any recording: a meeting that is marked completed has one readable   *)
(* audio file with all of its audio in order, and all of its transcript.    *)
THEOREM CompletedMeansSavedHolds == Spec => []CompletedMeansSaved
<1>1. IInv => CompletedMeansSaved
  <2> SUFFICES ASSUME IInv, status = "completed", recovery = "idle"
               PROVE  /\ audio.state = "good" /\ InAudio = accepted
                      /\ \A k \in 1..Len(audio.parts) : audio.parts[k] = k - 1
                      /\ transcripts = added
    BY DEF CompletedMeansSaved
  <2>1. phase = "saved" /\ transcripts = added
    BY DEF IInv, MetaInv
  <2>2. AllMerged /\ buffer = {}
    BY <2>1 DEF IInv, DiskInv, PlaceInv, Merged, Merging
  <2>3. InAudio = accepted
    BY <2>2, MergedAudio DEF IInv, AcceptedExactlyOnce
  <2>4. count \in Nat
    BY DEF IInv, FileInv, Index
  <2>5. audio.state = "good" /\ \A k \in 1..Len(audio.parts) : audio.parts[k] = k - 1
    BY <2>2, <2>4 DEF AllMerged
  <2> QED BY <2>1, <2>3, <2>5
<1> QED BY <1>1, Invariance, PTL

-----------------------------------------------------------------------------
(* Every non-empty set of numbers has a least one.                          *)
LEMMA LeastNumber ==
    ASSUME NEW S, S \subseteq Nat, S # {}
    PROVE  \E n \in S : \A m \in S : n <= m
<1> DEFINE R == OpToRel(<, Nat)
<1>1. IsWellFoundedOn(R, Nat)
  BY NatLessThanWellFounded
<1>2. PICK n \in S : \A m \in S : <<m, n>> \notin R
  BY <1>1, WFMin
<1>3. ASSUME NEW m \in S PROVE n <= m
  <2>1. <<m, n>> \notin R /\ <<m, n>> \in Nat \X Nat
    BY <1>2
  <2>2. ~(m < n)
    BY <2>1 DEF OpToRel
  <2> QED BY <2>2
<1> QED BY <1>2, <1>3

(* Whatever number of a set of numbers is asked for, one has as many below  *)
(* it.                                                                      *)
LEMMA RankExists ==
    ASSUME NEW S, S \subseteq Nat, IsFiniteSet(S), NEW k \in Nat, k < Cardinality(S)
    PROVE  \E i \in S : Cardinality({j \in S : j < i}) = k
<1> DEFINE Below(i) == {j \in S : j < i}
           Bad == {n \in Nat : n < Cardinality(S) /\ \A i \in S : Cardinality(Below(i)) # n}
<1>0. \A i : IsFiniteSet(Below(i)) /\ Cardinality(Below(i)) \in Nat
  BY FS_Subset, FS_CardinalityType
<1>9. \A a, b \in S : (a < b \/ a = b \/ b < a) /\ (a <= b <=> ~(b < a))
  OBVIOUS
<1>10. \A a, b, c \in S : a < b /\ b < c => a < c
  OBVIOUS
<1>1. SUFFICES ASSUME Bad # {} PROVE FALSE
  OBVIOUS
<1>2. PICK n \in Bad : \A m \in Bad : n <= m
  <2>1. Bad \subseteq Nat
    OBVIOUS
  <2> QED BY <2>1, <1>1, LeastNumber
<1>3. CASE n = 0
  <2>1. S # {}
    BY <1>3, <1>2, FS_EmptySet
  <2>2. PICK i \in S : \A j \in S : i <= j
    BY <2>1, LeastNumber
  <2>3. Below(i) = {}
    <3>1. \A j \in S : ~(j < i)
      BY <2>2, <1>9
    <3> QED BY <3>1
  <2> QED BY <1>2, <1>3, <2>3, FS_EmptySet
<1>4. CASE n > 0
  <2>1. n - 1 \in Nat /\ n - 1 < Cardinality(S) /\ n - 1 \notin Bad
    BY <1>2, <1>4, FS_CardinalityType
  <2>2. PICK i \in S : Cardinality(Below(i)) = n - 1
    BY <2>1
  <2>3. /\ IsFiniteSet(Below(i) \cup {i}) /\ Cardinality(Below(i) \cup {i}) = n
    <3>1. i \notin Below(i) /\ n \in Nat /\ (n - 1) + 1 = n
      OBVIOUS
    <3>2. IsFiniteSet(Below(i))
      BY <1>0
    <3> HIDE DEF Below
    <3>3. Cardinality(Below(i) \cup {i}) = Cardinality(Below(i)) + 1
      BY <3>1, <3>2, FS_AddElement
    <3> QED BY <2>2, <3>1, <3>2, <3>3, FS_AddElement
  <2>4. \E j \in S : i < j
    <3>1. SUFFICES ASSUME \A j \in S : ~(i < j) PROVE FALSE
      OBVIOUS
    <3>2. \A l \in S : l \in Below(i) \cup {i}
      BY <3>1, <1>9
    <3>4. S = Below(i) \cup {i}
      BY <3>2
    <3> QED BY <1>2, <2>3, <3>4
  <2>5. PICK j \in {l \in S : i < l} : \A l \in {l \in S : i < l} : j <= l
    <3>1. {l \in S : i < l} \subseteq Nat /\ {l \in S : i < l} # {}
      BY <2>4
    <3> QED BY <3>1, LeastNumber
  <2>6. Below(j) = Below(i) \cup {i}
    <3>1. \A l \in S : l < j <=> l < i \/ l = i
      BY <2>5, <1>9, <1>10
    <3> QED BY <3>1
  <2> QED BY <1>2, <2>3, <2>5, <2>6
<1> QED BY <1>2, <1>3, <1>4

(* Below the limit of three digits the names sort as the numbers do.        *)
LEMMA NamesInOrder ==
    ASSUME NEW i \in Nat, NEW j \in Nat, i < NameLimit, j < NameLimit
    PROVE  NameKey(i) < NameKey(j) <=> i < j
<1>1. Radix \in Nat /\ NameLimit \in Nat
  BY SaverAssumption
<1>2. NameKey(i) = i * (Radix + 1) /\ NameKey(j) = j * (Radix + 1)
  BY DEF NameKey
<1>3. \A a, b \in Nat : a < b => a * (Radix + 1) < b * (Radix + 1)
  BY <1>1
<1> QED BY <1>1, <1>2, <1>3

LEMMA Sorted ==
    ASSUME NEW S, S \subseteq Nat, IsFiniteSet(S), \A i \in S : i < NameLimit,
           NEW k \in 1..Cardinality(S), NEW l \in 1..Cardinality(S), k < l
    PROVE  SortedByName(S)[k] < SortedByName(S)[l]
<1> DEFINE Below(i) == {j \in S : j < i}
           Rank(m) == CHOOSE i \in S : Cardinality({j \in S : NameKey(j) < NameKey(i)}) = m - 1
<1>1. Cardinality(S) \in Nat
  BY FS_CardinalityType
<1>2. \A i \in S : {j \in S : NameKey(j) < NameKey(i)} = Below(i)
  BY NamesInOrder
<1>3. ASSUME NEW m \in 1..Cardinality(S)
      PROVE  Rank(m) \in S /\ Cardinality(Below(Rank(m))) = m - 1
  <2>1. m - 1 \in Nat /\ m - 1 < Cardinality(S)
    BY <1>1
  <2>2. \E i \in S : Cardinality(Below(i)) = m - 1
    BY <2>1, RankExists
  <2>3. \E i \in S : Cardinality({j \in S : NameKey(j) < NameKey(i)}) = m - 1
    BY <2>2, <1>2
  <2> QED BY <2>3, <1>2
<1>4. SortedByName(S)[k] = Rank(k) /\ SortedByName(S)[l] = Rank(l)
  BY DEF SortedByName
<1>5. PICK i \in S, j \in S : i = Rank(k) /\ j = Rank(l)
  BY <1>3
<1>6. Cardinality(Below(i)) = k - 1 /\ Cardinality(Below(j)) = l - 1
  <2> HIDE DEF Below, Rank
  <2> QED BY <1>3, <1>5
<1>7. ASSUME j <= i PROVE FALSE
  <2>1. \A m \in S : m < j => m < i
    BY <1>7
  <2>2. Below(j) \subseteq Below(i) /\ IsFiniteSet(Below(i))
    BY <2>1, FS_Subset
  <2>3. Cardinality(Below(j)) <= Cardinality(Below(i))
    <3> HIDE DEF Below
    <3> QED BY <2>2, FS_Subset
  <2>4. l - 1 <= k - 1
    <3> HIDE DEF Below
    <3> QED BY <2>3, <1>6
  <2> QED BY <2>4, <1>1
<1>8. i \in Nat /\ j \in Nat
  OBVIOUS
<1>9. i < j
  BY <1>7, <1>8
<1> HIDE DEF Rank
<1> QED BY <1>4, <1>5, <1>9

(* A checkpoint of a full buffer is Interval chunks long; only the last one *)
(* is shorter.  So a file's number says how much audio is before it.        *)
SizeInv ==
    /\ \A i \in Index : files[i] # "none" => i * Interval < MaxChunks
    /\ task \in {"encode", "encoding"} => Cardinality(buffer) >= Interval
    /\ phase \in {"recording", "stopping", "flush", "flushing"}
           => count * Interval <= Cardinality(Checkpointed)

(* Every step keeps the numbers of the files in proportion to the audio.    *)
LEMMA SizeStep ==
    IInv /\ SizeInv /\ [Next]_vars => SizeInv'
<1> SUFFICES ASSUME IInv, SizeInv, [Next]_vars PROVE SizeInv'
  OBVIOUS
<1> USE DEF input, taskV, setup, meeting, disk, rec
<1> DEFINE Early == {"recording", "stopping", "flush", "flushing"}
           Same == /\ UNCHANGED <<contents, count>> /\ Checkpointed' = Checkpointed
                   /\ \A i \in Index : files'[i] # "none" => files[i] # "none"
                   /\ task' \in {"encode", "encoding"} =>
                          task \in {"encode", "encoding"} /\ buffer' = buffer
                   /\ phase' \in Early => phase \in Early
<1>0. PlaceInv /\ FileInv /\ AcceptedExactlyOnce
  BY DEF IInv
<1>1. UNCHANGED <<contents, count>> => Checkpointed' = Checkpointed
  BY DEF Checkpointed
<1>2. Same => SizeInv'
  BY DEF SizeInv
<1>3. ASSUME TaskAddChunk PROVE SizeInv'
  <2>1. /\ UNCHANGED <<contents, count, files, phase>>
        /\ task' \in {"encode", "encoding"} => Cardinality(buffer') >= Interval
    BY <1>3 DEF TaskAddChunk
  <2> QED BY <2>1, <1>1 DEF SizeInv
<1>4. ASSUME buffer # {}, phase \in Early
      PROVE  count * Interval < MaxChunks /\ count \in Nat /\ Cardinality(Checkpointed) \in Nat
  <2>1. PICK e \in buffer : e \in Chunks /\ e \notin Checkpointed
    BY <1>0, <1>4 DEF FileInv, AcceptedExactlyOnce
  <2>2. IsFiniteSet(Checkpointed) /\ Checkpointed \cup {e} \subseteq Chunks
    BY <1>0, <2>1, CheckpointedChunks
  <2>3. Cardinality(Checkpointed \cup {e}) = Cardinality(Checkpointed) + 1
    BY <2>1, <2>2, FS_AddElement
  <2>4. Cardinality(Checkpointed \cup {e}) <= MaxChunks
    BY <2>2, ChunksFinite, FS_Subset
  <2>5. count * Interval <= Cardinality(Checkpointed) /\ count \in Nat
    BY <1>0, <1>4 DEF SizeInv, FileInv, Index
  <2>6. Cardinality(Checkpointed) \in Nat
    BY <2>2, FS_CardinalityType
  <2>7. count * Interval \in Nat
    BY <2>5, Given
  <2> HIDE DEF Early
  <2> QED BY <2>3, <2>4, <2>5, <2>6, <2>7, Given
<1>5. CASE EncodeStart
  <2>1. /\ UNCHANGED <<count, buffer>> /\ Checkpointed' = Checkpointed
        /\ \A i \in Index \ {count} : files'[i] = files[i]
    BY <1>0, <1>5, Started DEF EncodeStart
  <2>2. /\ buffer # {} /\ phase \in Early /\ (phase' \in Early => phase \in Early)
        /\ task' \in {"encode", "encoding"} => task \in {"encode", "encoding"}
    BY <1>0, <1>5 DEF EncodeStart, InTask, InFinalize, PlaceInv, Phases
  <2> QED BY <2>1, <2>2, <1>4 DEF SizeInv
<1>6. CASE EncodeOk
  <2>1. /\ contents[count] = buffer /\ buffer # {} /\ phase \in Early
        /\ task' \notin {"encode", "encoding"}
        /\ phase' \in Early => task = "encoding"
    BY <1>0, <1>6 DEF EncodeOk, InTask, InFinalize, FileInv, PlaceInv
  <2>2. /\ count' = count + 1 /\ contents' = contents
        /\ \A i \in Index \ {count} : files'[i] = files[i]
    BY <1>0, <1>6 DEF EncodeOk, FileInv
  <2>3. Checkpointed' = Checkpointed \cup buffer
    BY <1>0, <2>1, <2>2, OneMore DEF FileInv
  <2>4. /\ IsFiniteSet(Checkpointed) /\ IsFiniteSet(buffer) /\ Checkpointed \cap buffer = {}
    BY <1>0, CheckpointedChunks, ChunksFinite, FS_Subset DEF FileInv, AcceptedExactlyOnce
  <2>5. Cardinality(Checkpointed') = Cardinality(Checkpointed) + Cardinality(buffer) - 0
    BY <2>3, <2>4, FS_Union, FS_EmptySet
  <2>6. Cardinality(buffer) \in Nat
    BY <2>4, FS_CardinalityType
  <2>7. ASSUME phase' \in Early PROVE count' * Interval <= Cardinality(Checkpointed')
    <3>1. Cardinality(buffer) >= Interval /\ count * Interval <= Cardinality(Checkpointed)
      BY <2>1, <2>7 DEF SizeInv
    <3>2. count \in Nat /\ Cardinality(Checkpointed) \in Nat /\ count * Interval \in Nat
      BY <2>1, <1>4, Given
    <3>3. (count + 1) * Interval = count * Interval + Interval
      BY <3>2, Given
    <3> HIDE DEF Early
    <3> QED BY <3>1, <3>2, <3>3, <2>2, <2>5, <2>6, Given
  <2> QED BY <2>1, <2>2, <2>7, <1>4 DEF SizeInv
<1>7. CASE RemoveDone \/ MergeOk \/ MergeStart \/ MergeFail \/ Finalize \/ SkipAudio \/ StopSaving
  <2>1. Same
    BY <1>0, <1>1, <1>7
    DEF RemoveDone, MergeOk, MergeStart, MergeFail, Finalize, SkipAudio, StopSaving, PlaceInv
  <2> QED BY <1>2, <2>1
<1>8. ASSUME NEW i \in Index, RemoveCheckpoint(i) PROVE SizeInv'
  <2>1. Same
    BY <1>0, <1>1, <1>8 DEF RemoveCheckpoint, FileInv
  <2> QED BY <1>2, <2>1
<1>9. ASSUME NEW b \in BOOLEAN,
             \/ WriteTranscripts(b) \/ WriteMetadata(b) \/ AddTranscriptSegment(b)
             \/ RecoverSaveMeeting(b)
      PROVE  SizeInv'
  <2>1. Same
    BY <1>1, <1>9 DEF WriteTranscripts, WriteMetadata, AddTranscriptSegment,
                      WriteTranscriptsJson, RecoverSaveMeeting
  <2> QED BY <1>2, <2>1
<1>10. CASE PipelineSend \/ PipelineEnd \/ TaskRecv \/ TaskEnd \/ TaskDiscard
  <2>1. Same
    BY <1>1, <1>10 DEF PipelineSend, PipelineEnd, TaskRecv, TaskEnd, TaskDiscard
  <2> QED BY <1>2, <2>1
<1>11. CASE EncodeFail
  <2>1. Same
    BY <1>1, <1>11 DEF EncodeFail, InTask, InFinalize
  <2> QED BY <1>2, <2>1
<1>12. CASE FrontendSaves \/ Crash \/ Recover \/ UNCHANGED vars
  <2>1. UNCHANGED <<contents, count, buffer, task, phase>>
    BY <1>12 DEF FrontendSaves, Crash, Recover, RecoverNothing, RecoverStart, RecoverOk,
                 RecoverFail, RecoverSaveMeeting, CleanupCheckpoints, vars
  <2>2. files' = files \/ files' = [i \in Index |-> "none"]
    BY <1>12 DEF FrontendSaves, Crash, Recover, RecoverNothing, RecoverStart, RecoverOk,
                 RecoverFail, RecoverSaveMeeting, CleanupCheckpoints, vars
  <2>3. Same
    BY <1>1, <2>1, <2>2
  <2> QED BY <1>2, <2>3
<1> QED
  BY <1>3, <1>5, <1>6, <1>7, <1>8, <1>9, <1>10, <1>11, <1>12
  DEF Next, Pipeline, Task, Encode, StopAndSave

(* The audio file of a step is in order if it is there.                     *)
LEMMA OrderStep ==
    ASSUME MaxChunks <= NameLimit * Interval, IInv, SizeInv, RecoveredInOrder, [Next]_vars
    PROVE  RecoveredInOrder'
<1> USE DEF input, taskV, setup, meeting, disk, rec
<1>1. audio' = audio => RecoveredInOrder'
  BY DEF RecoveredInOrder
<1>2. CASE MergeStart \/ RecoverStart
  BY <1>2 DEF MergeStart, RecoverStart, PartialAudio, RecoveredInOrder
<1>3. CASE MergeOk
  <2>1. audio' = [state |-> "good", parts |-> [k \in 1..count |-> k - 1]] /\ count \in Nat
    BY <1>3 DEF MergeOk, IInv, FileInv, Index
  <2>2. Len(audio'.parts) = count /\ \A k \in 1..count : audio'.parts[k] = k - 1
    BY <2>1
  <2> QED BY <2>1, <2>2 DEF RecoveredInOrder
<1>4. CASE RecoverOk
  <2> DEFINE S == PresentFiles
  <2>1. audio'.parts = SortedByName(S)
    BY <1>4 DEF RecoverOk
  <2>2. S \subseteq Index /\ S \subseteq Nat /\ IsFiniteSet(S) /\ Cardinality(S) \in Nat
    <3>1. S \subseteq Index /\ Index \subseteq Nat
      BY DEF PresentFiles, Index
    <3>2. IsFiniteSet(Index)
      BY Given, FS_Interval DEF Index
    <3> HIDE DEF S
    <3> QED BY <3>1, <3>2, FS_Subset, FS_CardinalityType
  <2>3. Len(SortedByName(S)) = Cardinality(S)
    BY <2>2 DEF SortedByName
  <2>4. ASSUME NEW i \in S PROVE i < NameLimit
    <3>1. i * Interval < MaxChunks /\ i \in Nat
      BY <2>2 DEF SizeInv, PresentFiles
    <3>2. NameLimit \in Nat
      BY SaverAssumption
    <3>3. ASSUME NameLimit <= i PROVE FALSE
      <4>1. NameLimit * Interval <= i * Interval
        BY <3>1, <3>2, <3>3, Given
      <4>2. i * Interval \in Nat /\ NameLimit * Interval \in Nat
        BY <3>1, <3>2, Given
      <4> QED BY <4>1, <4>2, <3>1, Given
    <3> QED BY <3>1, <3>2, <3>3
  <2>5. ASSUME NEW k \in 1..Cardinality(S), NEW l \in 1..Cardinality(S), k < l
        PROVE  SortedByName(S)[k] < SortedByName(S)[l]
    <3> HIDE DEF S
    <3> QED BY <2>2, <2>4, <2>5, Sorted
  <2> HIDE DEF S
  <2> QED BY <2>1, <2>3, <2>5 DEF RecoveredInOrder
<1>5. CASE ~(MergeStart \/ RecoverStart \/ MergeOk \/ RecoverOk)
  <2>1. audio' = audio
    BY <1>5 DEF Next, Pipeline, Task, Encode, StopAndSave, Recover, PipelineSend, PipelineEnd,
       AddTranscriptSegment, TaskRecv, TaskEnd, TaskDiscard, TaskAddChunk, EncodeStart,
       EncodeOk, EncodeFail, StopSaving, SkipAudio, Finalize, MergeFail, RemoveCheckpoint,
       RemoveDone, WriteTranscripts, WriteMetadata, FrontendSaves, Crash, RecoverNothing,
       RecoverFail, RecoverSaveMeeting, CleanupCheckpoints, vars
  <2> QED BY <1>1, <2>1
<1> QED BY <1>2, <1>3, <1>4, <1>5

(* For recordings of up to NameLimit full checkpoints (a thousand of half a *)
(* minute, so more than eight hours), whatever fails and whenever the       *)
(* process dies: a readable audio file, merged by the stop or by a recovery *)
(* that sorted the files by name, plays its checkpoints in order.           *)
THEOREM RecoveredInOrderHolds ==
    ASSUME MaxChunks <= NameLimit * Interval
    PROVE  Spec => []RecoveredInOrder
<1>1. Init => SizeInv /\ RecoveredInOrder
  <2> SUFFICES ASSUME Init PROVE SizeInv /\ RecoveredInOrder
    OBVIOUS
  <2>1. 0..count-1 = {} /\ count = 0
    BY DEF Init
  <2>2. Checkpointed = {}
    BY <2>1 DEF Checkpointed
  <2>3. count * Interval <= Cardinality(Checkpointed)
    BY <2>1, <2>2, FS_EmptySet, Given
  <2> QED BY <2>3 DEF Init, SizeInv, RecoveredInOrder, NoAudio
<1>2. IInv /\ SizeInv /\ RecoveredInOrder /\ [Next]_vars => (SizeInv /\ RecoveredInOrder)'
  BY SizeStep, OrderStep
<1> QED BY <1>1, <1>2, Invariance, PTL DEF Spec

-----------------------------------------------------------------------------
(* The recording's neighbours are the jobs of BatchJobs: imports and        *)
(* retranscriptions that use the engine the recording is transcribed with.  *)
(* Where a job of each kind can be.                                         *)
After == {"unload", "dropCtx", "dropName", "release", "done"}
Loading == {"load", "swapCtx", "swapName", "setCtx", "setName"}
Working == Stages \cup Loading
           \cup {"engine", "loop", "transcribe", "hearing", "save", "files"}
Hearing == {"loop", "transcribe", "hearing"}
OnAir == {"check", "mute", "engine", "dropCtx", "dropName", "release"} \cup Hearing
(* The kind is written "in progress" for this batch.                        *)
InHand(j) == Kind(j) \in Batches /\ job[j].pc \notin {"idle", "acquire", "done"}
AtWork(j) == Kind(j) = "recording" /\ job[j].pc # "done"

JobPlaceInv(j) ==
    /\ At(j, "idle") => Kind(j) = "import" /\ job[j].outcome = "none"
    /\ Kind(j) = "import" =>
           job[j].pc \in {"idle", "acquire", "reset", "source"} \cup Working \cup After
    /\ Kind(j) = "retranscription" =>
           job[j].pc \in {"acquire", "reset"} \cup (Working \ {"copy"}) \cup After
    /\ Kind(j) = "recording" => job[j].pc \in {"validate", "begin", "done"} \cup Loading \cup OnAir
    /\ Kind(j) = "settings" => job[j].pc \in Loading \cup {"done"}
    /\ Kind(j) \in Batches /\ ~At(j, "idle") => job[j].want # None
    /\ job[j].pc \in Loading => job[j].goal # None
    /\ job[j].pc \in {"transcribe", "hearing"} => job[j].left > 0
    /\ InHand(j) => inProgress[Kind(j)]
    /\ Kind(j) = "recording" /\ job[j].pc \in OnAir => inProgress["recording"]
    /\ Kind(j) = "recording" /\ job[j].pc \in {"validate", "begin"} => ~inProgress["recording"]

(* What a cancellation and a transaction say about the place.               *)
BatchInv(j) ==
    /\ j \in told => /\ Kind(j) \in Batches /\ j \notin committed
                     /\ job[j].pc \in After \/ (Cancelled(j) /\ job[j].pc \notin Deaf)
    /\ j \in committed => Kind(j) \in Batches /\ job[j].pc \in After \cup {"files"}
    /\ job[j].outcome = "cancelled" => Kind(j) \in Batches /\ job[j].pc \in After
    /\ At(j, "files") /\ Kind(j) = "retranscription" => rows = Transcripts(j)

(* Who takes the name back has taken the model; a batch unloads beside a    *)
(* recording only if it had begun before; and what the recording needs.     *)
ModelInv(j) ==
    /\ job[j].pc \in {"dropName", "swapName"} => ctx = None
    /\ inProgress["recording"] /\ Kind(j) \in Batches /\ job[j].pc \in {"dropCtx", "dropName"}
           => raced
    /\ Live(j) /\ job[j].pc \in Hearing => ctx # None \/ raced \/ clashed \/ NameRead # {}

JobInv(j) == JobPlaceInv(j) /\ BatchInv(j) /\ ModelInv(j)

(* One batch of a kind and one recording at a time.                         *)
OneEach ==
    /\ \A i, j \in Jobs : InHand(i) /\ InHand(j) /\ Kind(i) = Kind(j) => i = j
    /\ \A i, j \in Jobs : AtWork(i) /\ AtWork(j) => i = j
    /\ inProgress["recording"] => \E j \in Jobs : AtWork(j)

(* The two variables of the engine.                                         *)
Named ==
    /\ AtRest /\ ~clashed => ctx = name
    /\ ~clashed /\ (\A j \in Jobs : job[j].pc \notin {"dropName", "swapName"}) /\ name # None
           => ctx # None

(* The database is ahead of the file only before the file is written.       *)
Written ==
    ~jsonFailed => json = rows \/ \E j \in Jobs : At(j, "files") /\ Kind(j) = "retranscription"

(* A load that is between its two writes has written the model it is about  *)
(* to name, and a model without a name is one that is about to have it.     *)
WritingInv ==
    /\ ctx # None /\ name = None => \E j \in Jobs : At(j, "setName")
    /\ ~clashed => \A j \in Jobs : At(j, "setName") => ctx = job[j].goal

(* An import has a folder from its first look at the flag on; only it, or   *)
(* another one that has the same, removes it.                               *)
Early == {"idle", "acquire", "reset", "source"}
FolderInv ==
    /\ \A j \in Jobs :
           /\ place[j] # Nowhere => Kind(j) = "import" /\ job[j].pc \notin Early
           /\ Kind(j) = "import" /\ job[j].pc \in Working => place[j] \in folders
    /\ FolderFollowsOutcome

JobsInv == JobsTypeOK /\ (\A j \in Jobs : JobInv(j)) /\ OneEach /\ Named /\ Written


-----------------------------------------------------------------------------
(* What a step does to the jobs: one of them becomes this, the others stay. *)
Alone(j) == job' \in [Jobs -> JobRecord] /\ \A i \in Jobs \ {j} : job'[i] = job[i]
Becomes(j, kind, want, goal, pc, left, heard, outcome) ==
    /\ Alone(j)
    /\ job'[j].kind = kind /\ job'[j].want = want /\ job'[j].goal = goal /\ job'[j].pc = pc
    /\ job'[j].left = left /\ job'[j].heard = heard /\ job'[j].outcome = outcome
Moves(j, pc) == Becomes(j, Kind(j), job[j].want, job[j].goal, pc, job[j].left, job[j].heard,
                        job[j].outcome)
Leaves(j, outcome) == Becomes(j, Kind(j), job[j].want, job[j].goal, "unload", 0, job[j].heard,
                              outcome)
CountsDown(j, pc, left, heard) == Becomes(j, Kind(j), job[j].want, job[j].goal, pc, left, heard,
                                       job[j].outcome)
Aims(j, pc, goal) == Becomes(j, Kind(j), job[j].want, goal, pc, job[j].left, job[j].heard,
                             job[j].outcome)

(* The forms in which the model assigns a job.                              *)
LEMMA GotoMoves ==
    ASSUME JobsTypeOK, NEW j \in Jobs, NEW pc \in Pcs, Goto(j, pc)
    PROVE  Moves(j, pc)
<1>1. job \in [Jobs -> JobRecord]
  BY DEF JobsTypeOK
<1> QED BY <1>1 DEF Goto, Moves, Becomes, Alone, Kind, JobRecord

(* A batch that ends, whatever the outcome, comes to the unloading.         *)
LEMMA LeaveMoves ==
    ASSUME JobsTypeOK, NEW j \in Jobs, NEW outcome \in Outcomes, Leave(j, outcome)
    PROVE  Leaves(j, outcome)
<1>1. job \in [Jobs -> JobRecord] /\ "unload" \in Pcs /\ 0 \in Counts
  BY SegmentsAssumption DEF JobsTypeOK, Pcs, Counts
<1> QED BY <1>1 DEF Leave, Leaves, Becomes, Alone, Kind, JobRecord

(* A step that sets the number of segments left, too.                       *)
LEMMA CountMoves ==
    ASSUME JobsTypeOK, NEW j \in Jobs, NEW pc \in Pcs, NEW left \in Counts,
           job' = [job EXCEPT ![j].pc = pc, ![j].left = left]
    PROVE  CountsDown(j, pc, left, job[j].heard)
<1>1. job \in [Jobs -> JobRecord]
  BY DEF JobsTypeOK
<1> QED BY <1>1 DEF CountsDown, Becomes, Alone, Kind, JobRecord

(* A segment less, at the same place.                                       *)
LEMMA SkipMoves ==
    ASSUME JobsTypeOK, NEW j \in Jobs, NEW left \in Counts,
           job' = [job EXCEPT ![j].left = left]
    PROVE  CountsDown(j, job[j].pc, left, job[j].heard)
<1>1. job \in [Jobs -> JobRecord]
  BY DEF JobsTypeOK
<1> QED BY <1>1 DEF CountsDown, Becomes, Alone, Kind, JobRecord

(* A segment less, and what was heard.                                      *)
LEMMA HearMoves ==
    ASSUME JobsTypeOK, NEW j \in Jobs, NEW pc \in Pcs, NEW left \in Counts, NEW heard \in BOOLEAN,
           job' = [job EXCEPT ![j].pc = pc, ![j].left = left, ![j].heard = heard]
    PROVE  CountsDown(j, pc, left, heard)
<1>1. job \in [Jobs -> JobRecord]
  BY DEF JobsTypeOK
<1> QED BY <1>1 DEF CountsDown, Becomes, Alone, Kind, JobRecord

(* A load is called for a model.                                            *)
LEMMA AimMoves ==
    ASSUME JobsTypeOK, NEW j \in Jobs, NEW pc \in Pcs, NEW goal \in Maybe,
           job' = [job EXCEPT ![j].pc = pc, ![j].goal = goal]
    PROVE  Aims(j, pc, goal)
<1>1. job \in [Jobs -> JobRecord]
  BY DEF JobsTypeOK
<1> QED BY <1>1 DEF Aims, Becomes, Alone, Kind, JobRecord

(* Where the user's commands take a job.                                    *)
LEMMA UserMoves ==
    ASSUME JobsTypeOK, NEW j \in Jobs
    PROVE  /\ \A k \in Kinds, m \in Models : Start(j, k, m) =>
                  Becomes(j, k, m, job[j].goal, "acquire", job[j].left, job[j].heard,
                          job[j].outcome)
           /\ \A m \in Maybe : StartRecording(j, m) =>
                  Becomes(j, "recording", m, job[j].goal, "validate", job[j].left, job[j].heard,
                          job[j].outcome)
           /\ \A m \in Models : LoadCommand(j, m) =>
                  Becomes(j, "settings", m, m, "load", job[j].left, job[j].heard, job[j].outcome)
           /\ StopRecording(j) =>
                  Becomes(j, Kind(j), job[j].want, job[j].goal, "dropCtx", 0, job[j].heard,
                          "complete")
<1>1. job \in [Jobs -> JobRecord] /\ {"acquire", "validate", "load", "dropCtx"} \subseteq Pcs
  BY DEF JobsTypeOK, Pcs
<1>2. 0 \in Counts /\ "complete" \in Outcomes /\ {"recording", "settings"} \subseteq Kinds
      /\ Models \subseteq Maybe
  BY SegmentsAssumption DEF Counts, Outcomes, Kinds, Maybe
<1>3. ASSUME NEW k \in Kinds, NEW m \in Models, Start(j, k, m)
      PROVE  Becomes(j, k, m, job[j].goal, "acquire", job[j].left, job[j].heard, job[j].outcome)
  BY <1>1, <1>2, <1>3 DEF Start, Becomes, Alone, JobRecord
<1>4. ASSUME NEW m \in Maybe, StartRecording(j, m)
      PROVE  Becomes(j, "recording", m, job[j].goal, "validate", job[j].left, job[j].heard,
                     job[j].outcome)
  BY <1>1, <1>2, <1>4 DEF StartRecording, Becomes, Alone, JobRecord
<1>5. ASSUME NEW m \in Models, LoadCommand(j, m)
      PROVE  Becomes(j, "settings", m, m, "load", job[j].left, job[j].heard, job[j].outcome)
  BY <1>1, <1>2, <1>5 DEF LoadCommand, Becomes, Alone, JobRecord
<1>6. ASSUME StopRecording(j)
      PROVE  Becomes(j, Kind(j), job[j].want, job[j].goal, "dropCtx", 0, job[j].heard, "complete")
  BY <1>1, <1>2, <1>6 DEF StopRecording, Becomes, Alone, Kind, JobRecord
<1> QED BY <1>3, <1>4, <1>5, <1>6

(* Every place that a step names is one.                                    *)
LEMMA PlaceNames ==
    {"reset", "source", "engine", "load", "swapCtx", "swapName", "setCtx", "setName", "loop",
     "transcribe", "hearing", "save", "files", "begin", "check", "mute", "unload", "dropCtx",
     "dropName", "release", "done", "copy", "decode", "resample", "detect"} \subseteq Pcs
    /\ {"error", "cancelled", "complete"} \subseteq Outcomes
BY DEF Pcs, Stages, Outcomes

(* Where the steps of a batch, of a recording and of the engine take a job. *)
LEMMA RunMoves ==
    ASSUME JobsTypeOK, NEW j \in Jobs
    PROVE  /\ Acquire(j) =>
               Moves(j, IF inProgress[Kind(j)] THEN "done" ELSE "reset")
           /\ ResetCancel(j) =>
               Moves(j, IF Kind(j) = "import" THEN "source" ELSE "decode")
           /\ Prepare(j) =>
               Moves(j, "copy")
           /\ SourceFails(j) =>
               Leaves(j, "error")
           /\ StageDone(j) =>
               Moves(j, NextStage[job[j].pc]) /\ job[j].pc \in Stages \ {"detect"}
           /\ DetectorCancelled(j) =>
               Leaves(j, "error")
           /\ StageFails(j) =>
               Leaves(j, "error")
           /\ StopAtLook(j) =>
               Leaves(j, "cancelled")
           /\ EngineReady(j) =>
               \/ name = job[j].want /\ Moves(j, "loop")
               \/ Listed = {} /\ Aims(j, "load", job[j].want)
           /\ EngineFails(j) =>
               \/ Kind(j) \in Batches /\ Leaves(j, "error")
               \/ Live(j) /\ Moves(j, "mute")
               \/ Kind(j) \notin Batches /\ ~Live(j) /\ Moves(j, "done")
           /\ Load(j) =>
               Moves(j, CASE name = job[j].goal -> Loaded(j)
                         [] name = None -> "setCtx"
                         [] OTHER -> "swapCtx")
           /\ SwapCtx(j) =>
               Moves(j, "swapName")
           /\ SetCtx(j) =>
               Moves(j, "setName")
           /\ SetName(j) =>
               Moves(j, Loaded(j))
           /\ ValidationFails(j) =>
               Moves(j, "done")
           /\ Check(j) =>
               \E pc \in {"loop", "mute", "dropCtx", "engine"} :
                   Moves(j, pc) /\ (pc = "loop" => ctx # None)
           /\ NextSegment(j) =>
               Moves(j, "transcribe")
           /\ Transcribe(j) =>
               \/ ctx = None /\ ~Live(j) /\ Leaves(j, "error")
               \/ ctx # None /\ Moves(j, "hearing")
           /\ HearingFails(j) =>
               Leaves(j, "error")
           /\ LoopDone(j) =>
               Moves(j, "save")
           /\ Save(j) =>
               Moves(j, "files")
           /\ SaveFails(j) =>
               Leaves(j, "error")
           /\ WriteFiles(j) =>
               Leaves(j, "complete")
           /\ WriteFilesFails(j) =>
               Leaves(j, "complete")
           /\ UnloadTest(j) =>
               Moves(j, IF inProgress["recording"] THEN "release" ELSE "dropCtx")
           /\ DropCtx(j) =>
               Moves(j, "dropName")
           /\ DropName(j) =>
               Moves(j, Unloaded(j))
           /\ Release(j) =>
               Moves(j, "done")
<1> USE PlaceNames
<1>1. ASSUME Acquire(j)
      PROVE  Moves(j, IF inProgress[Kind(j)] THEN "done" ELSE "reset")
  BY <1>1, GotoMoves DEF Acquire
<1>2. ASSUME ResetCancel(j)
      PROVE  Moves(j, IF Kind(j) = "import" THEN "source" ELSE "decode")
  BY <1>2, GotoMoves DEF ResetCancel
<1>3. ASSUME Prepare(j)
      PROVE  Moves(j, "copy")
  BY <1>3, GotoMoves DEF Prepare
<1>4. ASSUME SourceFails(j)
      PROVE  Leaves(j, "error")
  BY <1>4, LeaveMoves DEF SourceFails
<1>5. ASSUME StageDone(j)
      PROVE  Moves(j, NextStage[job[j].pc]) /\ job[j].pc \in Stages \ {"detect"}
  BY <1>5, GotoMoves DEF StageDone, NextStage, Stages
<1>6. ASSUME DetectorCancelled(j)
      PROVE  Leaves(j, "error")
  BY <1>6, LeaveMoves DEF DetectorCancelled
<1>7. ASSUME StageFails(j)
      PROVE  Leaves(j, "error")
  BY <1>7, LeaveMoves DEF StageFails
<1>8. ASSUME StopAtLook(j)
      PROVE  Leaves(j, "cancelled")
  BY <1>8, LeaveMoves DEF StopAtLook
<1>9. ASSUME EngineReady(j)
      PROVE  \/ name = job[j].want /\ Moves(j, "loop")
             \/ Listed = {} /\ Aims(j, "load", job[j].want)
  BY <1>9, GotoMoves, AimMoves DEF EngineReady, JobsTypeOK, JobRecord
<1>10. ASSUME EngineFails(j)
      PROVE  \/ Kind(j) \in Batches /\ Leaves(j, "error")
             \/ Live(j) /\ Moves(j, "mute")
             \/ Kind(j) \notin Batches /\ ~Live(j) /\ Moves(j, "done")
  BY <1>10, GotoMoves, LeaveMoves DEF EngineFails
<1>11. ASSUME Load(j)
      PROVE  Moves(j, CASE name = job[j].goal -> Loaded(j)
                      [] name = None -> "setCtx"
                      [] OTHER -> "swapCtx")
  BY <1>11, GotoMoves DEF Load, Loaded
<1>12. ASSUME SwapCtx(j)
      PROVE  Moves(j, "swapName")
  BY <1>12, GotoMoves DEF SwapCtx
<1>13. ASSUME SetCtx(j)
      PROVE  Moves(j, "setName")
  BY <1>13, GotoMoves DEF SetCtx
<1>14. ASSUME SetName(j)
      PROVE  Moves(j, Loaded(j))
  BY <1>14, GotoMoves DEF SetName, Loaded
<1>15. ASSUME ValidationFails(j)
      PROVE  Moves(j, "done")
  BY <1>15, GotoMoves DEF ValidationFails
<1>16. ASSUME Check(j)
      PROVE  \E pc \in {"loop", "mute", "dropCtx", "engine"} :
                 Moves(j, pc) /\ (pc = "loop" => ctx # None)
  BY <1>16, GotoMoves DEF Check
<1>17. ASSUME NextSegment(j)
      PROVE  Moves(j, "transcribe")
  BY <1>17, GotoMoves DEF NextSegment
<1>18. ASSUME Transcribe(j)
      PROVE  \/ ctx = None /\ ~Live(j) /\ Leaves(j, "error")
             \/ ctx # None /\ Moves(j, "hearing")
  BY <1>18, GotoMoves, LeaveMoves DEF Transcribe
<1>19. ASSUME HearingFails(j)
      PROVE  Leaves(j, "error")
  BY <1>19, LeaveMoves DEF HearingFails
<1>20. ASSUME LoopDone(j)
      PROVE  Moves(j, "save")
  BY <1>20, GotoMoves DEF LoopDone
<1>21. ASSUME Save(j)
      PROVE  Moves(j, "files")
  BY <1>21, GotoMoves DEF Save
<1>22. ASSUME SaveFails(j)
      PROVE  Leaves(j, "error")
  BY <1>22, LeaveMoves DEF SaveFails
<1>23. ASSUME WriteFiles(j)
      PROVE  Leaves(j, "complete")
  BY <1>23, LeaveMoves DEF WriteFiles
<1>24. ASSUME WriteFilesFails(j)
      PROVE  Leaves(j, "complete")
  BY <1>24, LeaveMoves DEF WriteFilesFails
<1>25. ASSUME UnloadTest(j)
      PROVE  Moves(j, IF inProgress["recording"] THEN "release" ELSE "dropCtx")
  BY <1>25, GotoMoves DEF UnloadTest
<1>26. ASSUME DropCtx(j)
      PROVE  Moves(j, "dropName")
  BY <1>26, GotoMoves DEF DropCtx
<1>27. ASSUME DropName(j)
      PROVE  Moves(j, Unloaded(j))
  BY <1>27, GotoMoves DEF DropName, Unloaded
<1>28. ASSUME Release(j)
      PROVE  Moves(j, "done")
  BY <1>28, GotoMoves DEF Release
<1> QED BY <1>1, <1>2, <1>3, <1>4, <1>5, <1>6, <1>7, <1>8, <1>9, <1>10, <1>11, <1>12, <1>13,
           <1>14, <1>15, <1>16, <1>17, <1>18, <1>19, <1>20, <1>21, <1>22, <1>23, <1>24, <1>25,
           <1>26, <1>27, <1>28

(* Where the steps that count segments or choose a model take a job.        *)
LEMMA CountingMoves ==
    ASSUME JobsTypeOK, NEW j \in Jobs, JobPlaceInv(j)
    PROVE  /\ \A n \in Counts : Detected(j, n) =>
                  \/ (n > 0 /\ CountsDown(j, "engine", n, job[j].heard))
                  \/ Moves(j, "loop")
           /\ \A n \in Counts : Redetected(j, n) =>
                  \/ (n > 0 /\ CountsDown(j, "engine", n, job[j].heard))
                  \/ Leaves(j, "error")
           /\ Begin(j) => CountsDown(j, "check", MaxSegments, job[j].heard)
           /\ ChunkDropped(j) \/ HeardNothing(j) =>
                  CountsDown(j, "loop", job[j].left - 1, job[j].heard)
           /\ SkipShort(j) => CountsDown(j, job[j].pc, job[j].left - 1, job[j].heard)
           /\ HeardText(j) =>
                  CountsDown(j, "loop", job[j].left - 1, Kind(j) = "retranscription")
           /\ Validate(j) => \/ Moves(j, "begin")
                             \/ \E m \in Models : Aims(j, "load", m)
           /\ Reload(j) => \/ Moves(j, "mute")
                           \/ (job[j].want # None /\ Aims(j, "load", job[j].want))
<1> USE PlaceNames
<1>1. /\ job[j].heard \in BOOLEAN /\ job[j].pc \in Pcs /\ job[j].want \in Maybe
      /\ Models \subseteq Maybe /\ MaxSegments \in Counts
      /\ job[j].left > 0 => job[j].left - 1 \in Counts
  BY SegmentsAssumption DEF JobsTypeOK, JobRecord, Maybe, Counts
<1>2. ASSUME NEW n \in Counts, Detected(j, n)
      PROVE  (n > 0 /\ CountsDown(j, "engine", n, job[j].heard)) \/ Moves(j, "loop")
  BY <1>1, <1>2, CountMoves, GotoMoves DEF Detected
<1>3. ASSUME NEW n \in Counts, Redetected(j, n)
      PROVE  (n > 0 /\ CountsDown(j, "engine", n, job[j].heard)) \/ Leaves(j, "error")
  BY <1>1, <1>3, CountMoves, LeaveMoves DEF Redetected
<1>4. ASSUME Begin(j) PROVE CountsDown(j, "check", MaxSegments, job[j].heard)
  BY <1>1, <1>4, CountMoves DEF Begin
<1>5. ASSUME ChunkDropped(j) \/ HeardNothing(j)
      PROVE  CountsDown(j, "loop", job[j].left - 1, job[j].heard)
  BY <1>1, <1>5, CountMoves DEF ChunkDropped, HeardNothing, JobPlaceInv, At
<1>6. ASSUME SkipShort(j) PROVE CountsDown(j, job[j].pc, job[j].left - 1, job[j].heard)
  BY <1>1, <1>6, SkipMoves DEF SkipShort
<1>7. ASSUME HeardText(j)
      PROVE  CountsDown(j, "loop", job[j].left - 1, Kind(j) = "retranscription")
  BY <1>1, <1>7, HearMoves DEF HeardText, JobPlaceInv, At
<1>8. ASSUME Validate(j) PROVE Moves(j, "begin") \/ \E m \in Models : Aims(j, "load", m)
  BY <1>1, <1>8, AimMoves, GotoMoves DEF Validate, ValidationChoice
<1>9. ASSUME Reload(j)
      PROVE  Moves(j, "mute") \/ (job[j].want # None /\ Aims(j, "load", job[j].want))
  BY <1>1, <1>9, AimMoves, GotoMoves DEF Reload, Goto
<1> QED BY <1>2, <1>3, <1>4, <1>5, <1>6, <1>7, <1>8, <1>9


-----------------------------------------------------------------------------
(* What the other jobs keep while one moves and nothing else changes.       *)
LEMMA ReadersGrow ==
    ASSUME JobsTypeOK, NEW j \in Jobs, Alone(j),
           job[j].pc \notin {"swapCtx", "swapName"}, NameRead # {}
    PROVE  NameRead' # {}
<1>1. PICK i \in Jobs : At(i, "swapCtx") \/ At(i, "swapName")
  BY DEF NameRead
<1>2. job'[i] = job[i]
  BY <1>1 DEF Alone, At
<1> QED BY <1>1, <1>2 DEF NameRead, At

(* A step that changes one job only: the invariant is a matter of that job. *)
LEMMA SilentStep ==
    ASSUME JobsInv, NEW j \in Jobs, Alone(j),
           UNCHANGED <<flags, store, engine, told>>,
           job[j].pc \notin Moving \cup {"swapCtx", "files"},
           InHand(j)' => InHand(j) /\ Kind(j)' = Kind(j),
           AtWork(j)' => AtWork(j),
           inProgress["recording"] /\ AtWork(j) => AtWork(j)',
           JobInv(j)'
    PROVE  JobsInv'
<1> USE DEF flags, store, engine
<1>1. /\ JobsTypeOK /\ OneEach /\ Named /\ Written
      /\ \A i \in Jobs : JobPlaceInv(i) /\ BatchInv(i) /\ ModelInv(i)
  BY DEF JobsInv, JobInv
<1>2. JobsTypeOK'
  BY <1>1 DEF JobsTypeOK, Alone
<1>3. NameRead # {} => NameRead' # {}
  BY <1>1, ReadersGrow DEF Moving
<1>4. ASSUME NEW i \in Jobs PROVE JobInv(i)'
  <2>1. CASE i = j
    BY <2>1
  <2>2. CASE i # j
    <3>1. job'[i] = job[i]
      BY <2>2 DEF Alone
    <3>2. JobPlaceInv(i)'
      BY <1>1, <3>1 DEF JobPlaceInv, At, Kind, InHand
    <3>3. BatchInv(i)'
      BY <1>1, <3>1 DEF BatchInv, At, Kind, Cancelled, Transcripts
    <3>4. ModelInv(i)'
      BY <1>1, <1>3, <3>1 DEF ModelInv, Kind, Live
    <3> QED BY <3>2, <3>3, <3>4 DEF JobInv
  <2> QED BY <2>1, <2>2
<1>5. OneEach'
  <2>1. ASSUME NEW i \in Jobs PROVE InHand(i)' => InHand(i) /\ Kind(i)' = Kind(i)
    BY DEF InHand, Kind, Alone
  <2>2. ASSUME NEW i \in Jobs
        PROVE  (AtWork(i)' => AtWork(i)) /\ (inProgress["recording"] /\ AtWork(i) => AtWork(i)')
    BY DEF AtWork, Kind, Alone
  <2> QED BY <1>1, <2>1, <2>2 DEF OneEach
<1>6. ASSUME NEW i \in Jobs
      PROVE  /\ job[i].pc \in Moving => job'[i].pc = job[i].pc
             /\ At(i, "files") => job'[i] = job[i]
  BY DEF Alone, At
<1>7. Named'
  <2>1. AtRest' => AtRest
    BY <1>6 DEF AtRest
  <2>2. (\A i \in Jobs : job'[i].pc \notin {"dropName", "swapName"}) =>
            \A i \in Jobs : job[i].pc \notin {"dropName", "swapName"}
    BY <1>6 DEF Moving
  <2> QED BY <1>1, <2>1, <2>2 DEF Named
<1>8. Written'
  BY <1>1, <1>6 DEF Written, At, Kind
<1> QED BY <1>2, <1>4, <1>5, <1>7, <1>8 DEF JobsInv

(* The steps with one outcome that change nothing but the job.              *)
LEMMA SilentSteps ==
    ASSUME JobsInv, NEW j \in Jobs
    PROVE  /\ SourceFails(j) => JobsInv'
           /\ StageDone(j) => JobsInv'
           /\ DetectorCancelled(j) => JobsInv'
           /\ StageFails(j) => JobsInv'
           /\ ValidationFails(j) => JobsInv'
           /\ NextSegment(j) => JobsInv'
           /\ HearingFails(j) => JobsInv'
           /\ LoopDone(j) => JobsInv'
           /\ SaveFails(j) => JobsInv'
           /\ UnloadTest(j) => JobsInv'
           /\ ChunkDropped(j) => JobsInv'
           /\ HeardNothing(j) => JobsInv'
           /\ SkipShort(j) => JobsInv'
           /\ HeardText(j) => JobsInv'
<1> USE DEF flags, store, engine, At, Kind, Batches, Kinds, Stages, Looks, Working, Loading,
            Hearing, OnAir, After, Deaf, Moving
<1>0. /\ JobsTypeOK /\ OneEach /\ Named /\ Written
      /\ JobPlaceInv(j) /\ BatchInv(j) /\ ModelInv(j)
  BY DEF JobsInv, JobInv
<1>1. ASSUME SourceFails(j) PROVE JobsInv'
  <2>1. Leaves(j, "error")
    BY <1>0, <1>1, RunMoves
  <2>2. UNCHANGED <<flags, store, engine, told>>
    BY <1>1 DEF SourceFails
  <2>3. JobPlaceInv(j)'
    BY <1>0, <1>1, <2>1, <2>2
       DEF SourceFails, Leaves, Becomes, JobPlaceInv, InHand, Live, Cancelled
  <2>4. BatchInv(j)'
    BY <1>0, <1>1, <2>1, <2>2
       DEF SourceFails, Leaves, Becomes, BatchInv, JobPlaceInv, InHand, Cancelled, Transcripts,
           Live
  <2>5. NameRead # {} => NameRead' # {}
    BY <1>0, <1>1, <2>1, ReadersGrow DEF SourceFails, Leaves, Becomes, Live
  <2>6. ModelInv(j)'
    BY <1>0, <1>1, <2>1, <2>2, <2>5
       DEF SourceFails, Leaves, Becomes, ModelInv, JobPlaceInv, BatchInv, Live
  <2>7. job[j].pc \notin Moving \cup {"swapCtx", "files"}
    BY <1>1 DEF SourceFails, Live
  <2>8. Alone(j) /\ (InHand(j)' => InHand(j) /\ Kind(j)' = Kind(j))
    BY <1>1, <2>1 DEF SourceFails, Leaves, Becomes, InHand, Live
  <2>9. (AtWork(j)' => AtWork(j)) /\ (inProgress["recording"] /\ AtWork(j) => AtWork(j)')
    BY <1>0, <1>1, <2>1 DEF SourceFails, Leaves, Becomes, AtWork, JobPlaceInv, Live
  <2> QED BY <2>2, <2>3, <2>4, <2>6, <2>7, <2>8, <2>9, SilentStep DEF JobInv
<1>2. ASSUME StageDone(j) PROVE JobsInv'
  <2>1. Moves(j, NextStage[job[j].pc])
    BY <1>0, <1>2, RunMoves
  <2>2. UNCHANGED <<flags, store, engine, told>>
    BY <1>2 DEF StageDone
  <2>3. JobPlaceInv(j)'
    BY <1>0, <1>2, <2>1, <2>2
       DEF StageDone, Moves, Becomes, JobPlaceInv, InHand, Live, Cancelled, NextStage
  <2>4. BatchInv(j)'
    BY <1>0, <1>2, <2>1, <2>2
       DEF StageDone, Moves, Becomes, BatchInv, JobPlaceInv, InHand, Cancelled, Transcripts, Live,
           NextStage
  <2>5. NameRead # {} => NameRead' # {}
    BY <1>0, <1>2, <2>1, ReadersGrow DEF StageDone, Moves, Becomes, Live, NextStage
  <2>6. ModelInv(j)'
    BY <1>0, <1>2, <2>1, <2>2, <2>5
       DEF StageDone, Moves, Becomes, ModelInv, JobPlaceInv, BatchInv, Live, NextStage
  <2>7. job[j].pc \notin Moving \cup {"swapCtx", "files"}
    BY <1>2 DEF StageDone, Live
  <2>8. Alone(j) /\ (InHand(j)' => InHand(j) /\ Kind(j)' = Kind(j))
    BY <1>2, <2>1 DEF StageDone, Moves, Becomes, InHand, Live, NextStage
  <2>9. (AtWork(j)' => AtWork(j)) /\ (inProgress["recording"] /\ AtWork(j) => AtWork(j)')
    BY <1>0, <1>2, <2>1 DEF StageDone, Moves, Becomes, AtWork, JobPlaceInv, Live, NextStage
  <2> QED BY <2>2, <2>3, <2>4, <2>6, <2>7, <2>8, <2>9, SilentStep DEF JobInv
<1>3. ASSUME DetectorCancelled(j) PROVE JobsInv'
  <2>1. Leaves(j, "error")
    BY <1>0, <1>3, RunMoves
  <2>2. UNCHANGED <<flags, store, engine, told>>
    BY <1>3 DEF DetectorCancelled
  <2>3. JobPlaceInv(j)'
    BY <1>0, <1>3, <2>1, <2>2
       DEF DetectorCancelled, Leaves, Becomes, JobPlaceInv, InHand, Live, Cancelled
  <2>4. BatchInv(j)'
    BY <1>0, <1>3, <2>1, <2>2
       DEF DetectorCancelled, Leaves, Becomes, BatchInv, JobPlaceInv, InHand, Cancelled,
           Transcripts, Live
  <2>5. NameRead # {} => NameRead' # {}
    BY <1>0, <1>3, <2>1, ReadersGrow DEF DetectorCancelled, Leaves, Becomes, Live
  <2>6. ModelInv(j)'
    BY <1>0, <1>3, <2>1, <2>2, <2>5
       DEF DetectorCancelled, Leaves, Becomes, ModelInv, JobPlaceInv, BatchInv, Live
  <2>7. job[j].pc \notin Moving \cup {"swapCtx", "files"}
    BY <1>3 DEF DetectorCancelled, Live
  <2>8. Alone(j) /\ (InHand(j)' => InHand(j) /\ Kind(j)' = Kind(j))
    BY <1>3, <2>1 DEF DetectorCancelled, Leaves, Becomes, InHand, Live
  <2>9. (AtWork(j)' => AtWork(j)) /\ (inProgress["recording"] /\ AtWork(j) => AtWork(j)')
    BY <1>0, <1>3, <2>1 DEF DetectorCancelled, Leaves, Becomes, AtWork, JobPlaceInv, Live
  <2> QED BY <2>2, <2>3, <2>4, <2>6, <2>7, <2>8, <2>9, SilentStep DEF JobInv
<1>4. ASSUME StageFails(j) PROVE JobsInv'
  <2>1. Leaves(j, "error")
    BY <1>0, <1>4, RunMoves
  <2>2. UNCHANGED <<flags, store, engine, told>>
    BY <1>4 DEF StageFails
  <2>3. JobPlaceInv(j)'
    BY <1>0, <1>4, <2>1, <2>2 DEF StageFails, Leaves, Becomes, JobPlaceInv, InHand, Live, Cancelled
  <2>4. BatchInv(j)'
    BY <1>0, <1>4, <2>1, <2>2
       DEF StageFails, Leaves, Becomes, BatchInv, JobPlaceInv, InHand, Cancelled, Transcripts, Live
  <2>5. NameRead # {} => NameRead' # {}
    BY <1>0, <1>4, <2>1, ReadersGrow DEF StageFails, Leaves, Becomes, Live
  <2>6. ModelInv(j)'
    BY <1>0, <1>4, <2>1, <2>2, <2>5
       DEF StageFails, Leaves, Becomes, ModelInv, JobPlaceInv, BatchInv, Live
  <2>7. job[j].pc \notin Moving \cup {"swapCtx", "files"}
    BY <1>4 DEF StageFails, Live
  <2>8. Alone(j) /\ (InHand(j)' => InHand(j) /\ Kind(j)' = Kind(j))
    BY <1>4, <2>1 DEF StageFails, Leaves, Becomes, InHand, Live
  <2>9. (AtWork(j)' => AtWork(j)) /\ (inProgress["recording"] /\ AtWork(j) => AtWork(j)')
    BY <1>0, <1>4, <2>1 DEF StageFails, Leaves, Becomes, AtWork, JobPlaceInv, Live
  <2> QED BY <2>2, <2>3, <2>4, <2>6, <2>7, <2>8, <2>9, SilentStep DEF JobInv
<1>5. ASSUME ValidationFails(j) PROVE JobsInv'
  <2>1. Moves(j, "done")
    BY <1>0, <1>5, RunMoves
  <2>2. UNCHANGED <<flags, store, engine, told>>
    BY <1>5 DEF ValidationFails
  <2>3. JobPlaceInv(j)'
    BY <1>0, <1>5, <2>1, <2>2
       DEF ValidationFails, Moves, Becomes, JobPlaceInv, InHand, Live, Cancelled
  <2>4. BatchInv(j)'
    BY <1>0, <1>5, <2>1, <2>2
       DEF ValidationFails, Moves, Becomes, BatchInv, JobPlaceInv, InHand, Cancelled, Transcripts,
           Live
  <2>5. NameRead # {} => NameRead' # {}
    BY <1>0, <1>5, <2>1, ReadersGrow DEF ValidationFails, Moves, Becomes, Live
  <2>6. ModelInv(j)'
    BY <1>0, <1>5, <2>1, <2>2, <2>5
       DEF ValidationFails, Moves, Becomes, ModelInv, JobPlaceInv, BatchInv, Live
  <2>7. job[j].pc \notin Moving \cup {"swapCtx", "files"}
    BY <1>5 DEF ValidationFails, Live
  <2>8. Alone(j) /\ (InHand(j)' => InHand(j) /\ Kind(j)' = Kind(j))
    BY <1>5, <2>1 DEF ValidationFails, Moves, Becomes, InHand, Live
  <2>9. (AtWork(j)' => AtWork(j)) /\ (inProgress["recording"] /\ AtWork(j) => AtWork(j)')
    BY <1>0, <1>5, <2>1 DEF ValidationFails, Moves, Becomes, AtWork, JobPlaceInv, Live
  <2> QED BY <2>2, <2>3, <2>4, <2>6, <2>7, <2>8, <2>9, SilentStep DEF JobInv
<1>6. ASSUME NextSegment(j) PROVE JobsInv'
  <2>1. Moves(j, "transcribe")
    BY <1>0, <1>6, RunMoves
  <2>2. UNCHANGED <<flags, store, engine, told>>
    BY <1>6 DEF NextSegment
  <2>3. JobPlaceInv(j)'
    BY <1>0, <1>6, <2>1, <2>2 DEF NextSegment, Moves, Becomes, JobPlaceInv, InHand, Live, Cancelled
  <2>4. BatchInv(j)'
    BY <1>0, <1>6, <2>1, <2>2
       DEF NextSegment, Moves, Becomes, BatchInv, JobPlaceInv, InHand, Cancelled, Transcripts, Live
  <2>5. NameRead # {} => NameRead' # {}
    BY <1>0, <1>6, <2>1, ReadersGrow DEF NextSegment, Moves, Becomes, Live
  <2>6. ModelInv(j)'
    BY <1>0, <1>6, <2>1, <2>2, <2>5
       DEF NextSegment, Moves, Becomes, ModelInv, JobPlaceInv, BatchInv, Live
  <2>7. job[j].pc \notin Moving \cup {"swapCtx", "files"}
    BY <1>6 DEF NextSegment, Live
  <2>8. Alone(j) /\ (InHand(j)' => InHand(j) /\ Kind(j)' = Kind(j))
    BY <1>6, <2>1 DEF NextSegment, Moves, Becomes, InHand, Live
  <2>9. (AtWork(j)' => AtWork(j)) /\ (inProgress["recording"] /\ AtWork(j) => AtWork(j)')
    BY <1>0, <1>6, <2>1 DEF NextSegment, Moves, Becomes, AtWork, JobPlaceInv, Live
  <2> QED BY <2>2, <2>3, <2>4, <2>6, <2>7, <2>8, <2>9, SilentStep DEF JobInv
<1>7. ASSUME HearingFails(j) PROVE JobsInv'
  <2>1. Leaves(j, "error")
    BY <1>0, <1>7, RunMoves
  <2>2. UNCHANGED <<flags, store, engine, told>>
    BY <1>7 DEF HearingFails
  <2>3. JobPlaceInv(j)'
    BY <1>0, <1>7, <2>1, <2>2
       DEF HearingFails, Leaves, Becomes, JobPlaceInv, InHand, Live, Cancelled
  <2>4. BatchInv(j)'
    BY <1>0, <1>7, <2>1, <2>2
       DEF HearingFails, Leaves, Becomes, BatchInv, JobPlaceInv, InHand, Cancelled, Transcripts,
           Live
  <2>5. NameRead # {} => NameRead' # {}
    BY <1>0, <1>7, <2>1, ReadersGrow DEF HearingFails, Leaves, Becomes, Live
  <2>6. ModelInv(j)'
    BY <1>0, <1>7, <2>1, <2>2, <2>5
       DEF HearingFails, Leaves, Becomes, ModelInv, JobPlaceInv, BatchInv, Live
  <2>7. job[j].pc \notin Moving \cup {"swapCtx", "files"}
    BY <1>7 DEF HearingFails, Live
  <2>8. Alone(j) /\ (InHand(j)' => InHand(j) /\ Kind(j)' = Kind(j))
    BY <1>7, <2>1 DEF HearingFails, Leaves, Becomes, InHand, Live
  <2>9. (AtWork(j)' => AtWork(j)) /\ (inProgress["recording"] /\ AtWork(j) => AtWork(j)')
    BY <1>0, <1>7, <2>1 DEF HearingFails, Leaves, Becomes, AtWork, JobPlaceInv, Live
  <2> QED BY <2>2, <2>3, <2>4, <2>6, <2>7, <2>8, <2>9, SilentStep DEF JobInv
<1>8. ASSUME LoopDone(j) PROVE JobsInv'
  <2>1. Moves(j, "save")
    BY <1>0, <1>8, RunMoves
  <2>2. UNCHANGED <<flags, store, engine, told>>
    BY <1>8 DEF LoopDone
  <2>3. JobPlaceInv(j)'
    BY <1>0, <1>8, <2>1, <2>2 DEF LoopDone, Moves, Becomes, JobPlaceInv, InHand, Live, Cancelled
  <2>4. BatchInv(j)'
    BY <1>0, <1>8, <2>1, <2>2
       DEF LoopDone, Moves, Becomes, BatchInv, JobPlaceInv, InHand, Cancelled, Transcripts, Live
  <2>5. NameRead # {} => NameRead' # {}
    BY <1>0, <1>8, <2>1, ReadersGrow DEF LoopDone, Moves, Becomes, Live
  <2>6. ModelInv(j)'
    BY <1>0, <1>8, <2>1, <2>2, <2>5
       DEF LoopDone, Moves, Becomes, ModelInv, JobPlaceInv, BatchInv, Live
  <2>7. job[j].pc \notin Moving \cup {"swapCtx", "files"}
    BY <1>8 DEF LoopDone, Live
  <2>8. Alone(j) /\ (InHand(j)' => InHand(j) /\ Kind(j)' = Kind(j))
    BY <1>8, <2>1 DEF LoopDone, Moves, Becomes, InHand, Live
  <2>9. (AtWork(j)' => AtWork(j)) /\ (inProgress["recording"] /\ AtWork(j) => AtWork(j)')
    BY <1>0, <1>8, <2>1 DEF LoopDone, Moves, Becomes, AtWork, JobPlaceInv, Live
  <2> QED BY <2>2, <2>3, <2>4, <2>6, <2>7, <2>8, <2>9, SilentStep DEF JobInv
<1>9. ASSUME SaveFails(j) PROVE JobsInv'
  <2>1. Leaves(j, "error")
    BY <1>0, <1>9, RunMoves
  <2>2. UNCHANGED <<flags, store, engine, told>>
    BY <1>9 DEF SaveFails
  <2>3. JobPlaceInv(j)'
    BY <1>0, <1>9, <2>1, <2>2 DEF SaveFails, Leaves, Becomes, JobPlaceInv, InHand, Live, Cancelled
  <2>4. BatchInv(j)'
    BY <1>0, <1>9, <2>1, <2>2
       DEF SaveFails, Leaves, Becomes, BatchInv, JobPlaceInv, InHand, Cancelled, Transcripts, Live
  <2>5. NameRead # {} => NameRead' # {}
    BY <1>0, <1>9, <2>1, ReadersGrow DEF SaveFails, Leaves, Becomes, Live
  <2>6. ModelInv(j)'
    BY <1>0, <1>9, <2>1, <2>2, <2>5
       DEF SaveFails, Leaves, Becomes, ModelInv, JobPlaceInv, BatchInv, Live
  <2>7. job[j].pc \notin Moving \cup {"swapCtx", "files"}
    BY <1>9 DEF SaveFails, Live
  <2>8. Alone(j) /\ (InHand(j)' => InHand(j) /\ Kind(j)' = Kind(j))
    BY <1>9, <2>1 DEF SaveFails, Leaves, Becomes, InHand, Live
  <2>9. (AtWork(j)' => AtWork(j)) /\ (inProgress["recording"] /\ AtWork(j) => AtWork(j)')
    BY <1>0, <1>9, <2>1 DEF SaveFails, Leaves, Becomes, AtWork, JobPlaceInv, Live
  <2> QED BY <2>2, <2>3, <2>4, <2>6, <2>7, <2>8, <2>9, SilentStep DEF JobInv
<1>10. ASSUME UnloadTest(j) PROVE JobsInv'
  <2>1. Moves(j, IF inProgress["recording"] THEN "release" ELSE "dropCtx")
    BY <1>0, <1>10, RunMoves
  <2>2. UNCHANGED <<flags, store, engine, told>>
    BY <1>10 DEF UnloadTest
  <2>3. JobPlaceInv(j)'
    BY <1>0, <1>10, <2>1, <2>2 DEF UnloadTest, Moves, Becomes, JobPlaceInv, InHand, Live, Cancelled
  <2>4. BatchInv(j)'
    BY <1>0, <1>10, <2>1, <2>2
       DEF UnloadTest, Moves, Becomes, BatchInv, JobPlaceInv, InHand, Cancelled, Transcripts, Live
  <2>5. NameRead # {} => NameRead' # {}
    BY <1>0, <1>10, <2>1, ReadersGrow DEF UnloadTest, Moves, Becomes, Live
  <2>6. ModelInv(j)'
    BY <1>0, <1>10, <2>1, <2>2, <2>5
       DEF UnloadTest, Moves, Becomes, ModelInv, JobPlaceInv, BatchInv, Live
  <2>7. job[j].pc \notin Moving \cup {"swapCtx", "files"}
    BY <1>10 DEF UnloadTest, Live
  <2>8. Alone(j) /\ (InHand(j)' => InHand(j) /\ Kind(j)' = Kind(j))
    BY <1>10, <2>1 DEF UnloadTest, Moves, Becomes, InHand, Live
  <2>9. (AtWork(j)' => AtWork(j)) /\ (inProgress["recording"] /\ AtWork(j) => AtWork(j)')
    BY <1>0, <1>10, <2>1 DEF UnloadTest, Moves, Becomes, AtWork, JobPlaceInv, Live
  <2> QED BY <2>2, <2>3, <2>4, <2>6, <2>7, <2>8, <2>9, SilentStep DEF JobInv
<1>11. ASSUME ChunkDropped(j) PROVE JobsInv'
  <2>1. CountsDown(j, "loop", job[j].left - 1, job[j].heard)
    BY <1>0, <1>11, CountingMoves
  <2>2. UNCHANGED <<flags, store, engine, told>>
    BY <1>11 DEF ChunkDropped
  <2>3. JobPlaceInv(j)'
    BY <1>0, <1>11, <2>1, <2>2
       DEF ChunkDropped, CountsDown, Becomes, JobPlaceInv, InHand, Live, Cancelled
  <2>4. BatchInv(j)'
    BY <1>0, <1>11, <2>1, <2>2
       DEF ChunkDropped, CountsDown, Becomes, BatchInv, JobPlaceInv, InHand, Cancelled,
           Transcripts, Live
  <2>5. NameRead # {} => NameRead' # {}
    BY <1>0, <1>11, <2>1, ReadersGrow DEF ChunkDropped, CountsDown, Becomes, Live
  <2>6. ModelInv(j)'
    BY <1>0, <1>11, <2>1, <2>2, <2>5
       DEF ChunkDropped, CountsDown, Becomes, ModelInv, JobPlaceInv, BatchInv, Live
  <2>7. job[j].pc \notin Moving \cup {"swapCtx", "files"}
    BY <1>11 DEF ChunkDropped, Live
  <2>8. Alone(j) /\ (InHand(j)' => InHand(j) /\ Kind(j)' = Kind(j))
    BY <1>11, <2>1 DEF ChunkDropped, CountsDown, Becomes, InHand, Live
  <2>9. (AtWork(j)' => AtWork(j)) /\ (inProgress["recording"] /\ AtWork(j) => AtWork(j)')
    BY <1>0, <1>11, <2>1 DEF ChunkDropped, CountsDown, Becomes, AtWork, JobPlaceInv, Live
  <2> QED BY <2>2, <2>3, <2>4, <2>6, <2>7, <2>8, <2>9, SilentStep DEF JobInv
<1>12. ASSUME HeardNothing(j) PROVE JobsInv'
  <2>1. CountsDown(j, "loop", job[j].left - 1, job[j].heard)
    BY <1>0, <1>12, CountingMoves
  <2>2. UNCHANGED <<flags, store, engine, told>>
    BY <1>12 DEF HeardNothing
  <2>3. JobPlaceInv(j)'
    BY <1>0, <1>12, <2>1, <2>2
       DEF HeardNothing, CountsDown, Becomes, JobPlaceInv, InHand, Live, Cancelled
  <2>4. BatchInv(j)'
    BY <1>0, <1>12, <2>1, <2>2
       DEF HeardNothing, CountsDown, Becomes, BatchInv, JobPlaceInv, InHand, Cancelled,
           Transcripts, Live
  <2>5. NameRead # {} => NameRead' # {}
    BY <1>0, <1>12, <2>1, ReadersGrow DEF HeardNothing, CountsDown, Becomes, Live
  <2>6. ModelInv(j)'
    BY <1>0, <1>12, <2>1, <2>2, <2>5
       DEF HeardNothing, CountsDown, Becomes, ModelInv, JobPlaceInv, BatchInv, Live
  <2>7. job[j].pc \notin Moving \cup {"swapCtx", "files"}
    BY <1>12 DEF HeardNothing, Live
  <2>8. Alone(j) /\ (InHand(j)' => InHand(j) /\ Kind(j)' = Kind(j))
    BY <1>12, <2>1 DEF HeardNothing, CountsDown, Becomes, InHand, Live
  <2>9. (AtWork(j)' => AtWork(j)) /\ (inProgress["recording"] /\ AtWork(j) => AtWork(j)')
    BY <1>0, <1>12, <2>1 DEF HeardNothing, CountsDown, Becomes, AtWork, JobPlaceInv, Live
  <2> QED BY <2>2, <2>3, <2>4, <2>6, <2>7, <2>8, <2>9, SilentStep DEF JobInv
<1>13. ASSUME SkipShort(j) PROVE JobsInv'
  <2>1. CountsDown(j, job[j].pc, job[j].left - 1, job[j].heard)
    BY <1>0, <1>13, CountingMoves
  <2>2. UNCHANGED <<flags, store, engine, told>>
    BY <1>13 DEF SkipShort
  <2>3. JobPlaceInv(j)'
    BY <1>0, <1>13, <2>1, <2>2
       DEF SkipShort, CountsDown, Becomes, JobPlaceInv, InHand, Live, Cancelled
  <2>4. BatchInv(j)'
    BY <1>0, <1>13, <2>1, <2>2
       DEF SkipShort, CountsDown, Becomes, BatchInv, JobPlaceInv, InHand, Cancelled, Transcripts,
           Live
  <2>5. NameRead # {} => NameRead' # {}
    BY <1>0, <1>13, <2>1, ReadersGrow DEF SkipShort, CountsDown, Becomes, Live
  <2>6. ModelInv(j)'
    BY <1>0, <1>13, <2>1, <2>2, <2>5
       DEF SkipShort, CountsDown, Becomes, ModelInv, JobPlaceInv, BatchInv, Live
  <2>7. job[j].pc \notin Moving \cup {"swapCtx", "files"}
    BY <1>13 DEF SkipShort, Live
  <2>8. Alone(j) /\ (InHand(j)' => InHand(j) /\ Kind(j)' = Kind(j))
    BY <1>13, <2>1 DEF SkipShort, CountsDown, Becomes, InHand, Live
  <2>9. (AtWork(j)' => AtWork(j)) /\ (inProgress["recording"] /\ AtWork(j) => AtWork(j)')
    BY <1>0, <1>13, <2>1 DEF SkipShort, CountsDown, Becomes, AtWork, JobPlaceInv, Live
  <2> QED BY <2>2, <2>3, <2>4, <2>6, <2>7, <2>8, <2>9, SilentStep DEF JobInv
<1>14. ASSUME HeardText(j) PROVE JobsInv'
  <2>1. CountsDown(j, "loop", job[j].left - 1, Kind(j) = "retranscription")
    BY <1>0, <1>14, CountingMoves
  <2>2. UNCHANGED <<flags, store, engine, told>>
    BY <1>14 DEF HeardText
  <2>3. JobPlaceInv(j)'
    BY <1>0, <1>14, <2>1, <2>2
       DEF HeardText, CountsDown, Becomes, JobPlaceInv, InHand, Live, Cancelled
  <2>4. BatchInv(j)'
    BY <1>0, <1>14, <2>1, <2>2
       DEF HeardText, CountsDown, Becomes, BatchInv, JobPlaceInv, InHand, Cancelled, Transcripts,
           Live
  <2>5. NameRead # {} => NameRead' # {}
    BY <1>0, <1>14, <2>1, ReadersGrow DEF HeardText, CountsDown, Becomes, Live
  <2>6. ModelInv(j)'
    BY <1>0, <1>14, <2>1, <2>2, <2>5
       DEF HeardText, CountsDown, Becomes, ModelInv, JobPlaceInv, BatchInv, Live
  <2>7. job[j].pc \notin Moving \cup {"swapCtx", "files"}
    BY <1>14 DEF HeardText, Live
  <2>8. Alone(j) /\ (InHand(j)' => InHand(j) /\ Kind(j)' = Kind(j))
    BY <1>14, <2>1 DEF HeardText, CountsDown, Becomes, InHand, Live
  <2>9. (AtWork(j)' => AtWork(j)) /\ (inProgress["recording"] /\ AtWork(j) => AtWork(j)')
    BY <1>0, <1>14, <2>1 DEF HeardText, CountsDown, Becomes, AtWork, JobPlaceInv, Live
  <2> QED BY <2>2, <2>3, <2>4, <2>6, <2>7, <2>8, <2>9, SilentStep DEF JobInv
<1> QED BY <1>1, <1>2, <1>3, <1>4, <1>5, <1>6, <1>7, <1>8, <1>9, <1>10, <1>11, <1>12, <1>13,
           <1>14

(* The steps with several outcomes, or of the user, that change nothing but *)
(* the job.                                                                 *)
LEMMA TurningSteps ==
    ASSUME JobsInv, NEW j \in Jobs
    PROVE  /\ \A n \in Counts : Detected(j, n) => JobsInv'
           /\ \A n \in Counts : Redetected(j, n) => JobsInv'
           /\ EngineReady(j) => JobsInv'
           /\ EngineFails(j) => JobsInv'
           /\ Load(j) => JobsInv'
           /\ Validate(j) => JobsInv'
           /\ Check(j) => JobsInv'
           /\ Reload(j) => JobsInv'
           /\ Transcribe(j) => JobsInv'
           /\ \A k \in Batches, m \in Models : Start(j, k, m) => JobsInv'
           /\ \A m \in Models : LoadCommand(j, m) => JobsInv'
           /\ StopRecording(j) => JobsInv'
<1> USE DEF flags, store, engine, At, Kind, Batches, Kinds, Stages, Looks, Working, Loading,
            Hearing, OnAir, After, Deaf, Moving
<1>0. /\ JobsTypeOK /\ OneEach /\ Named /\ Written
      /\ JobPlaceInv(j) /\ BatchInv(j) /\ ModelInv(j)
  BY DEF JobsInv, JobInv
<1>1. ASSUME NEW n \in Counts, Detected(j, n) PROVE JobsInv'
  <2>1. (n > 0 /\ CountsDown(j, "engine", n, job[j].heard)) \/ Moves(j, "loop")
    BY <1>0, <1>1, CountingMoves
  <2>2. UNCHANGED <<flags, store, engine, told>>
    BY <1>1 DEF Detected
  <2>3. JobPlaceInv(j)'
    BY <1>0, <1>1, <2>1, <2>2, JobsAssumption
       DEF Detected, CountsDown, Moves, Becomes, JobPlaceInv, InHand, Live, Cancelled
  <2>4. BatchInv(j)'
    BY <1>0, <1>1, <2>1, <2>2
       DEF Detected, CountsDown, Moves, Becomes, BatchInv, JobPlaceInv, InHand, Cancelled,
           Transcripts, Live
  <2>5. Alone(j)
    BY <2>1 DEF CountsDown, Moves, Becomes
  <2>6. job[j].pc \notin Moving \cup {"swapCtx", "files", "swapName"}
    BY <1>1 DEF Detected, Live
  <2>7. NameRead # {} => NameRead' # {}
    BY <1>0, <1>1, <2>5, <2>6, ReadersGrow
  <2>8. ModelInv(j)'
    BY <1>0, <1>1, <2>1, <2>2, <2>7
       DEF Detected, CountsDown, Moves, Becomes, ModelInv, JobPlaceInv, BatchInv, Live
  <2>9. InHand(j)' => InHand(j) /\ Kind(j)' = Kind(j)
    BY <1>1, <2>1 DEF Detected, CountsDown, Moves, Becomes, InHand, Live
  <2>10. (AtWork(j)' => AtWork(j)) /\ (inProgress["recording"] /\ AtWork(j) => AtWork(j)')
    BY <1>0, <1>1, <2>1 DEF Detected, CountsDown, Moves, Becomes, AtWork, JobPlaceInv, Live
  <2> QED BY <2>2, <2>3, <2>4, <2>5, <2>6, <2>8, <2>9, <2>10, SilentStep DEF JobInv
<1>2. ASSUME NEW n \in Counts, Redetected(j, n) PROVE JobsInv'
  <2>1. (n > 0 /\ CountsDown(j, "engine", n, job[j].heard)) \/ Leaves(j, "error")
    BY <1>0, <1>2, CountingMoves
  <2>2. UNCHANGED <<flags, store, engine, told>>
    BY <1>2 DEF Redetected
  <2>3. JobPlaceInv(j)'
    BY <1>0, <1>2, <2>1, <2>2, JobsAssumption
       DEF Redetected, CountsDown, Leaves, Becomes, JobPlaceInv, InHand, Live, Cancelled
  <2>4. BatchInv(j)'
    BY <1>0, <1>2, <2>1, <2>2
       DEF Redetected, CountsDown, Leaves, Becomes, BatchInv, JobPlaceInv, InHand, Cancelled,
           Transcripts, Live
  <2>5. Alone(j)
    BY <2>1 DEF CountsDown, Leaves, Becomes
  <2>6. job[j].pc \notin Moving \cup {"swapCtx", "files", "swapName"}
    BY <1>2 DEF Redetected, Live
  <2>7. NameRead # {} => NameRead' # {}
    BY <1>0, <1>2, <2>5, <2>6, ReadersGrow
  <2>8. ModelInv(j)'
    BY <1>0, <1>2, <2>1, <2>2, <2>7
       DEF Redetected, CountsDown, Leaves, Becomes, ModelInv, JobPlaceInv, BatchInv, Live
  <2>9. InHand(j)' => InHand(j) /\ Kind(j)' = Kind(j)
    BY <1>2, <2>1 DEF Redetected, CountsDown, Leaves, Becomes, InHand, Live
  <2>10. (AtWork(j)' => AtWork(j)) /\ (inProgress["recording"] /\ AtWork(j) => AtWork(j)')
    BY <1>0, <1>2, <2>1 DEF Redetected, CountsDown, Leaves, Becomes, AtWork, JobPlaceInv, Live
  <2> QED BY <2>2, <2>3, <2>4, <2>5, <2>6, <2>8, <2>9, <2>10, SilentStep DEF JobInv
<1>3. ASSUME EngineReady(j) PROVE JobsInv'
  <2>1. \/ name = job[j].want /\ Moves(j, "loop")
        \/ Listed = {} /\ Aims(j, "load", job[j].want)
    BY <1>0, <1>3, RunMoves
  <2>2. UNCHANGED <<flags, store, engine, told>>
    BY <1>3 DEF EngineReady
  <2>3. JobPlaceInv(j)'
    BY <1>0, <1>3, <2>1, <2>2, JobsAssumption
       DEF EngineReady, Aims, Moves, Becomes, JobPlaceInv, InHand, Live, Cancelled, NameReadable
  <2>4. BatchInv(j)'
    BY <1>0, <1>3, <2>1, <2>2
       DEF EngineReady, Aims, Moves, Becomes, BatchInv, JobPlaceInv, InHand, Cancelled,
           Transcripts, Live, NameReadable
  <2>5. Alone(j)
    BY <2>1 DEF Aims, Moves, Becomes
  <2>6. job[j].pc \notin Moving \cup {"swapCtx", "files", "swapName"}
    BY <1>3 DEF EngineReady, Live
  <2>7. NameRead # {} => NameRead' # {}
    BY <1>0, <1>3, <2>5, <2>6, ReadersGrow
  <2>8. ModelInv(j)'
    BY <1>0, <1>3, <2>1, <2>2, <2>7
       DEF EngineReady, Aims, Moves, Becomes, ModelInv, JobPlaceInv, BatchInv, Live, NameReadable
  <2>9. InHand(j)' => InHand(j) /\ Kind(j)' = Kind(j)
    BY <1>3, <2>1 DEF EngineReady, Aims, Moves, Becomes, InHand, Live, NameReadable
  <2>10. (AtWork(j)' => AtWork(j)) /\ (inProgress["recording"] /\ AtWork(j) => AtWork(j)')
    BY <1>0, <1>3, <2>1
       DEF EngineReady, Aims, Moves, Becomes, AtWork, JobPlaceInv, Live, NameReadable
  <2> QED BY <2>2, <2>3, <2>4, <2>5, <2>6, <2>8, <2>9, <2>10, SilentStep DEF JobInv
<1>4. ASSUME EngineFails(j) PROVE JobsInv'
  <2>1. \/ Kind(j) \in Batches /\ Leaves(j, "error")
        \/ Live(j) /\ Moves(j, "mute")
        \/ Kind(j) \notin Batches /\ ~Live(j) /\ Moves(j, "done")
    BY <1>0, <1>4, RunMoves
  <2>2. UNCHANGED <<flags, store, engine, told>>
    BY <1>4 DEF EngineFails
  <2>3. JobPlaceInv(j)'
    BY <1>0, <1>4, <2>1, <2>2, JobsAssumption
       DEF EngineFails, Leaves, Moves, Becomes, JobPlaceInv, InHand, Live, Cancelled
  <2>4. BatchInv(j)'
    BY <1>0, <1>4, <2>1, <2>2
       DEF EngineFails, Leaves, Moves, Becomes, BatchInv, JobPlaceInv, InHand, Cancelled,
           Transcripts, Live
  <2>5. Alone(j)
    BY <2>1 DEF Leaves, Moves, Becomes
  <2>6. job[j].pc \notin Moving \cup {"swapCtx", "files", "swapName"}
    BY <1>4 DEF EngineFails, Live
  <2>7. NameRead # {} => NameRead' # {}
    BY <1>0, <1>4, <2>5, <2>6, ReadersGrow
  <2>8. ModelInv(j)'
    BY <1>0, <1>4, <2>1, <2>2, <2>7
       DEF EngineFails, Leaves, Moves, Becomes, ModelInv, JobPlaceInv, BatchInv, Live
  <2>9. InHand(j)' => InHand(j) /\ Kind(j)' = Kind(j)
    BY <1>4, <2>1 DEF EngineFails, Leaves, Moves, Becomes, InHand, Live
  <2>10. (AtWork(j)' => AtWork(j)) /\ (inProgress["recording"] /\ AtWork(j) => AtWork(j)')
    BY <1>0, <1>4, <2>1 DEF EngineFails, Leaves, Moves, Becomes, AtWork, JobPlaceInv, Live
  <2> QED BY <2>2, <2>3, <2>4, <2>5, <2>6, <2>8, <2>9, <2>10, SilentStep DEF JobInv
<1>5. ASSUME Load(j) PROVE JobsInv'
  <2>1. Moves(j, CASE name = job[j].goal -> Loaded(j)
                 [] name = None -> "setCtx"
                 [] OTHER -> "swapCtx")
    BY <1>0, <1>5, RunMoves
  <2>2. UNCHANGED <<flags, store, engine, told>>
    BY <1>5 DEF Load
  <2>3. JobPlaceInv(j)'
    BY <1>0, <1>5, <2>1, <2>2, JobsAssumption
       DEF Load, Moves, Becomes, JobPlaceInv, InHand, Live, Cancelled, Loaded, NameReadable
  <2>4. BatchInv(j)'
    BY <1>0, <1>5, <2>1, <2>2
       DEF Load, Moves, Becomes, BatchInv, JobPlaceInv, InHand, Cancelled, Transcripts, Live,
           Loaded, NameReadable
  <2>5. Alone(j)
    BY <2>1 DEF Moves, Becomes
  <2>6. job[j].pc \notin Moving \cup {"swapCtx", "files", "swapName"}
    BY <1>5 DEF Load, Live
  <2>7. NameRead # {} => NameRead' # {}
    BY <1>0, <1>5, <2>5, <2>6, ReadersGrow
  <2>8. name = job[j].goal => ctx # None \/ clashed
    BY <1>0, <1>5 DEF Load, Named, NameReadable, JobPlaceInv
  <2>9. ModelInv(j)'
    BY <2>8, <1>0, <1>5, <2>1, <2>2, <2>7
       DEF Load, Moves, Becomes, ModelInv, JobPlaceInv, BatchInv, Live, Loaded, NameReadable
  <2>10. InHand(j)' => InHand(j) /\ Kind(j)' = Kind(j)
    BY <1>5, <2>1 DEF Load, Moves, Becomes, InHand, Live, Loaded, NameReadable
  <2>11. (AtWork(j)' => AtWork(j)) /\ (inProgress["recording"] /\ AtWork(j) => AtWork(j)')
    BY <1>0, <1>5, <2>1 DEF Load, Moves, Becomes, AtWork, JobPlaceInv, Live, Loaded, NameReadable
  <2> QED BY <2>2, <2>3, <2>4, <2>5, <2>6, <2>9, <2>10, <2>11, SilentStep DEF JobInv
<1>6. ASSUME Validate(j) PROVE JobsInv'
  <2>1. Moves(j, "begin") \/ \E m \in Models : Aims(j, "load", m)
    BY <1>0, <1>6, CountingMoves
  <2>2. UNCHANGED <<flags, store, engine, told>>
    BY <1>6 DEF Validate
  <2>3. JobPlaceInv(j)'
    BY <1>0, <1>6, <2>1, <2>2, JobsAssumption
       DEF Validate, Moves, Aims, Becomes, JobPlaceInv, InHand, Live, Cancelled
  <2>4. BatchInv(j)'
    BY <1>0, <1>6, <2>1, <2>2
       DEF Validate, Moves, Aims, Becomes, BatchInv, JobPlaceInv, InHand, Cancelled, Transcripts,
           Live
  <2>5. Alone(j)
    BY <2>1 DEF Moves, Aims, Becomes
  <2>6. job[j].pc \notin Moving \cup {"swapCtx", "files", "swapName"}
    BY <1>6 DEF Validate, Live
  <2>7. NameRead # {} => NameRead' # {}
    BY <1>0, <1>6, <2>5, <2>6, ReadersGrow
  <2>8. ModelInv(j)'
    BY <1>0, <1>6, <2>1, <2>2, <2>7
       DEF Validate, Moves, Aims, Becomes, ModelInv, JobPlaceInv, BatchInv, Live
  <2>9. InHand(j)' => InHand(j) /\ Kind(j)' = Kind(j)
    BY <1>6, <2>1 DEF Validate, Moves, Aims, Becomes, InHand, Live
  <2>10. (AtWork(j)' => AtWork(j)) /\ (inProgress["recording"] /\ AtWork(j) => AtWork(j)')
    BY <1>0, <1>6, <2>1 DEF Validate, Moves, Aims, Becomes, AtWork, JobPlaceInv, Live
  <2> QED BY <2>2, <2>3, <2>4, <2>5, <2>6, <2>8, <2>9, <2>10, SilentStep DEF JobInv
<1>7. ASSUME Check(j) PROVE JobsInv'
  <2>1. \E pc \in {"loop", "mute", "dropCtx", "engine"} :
            Moves(j, pc) /\ (pc = "loop" => ctx # None)
    BY <1>0, <1>7, RunMoves
  <2>2. UNCHANGED <<flags, store, engine, told>>
    BY <1>7 DEF Check
  <2>3. JobPlaceInv(j)'
    BY <1>0, <1>7, <2>1, <2>2, JobsAssumption
       DEF Check, Moves, Becomes, JobPlaceInv, InHand, Live, Cancelled
  <2>4. BatchInv(j)'
    BY <1>0, <1>7, <2>1, <2>2
       DEF Check, Moves, Becomes, BatchInv, JobPlaceInv, InHand, Cancelled, Transcripts, Live
  <2>5. Alone(j)
    BY <2>1 DEF Moves, Becomes
  <2>6. job[j].pc \notin Moving \cup {"swapCtx", "files", "swapName"}
    BY <1>7 DEF Check, Live
  <2>7. NameRead # {} => NameRead' # {}
    BY <1>0, <1>7, <2>5, <2>6, ReadersGrow
  <2>8. Kind(j) = "recording"
    BY <1>0, <1>7 DEF Check, JobsTypeOK, JobRecord, JobPlaceInv, Stages,
                    Loading, After
  <2>9. ModelInv(j)'
    BY <2>8, <1>0, <1>7, <2>1, <2>2, <2>7
       DEF Check, Moves, Becomes, ModelInv, JobPlaceInv, BatchInv, Live
  <2>10. InHand(j)' => InHand(j) /\ Kind(j)' = Kind(j)
    BY <1>7, <2>1 DEF Check, Moves, Becomes, InHand, Live
  <2>11. (AtWork(j)' => AtWork(j)) /\ (inProgress["recording"] /\ AtWork(j) => AtWork(j)')
    BY <1>0, <1>7, <2>1 DEF Check, Moves, Becomes, AtWork, JobPlaceInv, Live
  <2> QED BY <2>2, <2>3, <2>4, <2>5, <2>6, <2>9, <2>10, <2>11, SilentStep DEF JobInv
<1>8. ASSUME Reload(j) PROVE JobsInv'
  <2>1. \/ Moves(j, "mute")
        \/ job[j].want # None /\ Aims(j, "load", job[j].want)
    BY <1>0, <1>8, CountingMoves
  <2>2. UNCHANGED <<flags, store, engine, told>>
    BY <1>8 DEF Reload
  <2>3. JobPlaceInv(j)'
    BY <1>0, <1>8, <2>1, <2>2, JobsAssumption
       DEF Reload, Moves, Aims, Becomes, JobPlaceInv, InHand, Live, Cancelled
  <2>4. BatchInv(j)'
    BY <1>0, <1>8, <2>1, <2>2
       DEF Reload, Moves, Aims, Becomes, BatchInv, JobPlaceInv, InHand, Cancelled, Transcripts,
           Live
  <2>5. Alone(j)
    BY <2>1 DEF Moves, Aims, Becomes
  <2>6. job[j].pc \notin Moving \cup {"swapCtx", "files", "swapName"}
    BY <1>8 DEF Reload, Live
  <2>7. NameRead # {} => NameRead' # {}
    BY <1>0, <1>8, <2>5, <2>6, ReadersGrow
  <2>8. ModelInv(j)'
    BY <1>0, <1>8, <2>1, <2>2, <2>7
       DEF Reload, Moves, Aims, Becomes, ModelInv, JobPlaceInv, BatchInv, Live
  <2>9. InHand(j)' => InHand(j) /\ Kind(j)' = Kind(j)
    BY <1>8, <2>1 DEF Reload, Moves, Aims, Becomes, InHand, Live
  <2>10. (AtWork(j)' => AtWork(j)) /\ (inProgress["recording"] /\ AtWork(j) => AtWork(j)')
    BY <1>0, <1>8, <2>1 DEF Reload, Moves, Aims, Becomes, AtWork, JobPlaceInv, Live
  <2> QED BY <2>2, <2>3, <2>4, <2>5, <2>6, <2>8, <2>9, <2>10, SilentStep DEF JobInv
<1>9. ASSUME Transcribe(j) PROVE JobsInv'
  <2>1. \/ ctx = None /\ ~Live(j) /\ Leaves(j, "error")
        \/ ctx # None /\ Moves(j, "hearing")
    BY <1>0, <1>9, RunMoves
  <2>2. UNCHANGED <<flags, store, engine, told>>
    BY <1>9 DEF Transcribe
  <2>3. JobPlaceInv(j)'
    BY <1>0, <1>9, <2>1, <2>2, JobsAssumption
       DEF Transcribe, Leaves, Moves, Becomes, JobPlaceInv, InHand, Live, Cancelled
  <2>4. BatchInv(j)'
    BY <1>0, <1>9, <2>1, <2>2
       DEF Transcribe, Leaves, Moves, Becomes, BatchInv, JobPlaceInv, InHand, Cancelled,
           Transcripts, Live
  <2>5. Alone(j)
    BY <2>1 DEF Leaves, Moves, Becomes
  <2>6. job[j].pc \notin Moving \cup {"swapCtx", "files", "swapName"}
    BY <1>9 DEF Transcribe, Live
  <2>7. NameRead # {} => NameRead' # {}
    BY <1>0, <1>9, <2>5, <2>6, ReadersGrow
  <2>8. ModelInv(j)'
    BY <1>0, <1>9, <2>1, <2>2, <2>7
       DEF Transcribe, Leaves, Moves, Becomes, ModelInv, JobPlaceInv, BatchInv, Live
  <2>9. InHand(j)' => InHand(j) /\ Kind(j)' = Kind(j)
    BY <1>9, <2>1 DEF Transcribe, Leaves, Moves, Becomes, InHand, Live
  <2>10. (AtWork(j)' => AtWork(j)) /\ (inProgress["recording"] /\ AtWork(j) => AtWork(j)')
    BY <1>0, <1>9, <2>1 DEF Transcribe, Leaves, Moves, Becomes, AtWork, JobPlaceInv, Live
  <2> QED BY <2>2, <2>3, <2>4, <2>5, <2>6, <2>8, <2>9, <2>10, SilentStep DEF JobInv
<1>10. ASSUME NEW k \in Batches, NEW m \in Models, Start(j, k, m) PROVE JobsInv'
  <2>1. Becomes(j, k, m, job[j].goal, "acquire", job[j].left, job[j].heard, job[j].outcome)
    BY <1>0, <1>10, UserMoves
  <2>2. UNCHANGED <<flags, store, engine, told>>
    BY <1>10 DEF Start
  <2>3. JobPlaceInv(j)'
    BY <1>0, <1>10, <2>1, <2>2, JobsAssumption
       DEF Start, Becomes, JobPlaceInv, InHand, Live, Cancelled
  <2>4. BatchInv(j)'
    BY <1>0, <1>10, <2>1, <2>2
       DEF Start, Becomes, BatchInv, JobPlaceInv, InHand, Cancelled, Transcripts, Live
  <2>5. Alone(j)
    BY <2>1 DEF Becomes
  <2>6. job[j].pc \notin Moving \cup {"swapCtx", "files", "swapName"}
    BY <1>10 DEF Start, Live
  <2>7. NameRead # {} => NameRead' # {}
    BY <1>0, <1>10, <2>5, <2>6, ReadersGrow
  <2>8. ModelInv(j)'
    BY <1>0, <1>10, <2>1, <2>2, <2>7 DEF Start, Becomes, ModelInv, JobPlaceInv, BatchInv, Live
  <2>9. InHand(j)' => InHand(j) /\ Kind(j)' = Kind(j)
    BY <1>10, <2>1 DEF Start, Becomes, InHand, Live
  <2>10. (AtWork(j)' => AtWork(j)) /\ (inProgress["recording"] /\ AtWork(j) => AtWork(j)')
    BY <1>0, <1>10, <2>1 DEF Start, Becomes, AtWork, JobPlaceInv, Live
  <2> QED BY <2>2, <2>3, <2>4, <2>5, <2>6, <2>8, <2>9, <2>10, SilentStep DEF JobInv
<1>11. ASSUME NEW m \in Models, LoadCommand(j, m) PROVE JobsInv'
  <2>1. Becomes(j, "settings", m, m, "load", job[j].left, job[j].heard, job[j].outcome)
    BY <1>0, <1>11, UserMoves
  <2>2. UNCHANGED <<flags, store, engine, told>>
    BY <1>11 DEF LoadCommand
  <2>3. JobPlaceInv(j)'
    BY <1>0, <1>11, <2>1, <2>2, JobsAssumption
       DEF LoadCommand, Becomes, JobPlaceInv, InHand, Live, Cancelled
  <2>4. BatchInv(j)'
    BY <1>0, <1>11, <2>1, <2>2
       DEF LoadCommand, Becomes, BatchInv, JobPlaceInv, InHand, Cancelled, Transcripts, Live
  <2>5. Alone(j)
    BY <2>1 DEF Becomes
  <2>6. job[j].pc \notin Moving \cup {"swapCtx", "files", "swapName"}
    BY <1>11 DEF LoadCommand, Live
  <2>7. NameRead # {} => NameRead' # {}
    BY <1>0, <1>11, <2>5, <2>6, ReadersGrow
  <2>8. ModelInv(j)'
    BY <1>0, <1>11, <2>1, <2>2, <2>7
       DEF LoadCommand, Becomes, ModelInv, JobPlaceInv, BatchInv, Live
  <2>9. InHand(j)' => InHand(j) /\ Kind(j)' = Kind(j)
    BY <1>11, <2>1 DEF LoadCommand, Becomes, InHand, Live
  <2>10. (AtWork(j)' => AtWork(j)) /\ (inProgress["recording"] /\ AtWork(j) => AtWork(j)')
    BY <1>0, <1>11, <2>1 DEF LoadCommand, Becomes, AtWork, JobPlaceInv, Live
  <2> QED BY <2>2, <2>3, <2>4, <2>5, <2>6, <2>8, <2>9, <2>10, SilentStep DEF JobInv
<1>12. ASSUME StopRecording(j) PROVE JobsInv'
  <2>1. Becomes(j, Kind(j), job[j].want, job[j].goal, "dropCtx", 0, job[j].heard, "complete")
    BY <1>0, <1>12, UserMoves
  <2>2. UNCHANGED <<flags, store, engine, told>>
    BY <1>12 DEF StopRecording
  <2>3. JobPlaceInv(j)'
    BY <1>0, <1>12, <2>1, <2>2, JobsAssumption
       DEF StopRecording, Becomes, JobPlaceInv, InHand, Live, Cancelled
  <2>4. BatchInv(j)'
    BY <1>0, <1>12, <2>1, <2>2
       DEF StopRecording, Becomes, BatchInv, JobPlaceInv, InHand, Cancelled, Transcripts, Live
  <2>5. Alone(j)
    BY <2>1 DEF Becomes
  <2>6. job[j].pc \notin Moving \cup {"swapCtx", "files", "swapName"}
    BY <1>12 DEF StopRecording, Live
  <2>7. NameRead # {} => NameRead' # {}
    BY <1>0, <1>12, <2>5, <2>6, ReadersGrow
  <2>8. ModelInv(j)'
    BY <1>0, <1>12, <2>1, <2>2, <2>7
       DEF StopRecording, Becomes, ModelInv, JobPlaceInv, BatchInv, Live
  <2>9. InHand(j)' => InHand(j) /\ Kind(j)' = Kind(j)
    BY <1>12, <2>1 DEF StopRecording, Becomes, InHand, Live
  <2>10. (AtWork(j)' => AtWork(j)) /\ (inProgress["recording"] /\ AtWork(j) => AtWork(j)')
    BY <1>0, <1>12, <2>1 DEF StopRecording, Becomes, AtWork, JobPlaceInv, Live
  <2> QED BY <2>2, <2>3, <2>4, <2>5, <2>6, <2>8, <2>9, <2>10, SilentStep DEF JobInv
<1> QED BY <1>1, <1>2, <1>3, <1>4, <1>5, <1>6, <1>7, <1>8, <1>9, <1>10, <1>11, <1>12

(* Only some kinds of jobs come to a place.                                 *)
LEMMA KindAt ==
    ASSUME JobsTypeOK, NEW j \in Jobs, JobPlaceInv(j)
    PROVE  /\ Kind(j) \in Kinds
           /\ job[j].pc \in Stages \cup {"acquire", "reset", "source", "save", "files", "unload"}
                  => Kind(j) \in Batches
           /\ job[j].pc \in {"validate", "begin", "check", "mute"} => Kind(j) = "recording"
           /\ job[j].pc \in {"dropCtx", "dropName", "release"} => Kind(j) # "settings"
           /\ At(j, "source") => Kind(j) = "import"
<1>1. Kind(j) \in Kinds
  BY DEF JobsTypeOK, JobRecord, Kind
<1> QED BY <1>1
           DEF Kinds, Batches, JobPlaceInv, At, Working, Stages, Loading, OnAir, Hearing, After


(* A job that stays where it is stays rightly there as long as the flags    *)
(* that it has raised do.                                                   *)
LEMMA PlaceKept ==
    ASSUME NEW i \in Jobs, JobPlaceInv(i), job'[i] = job[i],
           InHand(i) => inProgress'[Kind(i)],
           AtWork(i) => inProgress'["recording"] = inProgress["recording"]
    PROVE  JobPlaceInv(i)'
BY DEF JobPlaceInv, At, Kind, InHand, AtWork, OnAir, Hearing


(* A batch that is under way is the only one of its kind; a recording too.  *)
LEMMA OthersKind ==
    ASSUME OneEach, NEW j \in Jobs, NEW i \in Jobs \ {j}
    PROVE  /\ InHand(j) /\ InHand(i) => Kind(i) # Kind(j)
           /\ AtWork(j) => ~AtWork(i)
BY DEF OneEach

(* The steps that change a flag, what is stored, or the engine.             *)
LEMMA LoudSteps ==
    ASSUME JobsInv, WritingInv, NEW j \in Jobs
    PROVE  /\ Acquire(j) => JobsInv'
           /\ ResetCancel(j) => JobsInv'
           /\ Prepare(j) => JobsInv'
           /\ StopAtLook(j) => JobsInv'
           /\ SwapCtx(j) => JobsInv'
           /\ SetCtx(j) => JobsInv'
           /\ SetName(j) => JobsInv'
           /\ Begin(j) => JobsInv'
           /\ Save(j) => JobsInv'
           /\ WriteFiles(j) => JobsInv'
           /\ WriteFilesFails(j) => JobsInv'
           /\ DropCtx(j) => JobsInv'
           /\ DropName(j) => JobsInv'
           /\ Release(j) => JobsInv'
<1> USE DEF flags, store, engine, At, Kind, Batches, Kinds, Stages, Looks, Working, Loading,
            Hearing, OnAir, After, Deaf, Moving
<1>0. /\ JobsTypeOK /\ OneEach /\ Named /\ Written
      /\ \A i \in Jobs : JobPlaceInv(i) /\ BatchInv(i) /\ ModelInv(i)
  BY DEF JobsInv, JobInv
<1>1. ASSUME Acquire(j) PROVE JobsInv'
  <2>1. Moves(j, IF inProgress[Kind(j)] THEN "done" ELSE "reset")
    BY <1>0, <1>1, RunMoves
  <2>2. Alone(j)
    BY <2>1 DEF Moves, Becomes
  <2>3. JobsTypeOK'
    BY <1>0, <1>1, <2>2 DEF Acquire, Alone, JobsTypeOK, Maybe, JobRecord, Transcripts
  <2>4. \A i \in Jobs \ {j} : job'[i] = job[i]
    BY <2>2 DEF Alone
  <2>5. /\ \A k \in Kinds : inProgress'[k] = (IF k = Kind(j) THEN TRUE ELSE inProgress[k])
        /\ Kind(j) \in Batches /\ At(j, "acquire")
    BY <1>0, <1>1, KindAt DEF Acquire, JobsTypeOK
  <2>6. /\ job'[j].kind = Kind(j) /\ job'[j].want = job[j].want
        /\ job'[j].pc = (IF inProgress[Kind(j)] THEN "done" ELSE "reset")
    BY <2>1 DEF Moves, Becomes
  <2>7. \A i \in Jobs : InHand(i) => inProgress[Kind(i)] /\ Kind(i) \in Batches
    BY <1>0 DEF JobPlaceInv, InHand
  <2>8. /\ \A i \in Jobs :
              /\ InHand(i)' => (IF i = j THEN ~inProgress[Kind(j)] ELSE InHand(i))
              /\ AtWork(i)' = AtWork(i) /\ Kind(i)' = Kind(i)
        /\ inProgress'["recording"] = inProgress["recording"]
    BY <2>5, <2>6, <2>4 DEF InHand, AtWork
  <2>9. ASSUME NEW i \in Jobs PROVE JobPlaceInv(i)'
    <3>1. CASE i = j
      BY ZenonT(30), <3>1, <1>0, <2>5, <2>6 DEF JobPlaceInv, InHand
    <3>2. CASE i # j
      <4>1. InHand(i) => inProgress'[Kind(i)]
        BY <2>5, <2>7
      <4> QED BY <1>0, <2>8, <2>4, <3>2, <4>1, PlaceKept
    <3> QED BY <3>1, <3>2
  <2>10. ASSUME NEW i \in Jobs PROVE BatchInv(i)'
    BY <1>0, <1>1, <2>1, <2>4, KindAt, OthersKind
       DEF Acquire, Moves, Becomes, BatchInv, JobPlaceInv, InHand, Cancelled, Transcripts, Live
  <2>11. ASSUME NEW i \in Jobs PROVE ModelInv(i)'
    BY <1>0, <1>1, <2>1, <2>4, KindAt, OthersKind
       DEF Acquire, Moves, Becomes, NameRead, CtxFree, CtxHeld, AtWork, ModelInv, JobPlaceInv,
           BatchInv, Live
  <2>12. OneEach'
    BY <1>0, <2>7, <2>8 DEF OneEach
  <2>13. Named'
    BY <1>0, <1>1, <2>1, <2>4
       DEF Acquire, Moves, Becomes, Named, AtRest, ModelInv, NameRead, CtxFree, CtxHeld
  <2>14. Written'
    BY <1>0, <1>1, <2>1, <2>4, KindAt, OthersKind
       DEF Acquire, Moves, Becomes, Written, Transcripts, BatchInv, InHand
  <2> QED BY <2>3, <2>9, <2>10, <2>11, <2>12, <2>13, <2>14 DEF JobsInv, JobInv
<1>2. ASSUME ResetCancel(j) PROVE JobsInv'
  <2>1. Moves(j, IF Kind(j) = "import" THEN "source" ELSE "decode")
    BY <1>0, <1>2, RunMoves
  <2>2. Alone(j)
    BY <2>1 DEF Moves, Becomes
  <2>3. JobsTypeOK'
    BY <1>0, <1>2, <2>2 DEF ResetCancel, Alone, JobsTypeOK, Maybe, JobRecord, Transcripts
  <2>4. \A i \in Jobs \ {j} : job'[i] = job[i]
    BY <2>2 DEF Alone
  <2>5. ASSUME NEW i \in Jobs PROVE JobPlaceInv(i)'
    BY <1>0, <1>2, <2>1, <2>4, KindAt, OthersKind
       DEF ResetCancel, Moves, Becomes, AtWork, JobPlaceInv, InHand, Live, Cancelled
  <2>6. ASSUME NEW i \in Jobs PROVE BatchInv(i)'
    BY <1>0, <1>2, <2>1, <2>4, KindAt, OthersKind
       DEF ResetCancel, Moves, Becomes, BatchInv, JobPlaceInv, InHand, Cancelled, Transcripts, Live
  <2>7. ASSUME NEW i \in Jobs PROVE ModelInv(i)'
    BY <1>0, <1>2, <2>1, <2>4, KindAt, OthersKind
       DEF ResetCancel, Moves, Becomes, NameRead, CtxFree, CtxHeld, AtWork, ModelInv, JobPlaceInv,
           BatchInv, Live
  <2>8. OneEach'
    BY <1>0, <1>2, <2>1, <2>4, KindAt
       DEF ResetCancel, Moves, Becomes, OneEach, InHand, AtWork, Live
  <2>9. Named'
    BY <1>0, <1>2, <2>1, <2>4
       DEF ResetCancel, Moves, Becomes, Named, AtRest, ModelInv, NameRead, CtxFree,
           CtxHeld
  <2>10. Written'
    BY <1>0, <1>2, <2>1, <2>4, KindAt, OthersKind
       DEF ResetCancel, Moves, Becomes, Written, Transcripts, BatchInv, InHand
  <2> QED BY <2>3, <2>5, <2>6, <2>7, <2>8, <2>9, <2>10 DEF JobsInv, JobInv
<1>3. ASSUME Prepare(j) PROVE JobsInv'
  <2>1. Moves(j, "copy")
    BY <1>0, <1>3, RunMoves
  <2>2. Alone(j)
    BY <2>1 DEF Moves, Becomes
  <2>3. JobsTypeOK'
    <3>1. PICK p \in Jobs : place' = [place EXCEPT ![j] = p] /\ folders' = folders \cup {p}
      BY <1>0, <1>3 DEF Prepare, JobsTypeOK
    <3>2. place' \in [Jobs -> Jobs \cup {Nowhere}] /\ folders' \subseteq Jobs
      BY <1>0, <3>1 DEF JobsTypeOK
    <3>3. UNCHANGED <<flags, stuck, committed, rows, json, jsonFailed, engine, told>>
      BY <1>3 DEF Prepare
    <3> QED BY <1>0, <2>2, <3>2, <3>3 DEF Alone, JobsTypeOK
  <2>4. \A i \in Jobs \ {j} : job'[i] = job[i]
    BY <2>2 DEF Alone
  <2>5. ASSUME NEW i \in Jobs PROVE JobPlaceInv(i)'
    BY <1>0, <1>3, <2>1, <2>4, KindAt, OthersKind
       DEF Prepare, Moves, Becomes, AtWork, JobPlaceInv, InHand, Live, Cancelled
  <2>6. ASSUME NEW i \in Jobs PROVE BatchInv(i)'
    BY <1>0, <1>3, <2>1, <2>4, KindAt, OthersKind
       DEF Prepare, Moves, Becomes, BatchInv, JobPlaceInv, InHand, Cancelled, Transcripts, Live
  <2>7. ASSUME NEW i \in Jobs PROVE ModelInv(i)'
    BY <1>0, <1>3, <2>1, <2>4, KindAt, OthersKind
       DEF Prepare, Moves, Becomes, NameRead, CtxFree, CtxHeld, AtWork, ModelInv, JobPlaceInv,
           BatchInv, Live
  <2>8. OneEach'
    BY <1>0, <1>3, <2>1, <2>4, KindAt DEF Prepare, Moves, Becomes, OneEach, InHand, AtWork, Live
  <2>9. Named'
    BY <1>0, <1>3, <2>1, <2>4
       DEF Prepare, Moves, Becomes, Named, AtRest, ModelInv, NameRead, CtxFree, CtxHeld
  <2>10. Written'
    BY <1>0, <1>3, <2>1, <2>4, KindAt, OthersKind
       DEF Prepare, Moves, Becomes, Written, Transcripts, BatchInv, InHand
  <2> QED BY <2>3, <2>5, <2>6, <2>7, <2>8, <2>9, <2>10 DEF JobsInv, JobInv
<1>4. ASSUME StopAtLook(j) PROVE JobsInv'
  <2>1. Leaves(j, "cancelled")
    BY <1>0, <1>4, RunMoves
  <2>2. Alone(j)
    BY <2>1 DEF Leaves, Becomes
  <2>3. JobsTypeOK'
    BY <1>0, <1>4, <2>2 DEF StopAtLook, Alone, JobsTypeOK, Maybe, JobRecord, Transcripts
  <2>4. \A i \in Jobs \ {j} : job'[i] = job[i]
    BY <2>2 DEF Alone
  <2>5. ASSUME NEW i \in Jobs PROVE JobPlaceInv(i)'
    BY <1>0, <1>4, <2>1, <2>4, KindAt, OthersKind
       DEF StopAtLook, Leaves, Becomes, AtWork, JobPlaceInv, InHand, Live, Cancelled
  <2>6. ASSUME NEW i \in Jobs PROVE BatchInv(i)'
    BY <1>0, <1>4, <2>1, <2>4, KindAt, OthersKind
       DEF StopAtLook, Leaves, Becomes, BatchInv, JobPlaceInv, InHand, Cancelled, Transcripts, Live
  <2>7. ASSUME NEW i \in Jobs PROVE ModelInv(i)'
    BY <1>0, <1>4, <2>1, <2>4, KindAt, OthersKind
       DEF StopAtLook, Leaves, Becomes, NameRead, CtxFree, CtxHeld, AtWork, ModelInv, JobPlaceInv,
           BatchInv, Live
  <2>8. OneEach'
    BY <1>0, <1>4, <2>1, <2>4, KindAt
       DEF StopAtLook, Leaves, Becomes, OneEach, InHand, AtWork, Live
  <2>9. Named'
    BY <1>0, <1>4, <2>1, <2>4
       DEF StopAtLook, Leaves, Becomes, Named, AtRest, ModelInv, NameRead, CtxFree,
           CtxHeld
  <2>10. Written'
    BY <1>0, <1>4, <2>1, <2>4, KindAt, OthersKind
       DEF StopAtLook, Leaves, Becomes, Written, Transcripts, BatchInv, InHand
  <2> QED BY <2>3, <2>5, <2>6, <2>7, <2>8, <2>9, <2>10 DEF JobsInv, JobInv
<1>5. ASSUME SwapCtx(j) PROVE JobsInv'
  <2>1. Moves(j, "swapName")
    BY <1>0, <1>5, RunMoves
  <2>2. Alone(j)
    BY <2>1 DEF Moves, Becomes
  <2>3. JobsTypeOK'
    BY <1>0, <1>5, <2>2 DEF SwapCtx, WritesCtx, Alone, JobsTypeOK, Maybe, JobRecord, Transcripts
  <2>4. \A i \in Jobs \ {j} : job'[i] = job[i]
    BY <2>2 DEF Alone
  <2>5. ASSUME NEW i \in Jobs PROVE JobPlaceInv(i)'
    BY <1>0, <1>5, <2>1, <2>4, KindAt, OthersKind
       DEF SwapCtx, WritesCtx, Moves, Becomes, AtWork, JobPlaceInv, InHand, Live, Cancelled
  <2>6. ASSUME NEW i \in Jobs PROVE BatchInv(i)'
    BY <1>0, <1>5, <2>1, <2>4, KindAt, OthersKind
       DEF SwapCtx, WritesCtx, Moves, Becomes, BatchInv, JobPlaceInv, InHand, Cancelled, Transcripts, Live
  <2>7. ASSUME NEW i \in Jobs PROVE ModelInv(i)'
    BY <1>0, <1>5, <2>1, <2>4, KindAt, OthersKind
       DEF SwapCtx, WritesCtx, Moves, Becomes, NameRead, CtxFree, CtxHeld, AtWork, ModelInv, JobPlaceInv,
           BatchInv, Live
  <2>8. OneEach'
    BY <1>0, <1>5, <2>1, <2>4, KindAt DEF SwapCtx, WritesCtx, Moves, Becomes, OneEach, InHand, AtWork, Live
  <2>9. Named'
    BY <1>0, <1>5, <2>1, <2>4
       DEF SwapCtx, WritesCtx, Moves, Becomes, Named, AtRest, ModelInv, NameRead, CtxFree, CtxHeld
  <2>10. Written'
    BY <1>0, <1>5, <2>1, <2>4, KindAt, OthersKind
       DEF SwapCtx, WritesCtx, Moves, Becomes, Written, Transcripts, BatchInv, InHand
  <2> QED BY <2>3, <2>5, <2>6, <2>7, <2>8, <2>9, <2>10 DEF JobsInv, JobInv
<1>6. ASSUME SetCtx(j) PROVE JobsInv'
  <2>1. Moves(j, "setName")
    BY <1>0, <1>6, RunMoves
  <2>2. Alone(j)
    BY <2>1 DEF Moves, Becomes
  <2>3. JobsTypeOK'
    BY <1>0, <1>6, <2>2 DEF SetCtx, WritesCtx, Alone, JobsTypeOK, Maybe, JobRecord, Transcripts
  <2>4. \A i \in Jobs \ {j} : job'[i] = job[i]
    BY <2>2 DEF Alone
  <2>5. /\ ctx' = job[j].goal /\ job[j].goal # None /\ UNCHANGED <<inProgress, raced, name>>
        /\ clashed => clashed'
    BY <1>0, <1>6 DEF SetCtx, JobPlaceInv, WritesCtx
  <2>6. \A i \in Jobs \ {j} : job[i].pc \notin {"swapName", "dropName"}
    BY <1>6 DEF SetCtx, CtxFree, CtxHeld
  <2>7. job'[j].pc = "setName"
    BY <2>1 DEF Moves, Becomes
  <2>8. ASSUME NEW i \in Jobs PROVE JobPlaceInv(i)'
    BY <1>0, <1>6, <2>1, <2>4, KindAt, OthersKind
       DEF SetCtx, WritesCtx, Moves, Becomes, AtWork, JobPlaceInv, InHand, Live, Cancelled
  <2>9. ASSUME NEW i \in Jobs PROVE BatchInv(i)'
    BY <1>0, <1>6, <2>1, <2>4, KindAt, OthersKind
       DEF SetCtx, WritesCtx, Moves, Becomes, BatchInv, JobPlaceInv, InHand, Cancelled, Transcripts, Live
  <2>10. ASSUME NEW i \in Jobs PROVE ModelInv(i)'
    BY <1>0, <2>5, <2>6, <2>7, <2>4 DEF ModelInv, Live
  <2>11. OneEach'
    BY <1>0, <1>6, <2>1, <2>4, KindAt DEF SetCtx, WritesCtx, Moves, Becomes, OneEach, InHand, AtWork, Live
  <2>12. Named'
    BY <2>5, <2>7 DEF Named, AtRest
  <2>13. Written'
    BY <1>0, <1>6, <2>1, <2>4, KindAt, OthersKind
       DEF SetCtx, WritesCtx, Moves, Becomes, Written, Transcripts, BatchInv, InHand
  <2> QED BY <2>3, <2>8, <2>9, <2>10, <2>11, <2>12, <2>13 DEF JobsInv, JobInv
<1>7. ASSUME SetName(j) PROVE JobsInv'
  <2>1. Moves(j, Loaded(j))
    BY <1>0, <1>7, RunMoves
  <2>2. Alone(j)
    BY <2>1 DEF Moves, Becomes
  <2>3. JobsTypeOK'
    BY <1>0, <1>7, <2>2 DEF SetName, Alone, JobsTypeOK, Maybe, JobRecord, Transcripts
  <2>4. \A i \in Jobs \ {j} : job'[i] = job[i]
    BY <2>2 DEF Alone
  <2>5. /\ UNCHANGED <<inProgress, raced, ctx, clashed>>
        /\ job[j].goal # None /\ (clashed' \/ ctx = job[j].goal)
    BY <1>0, <1>7 DEF SetName, JobsTypeOK, JobPlaceInv, WritingInv
  <2>6. job'[j].pc \in {"done", "begin", "loop"} /\ NameRead = {} /\ Kind(j)' = Kind(j)
    BY <1>7, <2>1 DEF SetName, Moves, Becomes, Loaded
  <2>7. ASSUME NEW i \in Jobs PROVE JobPlaceInv(i)'
    BY <1>0, <1>7, <2>1, <2>4, KindAt, OthersKind
       DEF SetName, Moves, Becomes, AtWork, JobPlaceInv, InHand, Live, Cancelled, Loaded
  <2>8. ASSUME NEW i \in Jobs PROVE BatchInv(i)'
    BY <1>0, <1>7, <2>1, <2>4, KindAt, OthersKind
       DEF SetName, Moves, Becomes, BatchInv, JobPlaceInv, InHand, Cancelled, Transcripts, Live,
           Loaded
  <2>9. ASSUME NEW i \in Jobs PROVE ModelInv(i)'
    BY <1>0, <2>5, <2>6, <2>4 DEF ModelInv, Live
  <2>10. OneEach'
    BY <1>0, <1>7, <2>1, <2>4, KindAt
       DEF SetName, Moves, Becomes, OneEach, InHand, AtWork, Live, Loaded
  <2>11. Named'
    <3>1. name' = job[j].goal
      BY <1>7 DEF SetName
    <3>2. ~clashed' => ctx' = name'
      BY <2>5, <3>1
    <3> QED BY <3>2 DEF Named, AtRest
  <2>12. Written'
    BY <1>0, <1>7, <2>1, <2>4, KindAt, OthersKind
       DEF SetName, Moves, Becomes, Written, Transcripts, BatchInv, InHand, Loaded
  <2> QED BY <2>3, <2>7, <2>8, <2>9, <2>10, <2>11, <2>12 DEF JobsInv, JobInv
<1>8. ASSUME Begin(j) PROVE JobsInv'
  <2>1. CountsDown(j, "check", MaxSegments, job[j].heard)
    BY <1>0, <1>8, CountingMoves
  <2>2. Alone(j)
    BY <2>1 DEF CountsDown, Becomes
  <2>3. JobsTypeOK'
    BY <1>0, <1>8, <2>2 DEF Begin, Alone, JobsTypeOK, Maybe, JobRecord, Transcripts
  <2>4. \A i \in Jobs \ {j} : job'[i] = job[i]
    BY <2>2 DEF Alone
  <2>5. /\ \A k \in Kinds : inProgress'[k] = (IF k = Kind(j) THEN TRUE ELSE inProgress[k])
        /\ Kind(j) \in {"recording"} /\ At(j, "begin")
    BY <1>0, <1>8, KindAt DEF Begin, JobsTypeOK
  <2>6. UNCHANGED <<cancelled, canceller, store, engine, told>> /\ (raced => raced')
        /\ (\A i \in Jobs : job[i].pc \in {"dropCtx", "dropName"} => raced')
    BY <1>0, <1>8 DEF Begin, JobsTypeOK
  <2>7. /\ job'[j].kind = "recording" /\ job'[j].pc = "check"
        /\ job'[j].want = job[j].want /\ job'[j].outcome = job[j].outcome
    BY <2>1, <2>5 DEF CountsDown, Becomes
  <2>8. AtWork(j) /\ \A i \in Jobs \ {j} : ~AtWork(i)
    BY <1>0, <2>5, OthersKind DEF AtWork
  <2>9. ASSUME NEW i \in Jobs PROVE JobPlaceInv(i)'
    <3>1. CASE i = j
      BY <3>1, <1>0, <2>5, <2>7 DEF JobPlaceInv, InHand
    <3>2. CASE i # j
      <4>1. InHand(i) => inProgress[Kind(i)] /\ Kind(i) \in Batches
        BY <1>0 DEF JobPlaceInv, InHand
      <4>2. InHand(i) => inProgress'[Kind(i)]
        BY <2>5, <4>1
      <4> QED BY <1>0, <2>8, <2>4, <3>2, <4>2, PlaceKept
    <3> QED BY <3>1, <3>2
  <2>10. ASSUME NEW i \in Jobs PROVE BatchInv(i)'
    BY <1>0, <2>5, <2>6, <2>7, <2>4 DEF BatchInv, Cancelled, Transcripts
  <2>11. ASSUME NEW i \in Jobs PROVE ModelInv(i)'
    BY <1>0, <2>5, <2>6, <2>7, <2>8, <2>4 DEF ModelInv, Live, AtWork
  <2>12. OneEach'
    BY <1>0, <2>5, <2>7, <2>8, <2>4 DEF OneEach, InHand, AtWork
  <2>13. Named'
    BY <1>0, <1>8, <2>1, <2>4
       DEF Begin, CountsDown, Becomes, Named, AtRest, ModelInv, NameRead, CtxFree, CtxHeld
  <2>14. Written'
    BY ZenonT(30), <1>0, <1>8, <2>1, <2>4, KindAt, OthersKind
       DEF Begin, CountsDown, Becomes, Written, Transcripts, BatchInv, InHand
  <2> QED BY <2>3, <2>9, <2>10, <2>11, <2>12, <2>13, <2>14 DEF JobsInv, JobInv
<1>9. ASSUME Save(j) PROVE JobsInv'
  <2>1. Moves(j, "files")
    BY <1>0, <1>9, RunMoves
  <2>2. Alone(j)
    BY <2>1 DEF Moves, Becomes
  <2>3. JobsTypeOK'
    BY <1>0, <1>9, <2>2 DEF Save, Alone, JobsTypeOK, Maybe, JobRecord, Transcripts
  <2>4. \A i \in Jobs \ {j} : job'[i] = job[i]
    BY <2>2 DEF Alone
  <2>5. ASSUME NEW i \in Jobs PROVE JobPlaceInv(i)'
    BY <1>0, <1>9, <2>1, <2>4, KindAt, OthersKind
       DEF Save, Moves, Becomes, AtWork, JobPlaceInv, InHand, Live, Cancelled
  <2>6. ASSUME NEW i \in Jobs PROVE BatchInv(i)'
    BY <1>0, <1>9, <2>1, <2>4, KindAt, OthersKind
       DEF Save, Moves, Becomes, BatchInv, JobPlaceInv, InHand, Cancelled, Transcripts, Live
  <2>7. ASSUME NEW i \in Jobs PROVE ModelInv(i)'
    BY <1>0, <1>9, <2>1, <2>4, KindAt, OthersKind
       DEF Save, Moves, Becomes, NameRead, CtxFree, CtxHeld, AtWork, ModelInv, JobPlaceInv,
           BatchInv, Live
  <2>8. OneEach'
    BY <1>0, <1>9, <2>1, <2>4, KindAt DEF Save, Moves, Becomes, OneEach, InHand, AtWork, Live
  <2>9. Named'
    BY <1>0, <1>9, <2>1, <2>4
       DEF Save, Moves, Becomes, Named, AtRest, ModelInv, NameRead, CtxFree, CtxHeld
  <2>10. Written'
    BY <1>0, <1>9, <2>1, <2>4, KindAt, OthersKind
       DEF Save, Moves, Becomes, Written, Transcripts, BatchInv, InHand
  <2> QED BY <2>3, <2>5, <2>6, <2>7, <2>8, <2>9, <2>10 DEF JobsInv, JobInv
<1>10. ASSUME WriteFiles(j) PROVE JobsInv'
  <2>1. Leaves(j, "complete")
    BY <1>0, <1>10, RunMoves
  <2>2. Alone(j)
    BY <2>1 DEF Leaves, Becomes
  <2>3. JobsTypeOK'
    BY <1>0, <1>10, <2>2 DEF WriteFiles, Alone, JobsTypeOK, Maybe, JobRecord, Transcripts
  <2>4. \A i \in Jobs \ {j} : job'[i] = job[i]
    BY <2>2 DEF Alone
  <2>5. ASSUME NEW i \in Jobs PROVE JobPlaceInv(i)'
    BY <1>0, <1>10, <2>1, <2>4, KindAt, OthersKind
       DEF WriteFiles, Leaves, Becomes, AtWork, JobPlaceInv, InHand, Live, Cancelled
  <2>6. ASSUME NEW i \in Jobs PROVE BatchInv(i)'
    BY <1>0, <1>10, <2>1, <2>4, KindAt, OthersKind
       DEF WriteFiles, Leaves, Becomes, BatchInv, JobPlaceInv, InHand, Cancelled, Transcripts, Live
  <2>7. ASSUME NEW i \in Jobs PROVE ModelInv(i)'
    BY <1>0, <1>10, <2>1, <2>4, KindAt, OthersKind
       DEF WriteFiles, Leaves, Becomes, NameRead, CtxFree, CtxHeld, AtWork, ModelInv, JobPlaceInv,
           BatchInv, Live
  <2>8. OneEach'
    BY <1>0, <1>10, <2>1, <2>4, KindAt
       DEF WriteFiles, Leaves, Becomes, OneEach, InHand, AtWork, Live
  <2>9. Named'
    BY <1>0, <1>10, <2>1, <2>4
       DEF WriteFiles, Leaves, Becomes, Named, AtRest, ModelInv, NameRead, CtxFree,
           CtxHeld
  <2>10. Written'
    BY <1>0, <1>10, <2>1, <2>4, KindAt, OthersKind
       DEF WriteFiles, Leaves, Becomes, Written, Transcripts, BatchInv, InHand
  <2> QED BY <2>3, <2>5, <2>6, <2>7, <2>8, <2>9, <2>10 DEF JobsInv, JobInv
<1>11. ASSUME WriteFilesFails(j) PROVE JobsInv'
  <2>1. Leaves(j, "complete")
    BY <1>0, <1>11, RunMoves
  <2>2. Alone(j)
    BY <2>1 DEF Leaves, Becomes
  <2>3. JobsTypeOK'
    BY <1>0, <1>11, <2>2 DEF WriteFilesFails, Alone, JobsTypeOK, Maybe, JobRecord, Transcripts
  <2>4. \A i \in Jobs \ {j} : job'[i] = job[i]
    BY <2>2 DEF Alone
  <2>5. ASSUME NEW i \in Jobs PROVE JobPlaceInv(i)'
    BY <1>0, <1>11, <2>1, <2>4, KindAt, OthersKind
       DEF WriteFilesFails, Leaves, Becomes, AtWork, JobPlaceInv, InHand, Live, Cancelled
  <2>6. ASSUME NEW i \in Jobs PROVE BatchInv(i)'
    BY <1>0, <1>11, <2>1, <2>4, KindAt, OthersKind
       DEF WriteFilesFails, Leaves, Becomes, BatchInv, JobPlaceInv, InHand, Cancelled, Transcripts,
           Live
  <2>7. ASSUME NEW i \in Jobs PROVE ModelInv(i)'
    BY <1>0, <1>11, <2>1, <2>4, KindAt, OthersKind
       DEF WriteFilesFails, Leaves, Becomes, NameRead, CtxFree, CtxHeld, AtWork, ModelInv,
           JobPlaceInv, BatchInv, Live
  <2>8. OneEach'
    BY <1>0, <1>11, <2>1, <2>4, KindAt
       DEF WriteFilesFails, Leaves, Becomes, OneEach, InHand, AtWork, Live
  <2>9. Named'
    BY <1>0, <1>11, <2>1, <2>4
       DEF WriteFilesFails, Leaves, Becomes, Named, AtRest, ModelInv, NameRead, CtxFree,
           CtxHeld
  <2>10. Written'
    BY <1>0, <1>11, <2>1, <2>4, KindAt, OthersKind
       DEF WriteFilesFails, Leaves, Becomes, Written, Transcripts, BatchInv, InHand
  <2> QED BY <2>3, <2>5, <2>6, <2>7, <2>8, <2>9, <2>10 DEF JobsInv, JobInv
<1>12. ASSUME DropCtx(j) PROVE JobsInv'
  <2>1. Moves(j, "dropName")
    BY <1>0, <1>12, RunMoves
  <2>2. Alone(j)
    BY <2>1 DEF Moves, Becomes
  <2>3. JobsTypeOK'
    BY <1>0, <1>12, <2>2 DEF DropCtx, WritesCtx, Alone, JobsTypeOK, Maybe, JobRecord, Transcripts
  <2>4. \A i \in Jobs \ {j} : job'[i] = job[i]
    BY <2>2 DEF Alone
  <2>5. /\ ctx' = None /\ UNCHANGED <<inProgress, raced, name>> /\ (clashed => clashed')
        /\ job'[j].pc = "dropName" /\ Kind(j)' = Kind(j)
    BY <1>12, <2>1 DEF DropCtx, WritesCtx, Moves, Becomes
  <2>6. inProgress["recording"] /\ Kind(j) \in Batches => raced
    BY <1>0, <1>12 DEF DropCtx, ModelInv
  <2>7. Kind(j) # "recording" => Kind(j) \in Batches
    BY <1>0, <1>12, KindAt DEF DropCtx
  <2>8. \A i \in Jobs \ {j} : Kind(j) = "recording" /\ Kind(i) = "recording" => job[i].pc = "done"
    BY <1>0, <1>12, OthersKind DEF DropCtx, AtWork
  <2>9. ASSUME NEW i \in Jobs PROVE JobPlaceInv(i)'
    BY <1>0, <1>12, <2>1, <2>4, KindAt, OthersKind
       DEF DropCtx, WritesCtx, Moves, Becomes, AtWork, JobPlaceInv, InHand, Live, Cancelled
  <2>10. ASSUME NEW i \in Jobs PROVE BatchInv(i)'
    BY <1>0, <1>12, <2>1, <2>4, KindAt, OthersKind
       DEF DropCtx, WritesCtx, Moves, Becomes, BatchInv, JobPlaceInv, InHand, Cancelled, Transcripts, Live
  <2>11. ASSUME NEW i \in Jobs PROVE ModelInv(i)'
    BY <1>0, <2>5, <2>6, <2>7, <2>8, <2>4 DEF ModelInv, Live
  <2>12. OneEach'
    BY <1>0, <1>12, <2>1, <2>4, KindAt
       DEF DropCtx, WritesCtx, Moves, Becomes, OneEach, InHand, AtWork, Live
  <2>13. Named'
    BY <1>0, <1>12, <2>1, <2>4
       DEF DropCtx, WritesCtx, Moves, Becomes, Named, AtRest, ModelInv, NameRead, CtxFree, CtxHeld
  <2>14. Written'
    BY <1>0, <1>12, <2>1, <2>4, KindAt, OthersKind
       DEF DropCtx, WritesCtx, Moves, Becomes, Written, Transcripts, BatchInv, InHand
  <2> QED BY <2>3, <2>9, <2>10, <2>11, <2>12, <2>13, <2>14 DEF JobsInv, JobInv
<1>13. ASSUME DropName(j) PROVE JobsInv'
  <2>1. Moves(j, Unloaded(j))
    BY <1>0, <1>13, RunMoves
  <2>2. Alone(j)
    BY <2>1 DEF Moves, Becomes
  <2>3. JobsTypeOK'
    BY <1>0, <1>13, <2>2 DEF DropName, Alone, JobsTypeOK, Maybe, JobRecord, Transcripts
  <2>4. \A i \in Jobs \ {j} : job'[i] = job[i]
    BY <2>2 DEF Alone
  <2>5. /\ UNCHANGED <<flags, store, told>>
        /\ job'[j].kind = Kind(j) /\ job'[j].outcome = job[j].outcome
        /\ job'[j].pc \in {"engine", "release"}
        /\ Kind(j) \in Batches => job'[j].pc = "release"
    BY <1>13, <2>1 DEF DropName, Moves, Becomes, Unloaded
  <2>6. At(j, "dropName") /\ Kind(j) # "settings"
    BY <1>0, <1>13, KindAt DEF DropName
  <2>7. ASSUME NEW i \in Jobs PROVE JobPlaceInv(i)'
    BY <1>0, <1>13, <2>1, <2>4, KindAt, OthersKind
       DEF DropName, Moves, Becomes, AtWork, JobPlaceInv, InHand, Live, Cancelled, Unloaded
  <2>8. ASSUME NEW i \in Jobs PROVE BatchInv(i)'
    BY <1>0, <2>5, <2>6, <2>4 DEF BatchInv, JobPlaceInv, Cancelled, Transcripts
  <2>9. ASSUME NEW i \in Jobs PROVE ModelInv(i)'
    BY <1>0, <1>13, <2>1, <2>4, KindAt, OthersKind
       DEF DropName, Moves, Becomes, NameRead, CtxFree, CtxHeld, AtWork, ModelInv, JobPlaceInv,
           BatchInv, Live, Unloaded
  <2>10. OneEach'
    BY <1>0, <1>13, <2>1, <2>4, KindAt
       DEF DropName, Moves, Becomes, OneEach, InHand, AtWork, Live, Unloaded
  <2>11. Named'
    BY <1>0, <1>13, <2>1, <2>4
       DEF DropName, Moves, Becomes, Named, AtRest, ModelInv, NameRead, CtxFree, CtxHeld,
           Unloaded
  <2>12. Written'
    BY <1>0, <1>13, <2>1, <2>4, KindAt, OthersKind
       DEF DropName, Moves, Becomes, Written, Transcripts, BatchInv, InHand, Unloaded
  <2> QED BY <2>3, <2>7, <2>8, <2>9, <2>10, <2>11, <2>12 DEF JobsInv, JobInv
<1>14. ASSUME Release(j) PROVE JobsInv'
  <2>1. Moves(j, "done")
    BY <1>0, <1>14, RunMoves
  <2>2. Alone(j)
    BY <2>1 DEF Moves, Becomes
  <2>3. JobsTypeOK'
    BY <1>0, <1>14, <2>2 DEF Release, Alone, JobsTypeOK, Maybe, JobRecord, Transcripts
  <2>4. \A i \in Jobs \ {j} : job'[i] = job[i]
    BY <2>2 DEF Alone
  <2>5. /\ \A k \in Kinds : inProgress'[k] = (IF k = Kind(j) THEN FALSE ELSE inProgress[k])
        /\ Kind(j) \in Kinds /\ At(j, "release")
    BY <1>0, <1>14, KindAt DEF Release, JobsTypeOK
  <2>6. job'[j].kind = Kind(j) /\ job'[j].pc = "done"
    BY <2>1 DEF Moves, Becomes
  <2>7. \A i \in Jobs :
          /\ (InHand(i)' => InHand(i)) /\ (AtWork(i)' => AtWork(i)) /\ Kind(i)' = Kind(i)
          /\ inProgress'["recording"] /\ AtWork(i) => AtWork(i)'
    BY <2>5, <2>6, <2>4 DEF InHand, AtWork
  <2>8. inProgress'["recording"] => inProgress["recording"]
    BY <2>5
  <2>9. ASSUME NEW i \in Jobs PROVE JobPlaceInv(i)'
    BY <1>0, <1>14, <2>1, <2>4, KindAt, OthersKind
       DEF Release, Moves, Becomes, AtWork, JobPlaceInv, InHand, Live, Cancelled
  <2>10. ASSUME NEW i \in Jobs PROVE BatchInv(i)'
    BY <1>0, <1>14, <2>1, <2>4, KindAt, OthersKind
       DEF Release, Moves, Becomes, BatchInv, JobPlaceInv, InHand, Cancelled, Transcripts, Live
  <2>11. ASSUME NEW i \in Jobs PROVE ModelInv(i)'
    BY <1>0, <1>14, <2>1, <2>4, KindAt, OthersKind
       DEF Release, Moves, Becomes, NameRead, CtxFree, CtxHeld, AtWork, ModelInv, JobPlaceInv,
           BatchInv, Live
  <2>12. OneEach'
    BY <1>0, <2>7, <2>8 DEF OneEach
  <2>13. Named'
    BY <1>0, <1>14, <2>1, <2>4
       DEF Release, Moves, Becomes, Named, AtRest, ModelInv, NameRead, CtxFree, CtxHeld
  <2>14. Written'
    BY <1>0, <1>14, <2>1, <2>4, KindAt, OthersKind
       DEF Release, Moves, Becomes, Written, Transcripts, BatchInv, InHand
  <2> QED BY <2>3, <2>9, <2>10, <2>11, <2>12, <2>13, <2>14 DEF JobsInv, JobInv
<1> QED BY <1>1, <1>2, <1>3, <1>4, <1>5, <1>6, <1>7, <1>8, <1>9, <1>10, <1>11, <1>12, <1>13,
           <1>14

(* The steps of the user that concern a recording's start and a cancel.     *)
LEMMA CallerSteps ==
    ASSUME JobsInv
    PROVE  /\ \A j \in Jobs, m \in Maybe : StartRecording(j, m) => JobsInv'
           /\ \A k \in Batches : CancelTest(k) \/ CancelStore(k) => JobsInv'
<1> USE DEF flags, store, engine
<1>1. /\ JobsTypeOK /\ OneEach /\ Named /\ Written
      /\ \A i \in Jobs : JobPlaceInv(i) /\ BatchInv(i) /\ ModelInv(i)
  BY DEF JobsInv, JobInv
<1>2. ASSUME NEW j \in Jobs, NEW m \in Maybe, StartRecording(j, m) PROVE JobsInv'
  <2>1. Becomes(j, "recording", m, job[j].goal, "validate", job[j].left, job[j].heard,
                job[j].outcome)
    BY <1>1, <1>2, UserMoves
  <2>2. Alone(j) /\ UNCHANGED <<flags, store, engine, told>> /\ At(j, "idle")
    BY <1>2, <2>1 DEF StartRecording, Becomes
  <2>3. job'[j].kind = "recording" /\ job'[j].pc = "validate"
    BY <2>1 DEF Becomes
  <2>4. ~inProgress["recording"] /\ \A i \in Jobs : ~AtWork(i)
    BY <1>1, <1>2 DEF StartRecording, OneEach, AtWork, Kind, At
  <2>5. JobsTypeOK'
    BY <1>1, <2>2 DEF JobsTypeOK, Alone
  <2>6. NameRead # {} => NameRead' # {}
    BY <1>1, <2>2, ReadersGrow DEF At
  <2>7. ASSUME NEW i \in Jobs PROVE JobInv(i)'
    <3>1. CASE i = j
      <4>1. JobPlaceInv(i)'
        BY <3>1, <2>2, <2>3, <2>4
           DEF JobPlaceInv, At, Kind, InHand, OnAir, Hearing, Batches, Loading
      <4>2. BatchInv(i)'
        <5>1. job'[i].outcome = "none"
          BY <3>1, <1>1, <2>1, <2>2 DEF JobPlaceInv, At, Becomes
        <5> QED BY <5>1, <3>1, <1>1, <2>2, <2>3 DEF BatchInv, At, Kind, Batches, Deaf, After
      <4>3. ModelInv(i)'
        BY <3>1, <2>2, <2>3 DEF ModelInv, Kind, Live, Hearing
      <4> QED BY <4>1, <4>2, <4>3 DEF JobInv
    <3>2. CASE i # j
      <4>1. job'[i] = job[i]
        BY <3>2, <2>2 DEF Alone
      <4>2. JobPlaceInv(i)'
        BY <1>1, <2>2, <4>1 DEF JobPlaceInv, At, Kind, InHand
      <4>3. BatchInv(i)'
        BY <1>1, <2>2, <4>1 DEF BatchInv, At, Kind, Cancelled, Transcripts
      <4>4. ModelInv(i)'
        BY <1>1, <2>2, <2>6, <4>1 DEF ModelInv, Kind, Live
      <4> QED BY <4>2, <4>3, <4>4 DEF JobInv
    <3> QED BY <3>1, <3>2
  <2>8. OneEach'
    <3>1. \A i \in Jobs : InHand(i)' => InHand(i) /\ Kind(i)' = Kind(i)
      BY <2>2, <2>3 DEF InHand, Kind, Alone, Batches
    <3>2. \A i \in Jobs : AtWork(i)' => i = j
      BY <2>2, <2>4 DEF AtWork, Kind, Alone
    <3> QED BY <1>1, <2>2, <2>4, <3>1, <3>2 DEF OneEach
  <2>9. \A i \in Jobs : job[i].pc \in Moving \cup {"files"} => job'[i] = job[i]
    BY <2>2 DEF Alone, At, Moving
  <2>10. Named'
    <3>1. AtRest' => AtRest
      BY <2>9 DEF AtRest
    <3>2. (\A i \in Jobs : job'[i].pc \notin {"dropName", "swapName"}) =>
              \A i \in Jobs : job[i].pc \notin {"dropName", "swapName"}
      BY <2>9 DEF Moving
    <3> QED BY <1>1, <2>2, <3>1, <3>2 DEF Named
  <2>11. Written'
    BY <1>1, <2>2, <2>9 DEF Written, At, Kind
  <2> QED BY <2>5, <2>7, <2>8, <2>10, <2>11 DEF JobsInv
<1>3. ASSUME NEW k \in Batches, CancelTest(k) PROVE JobsInv'
  <2>1. UNCHANGED <<inProgress, cancelled, raced, job, store, engine, told>>
    BY <1>3 DEF CancelTest
  <2>2. JobsTypeOK'
    BY <1>1, <1>3 DEF CancelTest, JobsTypeOK
  <2>3. ASSUME NEW i \in Jobs PROVE JobInv(i)'
    BY <1>1, <2>1 DEF JobInv, JobPlaceInv, BatchInv, ModelInv, At, Kind, InHand, Cancelled, Live,
                      NameRead, Transcripts
  <2> QED BY <1>1, <2>1, <2>2, <2>3
             DEF JobsInv, OneEach, Named, Written, InHand, AtWork, Kind, At,
                                        AtRest
<1>4. ASSUME NEW k \in Batches, CancelStore(k) PROVE JobsInv'
  <2>1. UNCHANGED <<inProgress, raced, job, store, engine>>
    BY <1>4 DEF CancelStore
  <2>2. /\ told' = told \cup {j \in Jobs : Kind(j) = k /\ job[j].pc \notin Deaf}
        /\ \A l \in Batches : cancelled'[l] = (l = k \/ cancelled[l])
    BY <1>1, <1>4 DEF CancelStore, JobsTypeOK
  <2>3. JobsTypeOK'
    BY <1>1, <1>4 DEF CancelStore, JobsTypeOK
  <2>4. ASSUME NEW i \in Jobs PROVE JobInv(i)'
    <3>1. JobPlaceInv(i)' /\ ModelInv(i)'
      BY <1>1, <2>1 DEF JobPlaceInv, ModelInv, At, Kind, InHand, Live, NameRead
    <3>2. BatchInv(i)'
      <4>1. i \in told' =>
                /\ Kind(i) \in Batches /\ i \notin committed
                /\ job[i].pc \in After \/ (cancelled'[Kind(i)] /\ job[i].pc \notin Deaf)
        BY <1>1, <2>2 DEF BatchInv, Cancelled, Deaf, After
      <4> QED BY <1>1, <2>1, <4>1 DEF BatchInv, At, Kind, Cancelled, Transcripts
    <3> QED BY <3>1, <3>2 DEF JobInv
  <2> QED BY <1>1, <2>1, <2>3, <2>4
             DEF JobsInv, OneEach, Named, Written, InHand, AtWork, Kind, At,
                                        AtRest
<1> QED BY <1>2, <1>3, <1>4

-----------------------------------------------------------------------------
(* What a step leaves alone: of what the folders depend on, and of what the *)
(* two writes of a load do.                                                 *)
StoreKept ==
    /\ UNCHANGED <<place, folders, stuck, committed>>
    /\ \A i \in Jobs :
           /\ job[i].pc \notin Early => job'[i].pc \notin Early /\ Kind(i)' = Kind(i)
           /\ Kind(i)' = "import" =>
                  Kind(i) = "import" /\ (job'[i].pc \in Working => job[i].pc \in Working)
           /\ (job'[i].outcome = "cancelled") <=> (job[i].outcome = "cancelled")
EngineKept ==
    /\ UNCHANGED <<ctx, name, clashed>>
    /\ \A i \in Jobs : /\ At(i, "setName")' <=> At(i, "setName")
                       /\ At(i, "setName") => job'[i].goal = job[i].goal

LEMMA StoreKeeps ==
    ASSUME FolderInv, StoreKept PROVE FolderInv'
<1>1. ASSUME NEW i \in Jobs PROVE Sharing(i)' = Sharing(i)
  BY DEF StoreKept, Sharing
<1>2. FolderFollowsOutcome'
  BY <1>1 DEF FolderInv, StoreKept, FolderFollowsOutcome, Sharing
<1> QED BY <1>2 DEF FolderInv, StoreKept

LEMMA EngineKeeps ==
    ASSUME WritingInv, EngineKept PROVE WritingInv'
BY DEF WritingInv, EngineKept

(* A step that moves one job, to the places and outcomes it may.            *)
Mild(j) ==
    /\ Alone(j)
    /\ job[j].pc \notin Early => job'[j].pc \notin Early /\ Kind(j)' = Kind(j)
    /\ Kind(j)' = "import" =>
           Kind(j) = "import" /\ (job'[j].pc \in Working => job[j].pc \in Working)
    /\ (job'[j].outcome = "cancelled") <=> (job[j].outcome = "cancelled")
LEMMA MildKeeps ==
    ASSUME NEW j \in Jobs, Mild(j), UNCHANGED <<place, folders, stuck, committed>>
    PROVE  StoreKept
BY DEF Mild, Alone, Kind, StoreKept
LEMMA AloofKeeps ==
    ASSUME NEW j \in Jobs, Alone(j), UNCHANGED <<ctx, name, clashed>>,
           job[j].pc # "setName", job'[j].pc # "setName"
    PROVE  EngineKept
BY DEF Alone, At, EngineKept

(* Only the preparation, the stop at a look and the transaction touch what  *)
(* the folders depend on.                                                   *)
StoreSteps(j) ==
    \/ Acquire(j) \/ ResetCancel(j) \/ SourceFails(j) \/ StageDone(j) \/ DetectorCancelled(j)
    \/ StageFails(j) \/ EngineReady(j) \/ EngineFails(j) \/ Load(j) \/ SwapCtx(j)
    \/ SetCtx(j) \/ SetName(j) \/ Validate(j) \/ ValidationFails(j) \/ Begin(j)
    \/ Check(j) \/ Reload(j) \/ ChunkDropped(j) \/ SkipShort(j) \/ NextSegment(j)
    \/ Transcribe(j) \/ HeardText(j) \/ HeardNothing(j) \/ HearingFails(j) \/ LoopDone(j)
    \/ SaveFails(j) \/ WriteFiles(j) \/ WriteFilesFails(j) \/ UnloadTest(j) \/ DropCtx(j)
    \/ DropName(j) \/ Release(j)
    \/ \E n \in Counts : Detected(j, n) \/ Redetected(j, n)
    \/ \E k \in Batches, m \in Models : Start(j, k, m)
    \/ \E m \in Maybe : StartRecording(j, m)
    \/ \E m \in Models : LoadCommand(j, m)
    \/ StopRecording(j)
LEMMA QuietStore ==
    ASSUME JobsInv, NEW j \in Jobs, StoreSteps(j) PROVE StoreKept
<1> USE DEF flags, store, engine, At, Kind, Batches, Kinds, Stages, Working, Loading,
            Hearing, OnAir, After, Early
<1>0. JobsTypeOK /\ JobPlaceInv(j) /\ BatchInv(j)
  BY DEF JobsInv, JobInv
<1> DEFINE Kept == UNCHANGED <<place, folders, stuck, committed>>
<1>1. ASSUME Acquire(j) PROVE Mild(j) /\ Kept
  <2>1. Moves(j, IF inProgress[Kind(j)] THEN "done" ELSE "reset")
    BY <1>0, <1>1, RunMoves
  <2>2. /\ Alone(j) /\ job'[j].kind = job[j].kind /\ job'[j].outcome = job[j].outcome
        /\ job'[j].pc \in {"done", "reset"} /\ job[j].pc = "acquire"
    BY <1>1, <2>1 DEF Acquire, Moves, Becomes
  <2>3. Kept
    BY <1>1 DEF Acquire
  <2> QED BY <2>2, <2>3 DEF Mild
<1>2. ASSUME ResetCancel(j) PROVE Mild(j) /\ Kept
  <2>1. Moves(j, IF Kind(j) = "import" THEN "source" ELSE "decode")
    BY <1>0, <1>2, RunMoves
  <2>2. /\ Alone(j) /\ job'[j].kind = job[j].kind /\ job'[j].outcome = job[j].outcome
        /\ job'[j].pc = "source" \/ job[j].kind # "import"
        /\ job[j].pc = "reset"
    BY <1>2, <2>1 DEF ResetCancel, Moves, Becomes
  <2>3. Kept
    BY <1>2 DEF ResetCancel
  <2> QED BY <2>2, <2>3 DEF Mild
<1>3. ASSUME SourceFails(j) PROVE Mild(j) /\ Kept
  BY <1>0, <1>3, RunMoves
     DEF SourceFails, Moves, Leaves, CountsDown, Aims, Becomes, Mild, JobPlaceInv, BatchInv,
         InHand, Live
<1>4. ASSUME StageDone(j) PROVE Mild(j) /\ Kept
  BY <1>0, <1>4, RunMoves
     DEF StageDone, Moves, Leaves, CountsDown, Aims, Becomes, Mild, JobPlaceInv, BatchInv,
         InHand, Live, NextStage
<1>5. ASSUME DetectorCancelled(j) PROVE Mild(j) /\ Kept
  BY <1>0, <1>5, RunMoves
     DEF DetectorCancelled, Moves, Leaves, CountsDown, Aims, Becomes, Mild, JobPlaceInv,
         BatchInv, InHand, Live
<1>6. ASSUME StageFails(j) PROVE Mild(j) /\ Kept
  BY <1>0, <1>6, RunMoves
     DEF StageFails, Moves, Leaves, CountsDown, Aims, Becomes, Mild, JobPlaceInv, BatchInv,
         InHand, Live
<1>7. ASSUME EngineReady(j) PROVE Mild(j) /\ Kept
  BY <1>0, <1>7, RunMoves
     DEF EngineReady, Moves, Leaves, CountsDown, Aims, Becomes, Mild, JobPlaceInv, BatchInv,
         InHand, Live
<1>8. ASSUME EngineFails(j) PROVE Mild(j) /\ Kept
  BY <1>0, <1>8, RunMoves
     DEF EngineFails, Moves, Leaves, CountsDown, Aims, Becomes, Mild, JobPlaceInv, BatchInv,
         InHand, Live
<1>9. ASSUME Load(j) PROVE Mild(j) /\ Kept
  BY <1>0, <1>9, RunMoves
     DEF Load, Moves, Leaves, CountsDown, Aims, Becomes, Mild, JobPlaceInv, BatchInv, InHand,
         Live, Loaded
<1>10. ASSUME SwapCtx(j) PROVE Mild(j) /\ Kept
  BY <1>0, <1>10, RunMoves
     DEF SwapCtx, Moves, Leaves, CountsDown, Aims, Becomes, Mild, JobPlaceInv, BatchInv,
         InHand, Live
<1>11. ASSUME SetCtx(j) PROVE Mild(j) /\ Kept
  BY <1>0, <1>11, RunMoves
     DEF SetCtx, Moves, Leaves, CountsDown, Aims, Becomes, Mild, JobPlaceInv, BatchInv, InHand, Live
<1>12. ASSUME SetName(j) PROVE Mild(j) /\ Kept
  BY <1>0, <1>12, RunMoves
     DEF SetName, Moves, Leaves, CountsDown, Aims, Becomes, Mild, JobPlaceInv, BatchInv,
         InHand, Live, Loaded
<1>13. ASSUME Validate(j) PROVE Mild(j) /\ Kept
  BY <1>0, <1>13, CountingMoves
     DEF Validate, Moves, Leaves, CountsDown, Aims, Becomes, Mild, JobPlaceInv, BatchInv,
         InHand, Live
<1>14. ASSUME ValidationFails(j) PROVE Mild(j) /\ Kept
  BY <1>0, <1>14, RunMoves
     DEF ValidationFails, Moves, Leaves, CountsDown, Aims, Becomes, Mild, JobPlaceInv,
         BatchInv, InHand, Live
<1>15. ASSUME Begin(j) PROVE Mild(j) /\ Kept
  BY <1>0, <1>15, CountingMoves
     DEF Begin, Moves, Leaves, CountsDown, Aims, Becomes, Mild, JobPlaceInv, BatchInv, InHand, Live
<1>16. ASSUME Check(j) PROVE Mild(j) /\ Kept
  BY <1>0, <1>16, RunMoves
     DEF Check, Moves, Leaves, CountsDown, Aims, Becomes, Mild, JobPlaceInv, BatchInv, InHand, Live
<1>17. ASSUME Reload(j) PROVE Mild(j) /\ Kept
  BY <1>0, <1>17, CountingMoves
     DEF Reload, Moves, Leaves, CountsDown, Aims, Becomes, Mild, JobPlaceInv, BatchInv, InHand, Live
<1>18. ASSUME ChunkDropped(j) PROVE Mild(j) /\ Kept
  BY <1>0, <1>18, CountingMoves
     DEF ChunkDropped, Moves, Leaves, CountsDown, Aims, Becomes, Mild, JobPlaceInv, BatchInv,
         InHand, Live
<1>19. ASSUME SkipShort(j) PROVE Mild(j) /\ Kept
  BY <1>0, <1>19, CountingMoves
     DEF SkipShort, Moves, Leaves, CountsDown, Aims, Becomes, Mild, JobPlaceInv, BatchInv,
         InHand, Live
<1>20. ASSUME NextSegment(j) PROVE Mild(j) /\ Kept
  BY <1>0, <1>20, RunMoves
     DEF NextSegment, Moves, Leaves, CountsDown, Aims, Becomes, Mild, JobPlaceInv, BatchInv,
         InHand, Live
<1>21. ASSUME Transcribe(j) PROVE Mild(j) /\ Kept
  BY <1>0, <1>21, RunMoves
     DEF Transcribe, Moves, Leaves, CountsDown, Aims, Becomes, Mild, JobPlaceInv, BatchInv,
         InHand, Live
<1>22. ASSUME HeardText(j) PROVE Mild(j) /\ Kept
  BY <1>0, <1>22, CountingMoves
     DEF HeardText, Moves, Leaves, CountsDown, Aims, Becomes, Mild, JobPlaceInv, BatchInv,
         InHand, Live
<1>23. ASSUME HeardNothing(j) PROVE Mild(j) /\ Kept
  BY <1>0, <1>23, CountingMoves
     DEF HeardNothing, Moves, Leaves, CountsDown, Aims, Becomes, Mild, JobPlaceInv, BatchInv,
         InHand, Live
<1>24. ASSUME HearingFails(j) PROVE Mild(j) /\ Kept
  BY <1>0, <1>24, RunMoves
     DEF HearingFails, Moves, Leaves, CountsDown, Aims, Becomes, Mild, JobPlaceInv, BatchInv,
         InHand, Live
<1>25. ASSUME LoopDone(j) PROVE Mild(j) /\ Kept
  BY <1>0, <1>25, RunMoves
     DEF LoopDone, Moves, Leaves, CountsDown, Aims, Becomes, Mild, JobPlaceInv, BatchInv,
         InHand, Live
<1>26. ASSUME SaveFails(j) PROVE Mild(j) /\ Kept
  BY <1>0, <1>26, RunMoves
     DEF SaveFails, Moves, Leaves, CountsDown, Aims, Becomes, Mild, JobPlaceInv, BatchInv,
         InHand, Live
<1>27. ASSUME WriteFiles(j) PROVE Mild(j) /\ Kept
  BY <1>0, <1>27, RunMoves
     DEF WriteFiles, Moves, Leaves, CountsDown, Aims, Becomes, Mild, JobPlaceInv, BatchInv,
         InHand, Live
<1>28. ASSUME WriteFilesFails(j) PROVE Mild(j) /\ Kept
  BY <1>0, <1>28, RunMoves
     DEF WriteFilesFails, Moves, Leaves, CountsDown, Aims, Becomes, Mild, JobPlaceInv,
         BatchInv, InHand, Live
<1>29. ASSUME UnloadTest(j) PROVE Mild(j) /\ Kept
  BY <1>0, <1>29, RunMoves
     DEF UnloadTest, Moves, Leaves, CountsDown, Aims, Becomes, Mild, JobPlaceInv, BatchInv,
         InHand, Live
<1>30. ASSUME DropCtx(j) PROVE Mild(j) /\ Kept
  BY <1>0, <1>30, RunMoves
     DEF DropCtx, Moves, Leaves, CountsDown, Aims, Becomes, Mild, JobPlaceInv, BatchInv,
         InHand, Live
<1>31. ASSUME DropName(j) PROVE Mild(j) /\ Kept
  BY <1>0, <1>31, RunMoves
     DEF DropName, Moves, Leaves, CountsDown, Aims, Becomes, Mild, JobPlaceInv, BatchInv,
         InHand, Live, Unloaded
<1>32. ASSUME Release(j) PROVE Mild(j) /\ Kept
  BY <1>0, <1>32, RunMoves
     DEF Release, Moves, Leaves, CountsDown, Aims, Becomes, Mild, JobPlaceInv, BatchInv,
         InHand, Live
<1>33. ASSUME NEW n \in Counts, Detected(j, n) PROVE Mild(j) /\ Kept
  BY <1>0, <1>33, CountingMoves
     DEF Detected, Moves, Leaves, CountsDown, Aims, Becomes, Mild, JobPlaceInv, BatchInv,
         InHand, Live
<1>34. ASSUME NEW n \in Counts, Redetected(j, n) PROVE Mild(j) /\ Kept
  BY <1>0, <1>34, CountingMoves
     DEF Redetected, Moves, Leaves, CountsDown, Aims, Becomes, Mild, JobPlaceInv, BatchInv,
         InHand, Live
<1>35. ASSUME NEW k \in Batches, NEW m \in Models, Start(j, k, m) PROVE Mild(j) /\ Kept
  BY <1>0, <1>35, UserMoves
     DEF Start, Moves, Leaves, CountsDown, Aims, Becomes, Mild, JobPlaceInv, BatchInv, InHand, Live
<1>36. ASSUME NEW m \in Maybe, StartRecording(j, m) PROVE Mild(j) /\ Kept
  BY <1>0, <1>36, UserMoves
     DEF StartRecording, Moves, Leaves, CountsDown, Aims, Becomes, Mild, JobPlaceInv, BatchInv,
         InHand, Live
<1>37. ASSUME NEW m \in Models, LoadCommand(j, m) PROVE Mild(j) /\ Kept
  BY <1>0, <1>37, UserMoves
     DEF LoadCommand, Moves, Leaves, CountsDown, Aims, Becomes, Mild, JobPlaceInv, BatchInv,
         InHand, Live
<1>38. ASSUME StopRecording(j) PROVE Mild(j) /\ Kept
  BY <1>0, <1>38, UserMoves
     DEF StopRecording, Moves, Leaves, CountsDown, Aims, Becomes, Mild, JobPlaceInv, BatchInv,
         InHand, Live
<1> QED BY <1>1, <1>2, <1>3, <1>4, <1>5, <1>6, <1>7, <1>8, <1>9, <1>10, <1>11, <1>12, <1>13,
           <1>14, <1>15, <1>16, <1>17, <1>18, <1>19, <1>20, <1>21, <1>22, <1>23, <1>24, <1>25,
           <1>26, <1>27, <1>28, <1>29, <1>30, <1>31, <1>32, <1>33, <1>34, <1>35, <1>36, <1>37,
           <1>38, MildKeeps DEF StoreSteps

(* Only the writers of the model and of its name touch what two writes of a *)
(* load depend on.                                                          *)
AloofSteps(j) ==
    \/ Prepare(j) \/ StopAtLook(j) \/ Save(j) \/ Acquire(j) \/ ResetCancel(j)
    \/ SourceFails(j) \/ StageDone(j) \/ DetectorCancelled(j) \/ StageFails(j) \/ EngineReady(j)
    \/ Load(j) \/ Validate(j) \/ ValidationFails(j) \/ Begin(j) \/ Check(j)
    \/ Reload(j) \/ ChunkDropped(j) \/ SkipShort(j) \/ NextSegment(j) \/ Transcribe(j)
    \/ HeardText(j) \/ HeardNothing(j) \/ HearingFails(j) \/ LoopDone(j) \/ SaveFails(j)
    \/ WriteFiles(j) \/ WriteFilesFails(j) \/ UnloadTest(j) \/ Release(j)
    \/ EngineFails(j)
    \/ \E n \in Counts : Detected(j, n) \/ Redetected(j, n)
    \/ \E k \in Batches, m \in Models : Start(j, k, m)
    \/ \E m \in Maybe : StartRecording(j, m)
    \/ \E m \in Models : LoadCommand(j, m)
    \/ StopRecording(j)
LEMMA QuietEngine ==
    ASSUME JobsInv, WritingInv, NEW j \in Jobs, AloofSteps(j) PROVE WritingInv'
<1> USE DEF flags, store, engine, At, Kind, Batches, Kinds, Stages, Looks, Working, Loading
<1>0. JobsTypeOK /\ JobPlaceInv(j) /\ BatchInv(j)
  BY DEF JobsInv, JobInv
<1> DEFINE Kept == UNCHANGED <<ctx, name, clashed>>
           Free == Alone(j) /\ job[j].pc # "setName" /\ Kept
<1>1. ASSUME Prepare(j) PROVE Free /\ job'[j].pc # "setName"
  BY <1>0, <1>1, RunMoves
     DEF Prepare, Moves, Leaves, CountsDown, Aims, Becomes, Live, JobPlaceInv
<1>2. ASSUME StopAtLook(j) PROVE Free /\ job'[j].pc # "setName"
  BY <1>0, <1>2, RunMoves
     DEF StopAtLook, Moves, Leaves, CountsDown, Aims, Becomes, Live, JobPlaceInv
<1>3. ASSUME Save(j) PROVE Free /\ job'[j].pc # "setName"
  BY <1>0, <1>3, RunMoves
     DEF Save, Moves, Leaves, CountsDown, Aims, Becomes, Live, JobPlaceInv
<1>4. ASSUME Acquire(j) PROVE Free /\ job'[j].pc # "setName"
  BY <1>0, <1>4, RunMoves
     DEF Acquire, Moves, Leaves, CountsDown, Aims, Becomes, Live, JobPlaceInv
<1>5. ASSUME ResetCancel(j) PROVE Free /\ job'[j].pc # "setName"
  BY <1>0, <1>5, RunMoves
     DEF ResetCancel, Moves, Leaves, CountsDown, Aims, Becomes, Live, JobPlaceInv
<1>6. ASSUME SourceFails(j) PROVE Free /\ job'[j].pc # "setName"
  BY <1>0, <1>6, RunMoves
     DEF SourceFails, Moves, Leaves, CountsDown, Aims, Becomes, Live, JobPlaceInv
<1>7. ASSUME StageDone(j) PROVE Free /\ job'[j].pc # "setName"
  BY <1>0, <1>7, RunMoves
     DEF StageDone, Moves, Leaves, CountsDown, Aims, Becomes, Live, JobPlaceInv, NextStage
<1>8. ASSUME DetectorCancelled(j) PROVE Free /\ job'[j].pc # "setName"
  BY <1>0, <1>8, RunMoves
     DEF DetectorCancelled, Moves, Leaves, CountsDown, Aims, Becomes, Live, JobPlaceInv
<1>9. ASSUME StageFails(j) PROVE Free /\ job'[j].pc # "setName"
  BY <1>0, <1>9, RunMoves
     DEF StageFails, Moves, Leaves, CountsDown, Aims, Becomes, Live, JobPlaceInv
<1>10. ASSUME EngineReady(j) PROVE Free /\ job'[j].pc # "setName"
  BY <1>0, <1>10, RunMoves
     DEF EngineReady, Moves, Leaves, CountsDown, Aims, Becomes, Live, JobPlaceInv
<1>11. ASSUME EngineFails(j) PROVE Free /\ job'[j].pc # "setName"
  BY <1>0, <1>11, RunMoves
     DEF EngineFails, Moves, Leaves, CountsDown, Aims, Becomes, Live, JobPlaceInv
<1>12. ASSUME Load(j) PROVE Free /\ job'[j].pc # "setName"
  BY <1>0, <1>12, RunMoves
     DEF Load, Moves, Leaves, CountsDown, Aims, Becomes, Live, JobPlaceInv, Loaded
<1>13. ASSUME Validate(j) PROVE Free /\ job'[j].pc # "setName"
  BY <1>0, <1>13, CountingMoves
     DEF Validate, Moves, Leaves, CountsDown, Aims, Becomes, Live, JobPlaceInv
<1>14. ASSUME ValidationFails(j) PROVE Free /\ job'[j].pc # "setName"
  BY <1>0, <1>14, RunMoves
     DEF ValidationFails, Moves, Leaves, CountsDown, Aims, Becomes, Live, JobPlaceInv
<1>15. ASSUME Begin(j) PROVE Free /\ job'[j].pc # "setName"
  BY <1>0, <1>15, CountingMoves
     DEF Begin, Moves, Leaves, CountsDown, Aims, Becomes, Live, JobPlaceInv
<1>16. ASSUME Check(j) PROVE Free /\ job'[j].pc # "setName"
  BY <1>0, <1>16, RunMoves
     DEF Check, Moves, Leaves, CountsDown, Aims, Becomes, Live, JobPlaceInv
<1>17. ASSUME Reload(j) PROVE Free /\ job'[j].pc # "setName"
  BY <1>0, <1>17, CountingMoves
     DEF Reload, Moves, Leaves, CountsDown, Aims, Becomes, Live, JobPlaceInv
<1>18. ASSUME ChunkDropped(j) PROVE Free /\ job'[j].pc # "setName"
  BY <1>0, <1>18, CountingMoves
     DEF ChunkDropped, Moves, Leaves, CountsDown, Aims, Becomes, Live, JobPlaceInv
<1>19. ASSUME SkipShort(j) PROVE Free /\ job'[j].pc # "setName"
  BY <1>0, <1>19, CountingMoves
     DEF SkipShort, Moves, Leaves, CountsDown, Aims, Becomes, Live, JobPlaceInv
<1>20. ASSUME NextSegment(j) PROVE Free /\ job'[j].pc # "setName"
  BY <1>0, <1>20, RunMoves
     DEF NextSegment, Moves, Leaves, CountsDown, Aims, Becomes, Live, JobPlaceInv
<1>21. ASSUME Transcribe(j) PROVE Free /\ job'[j].pc # "setName"
  BY <1>0, <1>21, RunMoves
     DEF Transcribe, Moves, Leaves, CountsDown, Aims, Becomes, Live, JobPlaceInv
<1>22. ASSUME HeardText(j) PROVE Free /\ job'[j].pc # "setName"
  BY <1>0, <1>22, CountingMoves
     DEF HeardText, Moves, Leaves, CountsDown, Aims, Becomes, Live, JobPlaceInv
<1>23. ASSUME HeardNothing(j) PROVE Free /\ job'[j].pc # "setName"
  BY <1>0, <1>23, CountingMoves
     DEF HeardNothing, Moves, Leaves, CountsDown, Aims, Becomes, Live, JobPlaceInv
<1>24. ASSUME HearingFails(j) PROVE Free /\ job'[j].pc # "setName"
  BY <1>0, <1>24, RunMoves
     DEF HearingFails, Moves, Leaves, CountsDown, Aims, Becomes, Live, JobPlaceInv
<1>25. ASSUME LoopDone(j) PROVE Free /\ job'[j].pc # "setName"
  BY <1>0, <1>25, RunMoves
     DEF LoopDone, Moves, Leaves, CountsDown, Aims, Becomes, Live, JobPlaceInv
<1>26. ASSUME SaveFails(j) PROVE Free /\ job'[j].pc # "setName"
  BY <1>0, <1>26, RunMoves
     DEF SaveFails, Moves, Leaves, CountsDown, Aims, Becomes, Live, JobPlaceInv
<1>27. ASSUME WriteFiles(j) PROVE Free /\ job'[j].pc # "setName"
  BY <1>0, <1>27, RunMoves
     DEF WriteFiles, Moves, Leaves, CountsDown, Aims, Becomes, Live, JobPlaceInv
<1>28. ASSUME WriteFilesFails(j) PROVE Free /\ job'[j].pc # "setName"
  BY <1>0, <1>28, RunMoves
     DEF WriteFilesFails, Moves, Leaves, CountsDown, Aims, Becomes, Live, JobPlaceInv
<1>29. ASSUME UnloadTest(j) PROVE Free /\ job'[j].pc # "setName"
  BY <1>0, <1>29, RunMoves
     DEF UnloadTest, Moves, Leaves, CountsDown, Aims, Becomes, Live, JobPlaceInv
<1>30. ASSUME Release(j) PROVE Free /\ job'[j].pc # "setName"
  BY <1>0, <1>30, RunMoves
     DEF Release, Moves, Leaves, CountsDown, Aims, Becomes, Live, JobPlaceInv
<1>31. ASSUME NEW n \in Counts, Detected(j, n) PROVE Free /\ job'[j].pc # "setName"
  BY <1>0, <1>31, CountingMoves
     DEF Detected, Moves, Leaves, CountsDown, Aims, Becomes, Live, JobPlaceInv
<1>32. ASSUME NEW n \in Counts, Redetected(j, n) PROVE Free /\ job'[j].pc # "setName"
  BY <1>0, <1>32, CountingMoves
     DEF Redetected, Moves, Leaves, CountsDown, Aims, Becomes, Live, JobPlaceInv
<1>33. ASSUME NEW k \in Batches, NEW m \in Models, Start(j, k, m) PROVE Free /\ job'[j].pc # "setName"
  BY <1>0, <1>33, UserMoves
     DEF Start, Moves, Leaves, CountsDown, Aims, Becomes, Live, JobPlaceInv
<1>34. ASSUME NEW m \in Maybe, StartRecording(j, m) PROVE Free /\ job'[j].pc # "setName"
  BY <1>0, <1>34, UserMoves
     DEF StartRecording, Moves, Leaves, CountsDown, Aims, Becomes, Live, JobPlaceInv
<1>35. ASSUME NEW m \in Models, LoadCommand(j, m) PROVE Free /\ job'[j].pc # "setName"
  BY <1>0, <1>35, UserMoves
     DEF LoadCommand, Moves, Leaves, CountsDown, Aims, Becomes, Live, JobPlaceInv
<1>36. ASSUME StopRecording(j) PROVE Free /\ job'[j].pc # "setName"
  BY <1>0, <1>36, UserMoves
     DEF StopRecording, Moves, Leaves, CountsDown, Aims, Becomes, Live, JobPlaceInv
<1> QED BY <1>1, <1>2, <1>3, <1>4, <1>5, <1>6, <1>7, <1>8, <1>9, <1>10, <1>11, <1>12, <1>13,
           <1>14, <1>15, <1>16, <1>17, <1>18, <1>19, <1>20, <1>21, <1>22, <1>23, <1>24, <1>25,
           <1>26, <1>27, <1>28, <1>29, <1>30, <1>31, <1>32, <1>33, <1>34, <1>35, <1>36,
           AloofKeeps, EngineKeeps DEF AloofSteps

(* The writers.                                                             *)
LEMMA WritingSteps ==
    ASSUME JobsInv, WritingInv, NEW j \in Jobs,
           SwapCtx(j) \/ SetCtx(j) \/ SetName(j) \/ DropCtx(j) \/ DropName(j)
    PROVE  WritingInv'
<1> USE DEF At
<1>0. JobsTypeOK /\ JobPlaceInv(j) /\ ModelInv(j)
  BY DEF JobsInv, JobInv
<1>1. ASSUME SwapCtx(j) \/ DropCtx(j) PROVE WritingInv'
  <2>1. /\ ctx' = None /\ WritesCtx(j) /\ Alone(j) /\ job'[j].pc # "setName"
    BY <1>0, <1>1, RunMoves DEF SwapCtx, DropCtx, Moves, Becomes
  <2>2. ~clashed' => \A i \in Jobs : job'[i].pc # "setName"
    BY <2>1 DEF WritesCtx, Alone
  <2> QED BY <2>1, <2>2 DEF WritingInv
<1>2. ASSUME SetCtx(j) PROVE WritingInv'
  <2>1. /\ ctx' = job[j].goal /\ WritesCtx(j) /\ Alone(j) /\ job'[j].pc = "setName"
        /\ job'[j].goal = job[j].goal
    BY <1>0, <1>2, RunMoves DEF SetCtx, Moves, Becomes
  <2>2. ~clashed' => \A i \in Jobs : job'[i].pc = "setName" => i = j
    BY <2>1 DEF WritesCtx, Alone
  <2> QED BY <2>1, <2>2 DEF WritingInv
<1>3. ASSUME SetName(j) PROVE WritingInv'
  <2>1. /\ name' = job[j].goal /\ job[j].goal # None /\ UNCHANGED <<ctx, clashed>>
        /\ Alone(j) /\ job'[j].pc # "setName"
    BY <1>0, <1>3, RunMoves DEF SetName, Moves, Becomes, Loaded, JobPlaceInv, Loading
  <2> QED BY <2>1 DEF WritingInv, Alone
<1>4. ASSUME DropName(j) PROVE WritingInv'
  <2>1. /\ UNCHANGED <<ctx, clashed>> /\ ctx = None
        /\ Alone(j) /\ job'[j].pc # "setName"
    BY <1>0, <1>4, RunMoves DEF DropName, Moves, Becomes, Unloaded, ModelInv
  <2> QED BY <2>1 DEF WritingInv, Alone
<1> QED BY <1>1, <1>2, <1>3, <1>4

(* The steps that make, keep or remove a folder.                            *)
LEMMA FolderSteps ==
    ASSUME JobsInv, FolderInv, NEW j \in Jobs
    PROVE  /\ Prepare(j) => FolderInv'
           /\ StopAtLook(j) => FolderInv'
           /\ Save(j) => FolderInv'
<1> USE DEF At, Kind
<1>0. /\ JobsTypeOK /\ OneEach /\ Nowhere \notin Jobs /\ Nowhere \notin folders
      /\ \A i \in Jobs : JobPlaceInv(i) /\ BatchInv(i)
  BY JobsAssumption DEF JobsInv, JobInv, JobsTypeOK, Nowhere
<1>00. /\ FolderFollowsOutcome
       /\ \A i \in Jobs :
              /\ place[i] # Nowhere => Kind(i) = "import" /\ job[i].pc \notin Early
              /\ Kind(i) = "import" /\ job[i].pc \in Working => place[i] \in folders
  BY DEF FolderInv
<1>1. ASSUME Prepare(j) PROVE FolderInv'
  <2>1. /\ Alone(j) /\ Kind(j)' = Kind(j) /\ job'[j].pc = "copy"
        /\ job'[j].outcome = job[j].outcome
        /\ Kind(j) = "import" /\ job[j].pc = "source"
    BY <1>0, <1>1, RunMoves, KindAt DEF Prepare, Moves, Becomes
  <2>2. place[j] = Nowhere /\ j \notin committed /\ job[j].outcome # "cancelled"
    BY <1>0, <1>00, <2>1 DEF BatchInv, Early, After
  <2>3. PICK p : /\ p # Nowhere /\ place' = [place EXCEPT ![j] = p]
                 /\ folders' = folders \cup {p}
    BY <1>1 DEF Prepare
  <2>4. /\ place'[j] = p /\ UNCHANGED <<stuck, committed>>
        /\ \A i \in Jobs \ {j} : place'[i] = place[i] /\ job'[i] = job[i]
    BY <1>0, <1>1, <2>1, <2>3 DEF Prepare, JobsTypeOK, Alone
  <2>5. ASSUME NEW i \in Jobs, Kind(i)' = "import", i \in committed'
        PROVE  place'[i] \in folders' \/ \E k \in Sharing(i)' : job'[k].outcome = "cancelled"
    <3>1. i # j /\ Kind(i) = "import" /\ i \in committed
      BY <2>2, <2>4, <2>5
    <3>2. CASE place[i] \in folders
      BY <3>1, <3>2, <2>3, <2>4
    <3>3. CASE place[i] \notin folders
      <4>1. PICK k \in Sharing(i) : job[k].outcome = "cancelled"
        BY <3>1, <3>3, <1>00 DEF FolderFollowsOutcome
      <4>2. k \in Sharing(i)' /\ job'[k].outcome = "cancelled"
        BY <4>1, <3>1, <2>2, <2>4 DEF Sharing
      <4> QED BY <4>2
    <3> QED BY <3>2, <3>3
  <2>6. ASSUME NEW i \in Jobs, Kind(i)' = "import", job'[i].outcome = "cancelled"
        PROVE  \/ place'[i] \notin folders' \/ i \in stuck'
               \/ \E k \in Sharing(i)' : job'[k].outcome # "cancelled" \/ k \in stuck'
    <3>1. i # j /\ Kind(i) = "import" /\ job[i].outcome = "cancelled"
      BY <2>1, <2>2, <2>4, <2>6
    <3>2. CASE place[i] = p
      <4>1. j \in Sharing(i)' /\ job'[j].outcome # "cancelled"
        BY <3>1, <3>2, <2>1, <2>2, <2>4 DEF Sharing
      <4> QED BY <4>1
    <3>3. CASE place[i] # p /\ (place[i] \notin folders \/ i \in stuck)
      BY <3>1, <3>3, <2>3, <2>4
    <3>4. CASE place[i] # p /\ place[i] \in folders /\ i \notin stuck
      <4>1. PICK k \in Sharing(i) : job[k].outcome # "cancelled" \/ k \in stuck
        BY <3>1, <3>4, <1>00 DEF FolderFollowsOutcome
      <4>2. k # j
        BY <4>1, <3>4, <2>2, <1>0 DEF Sharing
      <4>3. k \in Sharing(i)' /\ (job'[k].outcome # "cancelled" \/ k \in stuck')
        BY <4>1, <4>2, <3>1, <2>4 DEF Sharing
      <4> QED BY <4>3
    <3> QED BY <3>2, <3>3, <3>4
  <2>7. FolderFollowsOutcome'
    BY <2>5, <2>6 DEF FolderFollowsOutcome
  <2>8. ASSUME NEW i \in Jobs
        PROVE  /\ place'[i] # Nowhere => Kind(i)' = "import" /\ job'[i].pc \notin Early
               /\ Kind(i)' = "import" /\ job'[i].pc \in Working => place'[i] \in folders'
    BY <1>00, <2>1, <2>3, <2>4 DEF Early
  <2> QED BY <2>7, <2>8 DEF FolderInv
<1>2. ASSUME StopAtLook(j) PROVE FolderInv'
  <2>1. /\ Alone(j) /\ Kind(j)' = Kind(j) /\ job'[j].pc = "unload"
        /\ job'[j].outcome = "cancelled" /\ InHand(j)
        /\ UNCHANGED <<place, committed>>
    BY <1>0, <1>2, RunMoves DEF StopAtLook, Leaves, Becomes, InHand, Looks, Stages, Cancelled
  <2>2. \A i \in Jobs \ {j} : job'[i] = job[i]
    BY <2>1 DEF Alone
  <2>3. \/ folders' = folders \ {place[j]} /\ stuck' = stuck
        \/ stuck' = stuck \cup {j} /\ folders' = folders
    BY <1>2 DEF StopAtLook
  <2>4. \A i \in Jobs : Sharing(i)' = Sharing(i)
    BY <2>1 DEF Sharing
  <2>5. ASSUME NEW i \in Jobs, Kind(i)' = "import", i \in committed'
        PROVE  place'[i] \in folders' \/ \E k \in Sharing(i)' : job'[k].outcome = "cancelled"
    <3>1. i # j /\ Kind(i) = "import" /\ i \in committed
      BY <1>0, <1>2, <2>1, <2>2, <2>5
         DEF BatchInv, StopAtLook, Looks, Stages, After
    <3>2. CASE place[i] = place[j]
      BY <3>1, <3>2, <2>1, <2>4 DEF Sharing
    <3>3. CASE place[i] # place[j] /\ place[i] \in folders
      BY <3>3, <2>1, <2>3
    <3>4. CASE place[i] # place[j] /\ place[i] \notin folders
      <4>1. PICK k \in Sharing(i) : job[k].outcome = "cancelled"
        BY <3>1, <3>4, <1>00 DEF FolderFollowsOutcome
      <4>2. k # j
        BY <4>1, <3>4 DEF Sharing
      <4> QED BY <4>1, <4>2, <2>2, <2>4 DEF Sharing
    <3> QED BY <3>2, <3>3, <3>4
  <2>6. ASSUME NEW i \in Jobs, Kind(i)' = "import", job'[i].outcome = "cancelled"
        PROVE  \/ place'[i] \notin folders' \/ i \in stuck'
               \/ \E k \in Sharing(i)' : job'[k].outcome # "cancelled" \/ k \in stuck'
    <3>1. CASE i = j
      BY <3>1, <2>1, <2>3
    <3>2. CASE i # j /\ (place[i] \notin folders \/ i \in stuck)
      BY <3>2, <2>1, <2>3
    <3>3. CASE i # j /\ place[i] \in folders /\ i \notin stuck
      <4>1. PICK k \in Sharing(i) : job[k].outcome # "cancelled" \/ k \in stuck
        BY <3>3, <1>00, <2>2, <2>6 DEF FolderFollowsOutcome
      <4>2. CASE k = j
        BY <4>1, <4>2, <2>1, <2>3, <2>4 DEF Sharing
      <4>3. CASE k # j
        BY <4>1, <4>3, <2>2, <2>3, <2>4 DEF Sharing
      <4> QED BY <4>2, <4>3
    <3> QED BY <3>1, <3>2, <3>3
  <2>7. FolderFollowsOutcome'
    BY <2>5, <2>6 DEF FolderFollowsOutcome
  <2>8. ASSUME NEW i \in Jobs, Kind(i)' = "import", job'[i].pc \in Working
        PROVE  place'[i] \in folders'
    <3>1. i # j /\ Kind(i) = "import" /\ place[i] \in folders
      BY <1>00, <2>1, <2>2, <2>8 DEF Working, Stages, Loading
    <3>2. InHand(i)
      BY <3>1, <2>2, <2>8 DEF InHand, Working, Stages, Loading, Batches
    <3>3. Kind(j) # "import"
      BY <1>0, <2>1, <3>1, <3>2 DEF OneEach
    <3>4. place[j] = Nowhere
      BY <1>00, <3>3
    <3> QED BY <1>0, <2>1, <2>3, <3>1, <3>4
  <2>9. ASSUME NEW i \in Jobs, place'[i] # Nowhere
        PROVE  Kind(i)' = "import" /\ job'[i].pc \notin Early
    BY <1>00, <2>1, <2>2, <2>9 DEF Early
  <2> QED BY <2>7, <2>8, <2>9 DEF FolderInv
<1>3. ASSUME Save(j) PROVE FolderInv'
  <2>1. /\ Alone(j) /\ Kind(j)' = Kind(j) /\ job'[j].pc = "files" /\ job[j].pc = "save"
        /\ job'[j].outcome = job[j].outcome
        /\ UNCHANGED <<place, folders, stuck>> /\ committed' = committed \cup {j}
    BY <1>0, <1>3, RunMoves DEF Save, Moves, Becomes
  <2>2. \A i \in Jobs : Sharing(i)' = Sharing(i) /\ Kind(i)' = Kind(i)
                         /\ job'[i].outcome = job[i].outcome
    BY <2>1 DEF Sharing, Alone
  <2>3. Kind(j) = "import" => place[j] \in folders
    BY <1>00, <2>1 DEF Working
  <2>4. ASSUME NEW i \in Jobs, Kind(i)' = "import"
        PROVE  /\ i \in committed' => \/ place'[i] \in folders'
                                      \/ \E k \in Sharing(i)' : job'[k].outcome = "cancelled"
               /\ job'[i].outcome = "cancelled" =>
                      \/ place'[i] \notin folders' \/ i \in stuck'
                      \/ \E k \in Sharing(i)' : job'[k].outcome # "cancelled" \/ k \in stuck'
    <3>1. Sharing(i)' = Sharing(i) /\ Sharing(i) \subseteq Jobs /\ Kind(i) = "import"
      BY <2>2, <2>4 DEF Sharing
    <3>2. CASE i \in committed
      BY <3>1, <3>2, <1>00, <2>1, <2>2 DEF FolderFollowsOutcome
    <3>3. CASE i \notin committed
      BY <3>1, <3>3, <1>00, <2>1, <2>2, <2>3 DEF FolderFollowsOutcome
    <3> QED BY <3>2, <3>3
  <2>5. FolderFollowsOutcome'
    BY <2>4 DEF FolderFollowsOutcome
  <2>6. ASSUME NEW i \in Jobs
        PROVE  /\ place'[i] # Nowhere => Kind(i)' = "import" /\ job'[i].pc \notin Early
               /\ Kind(i)' = "import" /\ job'[i].pc \in Working => place'[i] \in folders'
    BY <1>00, <2>1, <2>2 DEF Early, Working, Alone
  <2> QED BY <2>5, <2>6 DEF FolderInv
<1> QED BY <1>1, <1>2, <1>3

(* A cancel command moves no job.                                           *)
LEMMA CancelKeeps ==
    ASSUME WritingInv, FolderInv, NEW k \in Batches, CancelTest(k) \/ CancelStore(k)
    PROVE  WritingInv' /\ FolderInv'
BY DEF CancelTest, CancelStore, store, engine, WritingInv, FolderInv, FolderFollowsOutcome,
       Sharing, At, Kind

(* The invariant holds at first and through every step.                     *)
LEMMA JobsInvHolds ==
    JobsSpec => [](JobsInv /\ WritingInv /\ FolderInv)
<1>1. JobsInit => JobsInv /\ WritingInv /\ FolderInv
  <2> SUFFICES ASSUME JobsInit PROVE JobsInv /\ WritingInv /\ FolderInv
    OBVIOUS
  <2>1. Idle \in JobRecord
    BY SegmentsAssumption DEF Idle, JobRecord, Kinds, Batches, Maybe, Pcs, Counts, Outcomes
  <2>2. JobsTypeOK
    <3>1. job \in [Jobs -> JobRecord]
      BY <2>1 DEF JobsInit
    <3>2. /\ inProgress \in [Kinds -> BOOLEAN] /\ cancelled \in [Batches -> BOOLEAN]
          /\ canceller \in [Batches -> {"idle", "sure", "over"}]
      BY DEF JobsInit
    <3>3. /\ place \in [Jobs -> Jobs \cup {Nowhere}] /\ folders \subseteq Jobs /\ stuck \subseteq Jobs
          /\ committed \subseteq Jobs /\ told \subseteq Jobs
          /\ rows \in Int /\ json \in Int /\ ctx \in Maybe /\ name \in Maybe
      BY DEF JobsInit, Maybe
    <3>4. jsonFailed \in BOOLEAN /\ clashed \in BOOLEAN /\ raced \in BOOLEAN
      BY Zenon DEF JobsInit
    <3> QED BY <3>1, <3>2, <3>3, <3>4 DEF JobsTypeOK
  <2>3. \A j \in Jobs : At(j, "idle") /\ Kind(j) = "import" /\ job[j].outcome = "none"
    BY DEF JobsInit, At, Kind, Idle
  <2>4. ASSUME NEW j \in Jobs PROVE JobInv(j)
    BY <2>3
       DEF JobsInit, JobInv, JobPlaceInv, BatchInv, ModelInv, At, InHand, Live, Working, Stages,
                Loading, Hearing, Batches, Kind
  <2>5. OneEach
    BY <2>3 DEF JobsInit, OneEach, InHand, AtWork, At, Kind, Kinds
  <2>6. WritingInv
    BY <2>3 DEF JobsInit, WritingInv, At
  <2>7. FolderInv
    BY <2>3 DEF JobsInit, FolderInv, FolderFollowsOutcome, At, Working, Stages, Loading
  <2> QED BY <2>2, <2>4, <2>5, <2>6, <2>7 DEF JobsInv, JobsInit, Named, Written, AtRest
<1>2. JobsInv /\ WritingInv /\ FolderInv /\ [JobsNext]_jobsVars
          => (JobsInv /\ WritingInv /\ FolderInv)'
  <2> SUFFICES ASSUME JobsInv, WritingInv, FolderInv, [JobsNext]_jobsVars
               PROVE  JobsInv' /\ WritingInv' /\ FolderInv'
    OBVIOUS
  <2>1. CASE User
    <3>1. JobsInv'
      BY <2>1, TurningSteps, CallerSteps DEF User, Maybe
    <3>2. CASE \E k \in Batches : CancelTest(k) \/ CancelStore(k)
      BY <3>1, <3>2, CancelKeeps
    <3>3. CASE ~\E k \in Batches : CancelTest(k) \/ CancelStore(k)
      <4>1. PICK j \in Jobs : StoreSteps(j) /\ AloofSteps(j)
        BY <2>1, <3>3 DEF User, StoreSteps, AloofSteps, Maybe
      <4> QED BY <3>1, <4>1, QuietStore, StoreKeeps, QuietEngine
    <3> QED BY <3>2, <3>3
  <2>2. ASSUME NEW j \in Jobs, Run(j) PROVE JobsInv' /\ WritingInv' /\ FolderInv'
    <3>1. JobsInv'
      BY <2>2, SilentSteps, TurningSteps, LoudSteps DEF Run, Counts
    <3>2. StoreSteps(j) \/ Prepare(j) \/ StopAtLook(j) \/ Save(j)
      BY <2>2 DEF Run, StoreSteps, Counts
    <3>3. AloofSteps(j) \/ SwapCtx(j) \/ SetCtx(j) \/ SetName(j) \/ DropCtx(j) \/ DropName(j)
      BY <2>2 DEF Run, AloofSteps, Counts
    <3>4. FolderInv'
      BY <3>2, QuietStore, StoreKeeps, FolderSteps
    <3>5. WritingInv'
      BY <3>3, QuietEngine, WritingSteps
    <3> QED BY <3>1, <3>4, <3>5
  <2>3. CASE UNCHANGED jobsVars
    <3>1. JobsInv'
      BY <2>3 DEF jobsVars, flags, store, engine, JobsInv, JobsTypeOK, JobInv, JobPlaceInv, BatchInv,
                  ModelInv, OneEach, Named, Written, AtRest, InHand, AtWork, At, Kind,
                  Cancelled, Live, NameRead, Transcripts
    <3>2. WritingInv' /\ FolderInv'
      BY <2>3 DEF jobsVars, store, engine, WritingInv, FolderInv, FolderFollowsOutcome, Sharing,
                  At, Kind
    <3> QED BY <3>1, <3>2
  <2> QED BY <2>1, <2>2, <2>3 DEF JobsNext
<1> QED BY <1>1, <1>2, PTL DEF JobsSpec

(* The jobs and the engine keep the values the code gives them.             *)
THEOREM JobsTypeCorrect ==
    JobsSpec => []JobsTypeOK
<1>1. JobsInv => JobsTypeOK
  BY DEF JobsInv
<1> QED BY <1>1, JobsInvHolds, PTL

(* A job that was cancelled before its last look at the flag (the tests of  *)
(* IMPORT_CANCELLED, RETRANSCRIPTION_CANCELLED) saves nothing.              *)
THEOREM CancelHonouredHolds ==
    JobsSpec => []CancelHonoured
<1>1. JobsInv => CancelHonoured
  BY DEF JobsInv, JobInv, BatchInv, JobsTypeOK, CancelHonoured
<1> QED BY <1>1, JobsInvHolds, PTL

(* A meeting that an import saved has its folder, and an import that        *)
(* reports its cancellation has left none (remove_dir_all in run_import),   *)
(* unless it could not be removed or is named by the same title and minute  *)
(* as another import's.                                                     *)
THEOREM FolderFollowsOutcomeHolds ==
    JobsSpec => []FolderFollowsOutcome
<1>1. FolderInv => FolderFollowsOutcome
  BY DEF FolderInv
<1> QED BY <1>1, JobsInvHolds, PTL

(* When no load and no unload is between its two writes, a loaded model has *)
(* a name, in whatever order the two locks of load_model and unload_model   *)
(* were taken; and the name is its own unless another load or an unload     *)
(* wrote the model between the two writes of a load.                        *)
THEOREM EngineAgreesHolds ==
    JobsSpec => []EngineAgrees
<1>1. JobsInv /\ WritingInv => EngineAgrees
  BY DEF JobsInv, Named, WritingInv, EngineAgrees, AtRest, Moving, At
<1> QED BY <1>1, JobsInvHolds, PTL

(* A recording that found its model keeps it: unload_engine_after_batch     *)
(* leaves the engine alone while a recording is in progress.                *)
THEOREM RecordingKeepsModelHolds ==
    JobsSpec => []RecordingKeepsModel
<1>1. JobsInv => RecordingKeepsModel
  BY DEF JobsInv, JobInv, ModelInv, RecordingKeepsModel, Live, Kind, Hearing
<1> QED BY <1>1, JobsInvHolds, PTL

(* Between two retranscriptions transcripts.json holds what the database    *)
(* holds, unless it could not be written.                                   *)
THEOREM FilesFollowDatabaseHolds ==
    JobsSpec => []FilesFollowDatabase
<1>1. ASSUME JobsInv PROVE FilesFollowDatabase
  <2>1. Written /\ \A j \in Jobs : JobPlaceInv(j)
    BY <1>1 DEF JobsInv, JobInv
  <2>2. ASSUME NEW j \in Jobs, At(j, "files"), Kind(j) = "retranscription"
        PROVE  inProgress["retranscription"]
    BY <2>1, <2>2 DEF JobPlaceInv, InHand, At, Batches
  <2> QED BY <2>1, <2>2 DEF Written, FilesFollowDatabase
<1> QED BY <1>1, JobsInvHolds, PTL
=============================================================================
