----------------------------- MODULE TextChunks -----------------------------
(* chunk_text (summary/processor.rs): a transcript too long for one call is *)
(* cut into overlapping chunks, each shortened to its last sentence end or, *)
(* without one, to its last space.  A chunk is a pair of character          *)
(* positions; marks tells which characters are a space and which of these   *)
(* follow a full stop.                                                      *)
EXTENDS Integers, Sequences, FiniteSets

LOCAL Least(a, b) == IF a < b THEN a ELSE b
LOCAL Last(S) == CHOOSE i \in S : \A k \in S : k <= i

(* The end of the chunk that covers from..to of a text of n characters.     *)
ChunkEnd(marks, n, from, to) ==
    LET sentences == {i \in (from + 2)..to : marks[i] = "sentence"}
        spaces == {i \in (from + 1)..to : marks[i] # "none"}
    IN IF to = n THEN to
       ELSE IF sentences # {} THEN Last(sentences)
       ELSE IF spaces # {} THEN Last(spaces)
       ELSE to

Step(size, overlap) == IF size - overlap < 1 THEN 1 ELSE size - overlap

ChunkText(marks, n, size, overlap) ==
    LET chunks[from \in 0..n] ==
            LET to == Least(from + size, n)
                chunk == [from |-> from, to |-> ChunkEnd(marks, n, from, to)]
            IN IF to = n THEN <<chunk>>
               ELSE <<chunk>> \o chunks[from + Step(size, overlap)]
    IN IF n = 0 \/ size = 0 THEN <<>> ELSE chunks[0]

-----------------------------------------------------------------------------
(* The chunks go forward and the last one ends with the text; where every   *)
(* chunk is shortened by no more than the overlap, no character is left     *)
(* out.  A sentence that is longer than the overlap may be: the next chunk  *)
(* starts a fixed step further, wherever this one was cut.                  *)
Covered(cs) == UNION {(cs[i].from + 1)..cs[i].to : i \in 1..Len(cs)}
SoundChunks(marks, n, size, overlap) ==
    LET cs == ChunkText(marks, n, size, overlap) IN
    /\ cs[Len(cs)].to = n
    /\ \A i \in 1..Len(cs) : cs[i].from < cs[i].to /\ cs[i].to <= cs[i].from + size
    /\ (\A i \in 1..Len(cs) : Least(cs[i].from + size, n) - cs[i].to <= overlap)
          /\ overlap < size => Covered(cs) = 1..n

(* chunk_text: every text of up to seven characters.                        *)
ASSUME ChunksAreSound ==
    \A n \in 1..7 : \A size \in 1..4 : \A overlap \in 0..2 :
    \A marks \in [1..n -> {"none", "space", "sentence"}] : SoundChunks(marks, n, size, overlap)
=============================================================================
