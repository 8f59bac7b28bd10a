---------------------------- MODULE SpeechPieces ----------------------------
(* split_segment_at_silence (audio/common.rs): a long speech segment is cut *)
(* at the quietest place near every multiple of the largest size, so that   *)
(* no piece is too long for the engine.  Positions count samples; the sizes *)
(* of the code are the fields of a record, so that the same definition is   *)
(* evaluated on small ones:                                                 *)
(*   max     largest piece aimed at      radius  search around the target   *)
(*   window  energy window               step    distance of two windows    *)
(*   second  least piece, and what is added where no silence is found       *)
(*   quiet   energy of a window that still counts as silence                *)
EXTENDS Integers, Sequences, FiniteSets

LOCAL Least(a, b) == IF a < b THEN a ELSE b
LOCAL Greatest(a, b) == IF a < b THEN b ELSE a
LOCAL Minus(a, b) == Greatest(a - b, 0)        \* saturating_sub

(* The windows looked at for a cut of the piece that starts at pos.         *)
Windows(n, p, pos) ==
    LET target == pos + p.max
        first == Greatest(Minus(target, p.radius), pos + p.second)
        last == Least(target + p.radius, Minus(n, p.window))
    IN {i \in first..(last - p.window) : (i - first) % p.step = 0}

Energy(loud, i, window) ==
    LET sum[k \in 0..window] == IF k = 0 THEN 0 ELSE sum[k - 1] + loud[i + k - 1]
    IN sum[window]

(* Where the piece that starts at pos ends: in the middle of the quietest   *)
(* window, the first of them; a second later when even that one is loud, a  *)
(* second after the target when there is none.                              *)
PieceEnd(loud, n, p, pos) ==
    LET ws == Windows(n, p, pos)
        energy(i) == Energy(loud, i, p.window)
        best == CHOOSE i \in ws : \A k \in ws :
                    energy(i) < energy(k) \/ (energy(i) = energy(k) /\ i <= k)
    IN IF ws = {} THEN Least(Least(pos + p.max, n) + p.second, n)
       ELSE IF energy(best) > p.quiet THEN Least(best + p.window \div 2 + p.second, n)
       ELSE best + p.window \div 2

Pieces(loud, n, p) ==
    LET rest[pos \in 0..n] ==
            IF pos = n THEN <<>>
            ELSE IF n - pos <= p.max THEN <<[from |-> pos, to |-> n]>>
            ELSE LET end == PieceEnd(loud, n, p, pos)
                 IN <<[from |-> pos, to |-> end]>> \o rest[end]
    IN rest[0]

-----------------------------------------------------------------------------
(* Whatever the energies, the pieces follow each other without a gap or an  *)
(* overlap, none is empty, and none is longer than the search allows: the   *)
(* 25 seconds of the code, 3 of the radius and 1 more are within the 30     *)
(* seconds that Whisper hears.                                              *)
Sound(loud, n, p) ==
    LET ps == Pieces(loud, n, p) IN
    /\ ps[1].from = 0 /\ ps[Len(ps)].to = n
    /\ \A i \in 1..Len(ps) :
          /\ ps[i].from < ps[i].to
          /\ i < Len(ps) => ps[i].to = ps[i + 1].from
          /\ ps[i].to - ps[i].from <= p.max + p.radius + p.second

SmallSizes ==
    {[max |-> 3, radius |-> 1, window |-> 2, step |-> 1, second |-> 1, quiet |-> 1],
     [max |-> 4, radius |-> 3, window |-> 1, step |-> 2, second |-> 1, quiet |-> 0],
     [max |-> 5, radius |-> 2, window |-> 2, step |-> 1, second |-> 2, quiet |-> 0]}

(* split_segment_at_silence: every segment of up to ten samples.            *)
ASSUME PiecesAreSound ==
    \A p \in SmallSizes : \A n \in 1..10 : \A loud \in [0..(n - 1) -> {0, 1}] : Sound(loud, n, p)
=============================================================================
