------------------------- MODULE PushDiaryContract -------------------------
(***************************************************************************)
(* What the push diary promises (h2_push.h, and the diary contract in the  *)
(* design): per session, a least-recently-used window of at most cap       *)
(* hashes, cap a power of two >= 2, or no diary at all (cap = 0).  Each    *)
(* call consumes a list of candidates in order and returns the ones whose  *)
(* hash was not in the window when that candidate was looked at.           *)
(***************************************************************************)
EXTENDS Naturals, Sequences, SequencesExt

CONSTANTS Resources, DCalc, MaxCand

VARIABLES window, cap, cands, result

\* A diary capacity: no diary, or a power of two of at least 2.
IsCapacity(c) == c = 0 \/ \E k \in 1..30 : 2^k = c

\* Using hash h: it becomes the most recent; the least recent beyond cap go.
Touch(w, h) ==
    LET w2 == Append(SelectSeq(w, LAMBDA x : x # h), h)
    IN  IF Len(w2) > cap THEN SubSeq(w2, Len(w2) - cap + 1, Len(w2)) ELSE w2

\* st = <<window, accepted>>; a candidate is accepted iff it missed.
Consider(st, r) ==
    << Touch(st[1], DCalc[r]),
       IF \E i \in 1..Len(st[1]) : st[1][i] = DCalc[r]
       THEN st[2] ELSE Append(st[2], r) >>

Init ==
    /\ cap \in Nat /\ IsCapacity(cap)
    /\ window = <<>>
    /\ cands = <<>>
    /\ result = <<>>

Filter(cs) ==
    IF cap = 0
    THEN result' = cs /\ UNCHANGED window
    ELSE LET st == FoldLeft(Consider, << window, <<>> >>, cs)
         IN  window' = st[1] /\ result' = st[2]

Next ==
    \E cs \in BoundedSeq(Resources, MaxCand) :
        /\ cands' = cs
        /\ Filter(cs)
        /\ UNCHANGED cap

Spec == Init /\ [][Next]_<<window, cap, cands, result>>
=============================================================================
