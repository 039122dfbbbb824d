----------------------------- MODULE PushDiary -----------------------------
(***************************************************************************)
(* The per-session push diary of mod_http2 (h2_push.c): a bounded,        *)
(* recency-ordered sequence of 64-bit hashes of the pushes already sent    *)
(* on one HTTP/2 connection.  h2_push_diary_update filters the push        *)
(* candidates of one response against it and records the new ones.        *)
(*                                                                         *)
(* A push candidate (an h2_push whose request carries scheme, authority    *)
(* and path) is a model value of Resources; the configured digest function *)
(* (calc_sha256_hash or calc_apr_hash) is the constant function DCalc, so  *)
(* hash collisions between different resources are part of the model.     *)
(***************************************************************************)
EXTENDS Integers, Sequences, SequencesExt, Bitwise

CONSTANTS
    Resources,    \* push candidates, each standing for scheme://authority/path
    DCalc,        \* the diary's digest function: Resources -> hash values
    DiarySizes,   \* values of the configured diary size N (H2PushDiarySize)
    MaxCand       \* most push candidates one response yields

ASSUME DCalc \in [Resources -> Nat]
ASSUME DiarySizes \subseteq Nat /\ MaxCand \in Nat

VARIABLES
    diaryOn,      \* session->push_diary != NULL
    N,            \* diary->N, fixed at creation
    entries,      \* diary->entries, oldest first: a sequence of hashes
    pushes,       \* the array the last h2_push_diary_update was given
    npushes       \* the array it returned
                  \* (<<>> stands for NULL as well as for an empty array)

diaryVars == <<diaryOn, N, entries, pushes, npushes>>

\* The push-candidate arrays h2_push_collect can hand to the diary.
Candidates == BoundedSeq(Resources, MaxCand)

(***************************************************************************)
(* Mutants: plausible slips in the code below, used to confirm that the    *)
(* properties at the end of the module can detect them.                    *)
(***************************************************************************)
\* h2_push_diary_find with the loop condition i > 0: entry 0 never found.
FindSkipsOldest(es, h) ==
    LET hits == {i \in 2..Len(es) : es[i] = h}
    IN  IF hits = {} THEN 0 ELSE Max(hits)

RECURSIVE EvictWhileOverfull(_, _)
EvictWhileOverfull(es, n) ==
    IF Len(es) > n THEN EvictWhileOverfull(Tail(es), n) ELSE es

\* ++n on an apr_int32_t n >= 0: INT32_MAX wraps to INT32_MIN, the two's
\* complement result signed overflow produces in the builds httpd uses.
INT32_MAX == 2147483647
Int32Inc(x) == IF x = INT32_MAX THEN -INT32_MAX - 1 ELSE x + 1

\* ceil_power_of_2 without the last "n |= n >> 16".
CeilPow2NoShift16(n) ==
    IF n <= 2 THEN 2
    ELSE LET m0 == n - 1
             m1 == m0 | shiftR(m0, 1)
             m2 == m1 | shiftR(m1, 2)
             m3 == m2 | shiftR(m2, 4)
             m4 == m3 | shiftR(m3, 8)
         IN  Int32Inc(m4)

(***************************************************************************)
(* ceil_power_of_2(apr_int32_t n): 2 for n <= 2, else the highest set bit  *)
(* of n - 1 smeared to the right, plus one, in 32-bit signed arithmetic.  *)
(***************************************************************************)
ceil_power_of_2(n) ==
    IF n <= 2 THEN 2
    ELSE LET m0 == n - 1
             m1 == m0 | shiftR(m0, 1)
             m2 == m1 | shiftR(m1, 2)
             m3 == m2 | shiftR(m2, 4)
             m4 == m3 | shiftR(m3, 8)
             m5 == m4 | shiftR(m4, 16)
         IN  Int32Inc(m5)

\* diary->dcalc(diary, &e.hash, push)
Hash(r) == DCalc[r]

(***************************************************************************)
(* h2_push_diary_find: the index of the entry with this hash, searching    *)
(* from the end where the most recently used entries are; 0 if none (the  *)
(* code returns -1; indices here are 1-based).                             *)
(***************************************************************************)
h2_push_diary_find(es, h) ==
    LET hits == {i \in 1..Len(es) : es[i] = h}
    IN  IF hits = {} THEN 0 ELSE Max(hits)

\* move_to_last: memmove entries idx+1..last down by one, put entry idx last.
move_to_last(es, idx) ==
    IF Len(es) = 0 \/ idx >= Len(es) THEN es
    ELSE SubSeq(es, 1, idx - 1) \o SubSeq(es, idx + 1, Len(es)) \o <<es[idx]>>

\* remove_first: drops entry 0 only when there is more than one entry.
remove_first(es) == IF Len(es) - 1 > 0 THEN Tail(es) ELSE es

(***************************************************************************)
(* h2_push_diary_append: while nelts >= N, remove_first; then append.     *)
(***************************************************************************)
RECURSIVE EvictWhileFull(_, _)
EvictWhileFull(es, n) ==
    IF Len(es) >= n THEN EvictWhileFull(remove_first(es), n) ELSE es

h2_push_diary_append(es, n, h) == Append(EvictWhileFull(es, n), h)

\* h2_push_diary_update storing the entry (hash) in npushes, not the push.
UpdateOneStoresHash(st, push) ==
    LET es == st[1]  h == Hash(push)  idx == h2_push_diary_find(es, h)
    IN  IF idx > 0 THEN << move_to_last(es, idx), st[2] >>
        ELSE << h2_push_diary_append(es, N, h), Append(st[2], h) >>

\* h2_push_diary_update recording a miss in the diary without keeping its push.
UpdateOneDropsPush(st, push) ==
    LET es == st[1]  h == Hash(push)  idx == h2_push_diary_find(es, h)
    IN  IF idx > 0 THEN << move_to_last(es, idx), st[2] >>
        ELSE << h2_push_diary_append(es, N, h), st[2] >>

(***************************************************************************)
(* One iteration of the loop of h2_push_diary_update over the pushes:     *)
(* st = <<entries, npushes>>.  A hit moves the entry to the end and drops  *)
(* the push; a miss keeps the push and appends its hash.                  *)
(***************************************************************************)
UpdateOne(st, push) ==
    LET es  == st[1]
        h   == Hash(push)
        idx == h2_push_diary_find(es, h)
    IN  IF idx > 0
        THEN << move_to_last(es, idx), st[2] >>
        ELSE << h2_push_diary_append(es, N, h), Append(st[2], push) >>

(***************************************************************************)
(* Init: the session after h2_push_diary_create(p, N) (diary_create): no  *)
(* diary for N <= 0, else an empty diary of ceil_power_of_2(N) entries.   *)
(***************************************************************************)
Init ==
    \E n \in DiarySizes :
        /\ diaryOn = (n > 0)
        /\ N = IF n > 0 THEN ceil_power_of_2(n) ELSE 0
        /\ entries = <<>>
        /\ pushes = <<>>
        /\ npushes = <<>>

(***************************************************************************)
(* h2_push_diary_update(session, pushes): without a diary the pushes pass  *)
(* through unchanged; otherwise each push in order is looked up.           *)
(***************************************************************************)
h2_push_diary_update(ps) ==
    /\ pushes' = ps
    /\ IF diaryOn /\ ps # <<>>
       THEN LET st == FoldLeft(UpdateOne, << entries, <<>> >>, ps)
            IN  /\ entries' = st[1]
                /\ npushes' = st[2]
       ELSE /\ npushes' = ps
            /\ UNCHANGED entries

Update ==
    \E ps \in Candidates :
        /\ h2_push_diary_update(ps)
        /\ UNCHANGED <<diaryOn, N>>

Next == Update

Spec == Init /\ [][Next]_diaryVars

-----------------------------------------------------------------------------
(***************************************************************************)
(* Properties                                                              *)
(***************************************************************************)

TypeOK ==
    /\ diaryOn \in BOOLEAN
    /\ N \in Int
    /\ entries \in Seq(Nat)
    /\ pushes \in Seq(Resources)
    /\ npushes \in Seq(Resources)

(***************************************************************************)
(* diary_create sizes the diary with ceil_power_of_2 of the configured N:  *)
(* a power of two of at least 2, which h2_push_diary_append's "while       *)
(* (nelts >= N)" eviction and the digest's log2n rely on.                  *)
(***************************************************************************)
PowerOfTwoCapacity == diaryOn => \E k \in 1..30 : N = 2^k

(***************************************************************************)
(* The diary never holds more than N hashes: h2_push_diary_append evicts   *)
(* before it appends, whatever mix of hits and misses came before.         *)
(***************************************************************************)
DiaryBounded == Len(entries) <= N

(***************************************************************************)
(* The diary never records the same hash twice: a push is appended only    *)
(* when h2_push_diary_find has searched every entry and missed, and        *)
(* move_to_last only permutes entries.                                     *)
(***************************************************************************)
EntriesDistinct ==
    \A i, j \in 1..Len(entries) : i # j => entries[i] # entries[j]

(***************************************************************************)
(* Refinement: the index arithmetic of find / move_to_last / remove_first  *)
(* / append implements the LRU contract of the diary (PushDiaryContract):  *)
(* a hit moves a hash to the most recent end, a miss appends it and drops  *)
(* the least recently used one beyond capacity, and exactly the misses     *)
(* are returned, in input order.                                           *)
(***************************************************************************)
Contract == INSTANCE PushDiaryContract
              WITH window <- entries,
                   cap    <- IF diaryOn THEN N ELSE 0,
                   cands  <- pushes,
                   result <- npushes

=============================================================================
