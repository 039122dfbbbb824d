----------------------------- MODULE DiaryDigest -----------------------------
(***************************************************************************)
(* The cache-digest export of the push diary (h2_push_diary_digest_get and *)
(* the Golomb-set encoder gset_encode_next / gset_encode_bit in h2_push.c) *)
(* composed with the diary of PushDiary.  The export is a synchronous call *)
(* on the session's thread, so the diary is only updated while no export   *)
(* is running (dpc = "idle"); the encoder's loops are steps of the call:   *)
(* one step per hash looked at and one per bit written.                    *)
(*                                                                         *)
(* Hashes are MaskBits wide (64 in the code); the bit buffer starts with   *)
(* DataLen0 bytes (512 in the code) and doubles when full.                 *)
(***************************************************************************)
EXTENDS PushDiary

CONSTANTS
    MaskBits,      \* diary->mask_bits, the width of a stored hash
    DataLen0,      \* encoder.datalen at the start of an export
    MaxPs,         \* values of the maxP argument
    Authorities,   \* values of the authority argument
    NoAuthority,   \* a NULL authority
    Garbage,       \* values a hash slot overlaid by another allocation may read as
    AllocMayFail   \* whether apr_pcalloc may return NULL when the buffer grows

ASSUME MaskBits \in Nat \ {0} /\ DataLen0 \in Nat /\ DataLen0 >= 2
ASSUME AllocMayFail \in BOOLEAN /\ Garbage \subseteq 0..(2^MaskBits - 1)

VARIABLES
    dpc,           \* where the export call is: idle, next, bits, done
    data,          \* encoder.data: byte index -> 0..255
    datalen,       \* encoder.datalen
    offset,        \* encoder.offset: the byte being filled
    bit,           \* encoder.bit: the bit of that byte last written
    last,          \* encoder.last: the previous encoded value
    fixedBits,     \* encoder.fixed_bits (= log2p)
    hashes,        \* the hashes array, sorted
    i,             \* the loop index over hashes (1-based)
    pending,       \* the bits gset_encode_next still has to write
    plen,          \* *plen when the call returned
    status,        \* the status the call returned
    allocFailed,   \* history: a buffer growth failed during this call
    exportAuth,    \* history: the authority argument of the last export
    encodedVals    \* history: the values gset_encode_next was called with

digestVars == <<dpc, data, datalen, offset, bit, last, fixedBits, hashes, i,
                pending, plen, status, allocFailed>>
histVars == <<exportAuth, encodedVals>>
vars == <<diaryVars, digestVars, histVars>>

HashRange == 0..(2^MaskBits - 1)

\* diary->authority: diary_create allocates the diary zeroed and never sets it.
diary_authority == NoAuthority

(***************************************************************************)
(* h2_log2 (h2_util.c): the position of the highest set bit, 0 for 0.     *)
(***************************************************************************)
h2_log2(n) == IF n = 0 THEN 0 ELSE CHOOSE k \in 0..n : 2^k <= n /\ n < 2^(k+1)

(***************************************************************************)
(* Mutants of the encoder, used to confirm the properties can detect them. *)
(***************************************************************************)
\* Growing the buffer without copying the bytes written so far.
GrowNoCopy(d, dl, nlen) == [k \in 0..(nlen - 1) |-> 0]

\* The fixed bits written as (delta >> i), without the "& 1".
GolombBitsNoMask(delta, fb) ==
    [k \in 1..(delta \div 2^fb) |-> 1] \o <<0>>
        \o [k \in 1..fb |-> delta \div 2^(fb - k)]

(***************************************************************************)
(* The bytes of the grown buffer: apr_pcalloc(nlen) then memcpy of the old *)
(* datalen bytes.                                                          *)
(***************************************************************************)
GrowBuffer(d, dl, nlen) == [k \in 0..(nlen - 1) |-> IF k < dl THEN d[k] ELSE 0]

\* data[offset] &= ~cbit_mask[bit]: clear bit b, counted from the MSB.
ClearBit(byte, b) ==
    IF (byte \div 2^(7 - b)) % 2 = 1 THEN byte - 2^(7 - b) ELSE byte

(***************************************************************************)
(* gset_encode_next: the bits of one value, delta = pval - last (unsigned, *)
(* MaskBits wide): delta >> fixed_bits ones, a zero, then the fixed_bits  *)
(* low bits of delta, most significant first.                              *)
(***************************************************************************)
GolombBits(delta, fb) ==
    [k \in 1..(delta \div 2^fb) |-> 1] \o <<0>>
        \o [k \in 1..fb |-> (delta \div 2^(fb - k)) % 2]

(***************************************************************************)
(* The hashes array holds hash_count uint64 values but was allocated with  *)
(* apr_pcalloc(pool, hash_count) bytes, 8-aligned: only the first           *)
(* ceil(hash_count / 8) values lie inside the allocation.                   *)
(***************************************************************************)
HashSlots(hc) == (hc + 7) \div 8

(***************************************************************************)
(* The values hashes can hold after the grown bit buffer was allocated from *)
(* the same pool: the ones past the allocation may lie under the new       *)
(* buffer and read as anything, or the buffer came from a new pool block.  *)
(***************************************************************************)
HashesAfterGrowth(hs) ==
    LET hc == Len(hs)
        slots == HashSlots(hc)
    IN  {hs} \cup
        { [k \in 1..hc |-> IF k <= slots THEN hs[k] ELSE g[k]] :
            g \in [(slots + 1)..hc -> Garbage] }

(***************************************************************************)
(* h2_push_diary_digest_get up to its loop: sizes, header, and, when the   *)
(* authority matches, the hashes shifted right by delta_bits and sorted.   *)
(***************************************************************************)
DigestGet(maxP, authority) ==
    LET nelts    == Len(entries)
        log2n    == h2_log2(ceil_power_of_2(nelts))
        log2pmax == h2_log2(ceil_power_of_2(maxP))
        log2p    == IF MaskBits - log2n < log2pmax THEN MaskBits - log2n ELSE log2pmax
        deltaB   == MaskBits - (log2n + log2p)
        matches  == \/ authority = NoAuthority
                    \/ diary_authority = NoAuthority
                    \/ authority = "*"
                    \/ diary_authority = authority
    IN  /\ dpc = "idle"
        /\ diaryOn
        /\ exportAuth' = authority
        /\ encodedVals' = <<>>
        /\ data' = [k \in 0..(DataLen0 - 1) |->
                      IF k = 0 THEN log2n ELSE IF k = 1 THEN log2p ELSE 0]
        /\ datalen' = DataLen0
        /\ offset' = 1
        /\ bit' = 8
        /\ last' = 0
        /\ fixedBits' = log2p
        /\ pending' = <<>>
        /\ allocFailed' = FALSE
        /\ i' = 1
        /\ IF matches
           THEN /\ hashes' = SortSeq([k \in 1..nelts |-> entries[k] \div 2^deltaB], <)
                /\ dpc' = "next"
                /\ UNCHANGED <<plen, status>>
           ELSE /\ hashes' = <<>>
                /\ dpc' = "done"
                /\ plen' = 2
                /\ status' = "SUCCESS"

\* The loop body for a value equal to its predecessor: nothing is encoded.
\* The loop of h2_push_diary_digest_get skipping a duplicate without ++i.
SkipDuplicateStays ==
    /\ dpc = "next"
    /\ i <= Len(hashes) /\ i > 1 /\ hashes[i] = hashes[i - 1]
    /\ UNCHANGED <<dpc, data, datalen, offset, bit, last, fixedBits, hashes,
                   i, pending, plen, status, allocFailed>>

SkipDuplicate ==
    /\ dpc = "next"
    /\ i <= Len(hashes) /\ i > 1 /\ hashes[i] = hashes[i - 1]
    /\ i' = i + 1
    /\ UNCHANGED <<dpc, data, datalen, offset, bit, last, fixedBits, hashes,
                   pending, plen, status, allocFailed>>

\* gset_encode_next that forgets "encoder->last = pval".
EncodeNextKeepsLast ==
    /\ dpc = "next"
    /\ i <= Len(hashes)
    /\ IF i = 1 THEN TRUE ELSE hashes[i] # hashes[i - 1]
    /\ pending' = GolombBits((hashes[i] - last) % 2^MaskBits, fixedBits)
    /\ encodedVals' = Append(encodedVals, hashes[i])
    /\ dpc' = "bits"
    /\ UNCHANGED <<data, datalen, offset, bit, last, fixedBits, hashes, i, plen,
                   status, allocFailed>>

\* gset_encode_next(&encoder, hashes[i]) up to its first bit.
EncodeNext ==
    /\ dpc = "next"
    /\ i <= Len(hashes)
    /\ IF i = 1 THEN TRUE ELSE hashes[i] # hashes[i - 1]
    /\ LET delta == (hashes[i] - last) % 2^MaskBits
       IN  /\ last' = hashes[i]
           /\ pending' = GolombBits(delta, fixedBits)
    /\ encodedVals' = Append(encodedVals, hashes[i])
    /\ dpc' = "bits"
    /\ UNCHANGED <<data, datalen, offset, bit, fixedBits, hashes, i, plen,
                   status, allocFailed>>

\* After a bit was written: the next one, or back to the loop over hashes.
BitDone ==
    /\ pending' = Tail(pending)
    /\ IF Tail(pending) = <<>> THEN dpc' = "next" /\ i' = i + 1
                               ELSE UNCHANGED <<dpc, i>>

\* gset_encode_bit within the current byte.
BitInByte ==
    /\ dpc = "bits" /\ bit + 1 < 8
    /\ bit' = bit + 1
    /\ data' = IF Head(pending) = 0
               THEN [data EXCEPT ![offset] = ClearBit(@, bit + 1)] ELSE data
    /\ BitDone
    /\ UNCHANGED <<datalen, offset, last, fixedBits, hashes, plen, status, allocFailed>>

\* gset_encode_bit starting a new byte, set to 0xff, that still fits.
BitNewByte ==
    /\ dpc = "bits" /\ bit + 1 >= 8 /\ offset + 1 < datalen
    /\ offset' = offset + 1
    /\ bit' = 0
    /\ data' = [data EXCEPT ![offset + 1] = IF Head(pending) = 0
                                            THEN ClearBit(255, 0) ELSE 255]
    /\ BitDone
    /\ UNCHANGED <<datalen, last, fixedBits, hashes, plen, status, allocFailed>>

\* gset_encode_bit growing the buffer to twice its length, then the new byte.
BitGrow ==
    /\ dpc = "bits" /\ bit + 1 >= 8 /\ offset + 1 >= datalen
    /\ LET nd == GrowBuffer(data, datalen, 2 * datalen)
       IN  data' = [nd EXCEPT ![offset + 1] = IF Head(pending) = 0
                                              THEN ClearBit(255, 0) ELSE 255]
    /\ datalen' = 2 * datalen
    /\ offset' = offset + 1
    /\ bit' = 0
    /\ hashes' \in HashesAfterGrowth(hashes)
    /\ BitDone
    /\ UNCHANGED <<last, fixedBits, plen, status, allocFailed>>

(***************************************************************************)
(* gset_encode_bit when apr_pcalloc returns NULL: offset and bit stay      *)
(* advanced, APR_ENOMEM ends gset_encode_next, and digest_get ignores it   *)
(* and goes on with the next hash.                                         *)
(***************************************************************************)
BitGrowFails ==
    /\ AllocMayFail
    /\ dpc = "bits" /\ bit + 1 >= 8 /\ offset + 1 >= datalen
    /\ offset' = offset + 1
    /\ bit' = bit + 1
    /\ allocFailed' = TRUE
    /\ pending' = <<>>
    /\ dpc' = "next"
    /\ i' = i + 1
    /\ UNCHANGED <<data, datalen, last, fixedBits, hashes, plen, status>>

\* The end of the loop: *plen = offset + 1, return APR_SUCCESS.
DigestReturn ==
    /\ dpc = "next" /\ i > Len(hashes)
    /\ dpc' = "done"
    /\ plen' = offset + 1
    /\ status' = "SUCCESS"
    /\ UNCHANGED <<data, datalen, offset, bit, last, fixedBits, hashes, i,
                   pending, allocFailed>>

\* The caller takes the digest; the session goes on.
CallerResumes ==
    /\ dpc = "done"
    /\ dpc' = "idle"
    /\ UNCHANGED <<data, datalen, offset, bit, last, fixedBits, hashes, i,
                   pending, plen, status, allocFailed>>

DigestInit ==
    /\ Init
    /\ dpc = "idle"
    /\ data = [k \in 0..1 |-> 0]
    /\ datalen = 0 /\ offset = 0 /\ bit = 0 /\ last = 0 /\ fixedBits = 0
    /\ hashes = <<>> /\ i = 1 /\ pending = <<>>
    /\ plen = 0 /\ status = "SUCCESS" /\ allocFailed = FALSE
    /\ exportAuth = NoAuthority
    /\ encodedVals = <<>>

\* The steps of one h2_push_diary_digest_get call after its set-up, up to
\* the return; the diary does not change while the call runs.
ExportStep ==
    \/ EncodeNext /\ UNCHANGED <<diaryVars, exportAuth>>
    \/ (\/ SkipDuplicate \/ BitInByte \/ BitNewByte \/ BitGrow \/ BitGrowFails
        \/ DigestReturn) /\ UNCHANGED <<diaryVars, histVars>>

DigestNext ==
    \/ dpc = "idle" /\ Update /\ UNCHANGED <<digestVars, histVars>>
    \/ \E maxP \in MaxPs, a \in Authorities :
           DigestGet(maxP, a) /\ UNCHANGED diaryVars
    \/ ExportStep
    \/ CallerResumes /\ UNCHANGED <<diaryVars, histVars>>

DigestSpec == DigestInit /\ [][DigestNext]_vars

\* The call is synchronous: the session thread runs its loops to the end
\* before doing anything else, so the export's steps are weakly fair.  The
\* session's next diary update and the caller's next export are not.
FairDigestSpec == DigestSpec /\ WF_vars(ExportStep)

-----------------------------------------------------------------------------
(***************************************************************************)
(* A reference decoder for the digest, as a peer reads it: header byte 0   *)
(* is log2n, byte 1 is log2p, then Golomb-Rice coded gaps, each a unary    *)
(* quotient ended by a 0 and log2p remainder bits, added up in unsigned    *)
(* MaskBits-wide arithmetic; trailing 1 padding of the last byte never     *)
(* completes a code.                                                       *)
(***************************************************************************)
FromBits(bs) == FoldLeft(LAMBDA acc, b : 2 * acc + b, 0, bs)

\* The bits of the *plen returned bytes after the 2-byte header.
StreamBits ==
    FlattenSeq([k \in 1..(plen - 2) |->
                  [b \in 1..8 |-> (data[k + 1] \div 2^(8 - b)) % 2]])

RECURSIVE DecodeGolomb(_, _, _)
DecodeGolomb(bits, fb, prev) ==
    LET z == SelectInSeq(bits, LAMBDA b : b = 0)
    IN  IF z = 0 \/ Len(bits) < z + fb THEN <<>>
        ELSE LET v == (prev + (z - 1) * 2^fb + FromBits(SubSeq(bits, z + 1, z + fb)))
                          % 2^MaskBits
             IN  <<v>> \o DecodeGolomb(SubSeq(bits, z + fb + 1, Len(bits)), fb, v)

Decoded == DecodeGolomb(StreamBits, data[1], 0)

\* The diary's hashes as the peer compares them: the top log2n+log2p bits.
Expected == { entries[k] \div 2^(MaskBits - data[0] - data[1]) : k \in 1..Len(entries) }

DigestTypeOK ==
    /\ dpc \in {"idle", "next", "bits", "done"}
    /\ datalen \in Nat /\ offset \in Nat /\ bit \in Nat
    /\ data \in [0..(IF datalen > 1 THEN datalen - 1 ELSE 1) -> 0..255]
    /\ hashes \in Seq(HashRange) /\ pending \in Seq({0, 1})
    /\ status \in {"SUCCESS"} /\ allocFailed \in BOOLEAN
    /\ exportAuth \in Authorities

(***************************************************************************)
(* Round trip: when an export has returned without a failed allocation,    *)
(* decoding the returned bytes with the header they carry yields exactly   *)
(* the diary's truncated hashes, ascending and without duplicates: qsort,  *)
(* the duplicate skip, the running delta, the unary/fixed split and the    *)
(* MSB-first bit packing across bytes and buffer growth all agree.         *)
(***************************************************************************)
RoundTrip ==
    (dpc = "done" /\ ~allocFailed) => Decoded = SetToSortSeq(Expected, <)

(***************************************************************************)
(* Growing the bit buffer keeps what was encoded: after an export in which *)
(* every growth succeeded, the returned bytes decode to exactly the values *)
(* gset_encode_next was called with, in order, whatever the overlaid       *)
(* hashes slots held and however often the buffer doubled: the memcpy of   *)
(* the old bytes, the 0xff start of each new byte, the bit and offset      *)
(* bookkeeping across buffers, and unsigned deltas that wrap when an       *)
(* overlaid value is below its predecessor.                                *)
(***************************************************************************)
StreamSurvivesGrowth ==
    (dpc = "done" /\ ~allocFailed) => Decoded = encodedVals

(***************************************************************************)
(* Every byte gset_encode_bit writes lies inside the bit buffer: whenever  *)
(* a bit has been written (bit < 8), data[offset] is within datalen, also  *)
(* after growths that failed and left offset advanced.                     *)
(***************************************************************************)
WritesInsideBuffer ==
    (dpc # "idle" /\ bit < 8) => offset < datalen

(***************************************************************************)
(* Every export that h2_push_diary_digest_get starts returns: the loop     *)
(* over the sorted hashes, the skipping of duplicates, and the bit loop of *)
(* each gset_encode_next, with every growth of the buffer, come to an end. *)
(***************************************************************************)
ExportReturns == dpc \in {"next", "bits"} ~> dpc = "done"

(***************************************************************************)
(* Authority scope (design 4.4 steps 4 and 5, and the diary's "scoped to   *)
(* at most one authority"): an export requested for a named authority     *)
(* other than the one the diary is bound to carries no hashes, only the    *)
(* 2-byte header.  The check of h2_push_diary_digest_get on its authority  *)
(* argument against diary->authority decides it.                          *)
(***************************************************************************)
ExportScoped ==
    (dpc = "done" /\ exportAuth \notin {NoAuthority, "*"}
                 /\ exportAuth # diary_authority)
        => plen = 2
=============================================================================
