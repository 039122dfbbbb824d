--------------------------- MODULE MCDiaryDigest ---------------------------
(***************************************************************************)
(* Model-checking instance of DiaryDigest: 4-bit hashes, three distinct    *)
(* after truncation by two bits for r3/r4, diaries of 2 and 4 entries, two *)
(* maxP values (log2p 1 and 3) and the three kinds of authority argument.  *)
(***************************************************************************)
EXTENDS DiaryDigest

CONSTANTS r1, r2, r3, r4, a1, NULL

MCResources == {r1, r2, r3, r4}
MCDCalc == (r1 :> 3) @@ (r2 :> 9) @@ (r3 :> 12) @@ (r4 :> 13)
MCDiarySizes == {1, 3}
MCMaxCand == 2
MCMaxPs == {2, 8}
MCDiarySizesSmall == {1}

\* For the growth runs: 5-bit hashes, a diary of 4 (configured as 3) and
\* gaps large enough that four values take up to 19 stream bits with
\* log2p 3, so a 2-byte buffer doubles twice and the second copy carries
\* stream bytes.
MCGrowthDCalc == (r1 :> 2) @@ (r2 :> 11) @@ (r3 :> 20) @@ (r4 :> 31)
MCGrowthDiarySizes == {3}
MCGrowthMaxPs == {8}
MCGrowthAuthorities == {NULL}
MCAuthorities == {NULL, "*", a1}
=============================================================================
