---------------------------- MODULE MCPushDiary ----------------------------
(***************************************************************************)
(* Model-checking instance of PushDiary: four candidate resources whose    *)
(* hashes collide for r3 and r4, diary sizes that give no diary, the       *)
(* smallest diary (1 -> 2, so the third distinct push evicts) and a        *)
(* rounded-up one (3 -> 4).                                                *)
(***************************************************************************)
EXTENDS PushDiary, TLC

CONSTANTS r1, r2, r3, r4

MCResources == {r1, r2, r3, r4}
MCDCalc == (r1 :> 0) @@ (r2 :> 1) @@ (r3 :> 2) @@ (r4 :> 2)
\* No diary, the smallest diary, a non-power of two, and sizes where the
\* last shift of ceil_power_of_2 matters and where it just stays in range.
MCDiarySizes == {0, 1, 3, 2^20 + 1, 2^30}

\* Configured sizes above 2^30, where the result no longer fits.
MCWideDiarySizes == {2^30 + 1, INT32_MAX}
MCMaxCand == 3
=============================================================================
