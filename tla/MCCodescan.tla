----------------------------- MODULE MCCodescan -----------------------------
(* Small instances of Codescan.  The admin owns app and web, another user  *)
(* lib.  k1 and k2 are of one rule in one file of app, at two lines: one   *)
(* exception covers both (matching.code_key leaves the line out).  k3, in  *)
(* app as well, is found by another tool; k4 is in lib.                    *)
EXTENDS Codescan, TLC

CONSTANTS k1, k2, k3, k4, app, web, lib, d1, d2, u1, a1, e1, x12, x3, x4,
          semgrep, zizmor

MCRepoOf == [k \in Keys |-> IF k = k4 THEN lib ELSE app]
MCExcOf == [k \in Keys |-> CASE k = k3 -> x3 [] k = k4 -> x4 [] OTHER -> x12]
MCToolOf == [k \in Keys |-> IF k = k3 THEN zizmor ELSE semgrep]
MCScope == [j \in Scans |-> IF j \in Dailies THEN AdminRepos ELSE Repos \ AdminRepos]

MCSymmetry == Permutations(Dailies)
=============================================================================
