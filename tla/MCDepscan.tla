------------------------------ MODULE MCDepscan ------------------------------
(* Small instances of Depscan.  The admin owns the repository app, another *)
(* user (registered, or just logged in) owns lib.  An exception of DEPSCAN *)
(* covers exactly one finding (matching.dependency_key), so ExcOf is the   *)
(* identity.                                                               *)
EXTENDS Depscan, TLC

CONSTANTS k1, k2, k3, app, lib, d1, d2, u1, a1, e1

MCRepoOf == [k \in Keys |-> IF k = k3 THEN lib ELSE app]
MCExcOf == [k \in Keys |-> k]

UserOf(repo) == [j \in Scans |-> IF j \in Dailies THEN {app} ELSE {repo}]
OtherUser == UserOf(lib)
AdminAsUser == UserOf(app)

(* The findings of app are interchangeable, and so are the daily crawls.   *)
MCSymmetry == Permutations({k1, k2}) \union Permutations({d1, d2})
=============================================================================
