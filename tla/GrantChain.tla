------------------------------ MODULE GrantChain ------------------------------
(***************************************************************************)
(* What authorizations promise, whatever the tables look like: the code of *)
(* one is offered once, is turned into a refresh token, that token is held *)
(* by one party, is turned into its successor, and so on, until the grant  *)
(* ends.  There is never a second holder, and a grant that has ended never *)
(* comes back.  Several may move at once: a client is disconnected from    *)
(* all of them, and they expire by the day.                                *)
(***************************************************************************)
CONSTANT Families
VARIABLE grant      \* the stage of each grant

Offered(f) == grant[f] = "none" /\ grant'[f] = "offered"

Turned(f) == grant[f] \in {"offered", "held"} /\ grant'[f] = "turning"

Held(f) == grant[f] = "turning" /\ grant'[f] = "held"

Ended(f) == grant[f] \in {"offered", "held", "turning"} /\ grant'[f] = "ended"

GrantInit == grant = [f \in Families |-> "none"]

GrantNext == \A f \in Families : \/ grant'[f] = grant[f]
                                 \/ Offered(f) \/ Turned(f) \/ Held(f) \/ Ended(f)

GrantSpec == GrantInit /\ [][GrantNext]_grant
===============================================================================
