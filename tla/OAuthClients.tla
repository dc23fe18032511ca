----------------------------- MODULE OAuthClients -----------------------------
(***************************************************************************)
(* Dynamic registration of OAuth clients (oauth/clients.py): anybody may   *)
(* register, within a limit an hour and a limit in all; a client that is   *)
(* never used is removed after a while.                                    *)
(***************************************************************************)
EXTENDS Integers, FiniteSets

CONSTANTS Clients,
          MaxPerHour,       \* MAX_REGISTRATIONS_PER_HOUR
          MaxClients,       \* MAX_CLIENTS
          UnusedRetention,  \* UNUSED_RETENTION, in hours
          LastHour          \* bound: the clock stops here

ASSUME ClientsAssumption == /\ MaxPerHour \in Nat /\ MaxClients \in Nat
                            /\ UnusedRetention \in Nat \ {0} /\ LastHour \in Nat

VARIABLES hour,
          client,      \* each client: unknown, counted, registered, used, removed
          created,     \* created_at
          side_by_side \* ghost: two requests counted before either was inserted

clientVars == <<hour, client, created, side_by_side>>

OAuthClientsTypeOK ==
    /\ hour \in 0..LastHour
    /\ client \in [Clients -> {"unknown", "counted", "registered", "used", "removed"}]
    /\ created \in [Clients -> Nat]
    /\ side_by_side \in BOOLEAN

OAuthClientsInit ==
    /\ hour = 0
    /\ client = [c \in Clients |-> "unknown"]
    /\ created = [c \in Clients |-> 0]
    /\ side_by_side = FALSE

Kept == {c \in Clients : client[c] \in {"registered", "used"}}

(* the clients of purge_unused_clients                                     *)
stale_client(c) == client[c] = "registered" /\ created[c] < hour - UnusedRetention

Recent(set) == {c \in set : created[c] > hour - 1}

within_limits(kept) == /\ Cardinality(Recent(kept)) < MaxPerHour
                       /\ Cardinality(kept) < MaxClients

(* save_client: what is unused and old goes (and is committed), then the   *)
(* rest is counted ...                                                     *)
CountClients(c) ==
    /\ client[c] = "unknown"
    /\ LET kept == {d \in Kept : ~stale_client(d)} IN
       client' = [d \in Clients |-> IF stale_client(d) THEN "removed"
                                    ELSE IF d = c /\ within_limits(kept) THEN "counted"
                                    ELSE client[d]]
    /\ side_by_side' = (side_by_side \/ \E d \in Clients : client[d] = "counted")
    /\ UNCHANGED <<hour, created>>

(* ... and the client inserted.                                            *)
save_client(c) ==
    /\ client[c] = "counted"
    /\ client' = [client EXCEPT ![c] = "registered"]
    /\ created' = [created EXCEPT ![c] = hour]
    /\ UNCHANGED <<hour, side_by_side>>

(* touch_client, when it asks for an authorization                         *)
touch_client(c) ==
    /\ client[c] = "registered"
    /\ client' = [client EXCEPT ![c] = "used"]
    /\ UNCHANGED <<hour, created, side_by_side>>

(* purge_unused_clients, from the daily run_oauth_cleanup                  *)
purge_unused_clients ==
    /\ client' = [c \in Clients |-> IF stale_client(c) THEN "removed" ELSE client[c]]
    /\ UNCHANGED <<hour, created, side_by_side>>

Hour ==
    /\ hour < LastHour
    /\ \A c \in Clients : client[c] # "counted"
    /\ hour' = hour + 1
    /\ UNCHANGED <<client, created, side_by_side>>

ClientsHorizon == hour = LastHour /\ UNCHANGED clientVars

OAuthClientsNext ==
    \/ \E c \in Clients : CountClients(c) \/ save_client(c) \/ touch_client(c)
    \/ purge_unused_clients \/ Hour \/ ClientsHorizon

-----------------------------------------------------------------------------
(* The limits hold, unless requests counted side by side (save_client      *)
(* counts, then inserts): no more clients than MaxClients, and no more     *)
(* registered within an hour than MaxPerHour.                              *)
RegistrationsLimited ==
    side_by_side \/ /\ Cardinality(Kept) <= MaxClients
                    /\ Cardinality(Recent(Kept)) <= MaxPerHour
=============================================================================
