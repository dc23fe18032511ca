----------------------------- MODULE RateLimiter -----------------------------
(***************************************************************************)
(* core/net/rate_limit.py: a sliding window of requests and a lockout      *)
(* after failed authentications, per client, in the memory of the process. *)
(* check and record_failure hold a lock; between them lies the request     *)
(* itself, so a failure may be recorded long after others of the same      *)
(* client have been.  The tables are bounded: the client that was entered  *)
(* first is forgotten.                                                     *)
(***************************************************************************)
EXTENDS Integers, Sequences, FiniteSets, SequencesExt

CONSTANTS Peers,            \* clients
          Window,           \* _WINDOW_SECONDS
          PerMinute,        \* per_minute
          FailureWindow,    \* failure_window_seconds
          LockoutFailures,  \* lockout_failures
          LockoutSeconds,   \* lockout_seconds
          MaxTracked,       \* _MAX_TRACKED_CLIENTS
          LastTime,         \* bound: the clock stops here
          MaxRequests       \* bound: requests let through

ASSUME RateAssumption ==
    /\ Window \in Nat \ {0} /\ PerMinute \in Nat /\ FailureWindow \in Nat \ {0}
    /\ LockoutFailures \in Nat \ {0} /\ LockoutSeconds \in Nat \ {0}
    /\ MaxTracked \in Nat \ {0} /\ LastTime \in Nat \ {0} /\ MaxRequests \in Nat

VARIABLES
    clock,
    requests,     \* _requests: the times of each client's requests, oldest first
    failures,     \* _failures, likewise
    requestOrder, failureOrder,   \* the order in which the tables were entered
    locked_until, \* _locked_until; 0: no entry
    inFlight,     \* requests let through and not answered yet
    let_through,  \* how many were let through in all
    admitted,     \* ghost: when each client was let through
    failed,       \* ghost: its failures since its last lockout
    lockedAt,     \* ghost: the last lockout
    forgotten     \* ghost: clients dropped from a table

rateVars == <<clock, requests, failures, requestOrder, failureOrder, locked_until, inFlight,
              let_through, admitted, failed, lockedAt, forgotten>>

RateLimiterTypeOK ==
    /\ clock \in 1..LastTime
    /\ requests \in [Peers -> Seq(1..LastTime)] /\ failures \in [Peers -> Seq(1..LastTime)]
    /\ requestOrder \in Seq(Peers) /\ failureOrder \in Seq(Peers)
    /\ locked_until \in [Peers -> Nat] /\ lockedAt \in [Peers -> Nat]
    /\ inFlight \in [Peers -> 0..MaxRequests] /\ let_through \in 0..MaxRequests
    /\ admitted \in [Peers -> Seq(1..LastTime)] /\ failed \in [Peers -> Seq(1..LastTime)]
    /\ forgotten \subseteq Peers

RateLimiterInit ==
    /\ clock = 1
    /\ requests = [p \in Peers |-> <<>>] /\ failures = [p \in Peers |-> <<>>]
    /\ requestOrder = <<>> /\ failureOrder = <<>>
    /\ locked_until = [p \in Peers |-> 0] /\ lockedAt = [p \in Peers |-> 0]
    /\ inFlight = [p \in Peers |-> 0] /\ let_through = 0
    /\ admitted = [p \in Peers |-> <<>>] /\ failed = [p \in Peers |-> <<>>]
    /\ forgotten = {}

(* The entries of a deque that are left when those up to a limit have been *)
(* popped from its front.                                                  *)
popped(times, limit) == Max({n \in 0..Len(times) : \A i \in 1..n : times[i] <= limit})

after(times, limit) == SubSeq(times, popped(times, limit) + 1, Len(times))

(* Those of the last span of time.                                         *)
recent(times, span) == after(times, clock - span)

(* setdefault, and _bound after the append: one new entry makes the table  *)
(* too large by one at most.                                               *)
entered(order, p) ==
    LET longer == IF p \in ToSet(order) THEN order ELSE Append(order, p)
    IN  IF Len(longer) > MaxTracked THEN Tail(longer) ELSE longer

Dropped(order, p) == ToSet(order) \ ToSet(entered(order, p))

-----------------------------------------------------------------------------
is_locked(p) == locked_until[p] # 0 /\ clock < locked_until[p]

(* check: refused while locked; a lock that is over is deleted, the window *)
(* cleaned, and the request refused or counted.                            *)
check(p) ==
    LET window == recent(requests[p], Window)
        free   == Len(window) < PerMinute
    IN  /\ ~is_locked(p)
        /\ let_through < MaxRequests
        /\ locked_until' = [locked_until EXCEPT ![p] = 0]
        /\ \/ /\ free
              /\ requests' = [q \in Peers |->
                                IF q = p THEN Append(window, clock)
                                ELSE IF q \in Dropped(requestOrder, p) THEN <<>>
                                ELSE requests[q]]
              /\ requestOrder' = entered(requestOrder, p)
              /\ forgotten' = forgotten \union Dropped(requestOrder, p)
              /\ inFlight' = [inFlight EXCEPT ![p] = @ + 1]
              /\ let_through' = let_through + 1
              /\ admitted' = [admitted EXCEPT ![p] = Append(recent(@, Window), clock)]
           \/ /\ ~free
              /\ requests' = [requests EXCEPT ![p] = window]
              /\ UNCHANGED <<requestOrder, forgotten, inFlight, let_through, admitted>>
        /\ UNCHANGED <<clock, failures, failureOrder, failed, lockedAt>>

(* The application answers anything but 401 or 403.                        *)
Answered(p) ==
    /\ inFlight[p] > 0
    /\ inFlight' = [inFlight EXCEPT ![p] = @ - 1]
    /\ UNCHANGED <<clock, requests, failures, requestOrder, failureOrder, locked_until, let_through,
                   admitted, failed, lockedAt, forgotten>>

(* send_and_count, record_failure: 401 or 403.                             *)
record_failure(p) ==
    LET window == Append(recent(failures[p], FailureWindow), clock)
        locks  == Len(window) >= LockoutFailures
    IN  /\ inFlight[p] > 0
        /\ inFlight' = [inFlight EXCEPT ![p] = @ - 1]
        /\ failures' = [q \in Peers |->
                          IF q = p THEN IF locks THEN <<>> ELSE window
                          ELSE IF q \in Dropped(failureOrder, p) THEN <<>>
                          ELSE failures[q]]
        /\ failureOrder' = entered(failureOrder, p)
        /\ forgotten' = forgotten \union Dropped(failureOrder, p)
        /\ \/ /\ locks
              /\ locked_until' = [locked_until EXCEPT ![p] = clock + LockoutSeconds]
              /\ lockedAt' = [lockedAt EXCEPT ![p] = clock]
              /\ failed' = [failed EXCEPT ![p] = <<>>]
           \/ /\ ~locks
              /\ failed' = [failed EXCEPT ![p] = Append(recent(@, FailureWindow), clock)]
              /\ UNCHANGED <<locked_until, lockedAt>>
        /\ UNCHANGED <<clock, requests, requestOrder, let_through, admitted>>

Second ==
    /\ clock < LastTime
    /\ clock' = clock + 1
    /\ admitted' = [p \in Peers |-> recent(admitted[p], Window - 1)]
    /\ failed' = [p \in Peers |-> recent(failed[p], FailureWindow - 1)]
    /\ UNCHANGED <<requests, failures, requestOrder, failureOrder, locked_until, inFlight,
                   let_through, lockedAt, forgotten>>

RateHorizon == clock = LastTime /\ UNCHANGED rateVars

RateLimiterNext ==
    \/ \E p \in Peers : check(p) \/ Answered(p) \/ record_failure(p)
    \/ Second \/ RateHorizon

-----------------------------------------------------------------------------
(* In no window of time, wherever it begins, are more than PerMinute       *)
(* requests of a client let through, unless the table forgot the client.   *)
AtMostPerMinute ==
    \A p \in Peers \ forgotten : Len(recent(admitted[p], Window)) <= PerMinute

(* A client that has failed LockoutFailures times within the failure       *)
(* window, in whatever order its requests were answered, is locked by the  *)
(* last of these failures, and none of its requests passes until           *)
(* LockoutSeconds later.                                                   *)
LockoutHolds ==
    \A p \in Peers :
        /\ p \notin forgotten => Len(recent(failed[p], FailureWindow)) < LockoutFailures
        /\ lockedAt[p] # 0 /\ clock < lockedAt[p] + LockoutSeconds => is_locked(p)
        /\ \A i \in DOMAIN admitted[p] :
             lockedAt[p] # 0 /\ admitted[p][i] > lockedAt[p]
               => admitted[p][i] >= lockedAt[p] + LockoutSeconds
=============================================================================
