------------------------------- MODULE Retry -----------------------------------
(* core/net/retry.py: one external call with up to MaxAttempts attempts.  A *)
(* call is the sequence of answers its attempts would meet; what it does    *)
(* with them (returns or raises, and the waits between) is a function of    *)
(* the call.  Times are in units of BaseDelay.                              *)
EXTENDS Naturals, Integers, Sequences

MaxAttempts == 3
BaseDelay == 1
MaxWait == 5  \* _MAX_RATE_LIMIT_WAIT_SECONDS, 300 in the code
None == -1

(* An answer: the status (0: no connection), its Retry-After header (absent, *)
(* a number or a date the code does not parse), and, when the quota is used *)
(* up, how far away its reset is (possibly past, or not told).              *)
Unparsed == -2
Answer == [status : {200}, after : {None}, empty : {FALSE}, reset : {None}]
     \cup [status : {0, 404, 503}, after : {None}, empty : {FALSE}, reset : {None}]
     \cup [status : {429}, after : {None, Unparsed, 7}, empty : {FALSE}, reset : {None}]
     \cup [status : {403}, after : {None, Unparsed, 7}, empty : BOOLEAN,
           reset : {None, -3, 9}]

Calls == [1..MaxAttempts -> {a \in Answer : a.empty \/ a.reset = None}]

is_rate_limited_403(a) == a.empty \/ a.after # None

is_retriable(a) == \/ a.status \in {429, 500, 502, 503, 504}
                   \/ a.status = 403 /\ is_rate_limited_403(a)
                   \/ a.status = 0

least(a, b) == IF a < b THEN a ELSE b

retry_delay(a, attempt) ==
    CASE a.after >= 0 -> a.after
      [] ~(a.after >= 0) /\ a.empty /\ a.reset > 0 -> least(a.reset, MaxWait)
      [] OTHER -> BaseDelay * 2 ^ attempt

(* What the attempts from the k-th on come to.                             *)
request_with_retry(call) ==
    LET from[k \in 1..MaxAttempts] ==
            LET a == call[k] IN
            IF a.status = 200 \/ ~is_retriable(a) \/ k = MaxAttempts
            THEN [status |-> a.status, waits |-> <<>>]
            ELSE [from[k + 1] EXCEPT !.waits = <<retry_delay(a, k - 1)>> \o @]
    IN  from[1]

(* What a caller relies on: a call that any attempt could still save is not *)
(* given up, a refusal is not repeated, and no attempt is made before the   *)
(* time the server asked for.                                              *)
RetriedRightly(call, r) ==
    LET calls == Len(r.waits) + 1
        last == call[calls]
    IN  /\ calls <= MaxAttempts
        /\ r.status = last.status
        /\ \A k \in 1..calls - 1 : is_retriable(call[k]) /\ call[k].status # 200
        /\ last.status # 200 => ~is_retriable(last) \/ calls = MaxAttempts
        /\ last.status = 403 /\ calls < MaxAttempts => last.after = None /\ ~last.empty
        /\ \A k \in 1..calls - 1 :
             /\ call[k].after >= 0 => r.waits[k] = call[k].after
             /\ call[k].after < 0 => r.waits[k] \in 1..MaxWait
             /\ call[k].after < 0 /\ call[k].empty =>
                  r.waits[k] >= least(call[k].reset, MaxWait)
===============================================================================
