------------------------------ MODULE ProjectSync ------------------------------
(* project_sync/: one run that puts what is open in the repositories on a   *)
(* board, as far as the limit of additions goes.                            *)
EXTENDS Naturals, FiniteSets, Sequences

Items == {"i1", "i2", "i3"}
MaxAdd == 2  \* PROJSYNC_MAX_ADD
Board == {"on", "off", "no scope"}  \* the number is set, is 0, or the token may not

(* A question: what is open in the two repositories (an item may be listed  *)
(* by both, after a transfer), which of them cannot be listed, what is on   *)
(* the board already, and what GitHub will not add.                         *)
Runs == [board : Board, open : [1..2 -> {<<>>, <<"i1">>, <<"i1", "i2">>, <<"i2", "i3">>,
                                         <<"i1", "i2", "i3">>}],
         unlisted : SUBSET {1, 2}, existing : SUBSET Items, refused : SUBSET Items]

None == [status |-> "success", existing |-> {}, added |-> 0, failed |-> 0]

(* One item of _sync_repo.  A refusal does not count against the limit.     *)
add_item(q, s, i) ==
    CASE i \in s.existing \/ s.added >= MaxAdd -> s
      [] i \notin s.existing /\ s.added < MaxAdd /\ i \in q.refused ->
           [s EXCEPT !.failed = @ + 1]
      [] OTHER -> [s EXCEPT !.existing = @ \cup {i}, !.added = @ + 1]

sync_repo(q, s, r) ==
    LET items == q.open[r]
        after[n \in 0..Len(items)] == IF n = 0 THEN s ELSE add_item(q, after[n - 1], items[n])
    IN  IF r \in q.unlisted THEN [s EXCEPT !.failed = @ + 1] ELSE after[Len(items)]

(* execute: the limit is looked at before a repository is listed.           *)
execute(q) ==
    LET start == [None EXCEPT !.existing = q.existing]
        next(s, r) == IF s.added >= MaxAdd THEN s ELSE sync_repo(q, s, r)
    IN  CASE q.board = "off" -> start
          [] q.board = "no scope" -> [start EXCEPT !.status = "error"]
          [] OTHER -> next(next(start, 1), 2)

(* Nothing goes on the board twice or leaves it; the limit holds; what is   *)
(* left out was refused, could not be listed or is beyond the limit, and    *)
(* what is refused keeps no other item off the board, today or, run again,  *)
(* on the days after.  A board that may not be read is an error, not a run  *)
(* without work.                                                            *)
Listed(q) == UNION {{q.open[r][n] : n \in DOMAIN q.open[r]} : r \in {1, 2} \ q.unlisted}

SyncedRightly(q, s) ==
    LET added == s.existing \ q.existing
        tomorrow == execute([q EXCEPT !.existing = s.existing])
    IN  /\ q.existing \subseteq s.existing /\ added \subseteq Listed(q) \ q.refused
        /\ s.added = Cardinality(added) /\ s.added <= MaxAdd
        /\ q.board = "on" /\ s.added < MaxAdd => Listed(q) \ q.refused \subseteq s.existing
        /\ q.board = "on" => Listed(q) \ q.refused \subseteq tomorrow.existing
        /\ s.status = "error" <=> q.board = "no scope"
        /\ q.board # "on" => added = {}
===============================================================================
