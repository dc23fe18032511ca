----------------------- MODULE FindingExceptionsProofs -----------------------
(***************************************************************************)
(* What is proved of FindingExceptions, for any number of requests and any *)
(* spans of time: the exceptions that have expired are ended, what ends is *)
(* shown again, notices are sent once, and one exception is active at a    *)
(* time as long as requests to create do not overlap.                      *)
(***************************************************************************)
EXTENDS FindingExceptions, FiniteSetTheorems, SequenceTheorems, TLAPS

(* What a request holds while it is under way.                             *)
Held ==
    /\ pc \in [Requests -> {"idle", "commit", "refile", "done", "lost"}]
    /\ got \in [Requests -> Nat]
    /\ want \in [Creates -> Bodies \union {<<>>}]
    /\ loaded \in [Creates -> Row \union {<<>>}]
    /\ \A c \in Creates : pc[c] = "commit" =>
         /\ want[c] \in Bodies
         /\ want[c].expires = Never \/ want[c].expires > now
         /\ got[c] # 0 => loaded[c] \in Row
    /\ \A c \in Creates : pc[c] # "refile"
    /\ \A c \in Requests : pc[c] \notin {"commit", "refile"} => got[c] = 0
    /\ \A c \in Revokes : pc[c] \in {"commit", "refile"} => got[c] # 0
    /\ noticed \in Seq(Nat)

(* What has expired when the job started is selected, and then ended.      *)
DueIsSelected ==
    job = "expiring" =>
        \A i \in DOMAIN rows : Lapsed(i, when) => i \in ending \/ rows[i].ended # "no"

(* A row without a mark has had no notice, nor has one about to be marked; *)
(* a request that has loaded a row knows of its mark, unless they crossed. *)
MarksAreNotices ==
    /\ \A i \in DOMAIN rows : ~rows[i].notified => noticed[i] = 0
    /\ job = "noticing" => \A i \in ending : noticed[i] = 0
    /\ "notice" \notin crossed => \A c \in Creates :
         pc[c] = "commit" /\ got[c] # 0 /\ rows[got[c]].notified => loaded[c].notified

(* While no two requests to create overlap, the one that is under way has  *)
(* found the only row that may be active, and there is never another.      *)
OneAtATime ==
    "create" \notin crossed =>
        /\ \A i, j \in Active : i = j
        /\ \A c, d \in Creates : pc[c] = "commit" /\ pc[d] = "commit" => c = d
        /\ \A c \in Creates : pc[c] = "commit" => Active \subseteq {got[c]}

Typed == ExceptionsTypeOK /\ Held

ExceptionsInv == /\ Typed
                 /\ DueIsSelected /\ ExpiredAreEnded
                 /\ EndedIsShown
                 /\ MarksAreNotices /\ SoonOnce /\ RenewalIsAnnounced
                 /\ OneAtATime
-----------------------------------------------------------------------------
(* A list changed in one place, or in all places, or extended, is a list. *)
LEMMA Lists ==
  ASSUME NEW S, NEW s \in Seq(S)
  PROVE  /\ DOMAIN s = 1..Len(s) /\ Len(s) \in Nat
         /\ \A i \in DOMAIN s : s[i] \in S
         /\ \A e \in S : /\ Append(s, e) \in Seq(S)
                         /\ DOMAIN Append(s, e) = 1..Len(s) + 1
                         /\ \A i \in DOMAIN s : Append(s, e)[i] = s[i]
                         /\ Append(s, e)[Len(s) + 1] = e
         /\ \A i \in DOMAIN s, e \in S : [s EXCEPT ![i] = e] \in Seq(S)
         /\ \A f \in [DOMAIN s -> S] : f \in Seq(S)
<1>1. DOMAIN s = 1..Len(s) /\ Len(s) \in Nat /\ \A i \in DOMAIN s : s[i] \in S
  OBVIOUS
<1>2. ASSUME NEW e \in S
      PROVE  /\ Append(s, e) \in Seq(S)
             /\ DOMAIN Append(s, e) = 1..Len(s) + 1
             /\ \A i \in DOMAIN s : Append(s, e)[i] = s[i]
             /\ Append(s, e)[Len(s) + 1] = e
  <2>1. /\ Append(s, e) \in Seq(S)
        /\ Len(Append(s, e)) = Len(s) + 1
        /\ \A i \in 1..Len(s) : Append(s, e)[i] = s[i]
        /\ Append(s, e)[Len(s) + 1] = e
    BY AppendProperties
  <2>2. DOMAIN Append(s, e) = 1..Len(Append(s, e))
    BY <2>1
  <2> QED
    BY <1>1, <2>1, <2>2
<1>3. ASSUME NEW i \in DOMAIN s, NEW e \in S PROVE [s EXCEPT ![i] = e] \in Seq(S)
  BY <1>1, ExceptSeq
<1>4. ASSUME NEW f \in [DOMAIN s -> S] PROVE f \in Seq(S)
  BY <1>1, IsASeq
<1> QED
  BY <1>1, <1>2, <1>3, <1>4

(* There are no rows and no requests at first.                             *)
LEMMA InitInv == ExceptionsInit => ExceptionsInv
<1> SUFFICES ASSUME ExceptionsInit PROVE ExceptionsInv
  OBVIOUS
<1> USE DaysAssumption DEF ExceptionsInit
<1>0. /\ rows \in Seq(Row) /\ noticed \in Seq(Nat)
      /\ DOMAIN rows = {} /\ DOMAIN noticed = {} /\ Len(rows) = 0
  BY EmptySeq, Lists
<1>1. \A c \in Requests : pc[c] = "idle" /\ got[c] = 0
  OBVIOUS
<1>2. ExceptionsTypeOK
  <2>1. DOMAIN pc = Requests /\ DOMAIN got = Requests
    OBVIOUS
  <2> QED
    BY <1>0, <1>1, <2>1 DEF ExceptionsTypeOK
<1>3. Held
  BY <1>0, <1>1 DEF Held, Requests
<1>4. DueIsSelected /\ ExpiredAreEnded /\ EndedIsShown
  BY <1>0 DEF DueIsSelected, ExpiredAreEnded, EndedIsShown
<1>5. MarksAreNotices /\ SoonOnce /\ RenewalIsAnnounced
  BY <1>0, <1>1 DEF MarksAreNotices, SoonOnce, RenewalIsAnnounced, Requests
<1>6. OneAtATime
  BY <1>0, <1>1 DEF OneAtATime, Active, Requests
<1> QED
  BY <1>2, <1>3, <1>4, <1>5, <1>6 DEF ExceptionsInv, Typed

(* The rows stay rows, none disappears, and each counts its notices.       *)
RowsKept == /\ rows' \in Seq(Row) /\ noticed' \in Seq(Nat)
            /\ DOMAIN rows' = DOMAIN noticed'
            /\ DOMAIN rows \subseteq DOMAIN rows' /\ Len(rows) <= Len(rows')

LEMMA StepRows == Typed /\ [ExceptionsNext]_exceptionVars => RowsKept
<1> SUFFICES ASSUME Typed, [ExceptionsNext]_exceptionVars PROVE RowsKept
  OBVIOUS
<1> DEFINE Same == rows' = rows /\ noticed' = noticed
<1>0. /\ rows \in Seq(Row) /\ noticed \in Seq(Nat) /\ DOMAIN noticed = DOMAIN rows
      /\ DOMAIN rows = 1..Len(rows) /\ Len(rows) \in Nat
      /\ \A i \in DOMAIN rows : rows[i] \in Row
      /\ \A i \in DOMAIN noticed : noticed[i] \in Nat
  BY Lists DEF Typed, ExceptionsTypeOK, Held
<1>1. ASSUME Same PROVE RowsKept
  BY <1>0, <1>1 DEF RowsKept
<1>2. ASSUME NEW i \in DOMAIN rows, NEW r \in Row, rows' = [rows EXCEPT ![i] = r],
             \/ noticed' = noticed
             \/ noticed' = [noticed EXCEPT ![i] = 0]
      PROVE  RowsKept
  <2>1. rows' \in Seq(Row) /\ noticed' \in Seq(Nat)
    BY <1>0, <1>2, Lists
  <2>2. DOMAIN rows' = DOMAIN rows /\ DOMAIN noticed' = DOMAIN noticed
    BY <1>2
  <2>3. DOMAIN rows' = 1..Len(rows') /\ Len(rows') \in Nat
    BY <2>1, Lists
  <2> QED
    BY <1>0, <2>1, <2>2, <2>3 DEF RowsKept
<1>3. ASSUME NEW r \in Row, rows' = Append(rows, r), noticed' = Append(noticed, 0) PROVE RowsKept
  <2>1. rows' \in Seq(Row) /\ noticed' \in Seq(Nat) /\ DOMAIN rows' = 1..Len(rows) + 1
        /\ DOMAIN noticed' = 1..Len(noticed) + 1
    BY <1>0, <1>3, Lists
  <2>2. DOMAIN rows' = 1..Len(rows') /\ Len(rows') \in Nat
    BY <2>1, Lists
  <2>3. Len(noticed) = Len(rows)
    BY <1>0, Lists
  <2> QED
    BY <1>0, <2>1, <2>2, <2>3 DEF RowsKept
<1>4. ASSUME NEW f \in [DOMAIN rows -> Row], rows' = f,
             \/ noticed' = noticed
             \/ \E g \in [DOMAIN rows -> Nat] : noticed' = g
      PROVE  RowsKept
  <2>1. rows' \in Seq(Row) /\ noticed' \in Seq(Nat) /\ DOMAIN rows' = DOMAIN rows
        /\ DOMAIN noticed' = DOMAIN rows
    BY <1>0, <1>4, Lists
  <2>2. DOMAIN rows' = 1..Len(rows') /\ Len(rows') \in Nat
    BY <2>1, Lists
  <2> QED
    BY <1>0, <2>1, <2>2 DEF RowsKept
<1>5. ASSUME NEW c \in Creates, NEW body \in Bodies, Lookup(c, body) PROVE RowsKept
  BY <1>1, <1>5 DEF Lookup
<1>6. ASSUME NEW c \in Creates, upsert_active(c) PROVE RowsKept
  <2>1. want[c] \in Bodies /\ got[c] \in 0..Len(rows) /\ (got[c] # 0 => loaded[c] \in Row)
    BY <1>6 DEF upsert_active, Typed, ExceptionsTypeOK, Held, Requests
  <2>2. want[c].status \in {"accepted", "dismissed"} /\ want[c].expires \in Nat
    BY <2>1, DaysAssumption DEF Bodies
  <2>3. CASE got[c] = 0
    <3>1. [status |-> want[c].status, expires |-> want[c].expires,
           notified |-> FALSE, ended |-> "no"] \in Row
      BY <2>2 DEF Row
    <3> QED
      BY <1>3, <1>6, <2>3, <3>1 DEF upsert_active
  <2>4. CASE got[c] # 0
    <3>1. got[c] \in DOMAIN rows /\ rows[got[c]] \in Row
      BY <1>0, <2>1, <2>4
    <3>2. renewed(rows[got[c]], loaded[c], want[c]) \in Row
      BY <2>1, <2>2, <2>4, <3>1 DEF renewed, Row
    <3>3. /\ rows' = [rows EXCEPT ![got[c]] = renewed(rows[got[c]], loaded[c], want[c])]
          /\ noticed' = [noticed EXCEPT ![got[c]] = 0]
      BY <1>6, <2>4 DEF upsert_active
    <3> QED
      BY <1>2, <3>1, <3>2, <3>3
  <2> QED
    BY <2>3, <2>4
<1>7. ASSUME NEW i \in DOMAIN rows, NEW reason \in {"revoked", "fix_available"},
             end(i, reason), noticed' = noticed
      PROVE  RowsKept
  <2>1. rows' = [rows EXCEPT ![i] = [rows[i] EXCEPT !.ended = reason]]
    BY <1>7 DEF end
  <2>2. [rows[i] EXCEPT !.ended = reason] \in Row
    BY <1>0 DEF Row
  <2> QED
    BY <1>2, <1>7, <2>1, <2>2
<1>8. ASSUME NEW c \in Revokes, NEW i \in DOMAIN rows, Revoke(c, i) PROVE RowsKept
  BY <1>1, <1>8 DEF Revoke, ghosts
<1>9. ASSUME NEW c \in Revokes, RevokeCommit(c) PROVE RowsKept
  <2>1. pc[c] = "commit" /\ c \in Requests
    BY <1>9 DEF RevokeCommit, Requests
  <2>2. got[c] # 0 /\ got[c] \in 0..Len(rows)
    BY <2>1 DEF Typed, Held, ExceptionsTypeOK
  <2>3. got[c] \in DOMAIN rows
    BY <1>0, <2>2
  <2> QED
    BY <1>7, <1>9, <2>3 DEF RevokeCommit, ghosts
<1>10. ASSUME NEW i \in DOMAIN rows, EndFixed(i) PROVE RowsKept
  BY <1>7, <1>10 DEF EndFixed, ghosts
<1>11. CASE EndDue
  <2>1. [i \in DOMAIN rows |-> IF i \in ending THEN [rows[i] EXCEPT !.ended = "expired"]
                               ELSE rows[i]] \in [DOMAIN rows -> Row]
    BY <1>0 DEF Row
  <2> QED
    BY <1>4, <1>11, <2>1 DEF EndDue, ghosts
<1>12. CASE MarkSoon
  <2>1. [i \in DOMAIN rows |-> IF i \in ending THEN [rows[i] EXCEPT !.notified = TRUE]
                               ELSE rows[i]] \in [DOMAIN rows -> Row]
    BY <1>0 DEF Row
  <2>2. [i \in DOMAIN rows |-> noticed[i] + (IF i \in ending THEN 1 ELSE 0)]
          \in [DOMAIN rows -> Nat]
    BY <1>0
  <2> QED
    BY <1>4, <1>12, <2>1, <2>2 DEF MarkSoon
<1>13. ASSUME NEW c \in Revokes, RevokeRefile(c) PROVE RowsKept
  BY <1>1, <1>13 DEF RevokeRefile
<1>14. CASE JobStarts \/ ReadDue \/ ReadSoon \/ JobRefiles \/ Restart
  BY <1>1, <1>14 DEF JobStarts, ReadDue, ReadSoon, JobRefiles, Restart, ghosts
<1>15. CASE FindingChanges \/ Tick \/ Terminating \/ UNCHANGED exceptionVars
  BY <1>1, <1>15 DEF FindingChanges, Tick, Terminating, exceptionVars, ghosts
<1> QED
  BY <1>5, <1>6, <1>8, <1>9, <1>10, <1>11, <1>12, <1>13, <1>14, <1>15 DEF ExceptionsNext

(* Every step keeps every variable in its domain, and what requests hold.  *)
LEMMA StepTyped == Typed /\ [ExceptionsNext]_exceptionVars => Typed'
<1> SUFFICES ASSUME Typed, [ExceptionsNext]_exceptionVars PROVE Typed'
  OBVIOUS
<1>0. /\ rows' \in Seq(Row) /\ noticed' \in Seq(Nat)
      /\ DOMAIN rows' = DOMAIN noticed'
      /\ DOMAIN rows \subseteq DOMAIN rows' /\ Len(rows) <= Len(rows')
      /\ Len(rows) \in Nat /\ Len(rows') \in Nat
      /\ DOMAIN rows = 1..Len(rows)
      /\ \A i \in DOMAIN rows : rows[i] \in Row
  BY StepRows, Lists DEF RowsKept, Typed, ExceptionsTypeOK
<1> USE <1>0, DaysAssumption, ThreadsAssumption DEF Typed, ExceptionsTypeOK, Held, Requests,
        requests, lifecycle, ghosts, Goto, Fault
<1>1. ASSUME NEW c \in Creates, NEW body \in Bodies, Lookup(c, body) PROVE Typed'
  <2>0. crossed' \subseteq {"create", "notice"}
    <3>1. crossed' = crossed \union {"create" : d \in {d \in Creates : pc[d] = "commit"}}
      BY <1>1 DEF Lookup
    <3> QED
      BY <3>1
  <2>1. /\ pc' = [pc EXCEPT ![c] = "commit"] /\ want' = [want EXCEPT ![c] = body]
        /\ pc[c] = "idle" /\ (body.expires = Never \/ body.expires > now)
        /\ crossed' \subseteq {"create", "notice"}
        /\ UNCHANGED <<now, finding, rows, lifecycle, noticed, shown, excused, faults>>
    BY <1>1, <2>0 DEF Lookup, valid_expiry, Bodies
  <2>2. \/ UNCHANGED <<got, loaded>>
        \/ \E i \in DOMAIN rows : /\ got' = [got EXCEPT ![c] = i]
                                  /\ loaded' = [loaded EXCEPT ![c] = rows[i]]
    BY <1>1 DEF Lookup, existing, Active
  <2>3. CASE UNCHANGED <<got, loaded>>
    BY <2>1, <2>3
  <2>4. ASSUME NEW i \in DOMAIN rows, got' = [got EXCEPT ![c] = i],
               loaded' = [loaded EXCEPT ![c] = rows[i]]
        PROVE  Typed'
    BY <2>1, <2>4
  <2> QED
    BY <2>2, <2>3, <2>4
<1>2. ASSUME NEW c \in Creates, upsert_active(c) PROVE Typed'
  BY <1>2 DEF upsert_active
<1>3. ASSUME NEW c \in Revokes, NEW i \in DOMAIN rows, Revoke(c, i) PROVE Typed'
  BY <1>3 DEF Revoke
<1>4. ASSUME NEW c \in Revokes, RevokeCommit(c) PROVE Typed'
  BY <1>4 DEF RevokeCommit
<1>5. ASSUME NEW c \in Revokes, RevokeRefile(c) PROVE Typed'
  BY <1>5 DEF RevokeRefile, Refile, to_refile
<1>6. CASE JobStarts
  BY <1>6 DEF JobStarts, fixed, Active
<1>7. ASSUME NEW i \in DOMAIN rows, EndFixed(i) PROVE Typed'
  BY <1>7 DEF EndFixed
<1>8. CASE ReadDue
  BY <1>8 DEF ReadDue, expire_due
<1>9. CASE EndDue
  BY <1>9 DEF EndDue
<1>10. CASE ReadSoon
  BY <1>10 DEF ReadSoon, due_soon
<1>11. CASE MarkSoon
  BY <1>11 DEF MarkSoon
<1>12. CASE JobRefiles
  BY <1>12 DEF JobRefiles, Refile, to_refile
<1>13. CASE Restart
  BY <1>13 DEF Restart
<1>14. CASE FindingChanges
  BY <1>14 DEF FindingChanges
<1>15. CASE Tick
  BY <1>15 DEF Tick
<1>16. CASE Terminating \/ UNCHANGED exceptionVars
  BY <1>16 DEF Terminating, exceptionVars
<1> QED
  BY <1>1, <1>2, <1>3, <1>4, <1>5, <1>6, <1>7, <1>8, <1>9, <1>10, <1>11, <1>12, <1>13, <1>14,
     <1>15, <1>16 DEF ExceptionsNext

-----------------------------------------------------------------------------
(* What becomes of a row in a step: three of them end it and none brings   *)
(* it back, and a date that is written lies in the future; a new row is    *)
(* active and has not been announced.                                      *)
Writable(expires) == expires = Never \/ expires > now

Ends(i) == \/ EndFixed(i)
           \/ EndDue /\ i \in ending
           \/ \E c \in Revokes : RevokeCommit(c) /\ got[c] = i

History(i) ==
    \/ /\ i \in DOMAIN rows
       /\ rows[i].ended # "no" => rows'[i].ended # "no"
       /\ rows'[i].ended # rows[i].ended => Ends(i)
       /\ rows'[i].expires = rows[i].expires \/ Writable(rows'[i].expires)
    \/ /\ i \notin DOMAIN rows /\ i = Len(rows) + 1
       /\ rows'[i].ended = "no" /\ ~rows'[i].notified /\ noticed'[i] = 0
       /\ Writable(rows'[i].expires)

LEMMA RowHistory ==
  ASSUME Typed, [ExceptionsNext]_exceptionVars
  PROVE  \A i \in DOMAIN rows' : History(i)
<1>0. /\ rows \in Seq(Row) /\ noticed \in Seq(Nat) /\ DOMAIN noticed = DOMAIN rows
      /\ DOMAIN rows = 1..Len(rows) /\ Len(rows) \in Nat
      /\ \A i \in DOMAIN rows : rows[i] \in Row
  BY Lists DEF Typed, ExceptionsTypeOK, Held
<1>1. ASSUME rows' = rows PROVE \A i \in DOMAIN rows' : History(i)
  BY <1>1 DEF History
<1>2. ASSUME NEW k \in DOMAIN rows, NEW r \in Row, rows' = [rows EXCEPT ![k] = r],
             rows[k].ended # "no" => r.ended # "no",
             r.ended # rows[k].ended => Ends(k),
             r.expires = rows[k].expires \/ Writable(r.expires)
      PROVE  \A i \in DOMAIN rows' : History(i)
  BY <1>0, <1>2 DEF History
<1>3. ASSUME NEW c \in Creates, upsert_active(c) PROVE \A i \in DOMAIN rows' : History(i)
  <2>1. /\ want[c] \in Bodies /\ got[c] \in 0..Len(rows) /\ (got[c] # 0 => loaded[c] \in Row)
        /\ Writable(want[c].expires)
    BY <1>3 DEF upsert_active, Typed, ExceptionsTypeOK, Held, Requests, Writable
  <2>2. want[c].status \in {"accepted", "dismissed"} /\ want[c].expires \in Nat
    BY <2>1, DaysAssumption DEF Bodies
  <2>3. CASE got[c] = 0
    <3> DEFINE r == [status |-> want[c].status, expires |-> want[c].expires,
                     notified |-> FALSE, ended |-> "no"]
    <3>1. r \in Row
      BY <2>2 DEF Row
    <3>2. rows' = Append(rows, r) /\ noticed' = Append(noticed, 0)
      BY <1>3, <2>3 DEF upsert_active
    <3>3. /\ DOMAIN rows' = 1..Len(rows) + 1 /\ \A i \in DOMAIN rows : rows'[i] = rows[i]
          /\ rows'[Len(rows) + 1] = r
      BY <1>0, <3>1, <3>2, Lists
    <3>4. noticed'[Len(noticed) + 1] = 0 /\ Len(noticed) = Len(rows)
      BY <1>0, <3>2, Lists
    <3>5. r.ended = "no" /\ ~r.notified /\ r.expires = want[c].expires
      OBVIOUS
    <3> HIDE DEF r
    <3> QED
      BY <1>0, <2>1, <3>3, <3>4, <3>5 DEF History
  <2>4. CASE got[c] # 0
    <3> DEFINE k == got[c]
               r == renewed(rows[k], loaded[c], want[c])
    <3>1. k \in DOMAIN rows /\ rows[k] \in Row
      BY <1>0, <2>1, <2>4
    <3>2. r \in Row /\ r.ended = rows[k].ended
      BY <2>1, <2>2, <2>4, <3>1 DEF renewed, Row
    <3>3. r.expires = rows[k].expires \/ r.expires = want[c].expires
      BY <3>1 DEF renewed, Row
    <3>4. rows' = [rows EXCEPT ![k] = r]
      BY <1>3, <2>4 DEF upsert_active
    <3> HIDE DEF k, r
    <3> QED
      BY <1>2, <2>1, <3>1, <3>2, <3>3, <3>4
  <2> QED
    BY <2>3, <2>4
<1>4. ASSUME NEW k \in DOMAIN rows, NEW reason \in {"revoked", "fix_available"}, end(k, reason),
             Ends(k)
      PROVE  \A i \in DOMAIN rows' : History(i)
  <2>1. rows' = [rows EXCEPT ![k] = [rows[k] EXCEPT !.ended = reason]]
    BY <1>4 DEF end
  <2>2. /\ [rows[k] EXCEPT !.ended = reason] \in Row
        /\ [rows[k] EXCEPT !.ended = reason].ended = reason
        /\ [rows[k] EXCEPT !.ended = reason].expires = rows[k].expires
    BY <1>0 DEF Row
  <2> QED
    BY <1>2, <1>4, <2>1, <2>2
<1>5. ASSUME NEW c \in Revokes, RevokeCommit(c) PROVE \A i \in DOMAIN rows' : History(i)
  <2>1. pc[c] = "commit" /\ c \in Requests
    BY <1>5 DEF RevokeCommit, Requests
  <2>2. got[c] # 0 /\ got[c] \in 0..Len(rows)
    BY <2>1 DEF Typed, Held, ExceptionsTypeOK
  <2> QED
    BY <1>0, <1>4, <1>5, <2>2 DEF RevokeCommit, Ends
<1>6. ASSUME NEW k \in DOMAIN rows, EndFixed(k) PROVE \A i \in DOMAIN rows' : History(i)
  BY <1>4, <1>6 DEF EndFixed, Ends
<1>7. CASE EndDue
  <2>1. /\ DOMAIN rows' = DOMAIN rows
        /\ \A i \in DOMAIN rows :
             rows'[i] = IF i \in ending THEN [rows[i] EXCEPT !.ended = "expired"] ELSE rows[i]
    BY <1>7 DEF EndDue
  <2>2. \A i \in DOMAIN rows : /\ rows[i].ended # "no" => rows'[i].ended # "no"
                               /\ rows'[i].ended # rows[i].ended => i \in ending
                               /\ rows'[i].expires = rows[i].expires
    BY <1>0, <2>1 DEF Row
  <2> QED
    BY <1>7, <2>1, <2>2 DEF History, Ends
<1>8. CASE MarkSoon
  <2>1. /\ DOMAIN rows' = DOMAIN rows
        /\ \A i \in DOMAIN rows :
             rows'[i] = IF i \in ending THEN [rows[i] EXCEPT !.notified = TRUE] ELSE rows[i]
    BY <1>8 DEF MarkSoon
  <2>2. \A i \in DOMAIN rows : rows'[i].ended = rows[i].ended /\ rows'[i].expires = rows[i].expires
    BY <1>0, <2>1 DEF Row
  <2> QED
    BY <2>1, <2>2 DEF History
<1>9. ASSUME NEW c \in Creates, NEW body \in Bodies, Lookup(c, body) PROVE rows' = rows
  BY <1>9 DEF Lookup
<1>10. ASSUME NEW c \in Revokes, NEW i \in DOMAIN rows, Revoke(c, i) PROVE rows' = rows
  BY <1>10 DEF Revoke
<1>11. ASSUME NEW c \in Revokes, RevokeRefile(c) PROVE rows' = rows
  BY <1>11 DEF RevokeRefile
<1>12. CASE JobStarts \/ ReadDue \/ ReadSoon \/ JobRefiles \/ Restart
  BY <1>1, <1>12 DEF JobStarts, ReadDue, ReadSoon, JobRefiles, Restart
<1>13. CASE FindingChanges \/ Tick \/ Terminating \/ UNCHANGED exceptionVars
  BY <1>1, <1>13 DEF FindingChanges, Tick, Terminating, exceptionVars
<1> QED
  BY <1>1, <1>3, <1>5, <1>6, <1>7, <1>8, <1>9, <1>10, <1>11, <1>12, <1>13 DEF ExceptionsNext

(* What the job has selected as expired, or ended, is all that had expired *)
(* when it started: what is written meanwhile expires later.               *)
LEMMA StepExpired ==
  ASSUME Typed, Typed', [ExceptionsNext]_exceptionVars, DueIsSelected, ExpiredAreEnded
  PROVE  DueIsSelected' /\ ExpiredAreEnded'
<1> DEFINE Goal == DueIsSelected' /\ ExpiredAreEnded'
<1> SUFFICES Goal
  OBVIOUS
<1>0. /\ when \in Nat /\ now \in Nat /\ when <= now
      /\ \A i \in DOMAIN rows : rows[i] \in Row
      /\ \A i \in DOMAIN rows' : rows'[i] \in Row
  BY Lists, DaysAssumption DEF Typed, ExceptionsTypeOK
<1>1. \A i \in DOMAIN rows' :
        rows'[i].expires # Never /\ rows'[i].expires <= when =>
          /\ i \in DOMAIN rows /\ Lapsed(i, when)
          /\ rows[i].ended # "no" => rows'[i].ended # "no"
  BY <1>0, RowHistory DEF History, Writable, Lapsed, Row
<1>2. ASSUME UNCHANGED <<job, when, ending>> PROVE Goal
  BY <1>1, <1>2 DEF DueIsSelected, ExpiredAreEnded, Lapsed
<1>3. CASE JobStarts
  BY <1>3 DEF JobStarts, DueIsSelected, ExpiredAreEnded
<1>4. ASSUME NEW i \in DOMAIN rows, EndFixed(i) PROVE Goal
  BY <1>4 DEF EndFixed, DueIsSelected, ExpiredAreEnded
<1>5. CASE ReadDue
  BY <1>5 DEF ReadDue, expire_due, DueIsSelected, ExpiredAreEnded, Lapsed
<1>6. CASE EndDue
  <2>1. \A i \in DOMAIN rows : /\ i \in ending => rows'[i].ended # "no"
                               /\ i \notin ending => rows'[i] = rows[i]
    BY <1>0, <1>6 DEF EndDue, Row
  <2>2. job = "expiring" /\ job' = "soon" /\ when' = when
    BY <1>6 DEF EndDue
  <2> QED
    BY <1>1, <2>1, <2>2 DEF DueIsSelected, ExpiredAreEnded, Lapsed
<1>7. CASE ReadSoon \/ MarkSoon
  BY <1>1, <1>7 DEF ReadSoon, MarkSoon, DueIsSelected, ExpiredAreEnded, Lapsed
<1>8. CASE JobRefiles \/ Restart
  BY <1>8 DEF JobRefiles, Restart, DueIsSelected, ExpiredAreEnded
<1>9. ASSUME NEW c \in Creates, NEW body \in Bodies, Lookup(c, body) PROVE Goal
  BY <1>2, <1>9 DEF Lookup, lifecycle
<1>10. ASSUME NEW c \in Creates, upsert_active(c) PROVE Goal
  BY <1>2, <1>10 DEF upsert_active, lifecycle
<1>11. ASSUME NEW c \in Revokes, NEW i \in DOMAIN rows, Revoke(c, i) PROVE Goal
  BY <1>2, <1>11 DEF Revoke, lifecycle
<1>12. ASSUME NEW c \in Revokes, RevokeCommit(c) \/ RevokeRefile(c) PROVE Goal
  BY <1>2, <1>12 DEF RevokeCommit, RevokeRefile, lifecycle
<1>13. CASE FindingChanges \/ Tick \/ Terminating \/ UNCHANGED exceptionVars
  BY <1>2, <1>13 DEF FindingChanges, Tick, Terminating, exceptionVars, lifecycle
<1> QED
  BY <1>3, <1>4, <1>5, <1>6, <1>7, <1>8, <1>9, <1>10, <1>11, <1>12, <1>13 DEF ExceptionsNext

(* What ends a row puts it on a list of what to show again; who takes it   *)
(* off the list shows it, or is excused.                                   *)
LEMMA StepShown ==
  ASSUME Typed, Typed', [ExceptionsNext]_exceptionVars, EndedIsShown
  PROVE  EndedIsShown'
<1> DEFINE Accounted(i) == \/ i \in shown \union excused \union again
                           \/ \E c \in Revokes : pc[c] = "refile" /\ got[c] = i
           Kept == \A i \in DOMAIN rows : Accounted(i) => Accounted(i)'
<1>0. /\ pc \in [Requests -> {"idle", "commit", "refile", "done", "lost"}]
      /\ got \in [Requests -> Nat]
  BY DEF Typed, Held
<1> USE <1>0, ThreadsAssumption DEF Requests, ghosts, lifecycle, requests, Goto
<1>1. Kept
  <2>1. ASSUME UNCHANGED <<pc, got>>, shown \subseteq shown', excused \subseteq excused',
               again \subseteq again' \union shown' \union excused'
        PROVE  Kept
    BY <2>1
  <2>2. ASSUME NEW c \in Creates, NEW body \in Bodies, Lookup(c, body) PROVE Kept
    BY <2>2 DEF Lookup
  <2>3. ASSUME NEW c \in Creates, upsert_active(c) PROVE Kept
    BY <2>3 DEF upsert_active
  <2>4. ASSUME NEW c \in Revokes, NEW i \in DOMAIN rows, Revoke(c, i) PROVE Kept
    BY <2>4 DEF Revoke
  <2>5. ASSUME NEW c \in Revokes, RevokeCommit(c) PROVE Kept
    BY <2>5 DEF RevokeCommit
  <2>6. ASSUME NEW c \in Revokes, RevokeRefile(c) PROVE Kept
    BY <2>6 DEF RevokeRefile, Refile, to_refile, NeedsAttention
  <2>7. CASE JobStarts \/ ReadDue \/ EndDue \/ ReadSoon \/ MarkSoon
    BY <2>1, <2>7 DEF JobStarts, ReadDue, EndDue, ReadSoon, MarkSoon
  <2>8. ASSUME NEW i \in DOMAIN rows, EndFixed(i) PROVE Kept
    BY <2>1, <2>8 DEF EndFixed
  <2>9. CASE JobRefiles
    BY <2>1, <2>9 DEF JobRefiles, Refile, to_refile, NeedsAttention
  <2>10. CASE Restart
    BY <2>10 DEF Restart
  <2>11. CASE FindingChanges \/ Tick \/ Terminating \/ UNCHANGED exceptionVars
    BY <2>1, <2>11 DEF FindingChanges, Tick, Terminating, exceptionVars
  <2> QED
    BY <2>2, <2>3, <2>4, <2>5, <2>6, <2>7, <2>8, <2>9, <2>10, <2>11 DEF ExceptionsNext
<1>2. \A i \in DOMAIN rows' : Ends(i) => Accounted(i)'
  BY DEF Ends, EndFixed, EndDue, RevokeCommit
<1>3. \A i \in DOMAIN rows' : rows'[i].ended # "no" =>
        Ends(i) \/ (i \in DOMAIN rows /\ rows[i].ended # "no")
  BY RowHistory DEF History
<1> QED
  BY <1>1, <1>2, <1>3 DEF EndedIsShown

(* A mark and its notice are set together and reset together, but for a    *)
(* request that loaded the row before the mark.                            *)
LEMMA StepMarks ==
  ASSUME Typed, Typed', [ExceptionsNext]_exceptionVars, MarksAreNotices, SoonOnce,
         RenewalIsAnnounced
  PROVE  MarksAreNotices' /\ SoonOnce' /\ RenewalIsAnnounced'
<1> DEFINE Goal == MarksAreNotices' /\ SoonOnce' /\ RenewalIsAnnounced'
<1> SUFFICES Goal
  OBVIOUS
<1>0. /\ rows \in Seq(Row) /\ noticed \in Seq(Nat) /\ DOMAIN noticed = DOMAIN rows
      /\ DOMAIN rows = 1..Len(rows) /\ Len(rows) \in Nat
      /\ \A i \in DOMAIN rows : rows[i] \in Row /\ noticed[i] \in Nat
      /\ ending \subseteq DOMAIN rows
      /\ pc \in [Requests -> {"idle", "commit", "refile", "done", "lost"}]
      /\ got \in [Requests -> Nat] /\ \A c \in Requests : got[c] <= Len(rows)
      /\ loaded \in [Creates -> Row \union {<<>>}]
      /\ \A c \in Requests : pc[c] \notin {"commit", "refile"} => got[c] = 0
  BY Lists DEF Typed, ExceptionsTypeOK, Held
<1> USE <1>0, ThreadsAssumption DEF Requests, ghosts, lifecycle, requests, Goto,
        MarksAreNotices, SoonOnce, RenewalIsAnnounced
<1>1. ASSUME DOMAIN rows' = DOMAIN rows,
             \A i \in DOMAIN rows : rows'[i].notified = rows[i].notified,
             noticed' = noticed, crossed' = crossed,
             job' = "noticing" => job = "noticing" /\ ending' \subseteq ending,
             \A c \in Creates : pc'[c] = "commit" =>
               pc[c] = "commit" /\ got'[c] = got[c] /\ loaded'[c] = loaded[c]
      PROVE  Goal
  <2>1. \A i \in DOMAIN rows' : ~rows'[i].notified => noticed'[i] = 0
    BY <1>1
  <2>2. job' = "noticing" => \A i \in ending' : noticed'[i] = 0
    BY <1>1
  <2>3. "notice" \notin crossed' => \A c \in Creates :
          pc'[c] = "commit" /\ got'[c] # 0 /\ rows'[got'[c]].notified => loaded'[c].notified
    <3> SUFFICES ASSUME "notice" \notin crossed', NEW c \in Creates, pc'[c] = "commit",
                        got'[c] # 0, rows'[got'[c]].notified
                 PROVE  loaded'[c].notified
      OBVIOUS
    <3>1. pc[c] = "commit" /\ got'[c] = got[c] /\ loaded'[c] = loaded[c] /\ got[c] # 0
      BY <1>1
    <3>2. got[c] \in DOMAIN rows
      BY <3>1
    <3>3. rows[got[c]].notified
      BY <1>1, <3>1, <3>2
    <3> QED
      BY <1>1, <3>1, <3>3
  <2>4. SoonOnce' /\ RenewalIsAnnounced'
    BY <1>1
  <2> QED
    BY <2>1, <2>2, <2>3, <2>4
<1>2. ASSUME NEW c \in Creates, NEW body \in Bodies, Lookup(c, body) PROVE Goal
  <2>1. /\ pc' = [pc EXCEPT ![c] = "commit"] /\ pc[c] = "idle"
        /\ UNCHANGED <<rows, noticed, job, ending>> /\ crossed \subseteq crossed'
    BY <1>2 DEF Lookup
  <2>2. \/ UNCHANGED <<got, loaded>>
        \/ \E i \in DOMAIN rows : /\ got' = [got EXCEPT ![c] = i]
                                  /\ loaded' = [loaded EXCEPT ![c] = rows[i]]
    BY <1>2 DEF Lookup, existing, Active
  <2>3. CASE UNCHANGED <<got, loaded>>
    BY <2>1, <2>3
  <2>4. ASSUME NEW i \in DOMAIN rows, got' = [got EXCEPT ![c] = i],
               loaded' = [loaded EXCEPT ![c] = rows[i]]
        PROVE  Goal
    BY <2>1, <2>4
  <2> QED
    BY <2>2, <2>3, <2>4
<1>3. ASSUME NEW c \in Creates, upsert_active(c) PROVE Goal
  <2>0. /\ pc' = [pc EXCEPT ![c] = "done"] /\ pc[c] = "commit" /\ got' = [got EXCEPT ![c] = 0]
        /\ loaded' = [loaded EXCEPT ![c] = <<>>] /\ UNCHANGED <<job, ending, crossed>>
    BY <1>3 DEF upsert_active
  <2>1. CASE got[c] = 0
    <3>1. \A i \in DOMAIN rows' :
            \/ i \in DOMAIN rows /\ rows'[i] = rows[i] /\ noticed'[i] = noticed[i]
            \/ i = Len(rows) + 1 /\ ~rows'[i].notified /\ noticed'[i] = 0
      <4> DEFINE r == [status |-> want[c].status, expires |-> want[c].expires,
                       notified |-> FALSE, ended |-> "no"]
      <4>1. want[c] \in Bodies
        BY <2>0 DEF Typed, Held
      <4>2. r \in Row
        BY <4>1, DaysAssumption DEF Row, Bodies
      <4>3. rows' = Append(rows, r) /\ noticed' = Append(noticed, 0)
        BY <1>3, <2>1 DEF upsert_active
      <4>4. ~r.notified
        OBVIOUS
      <4> HIDE DEF r
      <4>5. /\ DOMAIN rows' = 1..Len(rows) + 1
            /\ \A i \in DOMAIN rows : rows'[i] = rows[i]
            /\ rows'[Len(rows) + 1] = r
        BY <4>2, <4>3, Lists
      <4>6. Len(noticed) = Len(rows)
        BY Lists
      <4>7. /\ \A i \in DOMAIN noticed : noticed'[i] = noticed[i]
            /\ noticed'[Len(noticed) + 1] = 0
        BY <4>3, Lists
      <4> QED
        BY <4>4, <4>5, <4>6, <4>7
    <3>2. /\ job = "noticing" => \A i \in ending : noticed'[i] = 0
          /\ \A d \in Creates : got[d] # 0 => rows'[got[d]] = rows[got[d]]
      <4>1. DOMAIN rows \subseteq DOMAIN rows'
        BY StepRows DEF RowsKept
      <4>2. \A d \in Creates : got[d] # 0 => got[d] \in DOMAIN rows
        OBVIOUS
      <4>3. \A i \in DOMAIN rows : rows'[i] = rows[i] /\ noticed'[i] = noticed[i]
        BY <3>1, <4>1
      <4> QED
        BY <4>2, <4>3
    <3> QED
      BY <2>0, <3>1, <3>2
  <2>2. CASE got[c] # 0
    <3> DEFINE k == got[c]
               r == renewed(rows[k], loaded[c], want[c])
    <3>1. k \in DOMAIN rows /\ rows[k] \in Row /\ loaded[c] \in Row /\ want[c] \in Bodies
      BY <2>0, <2>2 DEF Typed, Held
    <3>2. r.notified = IF loaded[c].notified THEN FALSE ELSE rows[k].notified
      BY <3>1 DEF renewed, Row, Bodies
    <3>3. rows' = [rows EXCEPT ![k] = r] /\ noticed' = [noticed EXCEPT ![k] = 0]
      BY <1>3, <2>2 DEF upsert_active
    <3>4. "notice" \notin crossed /\ rows[k].notified => loaded[c].notified
      BY <2>0, <2>2
    <3>5. loaded[c].notified \in BOOLEAN /\ rows[k].notified \in BOOLEAN
      BY <3>1 DEF Row
    <3>6. /\ DOMAIN rows' = DOMAIN rows /\ noticed'[k] = 0
          /\ "notice" \notin crossed => ~rows'[k].notified
          /\ rows'[k].notified => rows[k].notified
          /\ \A i \in DOMAIN rows \ {k} : rows'[i] = rows[i] /\ noticed'[i] = noticed[i]
      BY <3>1, <3>2, <3>3, <3>4, <3>5
    <3> HIDE DEF k, r
    <3>7. /\ \A i \in DOMAIN rows' : ~rows'[i].notified => noticed'[i] = 0
          /\ job' = "noticing" => \A i \in ending' : noticed'[i] = 0
      BY <2>0, <3>1, <3>6
    <3>8. SoonOnce' /\ RenewalIsAnnounced'
      <4>1. \A i \in DOMAIN rows' : i = k \/ i \in DOMAIN rows \ {k}
        BY <3>6
      <4>2. SoonOnce'
        BY <3>6, <4>1
      <4>3. RenewalIsAnnounced'
        BY <2>0, <3>6, <4>1
      <4> QED
        BY <4>2, <4>3
    <3>9. "notice" \notin crossed' => \A d \in Creates :
            pc'[d] = "commit" /\ got'[d] # 0 /\ rows'[got'[d]].notified => loaded'[d].notified
      <4> SUFFICES ASSUME "notice" \notin crossed', NEW d \in Creates, pc'[d] = "commit",
                          got'[d] # 0, rows'[got'[d]].notified
                   PROVE  loaded'[d].notified
        OBVIOUS
      <4>1. d # c /\ pc[d] = "commit" /\ got'[d] = got[d] /\ loaded'[d] = loaded[d]
        BY <2>0
      <4>2. got[d] \in DOMAIN rows
        BY <4>1
      <4>3. rows[got[d]].notified
        BY <3>6, <4>1, <4>2
      <4> QED
        BY <2>0, <4>1, <4>3
    <3> QED
      BY <3>7, <3>8, <3>9
  <2> QED
    BY <2>1, <2>2
<1>4. ASSUME NEW c \in Revokes, NEW i \in DOMAIN rows, Revoke(c, i) PROVE Goal
  BY <1>1, <1>4 DEF Revoke
<1>5. ASSUME NEW k \in DOMAIN rows, NEW reason \in {"revoked", "fix_available"}, end(k, reason)
      PROVE  /\ DOMAIN rows' = DOMAIN rows
             /\ \A i \in DOMAIN rows : rows'[i].notified = rows[i].notified
  BY <1>5 DEF end, Row
<1>6. ASSUME NEW c \in Revokes, RevokeCommit(c) PROVE Goal
  <2>1. pc[c] = "commit" /\ c \in Requests
    BY <1>6 DEF RevokeCommit
  <2>2. got[c] # 0 /\ got[c] \in 0..Len(rows)
    BY <2>1 DEF Typed, Held, ExceptionsTypeOK
  <2>3. got[c] \in DOMAIN rows /\ end(got[c], "revoked")
    BY <1>6, <2>2 DEF RevokeCommit
  <2>4. /\ DOMAIN rows' = DOMAIN rows
        /\ \A i \in DOMAIN rows : rows'[i].notified = rows[i].notified
    BY <1>5, <2>3
  <2> QED
    BY <1>1, <1>6, <2>4 DEF RevokeCommit
<1>7. ASSUME NEW c \in Revokes, RevokeRefile(c) PROVE Goal
  BY <1>1, <1>7 DEF RevokeRefile
<1>8. ASSUME NEW i \in DOMAIN rows, EndFixed(i) PROVE Goal
  <2>1. /\ DOMAIN rows' = DOMAIN rows
        /\ \A j \in DOMAIN rows : rows'[j].notified = rows[j].notified
    BY <1>5, <1>8 DEF EndFixed
  <2> QED
    BY <1>1, <1>8, <2>1 DEF EndFixed
<1>9. CASE EndDue
  <2>1. /\ DOMAIN rows' = DOMAIN rows
        /\ \A j \in DOMAIN rows : rows'[j].notified = rows[j].notified
    BY <1>9 DEF EndDue, Row
  <2> QED
    BY <1>1, <1>9, <2>1 DEF EndDue
<1>10. CASE ReadSoon
  BY <1>10 DEF ReadSoon, due_soon
<1>11. CASE MarkSoon
  <2>1. /\ DOMAIN rows' = DOMAIN rows /\ job = "noticing" /\ job' = "refile"
        /\ UNCHANGED <<pc, got, loaded>> /\ crossed \subseteq crossed'
        /\ \A c \in Creates : pc[c] = "commit" => "notice" \in crossed'
    BY <1>11 DEF MarkSoon
  <2>2. \A i \in DOMAIN rows : /\ i \in ending => rows'[i].notified /\ noticed'[i] = 1
                               /\ i \notin ending => rows'[i] = rows[i] /\ noticed'[i] = noticed[i]
    BY <1>11 DEF MarkSoon, Row
  <2>3. MarksAreNotices'
    BY <2>1, <2>2
  <2>4. SoonOnce'
    BY <2>1, <2>2
  <2>5. RenewalIsAnnounced'
    BY <2>1, <2>2
  <2> QED
    BY <2>3, <2>4, <2>5
<1>12. CASE JobStarts \/ ReadDue \/ JobRefiles \/ Restart
  BY <1>1, <1>12 DEF JobStarts, ReadDue, JobRefiles, Restart
<1>13. CASE FindingChanges \/ Tick \/ Terminating \/ UNCHANGED exceptionVars
  BY <1>1, <1>13 DEF FindingChanges, Tick, Terminating, exceptionVars
<1> QED
  BY <1>2, <1>3, <1>4, <1>6, <1>7, <1>8, <1>9, <1>10, <1>11, <1>12, <1>13 DEF ExceptionsNext

(* A request to create that meets no other commits over the row it found   *)
(* active, or finds none and adds one: nothing else makes a row active.    *)
LEMMA StepOneAtATime ==
  ASSUME Typed, Typed', [ExceptionsNext]_exceptionVars, OneAtATime
  PROVE  OneAtATime'
<1>0. /\ rows \in Seq(Row) /\ DOMAIN rows = 1..Len(rows) /\ Len(rows) \in Nat
      /\ \A i \in DOMAIN rows : rows[i] \in Row
      /\ pc \in [Requests -> {"idle", "commit", "refile", "done", "lost"}]
      /\ got \in [Requests -> Nat] /\ \A c \in Requests : got[c] <= Len(rows)
      /\ \A c \in Requests : pc[c] \notin {"commit", "refile"} => got[c] = 0
      /\ now \in Nat
  BY Lists DEF Typed, ExceptionsTypeOK, Held
<1> USE <1>0, ThreadsAssumption DEF Requests, ghosts, lifecycle, requests, Goto
<1>1. ASSUME DOMAIN rows' = DOMAIN rows,
             \A i \in DOMAIN rows : /\ rows'[i].expires = rows[i].expires
                                    /\ rows[i].ended # "no" => rows'[i].ended # "no",
             now' = now \/ now' = now + 1
      PROVE  Active' \subseteq Active
  BY <1>1 DEF Active, active, Lapsed, Row
<1>2. ASSUME Active' \subseteq Active, crossed \subseteq crossed',
             \A c \in Creates : pc'[c] = "commit" => pc[c] = "commit" /\ got'[c] = got[c]
      PROVE  OneAtATime'
  BY <1>2 DEF OneAtATime
<1>3. ASSUME rows' = rows, now' = now \/ now' = now + 1, crossed \subseteq crossed',
             \A c \in Creates : pc'[c] = "commit" => pc[c] = "commit" /\ got'[c] = got[c]
      PROVE  OneAtATime'
  <2>1. Active' \subseteq Active
    BY <1>1, <1>3
  <2> QED
    BY <1>2, <1>3, <2>1
<1>4. ASSUME NEW c \in Creates, NEW body \in Bodies, Lookup(c, body) PROVE OneAtATime'
  <2>1. /\ pc' = [pc EXCEPT ![c] = "commit"] /\ pc[c] = "idle" /\ Active' = Active
        /\ crossed \subseteq crossed'
        /\ "create" \notin crossed' => \A d \in Creates : pc[d] # "commit"
    BY <1>4 DEF Lookup, Active, active, Lapsed
  <2>2. \/ Active = {}
        \/ \E i \in Active : got' = [got EXCEPT ![c] = i]
    BY <1>4 DEF Lookup, existing
  <2> QED
    BY <2>1, <2>2 DEF OneAtATime
<1>5. ASSUME NEW c \in Creates, upsert_active(c) PROVE OneAtATime'
  <2>1. /\ pc' = [pc EXCEPT ![c] = "done"] /\ pc[c] = "commit" /\ UNCHANGED <<crossed, now>>
    BY <1>5 DEF upsert_active
  <2>2. "create" \notin crossed => /\ Active \subseteq {got[c]}
                                   /\ \A d \in Creates : pc[d] = "commit" => d = c
    BY <2>1 DEF OneAtATime
  <2>3. CASE got[c] = 0
    <3>1. Active' \subseteq Active \union {Len(rows) + 1}
      <4> DEFINE r == [status |-> want[c].status, expires |-> want[c].expires,
                       notified |-> FALSE, ended |-> "no"]
      <4>1. want[c] \in Bodies
        BY <2>1 DEF Typed, Held
      <4>2. r \in Row
        BY <4>1, DaysAssumption DEF Row, Bodies
      <4>3. rows' = Append(rows, r)
        BY <1>5, <2>3 DEF upsert_active
      <4> HIDE DEF r
      <4>4. /\ DOMAIN rows' = 1..Len(rows) + 1
            /\ \A i \in DOMAIN rows : rows'[i] = rows[i]
        BY <4>2, <4>3, Lists
      <4> QED
        BY <2>1, <4>4 DEF Active, active, Lapsed
    <3>2. 0 \notin Active
      BY DEF Active
    <3> QED
      BY <2>1, <2>2, <2>3, <3>1, <3>2 DEF OneAtATime
  <2>4. CASE got[c] # 0
    <3>1. Active' \subseteq Active \union {got[c]}
      <4>1. got[c] \in DOMAIN rows
        BY <2>4
      <4>2. rows' = [rows EXCEPT ![got[c]] = renewed(rows[got[c]], loaded[c], want[c])]
        BY <1>5, <2>4 DEF upsert_active
      <4>3. /\ DOMAIN rows' = DOMAIN rows
            /\ \A i \in DOMAIN rows \ {got[c]} : rows'[i] = rows[i]
        BY <4>2
      <4> QED
        BY <2>1, <4>3 DEF Active, active, Lapsed
    <3> QED
      BY <2>1, <2>2, <3>1 DEF OneAtATime
  <2> QED
    BY <2>3, <2>4
<1>6. ASSUME NEW k \in DOMAIN rows, NEW reason \in {"revoked", "fix_available"}, end(k, reason),
             now' = now
      PROVE  Active' \subseteq Active
  <2>1. /\ DOMAIN rows' = DOMAIN rows
        /\ \A i \in DOMAIN rows : /\ rows'[i].expires = rows[i].expires
                                  /\ rows[i].ended # "no" => rows'[i].ended # "no"
    BY <1>6 DEF end, Row
  <2> QED
    BY <1>1, <1>6, <2>1
<1>7. ASSUME NEW c \in Revokes, NEW i \in DOMAIN rows, Revoke(c, i) PROVE OneAtATime'
  BY <1>3, <1>7 DEF Revoke
<1>8. ASSUME NEW c \in Revokes, RevokeCommit(c) PROVE OneAtATime'
  <2>1. pc[c] = "commit" /\ c \in Requests
    BY <1>8 DEF RevokeCommit
  <2>2. got[c] # 0 /\ got[c] \in 0..Len(rows)
    BY <2>1 DEF Typed, Held, ExceptionsTypeOK
  <2>3. got[c] \in DOMAIN rows
    BY <2>2
  <2>4. Active' \subseteq Active
    BY <1>6, <1>8, <2>3 DEF RevokeCommit
  <2> QED
    BY <1>2, <1>8, <2>4 DEF RevokeCommit
<1>9. ASSUME NEW c \in Revokes, RevokeRefile(c) PROVE OneAtATime'
  BY <1>3, <1>9 DEF RevokeRefile
<1>10. ASSUME NEW i \in DOMAIN rows, EndFixed(i) PROVE OneAtATime'
  <2>1. Active' \subseteq Active
    BY <1>6, <1>10 DEF EndFixed
  <2> QED
    BY <1>2, <1>10, <2>1 DEF EndFixed
<1>11. CASE EndDue
  <2>1. /\ DOMAIN rows' = DOMAIN rows
        /\ \A i \in DOMAIN rows : /\ rows'[i].expires = rows[i].expires
                                  /\ rows[i].ended # "no" => rows'[i].ended # "no"
    BY <1>11 DEF EndDue, Row
  <2>2. Active' \subseteq Active
    BY <1>1, <1>11, <2>1 DEF EndDue
  <2> QED
    BY <1>2, <1>11, <2>2 DEF EndDue
<1>12. CASE MarkSoon
  <2>1. /\ DOMAIN rows' = DOMAIN rows
        /\ \A i \in DOMAIN rows : /\ rows'[i].expires = rows[i].expires
                                  /\ rows[i].ended # "no" => rows'[i].ended # "no"
    BY <1>12 DEF MarkSoon, Row
  <2>2. Active' \subseteq Active
    BY <1>1, <1>12, <2>1 DEF MarkSoon
  <2> QED
    BY <1>2, <1>12, <2>2 DEF MarkSoon
<1>13. CASE JobStarts \/ ReadDue \/ ReadSoon \/ JobRefiles \/ Restart
  BY <1>3, <1>13 DEF JobStarts, ReadDue, ReadSoon, JobRefiles, Restart
<1>14. CASE FindingChanges \/ Tick \/ Terminating \/ UNCHANGED exceptionVars
  BY <1>3, <1>14 DEF FindingChanges, Tick, Terminating, exceptionVars
<1> QED
  BY <1>4, <1>5, <1>7, <1>8, <1>9, <1>10, <1>11, <1>12, <1>13, <1>14 DEF ExceptionsNext
-----------------------------------------------------------------------------
(* The invariant, and with it every property of the requests and the job   *)
(* of finding_exceptions/repository.py and lifecycle.py, for any number of *)
(* requests, any notice period and any number of failures.                 *)
THEOREM ExceptionsInvHolds == ExceptionsSpec => []ExceptionsInv
<1>1. ExceptionsInit => ExceptionsInv
  BY InitInv
<1>2. ExceptionsInv /\ [ExceptionsNext]_exceptionVars => ExceptionsInv'
  BY StepTyped, StepExpired, StepShown, StepMarks, StepOneAtATime DEF ExceptionsInv
<1> QED
  BY <1>1, <1>2, PTL DEF ExceptionsSpec

(* The rows, the requests and the job keep to their domains.               *)
THEOREM ExceptionsTyped == ExceptionsSpec => []ExceptionsTypeOK
<1>1. ExceptionsInv => ExceptionsTypeOK
  BY DEF ExceptionsInv, Typed
<1> QED
  BY <1>1, ExceptionsInvHolds, PTL

(* upsert_active keeps one active exception of a finding, as long as two   *)
(* requests to create do not overlap.                                      *)
THEOREM OneIsActive == ExceptionsSpec => []OneActive
<1>1. ExceptionsInv => OneActive
  <2> SUFFICES ASSUME ExceptionsInv, "create" \notin crossed PROVE Cardinality(Active) <= 1
    BY DEF OneActive
  <2>1. \A i, j \in Active : i = j
    BY DEF ExceptionsInv, OneAtATime
  <2>2. CASE Active = {}
    BY <2>2, FS_EmptySet
  <2>3. ASSUME NEW i \in Active PROVE Cardinality(Active) <= 1
    <3>1. Active = {i}
      BY <2>1, <2>3
    <3>2. Cardinality({i}) = 1
      BY FS_Singleton
    <3> QED
      BY <3>1, <3>2
  <2> QED
    BY <2>2, <2>3
<1> QED
  BY <1>1, ExceptionsInvHolds, PTL

(* After expire_due of the daily job nothing that had expired when the job *)
(* started is left open, whatever requests did meanwhile.                  *)
THEOREM ExpiredEnd == ExceptionsSpec => []ExpiredAreEnded
<1>1. ExceptionsInv => ExpiredAreEnded
  BY DEF ExceptionsInv
<1> QED
  BY <1>1, ExceptionsInvHolds, PTL

(* due_soon and expiry_notified_at announce an approval at most once.      *)
THEOREM AnnouncedOnce == ExceptionsSpec => []SoonOnce
<1>1. ExceptionsInv => SoonOnce
  BY DEF ExceptionsInv
<1> QED
  BY <1>1, ExceptionsInvHolds, PTL

(* A renewal is announced anew, unless it crossed the job's notices.       *)
THEOREM RenewalsAreAnnounced == ExceptionsSpec => []RenewalIsAnnounced
<1>1. ExceptionsInv => RenewalIsAnnounced
  BY DEF ExceptionsInv
<1> QED
  BY <1>1, ExceptionsInvHolds, PTL

(* refile_issues shows every finding whose exception has ended, or it had  *)
(* no need to, or a call or the process failed.                            *)
THEOREM EndedAreShown == ExceptionsSpec => []EndedIsShown
<1>1. ExceptionsInv => EndedIsShown
  BY DEF ExceptionsInv
<1> QED
  BY <1>1, ExceptionsInvHolds, PTL

=============================================================================
