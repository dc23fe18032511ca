------------------------------ MODULE JobsProofs ------------------------------
(***************************************************************************)
(* What is proved of the jobs of MCJobs, one section for each: its         *)
(* inductive invariant, that every step keeps it, and at the end what it   *)
(* means for the job when it is the one that runs.                         *)
(***************************************************************************)
EXTENDS MCJobs, RulesProofs, FiniteSetTheorems, WellFoundedInduction, TLAPS

-----------------------------------------------------------------------------
(* The commit monitor.                                                      *)
(* Commits are numbered without gaps.                                      *)
Numbered == \E n \in 0..MaxPushed : Pushed = 1..n

(* A set of commits that has the parents of its members.                   *)
Upward(W) == \A e \in W : parent[e] \in W \union {0}

(* A commit leads to itself and to what its parent leads to.               *)
LEMMA HistoryStep ==
  ASSUME \A c \in Pushed : parent[c] \in Pushed \union {0}, 0 \notin Pushed
  PROVE  /\ History(0) = {}
         /\ \A c \in Pushed : History(c) = {c} \union History(parent[c])
<1> DEFINE least(d) == IF d = 0 THEN {}
                       ELSE {e \in Pushed : \A W \in SUBSET Pushed :
                                              Upward(W) /\ d \in W => e \in W}
           g == [d \in Pushed \union {0} |-> least(d)]
           up[d \in Pushed \union {0}] == IF d = 0 THEN {} ELSE {d} \union up[parent[d]]
<1>1. ASSUME NEW d \in Pushed PROVE least(d) = {d} \union least(parent[d])
  <2>1. d # 0 /\ parent[d] \in Pushed \union {0}
    OBVIOUS
  <2>2. d \in least(d)
    BY <2>1
  <2>3. ASSUME NEW e \in least(parent[d]) PROVE e \in least(d)
    <3>1. parent[d] # 0
      BY <2>3
    <3>2. e \in Pushed
      BY <2>3, <3>1
    <3>3. ASSUME NEW W \in SUBSET Pushed, Upward(W), d \in W PROVE e \in W
      <4>1. parent[d] \in W
        BY <3>1, <3>3 DEF Upward
      <4> QED
        BY <2>3, <3>1, <3>3, <4>1
    <3> QED
      BY <2>1, <3>2, <3>3
  <2>4. ASSUME NEW e \in least(d), e # d PROVE e \in least(parent[d])
    <3>1. e \in Pushed /\ \A W \in SUBSET Pushed : Upward(W) /\ d \in W => e \in W
      BY <2>1, <2>4
    <3>2. parent[d] # 0
      <4>1. SUFFICES ASSUME parent[d] = 0 PROVE FALSE
        OBVIOUS
      <4>2. {d} \in SUBSET Pushed /\ Upward({d})
        BY <4>1 DEF Upward
      <4> QED
        BY <2>4, <3>1, <4>2
    <3>3. ASSUME NEW W \in SUBSET Pushed, Upward(W), parent[d] \in W PROVE e \in W
      <4>1. W \union {d} \in SUBSET Pushed /\ Upward(W \union {d})
        BY <3>3 DEF Upward
      <4> QED
        BY <2>4, <3>1, <4>1
    <3> QED
      BY <3>1, <3>2, <3>3
  <2> QED
    BY <2>2, <2>3, <2>4
<1>2. g = [d \in Pushed \union {0} |-> IF d = 0 THEN {} ELSE {d} \union g[parent[d]]]
  <2>1. \A d \in Pushed \union {0} : parent[d] \in Pushed \union {0} \/ d = 0
    OBVIOUS
  <2>2. \A d \in Pushed \union {0} : least(d) = IF d = 0 THEN {} ELSE {d} \union least(parent[d])
    BY <1>1
  <2> HIDE DEF least
  <2> QED
    BY <2>1, <2>2
<1>3. up = [d \in Pushed \union {0} |-> IF d = 0 THEN {} ELSE {d} \union up[parent[d]]]
  <2> HIDE DEF g
  <2> QED
    BY <1>2
<1>4. \A c : History(c) = up[c]
  BY DEF History
<1> HIDE DEF up
<1> QED
  BY <1>3, <1>4

(* Where every property of the commits fails, it fails for a first one.    *)
LEMMA FirstCommit ==
  ASSUME NEW Bad, Bad \subseteq Nat, Bad # {}
  PROVE  \E c \in Bad : \A d \in Bad : ~(d < c)
<1>1. IsWellFoundedOn(OpToRel(<, Nat), Nat)
  BY NatLessThanWellFounded
<1>2. PICK c \in Bad : \A d \in Bad : ~(<<d, c>> \in OpToRel(<, Nat))
  BY <1>1, WFMin
<1> QED
  BY <1>2 DEF OpToRel

(* The numbers are those of CommitWatchTypeOK, and parents come first.     *)
LEMMA Parents ==
  ASSUME CommitWatchTypeOK, Numbered
  PROVE  /\ Pushed \subseteq Nat /\ 0 \notin Pushed
         /\ \A c \in Pushed : /\ parent[c] \in Pushed \union {0}
                              /\ parent[c] \in Nat /\ parent[c] < c
<1>1. PICK n \in 0..MaxPushed : Pushed = 1..n
  BY DEF Numbered
<1>2. n \in Nat
  BY CommitWatchAssumption
<1>3. \A c \in 1..n : parent[c] \in 0..(c - 1)
  BY <1>1 DEF CommitWatchTypeOK
<1>4. \A c \in 1..n : c \in Nat /\ parent[c] \in Nat /\ parent[c] < c
                      /\ parent[c] \in (1..n) \union {0}
  BY <1>2, <1>3
<1> QED
  BY <1>1, <1>2, <1>4

(* What a commit leads to are commits.                                     *)
LEMMA HistoryIsPushed ==
  ASSUME CommitWatchTypeOK, Numbered
  PROVE  \A c \in Pushed \union {0} : History(c) \subseteq Pushed
<1> DEFINE Bad == {c \in Pushed : ~(History(c) \subseteq Pushed)}
<1>1. /\ Pushed \subseteq Nat /\ 0 \notin Pushed
      /\ \A c \in Pushed : /\ parent[c] \in Pushed \union {0}
                           /\ parent[c] \in Nat /\ parent[c] < c
  BY Parents
<1>2. /\ History(0) = {}
      /\ \A c \in Pushed : History(c) = {c} \union History(parent[c])
  BY <1>1, HistoryStep
<1>3. ASSUME Bad # {} PROVE FALSE
  <2>1. PICK c \in Bad : \A d \in Bad : ~(d < c)
    BY <1>1, <1>3, FirstCommit
  <2>2. History(parent[c]) \subseteq Pushed
    BY <1>1, <1>2, <2>1
  <2> QED
    BY <1>2, <2>1, <2>2
<1> QED
  BY <1>2, <1>3

(* Both at once.                                                           *)
Ancestry ==
    /\ Pushed \subseteq Nat /\ 0 \notin Pushed /\ History(0) = {}
    /\ \A c \in Pushed : /\ parent[c] \in Pushed \union {0}
                         /\ parent[c] \in Nat /\ parent[c] < c
                         /\ History(c) = {c} \union History(parent[c])

(* It holds whenever the commits are numbered.                             *)
LEMMA Ancestors == CommitWatchTypeOK /\ Numbered => Ancestry
BY Parents, HistoryStep DEF Ancestry

(* A new commit changes nothing before the others.                         *)
LEMMA PushKeepsHistory ==
  ASSUME CommitWatchTypeOK, Numbered, CommitWatchTypeOK', Numbered',
         Pushed \subseteq Pushed', \A c \in Pushed : parent'[c] = parent[c]
  PROVE  \A c \in Pushed \union {0} : History(c)' = History(c)
<1> DEFINE Bad == {c \in Pushed : History(c)' # History(c)}
<1>1. /\ Pushed \subseteq Nat /\ 0 \notin Pushed /\ History(0) = {}
      /\ \A c \in Pushed : /\ parent[c] \in Pushed \union {0}
                           /\ parent[c] \in Nat /\ parent[c] < c
                           /\ History(c) = {c} \union History(parent[c])
  BY Ancestors DEF Ancestry
<1>2. Ancestry'
  BY Ancestors, PTL
<1>3. /\ History(0)' = {}
      /\ \A c \in Pushed' : History(c)' = {c} \union History(parent[c])'
  BY <1>2 DEF Ancestry
<1>4. ASSUME Bad # {} PROVE FALSE
  <2>1. PICK c \in Bad : \A d \in Bad : ~(d < c)
    BY <1>1, <1>4, FirstCommit
  <2>2. c \in Pushed /\ parent[c] \in Pushed \union {0} /\ parent[c] < c
    BY <1>1, <2>1
  <2>3. PICK d : d = parent[c]
    OBVIOUS
  <2>4. History(d)' = History(d)
    BY <1>1, <1>3, <2>1, <2>2, <2>3
  <2> QED
    BY <1>1, <1>3, <2>1, <2>2, <2>3, <2>4
<1> QED
  BY <1>1, <1>3, <1>4

CommitWatchInv == CommitWatchTypeOK /\ Numbered /\ NothingPassesUnseen

(* Nothing is pushed at first.                                             *)
LEMMA InitCommitWatch == CommitWatchInit => CommitWatchInv
<1> SUFFICES ASSUME CommitWatchInit PROVE CommitWatchInv
  OBVIOUS
<1>1. Pushed = {} /\ authored \in [Pushed -> Authored]
  BY DEF CommitWatchInit, Pushed
<1>2. CommitWatchTypeOK
  BY <1>1, CommitWatchAssumption DEF CommitWatchInit, CommitWatchTypeOK
<1>3. Numbered
  BY <1>1, CommitWatchAssumption DEF Numbered
<1>4. History(0) = {}
  BY <1>2, <1>3, Ancestors DEF Ancestry
<1>5. NothingPassesUnseen
  BY <1>4 DEF CommitWatchInit, NothingPassesUnseen
<1> QED
  BY <1>2, <1>3, <1>5 DEF CommitWatchInv

(* A push adds the next number.                                            *)
LEMMA PushAdds ==
  ASSUME CommitWatchInv, NEW r \in WatchedRepos, NEW like \in Authored, Push(r, like)
  PROVE  /\ CommitWatchTypeOK' /\ Numbered' /\ Pushed \subseteq Pushed'
         /\ \A c \in Pushed : parent'[c] = parent[c] /\ authored'[c] = authored[c]
<1>1. PICK n \in 0..MaxPushed : Pushed = 1..n
  BY DEF CommitWatchInv, Numbered
<1>2. n \in Nat /\ MaxPushed \in Nat
  BY CommitWatchAssumption
<1>3. Cardinality(Pushed) = n
  <2>1. Cardinality(1..n) = IF 1 > n THEN 0 ELSE n - 1 + 1
    BY <1>2, FS_Interval
  <2> QED
    BY <1>1, <1>2, <2>1
<1>4. PICK under \in History(head[r]) \union {0} :
        /\ parent' = [c \in 1..n + 1 |-> IF c = n + 1 THEN under ELSE parent[c]]
        /\ authored' = [c \in 1..n + 1 |-> IF c = n + 1 THEN like ELSE authored[c]]
        /\ n + 1 <= MaxPushed /\ head' = [head EXCEPT ![r] = n + 1]
        /\ UNCHANGED <<deleted, last_sha, watch, unwatched, looking, alerts, troubles, told,
                       untold, firstSha>>
  BY <1>3 DEF Push
<1>5. under \in Pushed \union {0}
  <2>1. head[r] \in Pushed \union {0}
    BY DEF CommitWatchInv, CommitWatchTypeOK
  <2> QED
    BY <2>1, HistoryIsPushed DEF CommitWatchInv
<1>6. Pushed' = 1..n + 1
  BY <1>4 DEF Pushed
<1>7. Pushed \subseteq Pushed' /\ n + 1 \in Pushed' /\ n + 1 \notin Pushed
      /\ Pushed' \subseteq 1..MaxPushed
  BY <1>1, <1>2, <1>4, <1>6
<1>8. Numbered'
  BY <1>2, <1>4, <1>6 DEF Numbered
<1>9. \A c \in Pushed : parent'[c] = parent[c] /\ authored'[c] = authored[c]
  BY <1>4, <1>6, <1>7
<1>10. CommitWatchTypeOK'
  <2>1. authored' \in [Pushed' -> Authored]
    <3>1. \A c \in 1..n + 1 : c # n + 1 => authored[c] \in Authored
      <4>1. \A c \in 1..n + 1 : c # n + 1 => c \in Pushed
        BY <1>1, <1>2
      <4> QED
        BY <4>1 DEF CommitWatchInv, CommitWatchTypeOK
    <3> QED
      BY <1>4, <1>6, <3>1
  <2>2. \A c \in Pushed' : parent'[c] \in 0..(c - 1)
    <3>1. \A c \in Pushed : parent'[c] \in 0..(c - 1)
      BY <1>9 DEF CommitWatchInv, CommitWatchTypeOK
    <3>2. parent'[n + 1] = under /\ under \in 0..n
      BY <1>1, <1>2, <1>4, <1>5, <1>6, <1>7
    <3>3. \A c \in Pushed' : c \in Pushed \/ c = n + 1
      BY <1>1, <1>2, <1>6
    <3> QED
      BY <1>2, <3>1, <3>2, <3>3
  <2>3. AlertsOver(Pushed) \subseteq AlertsOver(Pushed')
    BY <1>7 DEF AlertsOver
  <2> QED
    BY <1>4, <1>7, <2>1, <2>2, <2>3 DEF CommitWatchInv, CommitWatchTypeOK
<1> QED
  BY <1>7, <1>8, <1>9, <1>10

(* Every other step leaves the commits alone.                              *)
LEMMA OthersKeepCommits ==
  ASSUME CommitWatchInv, [CommitWatchNext]_watchVars
  PROVE  \/ UNCHANGED <<parent, authored>>
         \/ \E r \in WatchedRepos, like \in Authored : Push(r, like)
BY DEF CommitWatchNext, head_sha, Delete, Reset, Watch, CompareAndCommit, CallFails, Scanned,
       SendAlerts, RunLost, CommitWatchHorizon, watchVars

(* What inspect_repo tells is about the repository and the way it went.    *)
LEMMA Inspected ==
  ASSUME CommitWatchInv, NEW r \in WatchedRepos, NEW base \in Pushed, NEW h \in Pushed
  PROVE  /\ inspect_repo(r, base, h) \subseteq AlertsOver(Pushed)
         /\ \A c \in History(h) :
              \/ c \in History(base) \/ routine(c)
              \/ \E a \in inspect_repo(r, base, h) :
                   /\ a.repo = r
                   /\ \/ a.kind = "commit" /\ a.sha = c
                      \/ a.kind # "commit" /\ c \in History(a.sha)
<1> DEFINE since == History(h) \ History(base)
           about(kind, cs) == {[kind |-> kind, repo |-> r, sha |-> c] : c \in cs}
<1>1. since \subseteq Pushed
  BY HistoryIsPushed DEF CommitWatchInv
<1>2. inspect_repo(r, base, h) =
        IF rewritten(base, h) THEN about("history_rewritten", {h})
        ELSE about("commit", {c \in FirstOf(since) : ~routine(c)})
             \union about("truncated", {c \in {h} : beyond_limit(since)})
  BY DEF inspect_repo
<1>3. FirstOf(since) \subseteq since
  BY DEF FirstOf
<1>4. ASSUME NEW kind \in AlertKinds, NEW cs \in SUBSET Pushed
      PROVE  about(kind, cs) \subseteq AlertsOver(Pushed)
  BY DEF AlertsOver
<1>5. inspect_repo(r, base, h) \subseteq AlertsOver(Pushed)
  <2>1. {"history_rewritten", "commit", "truncated"} \subseteq AlertKinds
    BY DEF AlertKinds
  <2>2. /\ {h} \in SUBSET Pushed /\ {c \in FirstOf(since) : ~routine(c)} \in SUBSET Pushed
        /\ {c \in {h} : beyond_limit(since)} \in SUBSET Pushed
    BY <1>1, <1>3
  <2>3. /\ about("history_rewritten", {h}) \subseteq AlertsOver(Pushed)
        /\ about("commit", {c \in FirstOf(since) : ~routine(c)}) \subseteq AlertsOver(Pushed)
        /\ about("truncated", {c \in {h} : beyond_limit(since)}) \subseteq AlertsOver(Pushed)
    <3> HIDE DEF about, since
    <3> QED
      BY <1>4, <2>1, <2>2
  <2> HIDE DEF about, since
  <2> QED
    BY <1>2, <2>3
<1>6. ASSUME NEW c \in History(h), c \notin History(base), ~routine(c)
      PROVE  \E a \in inspect_repo(r, base, h) :
                   /\ a.repo = r
                   /\ \/ a.kind = "commit" /\ a.sha = c
                      \/ a.kind # "commit" /\ c \in History(a.sha)
  <2> DEFINE A(kind, s) == [kind |-> kind, repo |-> r, sha |-> s]
  <2>1. CASE rewritten(base, h)
    <3>1. A("history_rewritten", h) \in inspect_repo(r, base, h)
      BY <1>2, <2>1
    <3> QED
      BY <1>6, <3>1
  <2>2. CASE ~rewritten(base, h) /\ beyond_limit(since)
    <3>1. A("truncated", h) \in inspect_repo(r, base, h)
      BY <1>2, <2>2
    <3> QED
      BY <1>6, <3>1
  <2>3. CASE ~rewritten(base, h) /\ ~beyond_limit(since)
    <3>1. c \in FirstOf(since)
      BY <1>6, <2>3 DEF beyond_limit
    <3>2. A("commit", c) \in inspect_repo(r, base, h)
      BY <1>2, <1>6, <2>3, <3>1
    <3> QED
      BY <3>2
  <2> QED
    BY <2>1, <2>2, <2>3
<1> QED
  BY <1>5, <1>6

(* Every step keeps every variable in its domain.                          *)
LEMMA StepWatchTyped ==
  ASSUME CommitWatchInv, [CommitWatchNext]_watchVars
  PROVE  CommitWatchTypeOK' /\ Numbered'
<1> DEFINE Goal == CommitWatchTypeOK' /\ Numbered'
<1> SUFFICES Goal
  OBVIOUS
<1>0. CommitWatchTypeOK /\ Numbered
  BY DEF CommitWatchInv
<1>1. ASSUME UNCHANGED parent PROVE Pushed' = Pushed /\ Numbered'
  BY <1>0, <1>1 DEF Pushed, Numbered
<1>2. ASSUME NEW r \in WatchedRepos, NEW like \in Authored, Push(r, like) PROVE Goal
  BY <1>2, PushAdds
<1> USE <1>0, <1>1, CommitWatchAssumption DEF CommitWatchTypeOK, NoLook, Trouble
<1>3. ASSUME NEW r \in WatchedRepos, head_sha(r) PROVE Goal
  <2>1. head[r] # 0 => head[r] \in Pushed
    OBVIOUS
  <2> QED
    BY <1>3, <2>1 DEF head_sha
<1>4. ASSUME NEW c \in Pushed, Delete(c) PROVE Goal
  BY <1>4 DEF Delete
<1>5. ASSUME NEW c \in Pushed, NEW r \in WatchedRepos, Reset(r, c) PROVE Goal
  BY <1>5 DEF Reset
<1>6. CASE Watch \/ CallFails \/ Scanned \/ RunLost \/ UNCHANGED watchVars
  <2>1. UNCHANGED <<parent, authored, head, deleted, last_sha, told, firstSha>>
        /\ alerts' \subseteq alerts
    BY <1>6 DEF Watch, CallFails, Scanned, RunLost, watchVars
  <2>2. /\ watch' \in {"idle", "scanning", "sending"} /\ unwatched' \subseteq WatchedRepos
        /\ looking' = looking \/ looking' = NoLook
        /\ troubles' \in 0..MaxTroubles
    BY <1>6 DEF Watch, CallFails, Scanned, RunLost, watchVars
  <2>3. untold' \subseteq WatchedRepos
    <3>1. \A a \in alerts : a.repo \in WatchedRepos
      BY DEF AlertsOver
    <3> QED
      BY <1>6, <3>1 DEF Watch, CallFails, Scanned, RunLost, watchVars
  <2> QED
    BY <2>1, <2>2, <2>3
<1>7. ASSUME NEW ok \in BOOLEAN, SendAlerts(ok) PROVE Goal
  <2>1. \A a \in alerts : a.repo \in WatchedRepos
    BY DEF AlertsOver
  <2>2. /\ watch' = "idle" /\ alerts' = {} /\ told' \subseteq told \union alerts
        /\ untold' = untold \/ untold' = untold \union {a.repo : a \in alerts}
        /\ UNCHANGED <<parent, authored, head, deleted, last_sha, unwatched, looking, firstSha>>
    BY <1>7 DEF SendAlerts
  <2>3. troubles' = troubles \/ Trouble
    BY <1>7 DEF SendAlerts
  <2>4. troubles' \in 0..MaxTroubles
    BY <2>3
  <2>5. untold' \subseteq WatchedRepos /\ Pushed' = Pushed /\ Numbered'
    BY <2>1, <2>2
  <2>6. alerts' \union told' \subseteq AlertsOver(Pushed')
    BY <2>2, <2>5
  <2> QED
    BY <2>2, <2>4, <2>5, <2>6
<1>8. CASE CompareAndCommit
  <2>1. /\ looking.repo \in WatchedRepos /\ looking.sha \in Pushed
        /\ last_sha[looking.repo] \in Pushed \union {0}
    BY <1>8 DEF CompareAndCommit
  <2>2. last_sha[looking.repo] # 0 =>
          inspect_repo(looking.repo, last_sha[looking.repo], looking.sha)
            \subseteq AlertsOver(Pushed)
    BY <2>1, Inspected
  <2>3. alerts' \subseteq AlertsOver(Pushed)
    BY <1>8, <2>2 DEF CompareAndCommit
  <2>4. /\ last_sha' \in [WatchedRepos -> Pushed \union {0}]
        /\ firstSha' \in [WatchedRepos -> Pushed \union {0}]
        /\ looking' = NoLook
        /\ UNCHANGED <<parent, authored, head, deleted, watch, unwatched, troubles, told, untold>>
    BY <1>8, <2>1 DEF CompareAndCommit
  <2>5. Pushed' = Pushed /\ Numbered'
    BY <2>4
  <2>6. alerts' \union told' \subseteq AlertsOver(Pushed')
    BY <2>3, <2>4, <2>5
  <2> QED
    BY <2>4, <2>5, <2>6
<1> QED
  BY <1>2, <1>3, <1>4, <1>5, <1>6, <1>7, <1>8 DEF CommitWatchNext, CommitWatchHorizon

(* Accounts carry over to a state in which no less has been found and the  *)
(* commits are the same.                                                   *)
LEMMA AccountsKept ==
  ASSUME CommitWatchInv,
         CommitWatchTypeOK', Numbered', Pushed \subseteq Pushed',
         \A c \in Pushed : parent'[c] = parent[c] /\ authored'[c] = authored[c],
         UNCHANGED <<last_sha, alerts, told, untold, firstSha>>
  PROVE  NothingPassesUnseen'
<1>1. \A c \in Pushed \union {0} : History(c)' = History(c) /\ History(c) \subseteq Pushed
  BY PushKeepsHistory, HistoryIsPushed DEF CommitWatchInv
<1>2. \A c \in Pushed : routine(c)' = routine(c)
  BY DEF routine, is_trusted, find_risky_changes, is_incomplete
<1> SUFFICES ASSUME NEW r \in WatchedRepos \ untold, NEW c \in History(last_sha[r])',
                    ~routine(c)', c \notin History(firstSha[r])'
             PROVE  Accounted(r, c)'
  BY DEF NothingPassesUnseen
<1>3. PICK last \in Pushed \union {0}, first \in Pushed \union {0} :
        last = last_sha[r] /\ first = firstSha[r] /\ last_sha'[r] = last /\ firstSha'[r] = first
  BY DEF CommitWatchInv, CommitWatchTypeOK
<1>4. c \in History(last) /\ c \notin History(first) /\ c \in Pushed /\ ~routine(c)
  <2>1. History(last)' = History(last) /\ History(first)' = History(first)
    BY <1>1
  <2>2. c \in History(last)' /\ c \notin History(first)'
    BY <1>3
  <2> QED
    BY <1>1, <1>2, <2>1, <2>2
<1>5. Accounted(r, c)
  BY <1>3, <1>4 DEF CommitWatchInv, NothingPassesUnseen
<1>6. PICK a \in Found : /\ a.repo = r
                         /\ \/ a.kind = "commit" /\ a.sha = c
                            \/ a.kind # "commit" /\ c \in History(a.sha)
  BY <1>5 DEF Accounted
<1>7. PICK s \in Pushed : s = a.sha
  BY <1>6 DEF CommitWatchInv, CommitWatchTypeOK, Found, AlertsOver
<1>8. a \in Found' /\ History(s)' = History(s)
  BY <1>1, <1>6 DEF Found
<1>9. a.kind # "commit" => c \in History(s)'
  BY <1>6, <1>7, <1>8
<1> QED
  BY <1>6, <1>7, <1>8, <1>9 DEF Accounted

(* Every step accounts for what it passes.                                 *)
LEMMA StepCommitWatch == CommitWatchInv /\ [CommitWatchNext]_watchVars => CommitWatchInv'
<1> SUFFICES ASSUME CommitWatchInv, [CommitWatchNext]_watchVars PROVE NothingPassesUnseen'
  BY StepWatchTyped DEF CommitWatchInv
<1>0. CommitWatchTypeOK' /\ Numbered'
  BY StepWatchTyped
<1>1. ASSUME UNCHANGED <<last_sha, alerts, told, untold, firstSha>> PROVE NothingPassesUnseen'
  <2>1. Pushed \subseteq Pushed' /\ \A c \in Pushed : parent'[c] = parent[c]
                                                      /\ authored'[c] = authored[c]
    BY OthersKeepCommits, PushAdds DEF Pushed
  <2> QED
    BY <1>0, <1>1, <2>1, AccountsKept
<1>2. ASSUME UNCHANGED <<parent, authored>>
      PROVE  /\ \A c : History(c)' = History(c) /\ routine(c)' = routine(c)
  BY <1>2 DEF History, Pushed, routine, is_trusted, find_risky_changes, is_incomplete
<1>3. ASSUME UNCHANGED <<parent, authored, last_sha, firstSha>>, untold \subseteq untold',
             \A a \in Found : a \in Found' \/ a.repo \in untold'
      PROVE  NothingPassesUnseen'
  <2>1. \A c : History(c)' = History(c) /\ routine(c)' = routine(c)
    BY <1>2, <1>3
  <2> SUFFICES ASSUME NEW r \in WatchedRepos \ untold', NEW c \in History(last_sha[r]),
                      ~routine(c), c \notin History(firstSha[r])
               PROVE  Accounted(r, c)'
    BY <1>3, <2>1 DEF NothingPassesUnseen
  <2>2. Accounted(r, c)
    BY <1>3 DEF CommitWatchInv, NothingPassesUnseen
  <2>3. PICK a \in Found : /\ a.repo = r
                           /\ \/ a.kind = "commit" /\ a.sha = c
                              \/ a.kind # "commit" /\ c \in History(a.sha)
    BY <2>2 DEF Accounted
  <2>4. a \in Found' /\ History(a.sha)' = History(a.sha)
    BY <1>3, <2>1, <2>3
  <2> QED
    BY <2>3, <2>4 DEF Accounted
<1>4. ASSUME NEW ok \in BOOLEAN, SendAlerts(ok) PROVE NothingPassesUnseen'
  BY <1>3, <1>4 DEF SendAlerts, Found
<1>5. CASE RunLost
  BY <1>3, <1>5 DEF RunLost, Found
<1>6. CASE CompareAndCommit
  <2> DEFINE r == looking.repo
             h == looking.sha
             base == last_sha[r]
             asks == base # 0 /\ base # h
  <2>1. /\ r \in WatchedRepos /\ h \in Pushed /\ base \in Pushed \union {0} /\ 0 \notin Pushed
    BY <1>6, Ancestors DEF CompareAndCommit, CommitWatchInv, CommitWatchTypeOK, Ancestry
  <2>2. CASE UNCHANGED <<alerts, last_sha, firstSha>>
    BY <1>1, <1>6, <2>2 DEF CompareAndCommit
  <2>3. CASE /\ alerts' = alerts \union (IF asks THEN inspect_repo(r, base, h) ELSE {})
             /\ last_sha' = [last_sha EXCEPT ![r] = h]
             /\ firstSha' = [firstSha EXCEPT ![r] = IF base = 0 THEN h ELSE @]
    <3>1. UNCHANGED <<parent, authored, told, untold>>
      BY <1>6 DEF CompareAndCommit
    <3>2. /\ \A c : History(c)' = History(c) /\ routine(c)' = routine(c)
          /\ Found \subseteq Found' /\ (asks => inspect_repo(r, base, h) \subseteq Found')
      BY <1>2, <2>3, <3>1 DEF Found
    <3>3. \A q \in WatchedRepos : \A c : Accounted(q, c) => Accounted(q, c)'
      <4> SUFFICES ASSUME NEW q \in WatchedRepos, NEW c, Accounted(q, c)
                   PROVE  Accounted(q, c)'
        OBVIOUS
      <4>1. PICK a \in Found : /\ a.repo = q
                               /\ \/ a.kind = "commit" /\ a.sha = c
                                  \/ a.kind # "commit" /\ c \in History(a.sha)
        BY DEF Accounted
      <4>2. a \in Found' /\ History(a.sha)' = History(a.sha)
        BY <3>2
      <4> QED
        BY <4>1, <4>2 DEF Accounted
    <3> SUFFICES ASSUME NEW q \in WatchedRepos \ untold, NEW c,
                        c \in History(last_sha'[q]), ~routine(c), c \notin History(firstSha'[q])
                 PROVE  Accounted(q, c)'
      <4>1. \A q \in WatchedRepos :
              /\ History(last_sha[q])' = History(last_sha'[q])
              /\ History(firstSha[q])' = History(firstSha'[q])
        BY <3>1 DEF History, Pushed
      <4> QED
        BY <3>1, <3>2, <4>1 DEF NothingPassesUnseen
    <3>4. CASE q # r
      <4>1. last_sha'[q] = last_sha[q] /\ firstSha'[q] = firstSha[q]
        BY <2>3, <3>4 DEF CommitWatchInv, CommitWatchTypeOK
      <4> QED
        BY <3>3, <4>1 DEF CommitWatchInv, NothingPassesUnseen
    <3>5. CASE q = r
      <4>1. last_sha'[r] = h /\ firstSha'[r] = IF base = 0 THEN h ELSE firstSha[r]
        BY <2>1, <2>3 DEF CommitWatchInv, CommitWatchTypeOK
      <4>2. base # 0 /\ firstSha'[r] = firstSha[r]
        BY <3>5, <4>1
      <4>3. c \in History(base) => Accounted(r, c)
        BY <3>5, <4>2 DEF CommitWatchInv, NothingPassesUnseen
      <4>4. CASE base = h
        BY <3>3, <3>5, <4>1, <4>3, <4>4
      <4>5. CASE base # h
        <5>1. \/ c \in History(base)
              \/ \E a \in inspect_repo(r, base, h) :
                   /\ a.repo = r
                   /\ \/ a.kind = "commit" /\ a.sha = c
                      \/ a.kind # "commit" /\ c \in History(a.sha)
          BY <2>1, <3>5, <4>1, <4>2, Inspected
        <5>2. CASE c \in History(base)
          BY <3>3, <3>5, <4>3, <5>2
        <5>3. ASSUME NEW a \in inspect_repo(r, base, h), a.repo = r,
                     \/ a.kind = "commit" /\ a.sha = c
                     \/ a.kind # "commit" /\ c \in History(a.sha)
              PROVE  Accounted(q, c)'
          <6>1. a \in Found' /\ History(a.sha)' = History(a.sha) /\ a.repo = q
            BY <3>2, <3>5, <4>2, <4>5, <5>3
          <6> QED
            BY <5>3, <6>1 DEF Accounted
        <5> QED
          BY <5>1, <5>2, <5>3
      <4> QED
        BY <4>4, <4>5
    <3> QED
      BY <3>4, <3>5
  <2> QED
    BY <1>6, <2>2, <2>3 DEF CompareAndCommit
<1> QED
  BY <1>1, <1>4, <1>5, <1>6
  DEF CommitWatchNext, head_sha, Push, Delete, Reset, Watch, CallFails, Scanned, CommitWatchHorizon,
      watchVars

-----------------------------------------------------------------------------
(* The feeds KEV and OSV.                                                   *)
(* What is firm is listed, and no run under way would delete its row.      *)
FirmIsKnown ==
    /\ firm \subseteq kev \intersect catalogue
    /\ \A c \in firm, q \in FeedRuns : kevRun[q] # "idle" => c \in current_cve_ids[q]
                                                          \/ current_cve_ids[q] = {}

(* An entry expires after its row was kept.                                *)
KeptIsStored ==
    \A v \in Entries : kept[v] >= feedDay - FeedRetention => osv[v] >= kept[v]

FeedsInv == FeedsTypeOK /\ FirmIsKnown /\ KeptIsStored

(* Nothing is listed or stored at first.                                   *)
LEMMA InitFeeds == FeedsInit => FeedsInv
<1> SUFFICES ASSUME FeedsInit PROVE FeedsInv
  OBVIOUS
<1>1. -1 \in Stamps /\ 0 \in (-Window)..LastDay /\ 0 \in 0..LastDay /\ 0 \in 0..MaxOutages
  BY FeedsAssumption DEF Stamps
<1>2. Idle \in [running : BOOLEAN, left : SUBSET Ecosystems]
  BY DEF Idle
<1>3. FeedsTypeOK
  <2> HIDE DEF Idle
  <2> QED
    BY <1>1, <1>2 DEF FeedsInit, FeedsTypeOK
<1>4. FirmIsKnown /\ KeptIsStored
  BY DEF FeedsInit, FirmIsKnown, KeptIsStored
<1> QED
  BY <1>3, <1>4 DEF FeedsInv

(* Every step keeps every variable in its domain.                          *)
LEMMA StepFeedsTyped == FeedsTypeOK /\ [FeedsNext]_feedVars => FeedsTypeOK'
<1> SUFFICES ASSUME FeedsTypeOK, [FeedsNext]_feedVars PROVE FeedsTypeOK'
  OBVIOUS
<1>0. /\ \A k \in FeedRuns : osvRun[k].running \in BOOLEAN /\ osvRun[k].left \subseteq Ecosystems
      /\ feedDay \in Nat /\ feedDay <= LastDay
      /\ LastDay \in Nat /\ MaxOutages \in Nat /\ Window \in Nat
  BY FeedsAssumption DEF FeedsTypeOK
<1> DEFINE Osv == /\ modified \in [Entries -> Stamps] /\ osv \in [Entries -> Stamps]
                  /\ kept \in [Entries -> Stamps]
                  /\ osvRun \in [FeedRuns -> [running : BOOLEAN, left : SUBSET Ecosystems]]
                  /\ cutoff \in [FeedRuns -> (-Window)..LastDay]
                  /\ refs \in [FeedRuns -> SUBSET (Entries \X Stamps)]
                  /\ records \in [FeedRuns -> SUBSET (Entries \X Stamps)]
           Kev == /\ catalogue \subseteq Cves /\ kev \subseteq Cves /\ firm \subseteq Cves
                  /\ kevRun \in [FeedRuns -> {"idle", "fetched", "stored", "deleting"}]
                  /\ current_cve_ids \in [FeedRuns -> SUBSET Cves]
           Times == feedDay \in 0..LastDay /\ outages \in 0..MaxOutages
<1>1. Osv /\ Kev /\ Times
  BY DEF FeedsTypeOK
<1>2. Osv' /\ Kev' /\ Times' => FeedsTypeOK'
  BY DEF FeedsTypeOK
<1>3. ASSUME NEW ok \in BOOLEAN, FailsOrNot(ok) PROVE outages' \in 0..MaxOutages
  <2>1. outages' = outages \/ Outage
    BY <1>3 DEF FailsOrNot
  <2> QED
    BY <1>0, <1>1, <2>1 DEF Outage
<1>4. ASSUME UNCHANGED osvVars PROVE Osv'
  BY <1>1, <1>4 DEF osvVars
<1>5. ASSUME UNCHANGED kevVars PROVE Kev'
  BY <1>1, <1>5 DEF kevVars
<1>6. CASE FeedDayPasses
  BY <1>0, <1>1, <1>2, <1>4, <1>5, <1>6 DEF FeedDayPasses
<1>7. ASSUME NEW c \in Cves, Catalogues(c) PROVE FeedsTypeOK'
  BY <1>1, <1>2, <1>4, <1>7 DEF Catalogues
<1>8. ASSUME NEW v \in Entries, Modify(v) PROVE FeedsTypeOK'
  <2>1. feedDay \in Stamps
    BY <1>0 DEF Stamps
  <2>2. modified' \in [Entries -> Stamps]
    BY <1>1, <1>8, <2>1 DEF Modify
  <2> QED
    BY <1>1, <1>2, <1>5, <1>8, <2>2 DEF Modify
<1>9. ASSUME NEW k \in FeedRuns, UpsertKev(k) PROVE FeedsTypeOK'
  BY <1>1, <1>2, <1>4, <1>9 DEF UpsertKev, KevGoes
<1>10. ASSUME NEW k \in FeedRuns, KevFails(k) PROVE FeedsTypeOK'
  BY <1>1, <1>2, <1>3, <1>4, <1>10 DEF KevFails, FailsOrNot
<1>11. ASSUME NEW k \in FeedRuns, StartOsv(k) PROVE FeedsTypeOK'
  <2>1. feedDay - Window \in (-Window)..LastDay
    BY <1>0
  <2>2. [running |-> TRUE, left |-> Ecosystems] \in [running : BOOLEAN, left : SUBSET Ecosystems]
    OBVIOUS
  <2> QED
    BY <1>1, <1>2, <1>5, <1>11, <2>1, <2>2 DEF StartOsv
<1>12. ASSUME NEW k \in FeedRuns, NEW done \in SUBSET records[k], UpsertOsv(k, done)
       PROVE  FeedsTypeOK'
  <2>1. outages' \in 0..MaxOutages
    BY <1>3, <1>12 DEF UpsertOsv
  <2>2. \A r \in records[k] : r[2] \in Stamps
    BY <1>1
  <2>3. ASSUME NEW v \in Entries, \E r \in done : r[1] = v
        PROVE  (CHOOSE r \in done : r[1] = v)[2] \in Stamps
    BY <2>2, <2>3
  <2>4. -1 \in Stamps
    BY <1>0 DEF Stamps
  <2>5. osv' \in [Entries -> Stamps]
    <3> DEFINE stamp(v) == (CHOOSE r \in done : r[1] = v)[2]
    <3>1. osv' = [v \in Entries |-> IF \E r \in done : r[1] = v THEN stamp(v) ELSE osv[v]]
      BY <1>12 DEF UpsertOsv, upserted
    <3>2. \A v \in Entries : (\E r \in done : r[1] = v) => stamp(v) \in Stamps
      BY <2>3
    <3> HIDE DEF stamp
    <3> QED
      BY <1>1, <3>1, <3>2
  <2>6. kept' \in [Entries -> Stamps]
    <3> DEFINE stamp(v) == (CHOOSE r \in done : r[1] = v)[2]
    <3>1. kept' = [v \in Entries |-> IF \E r \in done : r[1] = v
                                     THEN IF Alone(k) THEN stamp(v) ELSE -1
                                     ELSE kept[v]]
      BY <1>12 DEF UpsertOsv
    <3>2. \A v \in Entries : (\E r \in done : r[1] = v) => stamp(v) \in Stamps
      BY <2>3
    <3> HIDE DEF stamp
    <3> QED
      BY <1>1, <2>4, <3>1, <3>2
  <2>7. /\ records' \in [FeedRuns -> SUBSET (Entries \X Stamps)]
        /\ UNCHANGED <<kevVars, modified, osvRun, cutoff, refs, feedDay>>
    BY <1>1, <1>12 DEF UpsertOsv
  <2> QED
    BY <1>1, <1>2, <1>5, <2>1, <2>5, <2>6, <2>7
<1>13. ASSUME NEW k \in FeedRuns, NEW ok \in BOOLEAN, FetchKev(k, ok) PROVE FeedsTypeOK'
  BY <1>1, <1>2, <1>3, <1>4, <1>13 DEF FetchKev, KevGoes
<1>14. ASSUME NEW k \in FeedRuns, NEW ok \in BOOLEAN, ApplyEpss(k, ok) PROVE FeedsTypeOK'
  BY <1>1, <1>2, <1>3, <1>4, <1>14 DEF ApplyEpss, KevGoes
<1>15. ASSUME NEW k \in FeedRuns, NEW ok \in BOOLEAN, DeleteStaleKev(k, ok) PROVE FeedsTypeOK'
  <2>1. kev' \subseteq kev
    BY <1>15 DEF DeleteStaleKev
  <2> QED
    BY <1>1, <1>2, <1>3, <1>4, <1>15, <2>1 DEF DeleteStaleKev, KevGoes
<1>16. ASSUME NEW k \in FeedRuns, NEW ok \in BOOLEAN, DeleteOldOsv(k, ok) PROVE FeedsTypeOK'
  <2>1. -1 \in Stamps /\ Idle \in [running : BOOLEAN, left : SUBSET Ecosystems]
    BY <1>0 DEF Stamps, Idle
  <2>2. osv' \in [Entries -> Stamps]
    <3>1. \/ osv' = osv
          \/ osv' = [v \in Entries |-> IF osv[v] < feedDay - FeedRetention THEN -1 ELSE osv[v]]
      BY <1>16 DEF DeleteOldOsv
    <3> QED
      BY <1>1, <2>1, <3>1
  <2>3. /\ osvRun' = [osvRun EXCEPT ![k] = Idle]
        /\ UNCHANGED <<kevVars, modified, cutoff, refs, records, kept, feedDay>>
        /\ FailsOrNot(ok)
    BY <1>16 DEF DeleteOldOsv
  <2>4. osvRun' \in [FeedRuns -> [running : BOOLEAN, left : SUBSET Ecosystems]]
    <3> HIDE DEF Idle
    <3> QED
      BY <1>1, <2>1, <2>3
  <2> QED
    BY <1>1, <1>2, <1>3, <1>5, <2>2, <2>3, <2>4
<1>17. ASSUME NEW k \in FeedRuns, NEW ok \in BOOLEAN, NEW e \in Ecosystems, FetchRefs(k, e, ok)
       PROVE  FeedsTypeOK'
  <2> DEFINE listed == {<<v, modified[v]>> : v \in {v \in Entries :
                                 v[1] = e /\ modified[v] >= 0 /\ modified[v] >= cutoff[k]}}
  <2>1. listed \subseteq Entries \X Stamps
    BY <1>1
  <2>2. refs' = [refs EXCEPT ![k] = IF ok THEN listed ELSE {}]
    BY <1>17 DEF FetchRefs
  <2>3. refs' \in [FeedRuns -> SUBSET (Entries \X Stamps)]
    <3>1. (IF ok THEN listed ELSE {}) \in SUBSET (Entries \X Stamps)
      BY <2>1
    <3> HIDE DEF listed
    <3> QED
      BY <1>1, <2>2, <3>1
  <2>4. osvRun' \in [FeedRuns -> [running : BOOLEAN, left : SUBSET Ecosystems]]
    <3>1. osvRun' = [osvRun EXCEPT ![k].left = @ \ {e}]
      BY <1>17 DEF FetchRefs
    <3> QED
      BY <1>0, <1>1, <3>1
  <2>5. UNCHANGED <<kevVars, modified, osv, cutoff, records, kept, feedDay>> /\ FailsOrNot(ok)
    BY <1>17 DEF FetchRefs
  <2> QED
    BY <1>1, <1>2, <1>3, <1>5, <2>3, <2>4, <2>5
<1>18. ASSUME NEW k \in FeedRuns, NEW ok \in BOOLEAN, NEW r \in refs[k], FetchVuln(k, r, ok)
       PROVE  FeedsTypeOK'
  <2>1. /\ refs' = [refs EXCEPT ![k] = @ \ {r}]
        /\ records' = records \/ records' = [records EXCEPT ![k] = @ \union {r}]
        /\ UNCHANGED <<kevVars, modified, osv, osvRun, cutoff, kept, feedDay>> /\ FailsOrNot(ok)
    <3>1. /\ refs' = [refs EXCEPT ![k] = @ \ {r}]
          /\ UNCHANGED <<kevVars, modified, osv, osvRun, cutoff, kept, feedDay>> /\ FailsOrNot(ok)
      BY <1>18 DEF FetchVuln
    <3>2. records' = [records EXCEPT ![k] = IF ok THEN @ \union {r} ELSE @]
      BY <1>18 DEF FetchVuln
    <3>3. CASE ok
      BY <3>1, <3>2, <3>3
    <3>4. CASE ~ok
      BY <1>1, <3>1, <3>2, <3>4
    <3> QED
      BY <3>3, <3>4
  <2>2. r \in Entries \X Stamps
    BY <1>1
  <2>3. /\ refs' \in [FeedRuns -> SUBSET (Entries \X Stamps)]
        /\ records' \in [FeedRuns -> SUBSET (Entries \X Stamps)]
    BY <1>1, <2>1, <2>2
  <2> QED
    BY <1>1, <1>2, <1>3, <1>5, <2>1, <2>3
<1>19. CASE UNCHANGED feedVars
  BY <1>1, <1>2, <1>4, <1>5, <1>19 DEF feedVars
<1> QED
  BY <1>6, <1>7, <1>8, <1>9, <1>10, <1>11, <1>12, <1>13, <1>14, <1>15, <1>16, <1>17, <1>18, <1>19
  DEF FeedsNext

(* Every step keeps what is stored.                                        *)
LEMMA StepFeeds == FeedsInv /\ [FeedsNext]_feedVars => FeedsInv'
<1> SUFFICES ASSUME FeedsInv, [FeedsNext]_feedVars PROVE FirmIsKnown' /\ KeptIsStored'
  BY StepFeedsTyped DEF FeedsInv
<1>0. /\ \A v \in Entries : kept[v] \in Int /\ kept[v] >= -1 /\ osv[v] \in Int /\ osv[v] >= -1
      /\ feedDay \in Int /\ FeedRetention \in Int
      /\ kevRun \in [FeedRuns -> {"idle", "fetched", "stored", "deleting"}]
      /\ current_cve_ids \in [FeedRuns -> SUBSET Cves]
  BY FeedsAssumption DEF FeedsInv, FeedsTypeOK, Stamps
<1>1. FirmIsKnown'
  <2> USE <1>0 DEF FeedsInv, FirmIsKnown
  <2>1. ASSUME UNCHANGED kevVars PROVE FirmIsKnown'
    BY <2>1 DEF kevVars
  <2>2. ASSUME NEW c \in Cves, Catalogues(c) PROVE FirmIsKnown'
    BY <2>2 DEF Catalogues
  <2>3. ASSUME NEW k \in FeedRuns, UpsertKev(k) PROVE FirmIsKnown'
    BY <2>3 DEF UpsertKev, KevGoes
  <2>4. ASSUME NEW k \in FeedRuns, KevFails(k) PROVE FirmIsKnown'
    BY <2>4 DEF KevFails
  <2>5. ASSUME NEW k \in FeedRuns, NEW ok \in BOOLEAN, FetchKev(k, ok) PROVE FirmIsKnown'
    BY <2>5 DEF FetchKev, KevGoes
  <2>6. ASSUME NEW k \in FeedRuns, NEW ok \in BOOLEAN, ApplyEpss(k, ok) PROVE FirmIsKnown'
    BY <2>6 DEF ApplyEpss, KevGoes
  <2>7. ASSUME NEW k \in FeedRuns, NEW ok \in BOOLEAN, DeleteStaleKev(k, ok) PROVE FirmIsKnown'
    BY <2>7 DEF DeleteStaleKev, KevGoes, stale_kev_records
  <2> QED
    BY <2>1, <2>2, <2>3, <2>4, <2>5, <2>6, <2>7
    DEF FeedsNext, FeedDayPasses, Modify, StartOsv, UpsertOsv, DeleteOldOsv, FetchRefs, FetchVuln,
        feedVars
<1>2. KeptIsStored'
  <2>1. ASSUME UNCHANGED <<kept, osv, feedDay>> PROVE KeptIsStored'
    BY <2>1 DEF FeedsInv, KeptIsStored
  <2>2. CASE FeedDayPasses
    BY <1>0, <2>2 DEF FeedDayPasses, osvVars, FeedsInv, KeptIsStored
  <2>3. ASSUME NEW k \in FeedRuns, NEW done \in SUBSET records[k], UpsertOsv(k, done)
        PROVE  KeptIsStored'
    <3>1. ASSUME NEW v \in Entries
          PROVE  \/ kept'[v] = osv'[v]
                 \/ kept'[v] = -1 /\ osv'[v] \in Int /\ osv'[v] >= -1
                 \/ kept'[v] = kept[v] /\ osv'[v] = osv[v]
      <4>1. osv'[v] \in Stamps
        BY StepFeedsTyped DEF FeedsInv, FeedsTypeOK
      <4>2. osv'[v] \in Int /\ osv'[v] >= -1
        BY <4>1, FeedsAssumption DEF Stamps
      <4> QED
        BY <2>3, <4>2 DEF UpsertOsv, upserted
    <3>2. \A v \in Entries : kept'[v] \in Int /\ osv'[v] \in Int
      <4>1. FeedsTypeOK'
        BY StepFeedsTyped DEF FeedsInv
      <4> QED
        BY <4>1, FeedsAssumption DEF FeedsTypeOK, Stamps
    <3>3. feedDay' = feedDay
      BY <2>3 DEF UpsertOsv
    <3> QED
      BY <1>0, <3>1, <3>2, <3>3 DEF FeedsInv, KeptIsStored
  <2>4. ASSUME NEW k \in FeedRuns, NEW ok \in BOOLEAN, DeleteOldOsv(k, ok) PROVE KeptIsStored'
    <3>1. \A v \in Entries : osv'[v] = osv[v] \/ osv[v] < feedDay - FeedRetention
      BY <2>4 DEF DeleteOldOsv
    <3>2. kept' = kept /\ feedDay' = feedDay
      BY <2>4 DEF DeleteOldOsv
    <3> QED
      BY <1>0, <3>1, <3>2 DEF FeedsInv, KeptIsStored
  <2> QED
    BY <2>1, <2>2, <2>3, <2>4
    DEF FeedsNext, Catalogues, UpsertKev, KevFails, FetchKev, ApplyEpss, DeleteStaleKev, Modify,
        StartOsv, FetchRefs, FetchVuln, feedVars, osvVars
<1> QED
  BY <1>1, <1>2

-----------------------------------------------------------------------------
(* The posture monitors.                                                    *)
Maybe == {None} \union {<<s>> : s \in SUBSET Facts}

(* The picture of a target as it will be once the news has been told.      *)
Added(t) == {f \in Facts : <<t, "added", f>> \in news}
Removed(t) == {f \in Facts : <<t, "removed", f>> \in news}
Told(t) == (picture[t][1] \union Added(t)) \ Removed(t)

(* There is no news before a target has been looked at, and none of those  *)
(* that are still to come; only REPOAUDIT tells that something has gone.   *)
NewsInOrder ==
    /\ look = "idle" \/ ~reached => news = {}
    /\ \A t \in unlooked : Added(t) = {} /\ Removed(t) = {}
    /\ job # "REPOAUDIT" => \A t \in Targets : Removed(t) = {}

(* A target is pictured from the first time it is stored; then what it     *)
(* shows that is alerted, and all of it in REPOAUDIT, is in the picture or *)
(* in the news.  GHALERT stores more than it shows: every number it met.   *)
Pictured ==
    \A t \in Targets :
        /\ row[t] = None <=> picture[t] = None
        /\ opened[t] # {} => row[t] # None
        /\ row[t] # None /\ t \notin misled =>
             /\ alerting(row[t][1]) \subseteq Told(t)
             /\ job = "GHALERT" => alerting(opened[t]) \subseteq Told(t)
             /\ job = "REPOAUDIT" => row[t][1] = Told(t)

PostureInv == PostureTypeOK /\ NewsInOrder /\ Pictured
-----------------------------------------------------------------------------
(* What may be None is None or one set.                                    *)
LEMMA OneOrNone ==
  /\ \A s \in SUBSET Facts : <<s>> # None /\ <<s>>[1] = s /\ <<s>> \in Maybe
  /\ \A m \in Maybe : m # None => m[1] \subseteq Facts /\ m = <<m[1]>>
  /\ None \in Maybe
BY DEF Maybe, None

(* Nothing has been stored or told at first.                               *)
LEMMA InitPosture == PostureInit => PostureInv
<1> SUFFICES ASSUME PostureInit PROVE PostureInv
  OBVIOUS
<1>1. PostureTypeOK
  <2>1. row \in [Targets -> Maybe] /\ picture \in [Targets -> Maybe]
    BY OneOrNone, SMTT(30) DEF PostureInit
  <2>2. /\ job \in Jobs /\ present \in [Targets -> SUBSET Facts]
        /\ opened \in [Targets -> SUBSET Facts]
    BY DEF PostureInit
  <2>3. losses \in 0..MaxLosses
    BY PostureAssumption DEF PostureInit
  <2>4. /\ look \in {"idle", "looking", "telling"} /\ unlooked = {} /\ reached \in BOOLEAN
        /\ news = {} /\ misled = {}
    BY DEF PostureInit
  <2> QED
    BY <2>1, <2>2, <2>3, <2>4 DEF PostureTypeOK, Maybe
<1>2. NewsInOrder /\ Pictured
  BY DEF PostureInit, NewsInOrder, Pictured, Added, Removed
<1> QED
  BY <1>1, <1>2 DEF PostureInv

(* Every step keeps every variable in its domain.                          *)
LEMMA StepPostureTyped == PostureTypeOK /\ [PostureNext]_postureVars => PostureTypeOK'
<1> SUFFICES ASSUME PostureTypeOK, [PostureNext]_postureVars PROVE PostureTypeOK'
  OBVIOUS
<1> USE PostureAssumption, OneOrNone DEF PostureTypeOK
<1>0. row \in [Targets -> Maybe] /\ picture \in [Targets -> Maybe]
  BY DEF Maybe
<1>1. ASSUME NEW t \in Targets, NEW f \in Facts, Appears(t, f) \/ Vanishes(t, f)
      PROVE  PostureTypeOK'
  BY <1>1 DEF Appears, Vanishes
<1>2. ASSUME NEW t \in Targets, Look(t) PROVE PostureTypeOK'
  <2>1. /\ row' \in [Targets -> Maybe] /\ picture' \in [Targets -> Maybe]
        /\ opened' \in [Targets -> SUBSET Facts]
        /\ news' \subseteq Targets \X {"added", "removed"} \X Facts
    <3>1. CASE check_target(t)
      BY <1>0, <3>1 DEF check_target, Learned, alerting
    <3>2. CASE audit_repo(t)
      <4>1. PICK fetched \in {<<present[t]>>, None} :
              LET snapshot == merge_snapshots(row[t], fetched)
              IN  /\ row' = [row EXCEPT ![t] = snapshot]
                  /\ news' = news \union diff_snapshot(t, row[t], snapshot)
                  /\ picture' = Learned(t, snapshot)
        BY <3>2 DEF audit_repo
      <4>2. fetched \in Maybe /\ merge_snapshots(row[t], fetched) \in Maybe
        BY <1>0, <4>1 DEF merge_snapshots
      <4>3. ASSUME NEW a \in Maybe, NEW b \in Maybe
            PROVE  diff_snapshot(t, a, b) \subseteq Targets \X {"added", "removed"} \X Facts
        BY DEF diff_snapshot
      <4> QED
        BY <1>0, <3>2, <4>1, <4>2, <4>3 DEF Learned, audit_repo
    <3>3. CASE sync(t)
      BY <1>0, <3>3 DEF sync, Learned, alerting
    <3> QED
      BY <1>2, <3>1, <3>2, <3>3 DEF Look
  <2> QED
    BY <1>2, <2>1 DEF Look, Maybe
<1>3. ASSUME NEW t \in Targets, PassOver(t) PROVE PostureTypeOK'
  BY <1>3 DEF PassOver
<1>4. CASE LookAround \/ LookedAround
  BY <1>4 DEF LookAround, LookedAround
<1>5. CASE Tell
  <2>1. picture' \in [Targets -> Maybe]
    BY <1>0, <1>5 DEF Tell
  <2> QED
    BY <1>5, <2>1 DEF Tell, Maybe
<1>6. CASE NewsLost
  BY <1>6 DEF NewsLost
<1>7. CASE UNCHANGED postureVars
  BY <1>7 DEF postureVars
<1> QED
  BY <1>1, <1>2, <1>3, <1>4, <1>5, <1>6, <1>7 DEF PostureNext
(* Of a target that has been looked at, what the row gains is in the news, *)
(* and so is what the row of an audit loses.                               *)
LEMMA LookPictures ==
  ASSUME PostureInv, NEW t \in Targets, Look(t)
  PROVE  /\ \A u \in Targets \ {t} : /\ row'[u] = row[u] /\ opened'[u] = opened[u]
                                     /\ picture'[u] = picture[u]
                                     /\ Added(u)' = Added(u) /\ Removed(u)' = Removed(u)
         /\ row'[t] = None <=> picture'[t] = None
         /\ opened'[t] # {} => row'[t] # None
         /\ job # "REPOAUDIT" => Removed(t)' = {}
         /\ row'[t] # None /\ t \notin misled =>
              /\ alerting(row'[t][1]) \subseteq Told(t)'
              /\ job = "GHALERT" => alerting(opened'[t]) \subseteq Told(t)'
              /\ job = "REPOAUDIT" => row'[t][1] = Told(t)'
<1> DEFINE Others == \A u \in Targets \ {t} :
                       /\ row'[u] = row[u] /\ opened'[u] = opened[u]
                       /\ picture'[u] = picture[u]
                       /\ Added(u)' = Added(u) /\ Removed(u)' = Removed(u)
           Known == /\ row'[t] = None <=> picture'[t] = None
                    /\ opened'[t] # {} => row'[t] # None
                    /\ job # "REPOAUDIT" => Removed(t)' = {}
           Shown == row'[t] # None /\ t \notin misled =>
                      /\ alerting(row'[t][1]) \subseteq Told(t)'
                      /\ job = "GHALERT" => alerting(opened'[t]) \subseteq Told(t)'
                      /\ job = "REPOAUDIT" => row'[t][1] = Told(t)'
<1>0. /\ row \in [Targets -> Maybe] /\ picture \in [Targets -> Maybe]
      /\ opened \in [Targets -> SUBSET Facts] /\ present \in [Targets -> SUBSET Facts]
      /\ Added(t) = {} /\ Removed(t) = {}
      /\ row[t] = None <=> picture[t] = None
      /\ opened[t] # {} => row[t] # None
      /\ row[t] # None /\ t \notin misled =>
           /\ alerting(row[t][1]) \subseteq picture[t][1]
           /\ job = "GHALERT" => alerting(opened[t]) \subseteq picture[t][1]
           /\ job = "REPOAUDIT" => row[t][1] = picture[t][1]
      /\ \A u \in Targets \ {t} : row[u] \in Maybe
  BY ZenonT(40) DEF PostureInv, PostureTypeOK, Maybe, NewsInOrder, Pictured, Told, Look
<1>1. CASE check_target(t)
  <2>1. PICK found \in SUBSET present[t] :
          /\ row' = [row EXCEPT ![t] = <<found>>]
          /\ news' = news \union
               (IF row[t] = None THEN {}
                ELSE {t} \X {"added"} \X (alerting(found) \ alerting(row[t][1])))
          /\ picture' = Learned(t, <<found>>)
    BY <1>1 DEF check_target
  <2>2. job = "EXTMON" /\ opened' = opened /\ found \in SUBSET Facts
    BY <1>0, <1>1, <2>1 DEF check_target
  <2>3. /\ row'[t] = <<found>> /\ row'[t] # None /\ row'[t][1] = found
        /\ \A u \in Targets \ {t} : row'[u] = row[u] /\ picture'[u] = picture[u]
        /\ picture'[t] = IF picture[t] = None THEN <<found>> ELSE picture[t]
    BY <1>0, <2>1, <2>2, OneOrNone DEF Learned
  <2>4. Others
    BY <2>1, <2>2, <2>3 DEF Added, Removed
  <2>5. /\ Removed(t)' = {}
        /\ Added(t)' = IF row[t] = None THEN {} ELSE alerting(found) \ alerting(row[t][1])
    BY <1>0, <2>1, <2>2 DEF Added, Removed, alerting
  <2>6. Known
    BY <1>0, <2>2, <2>3, <2>5, OneOrNone
  <2>7. Shown
    <3>1. CASE row[t] = None
      BY <1>0, <2>2, <2>3, <2>5, <3>1, OneOrNone DEF Told, alerting
    <3>2. CASE row[t] # None
      BY <1>0, <2>2, <2>3, <2>5, <3>2 DEF Told
    <3> QED
      BY <3>1, <3>2
  <2> QED
    BY <2>4, <2>6, <2>7
<1>2. CASE audit_repo(t)
  <2>1. PICK fetched \in {<<present[t]>>, None} :
          /\ row' = [row EXCEPT ![t] = merge_snapshots(row[t], fetched)]
          /\ news' = news \union diff_snapshot(t, row[t], merge_snapshots(row[t], fetched))
          /\ picture' = Learned(t, merge_snapshots(row[t], fetched))
    BY <1>2 DEF audit_repo
  <2> DEFINE new == merge_snapshots(row[t], fetched)
  <2>2. job = "REPOAUDIT" /\ opened' = opened /\ new \in Maybe
    BY <1>0, <1>2, <2>1, OneOrNone DEF audit_repo, merge_snapshots
  <2>3. row[t] # None => new # None
    BY DEF merge_snapshots
  <2> HIDE DEF new
  <2>4. /\ row'[t] = new
        /\ \A u \in Targets \ {t} : row'[u] = row[u] /\ picture'[u] = picture[u]
        /\ picture'[t] = IF picture[t] = None THEN new ELSE picture[t]
    BY <1>0, <2>1, <2>2 DEF Learned, new
  <2>5. news' = news \union diff_snapshot(t, row[t], new)
    BY <2>1 DEF new
  <2>6. Others
    BY <2>2, <2>4, <2>5 DEF Added, Removed, diff_snapshot
  <2>7. Known
    BY <1>0, <2>2, <2>3, <2>4
  <2>8. CASE row[t] = None
    <3>1. Added(t)' = {} /\ Removed(t)' = {}
      BY <1>0, <2>5, <2>8 DEF Added, Removed, diff_snapshot
    <3>2. Shown
      BY <1>0, <2>2, <2>4, <2>8, <3>1 DEF Told, alerting
    <3> QED
      BY <2>6, <2>7, <3>2
  <2>9. CASE row[t] # None
    <3>1. row[t][1] \subseteq Facts /\ new[1] \subseteq Facts
      BY <1>0, <2>2, <2>3, <2>9, OneOrNone
    <3>2. Added(t)' = new[1] \ row[t][1] /\ Removed(t)' = row[t][1] \ new[1]
      BY <1>0, <2>3, <2>5, <2>9, <3>1 DEF Added, Removed, diff_snapshot
    <3>3. t \notin misled => Told(t)' = new[1]
      BY <1>0, <2>2, <2>4, <2>9, <3>1, <3>2 DEF Told
    <3>4. Shown
      BY <1>0, <2>2, <2>4, <3>3 DEF alerting
    <3> QED
      BY <2>6, <2>7, <3>4
  <2> QED
    BY <2>8, <2>9
<1>3. CASE sync(t)
  <2>1. /\ job = "GHALERT"
        /\ row' = [row EXCEPT ![t] = <<present[t]>>]
        /\ opened' = [opened EXCEPT ![t] = opened[t] \union present[t]]
        /\ news' = news \union {t} \X {"added"} \X alerting(present[t] \ opened[t])
        /\ picture' = Learned(t, <<{}>>)
    BY <1>3 DEF sync
  <2>2. /\ row'[t] = <<present[t]>> /\ row'[t] # None /\ row'[t][1] = present[t]
        /\ opened'[t] = opened[t] \union present[t]
        /\ \A u \in Targets \ {t} : row'[u] = row[u] /\ picture'[u] = picture[u]
                                    /\ opened'[u] = opened[u]
        /\ picture'[t] = IF picture[t] = None THEN <<{}>> ELSE picture[t]
    BY <1>0, <2>1, OneOrNone DEF Learned
  <2>3. Others
    BY <2>1, <2>2 DEF Added, Removed
  <2>4. Removed(t)' = {} /\ Added(t)' = alerting(present[t] \ opened[t])
    BY <1>0, <2>1 DEF Added, Removed, alerting
  <2>5. Known
    BY <1>0, <2>1, <2>2, <2>4, OneOrNone
  <2>6. Shown
    <3>1. CASE row[t] = None
      BY <1>0, <2>1, <2>2, <2>4, <3>1, OneOrNone DEF Told, alerting
    <3>2. CASE row[t] # None
      BY <1>0, <2>1, <2>2, <2>4, <3>2 DEF Told, alerting
    <3> QED
      BY <3>1, <3>2
  <2> QED
    BY <2>3, <2>5, <2>6
<1> QED
  BY <1>1, <1>2, <1>3 DEF Look

(* Every step keeps the news in order and the picture true.                *)
LEMMA StepPictured == PostureInv /\ [PostureNext]_postureVars => PostureInv'
<1> SUFFICES ASSUME PostureInv, [PostureNext]_postureVars PROVE NewsInOrder' /\ Pictured'
  BY StepPostureTyped DEF PostureInv
<1>0. /\ row \in [Targets -> Maybe] /\ picture \in [Targets -> Maybe] /\ job \in Jobs
      /\ unlooked \subseteq Targets /\ job' = job
      /\ news \subseteq Targets \X {"added", "removed"} \X Facts
  BY DEF PostureInv, PostureTypeOK, Maybe, PostureNext, Appears, Vanishes, Look, PassOver,
         LookAround, LookedAround, Tell, NewsLost, postureVars
<1>1. ASSUME UNCHANGED <<row, opened, news, picture, misled>>
      PROVE  Pictured'
  BY <1>0, <1>1 DEF PostureInv, Pictured, Told, Added, Removed
<1>2. ASSUME NEW t \in Targets, NEW f \in Facts, Appears(t, f) \/ Vanishes(t, f)
      PROVE  NewsInOrder' /\ Pictured'
  BY <1>1, <1>2 DEF Appears, Vanishes, PostureInv, NewsInOrder, Added, Removed
<1>3. ASSUME NEW t \in Targets, Look(t) PROVE NewsInOrder' /\ Pictured'
  <2>1. look' = "looking" /\ reached' = TRUE /\ unlooked' = unlooked \ {t} /\ misled' = misled
    BY <1>3 DEF Look
  <2>2. NewsInOrder'
    BY <1>0, <1>3, <2>1, LookPictures DEF PostureInv, NewsInOrder
  <2>3. Pictured'
    BY <1>0, <1>3, <2>1, LookPictures DEF PostureInv, Pictured, Told
  <2> QED
    BY <2>2, <2>3
<1>4. ASSUME NEW t \in Targets, PassOver(t) PROVE NewsInOrder' /\ Pictured'
  BY <1>1, <1>4 DEF PassOver, PostureInv, NewsInOrder, Added, Removed
<1>5. CASE LookAround
  BY <1>1, <1>5 DEF LookAround, PostureInv, NewsInOrder, Added, Removed
<1>6. CASE LookedAround
  <2>1. look' = "idle" => ~reached
    BY <1>6 DEF LookedAround
  <2> QED
    BY <1>1, <1>6, <2>1 DEF LookedAround, PostureInv, NewsInOrder, Added, Removed
<1>7. CASE Tell
  <2>1. /\ news' = {} /\ UNCHANGED <<row, opened, misled, unlooked>>
        /\ \A t \in Targets : picture'[t] = IF picture[t] = None THEN None ELSE <<Told(t)>>
    BY <1>0, <1>7 DEF Tell, Told, Added, Removed
  <2>2. NewsInOrder'
    BY <2>1 DEF NewsInOrder, Added, Removed
  <2>3. \A t \in Targets : /\ picture'[t] = None <=> picture[t] = None
                           /\ picture[t] # None => Told(t)' = Told(t)
    <3> SUFFICES ASSUME NEW t \in Targets
                 PROVE  /\ picture'[t] = None <=> picture[t] = None
                        /\ picture[t] # None => Told(t)' = Told(t)
      OBVIOUS
    <3>1. picture[t] # None => Told(t) \in SUBSET Facts
      BY <1>0, OneOrNone DEF Told, Added
    <3>2. picture[t] # None => picture'[t] # None /\ picture'[t][1] = Told(t)
      BY <2>1, <3>1, OneOrNone
    <3>3. Added(t)' = {} /\ Removed(t)' = {}
      BY <2>1 DEF Added, Removed
    <3> QED
      BY <2>1, <3>2, <3>3 DEF Told
  <2>4. Pictured'
    BY <1>0, <2>1, <2>3 DEF PostureInv, Pictured
  <2> QED
    BY <2>2, <2>4
<1>8. CASE NewsLost
  <2>1. /\ news' = {} /\ UNCHANGED <<row, opened, picture>> /\ unlooked' = {}
        /\ misled' = misled \union {n[1] : n \in news}
    BY <1>8 DEF NewsLost
  <2>2. NewsInOrder'
    BY <2>1 DEF NewsInOrder, Added, Removed
  <2>3. \A t \in Targets : t \notin misled' => Told(t)' = Told(t)
    <3> SUFFICES ASSUME NEW t \in Targets, t \notin misled' PROVE Told(t)' = Told(t)
      OBVIOUS
    <3>1. \A n \in news : n[1] # t
      BY <2>1
    <3>2. \A f \in Facts : <<t, "added", f>>[1] = t /\ <<t, "removed", f>>[1] = t
      OBVIOUS
    <3>3. Added(t) = {} /\ Removed(t) = {}
      BY <3>1, <3>2 DEF Added, Removed
    <3>4. Added(t)' = {} /\ Removed(t)' = {}
      BY <2>1 DEF Added, Removed
    <3> QED
      BY <2>1, <3>3, <3>4 DEF Told
  <2>4. Pictured'
    BY <1>0, <2>1, <2>3 DEF PostureInv, Pictured
  <2> QED
    BY <2>2, <2>4
<1>9. CASE UNCHANGED postureVars
  BY <1>1, <1>9 DEF postureVars, PostureInv, NewsInOrder, Added, Removed
<1> QED
  BY <1>2, <1>3, <1>4, <1>5, <1>6, <1>7, <1>8, <1>9 DEF PostureNext
-----------------------------------------------------------------------------
(* EXTMON, REPOAUDIT and GHALERT: between runs the administrator has been  *)
(* told of everything that is stored and alerted, and of every key that an *)
(* audit has seen come or go, unless a message was lost.                   *)
THEOREM WhatIsStoredIsTold == PostureSpec => []StoredIsTold
<1>1. PostureInit => PostureInv
  BY InitPosture
<1>2. PostureInv /\ [PostureNext]_postureVars => PostureInv'
  BY StepPictured
<1>3. PostureInv => StoredIsTold
  <2> SUFFICES ASSUME PostureInv, look = "idle", NEW t \in Targets \ misled, row[t] # None
               PROVE  /\ alerting(row[t][1]) \subseteq picture[t][1]
                      /\ job = "REPOAUDIT" => row[t] = picture[t]
    BY DEF StoredIsTold
  <2>1. row[t] \in Maybe /\ picture[t] \in Maybe /\ picture[t] # None
    BY DEF PostureInv, PostureTypeOK, Maybe, Pictured
  <2>2. row[t] = <<row[t][1]>> /\ picture[t] = <<picture[t][1]>>
    BY <2>1, OneOrNone
  <2>3. Told(t) = picture[t][1]
    BY DEF PostureInv, NewsInOrder, Told, Added, Removed
  <2> QED
    BY <2>2, <2>3 DEF PostureInv, Pictured
<1> QED
  BY <1>1, <1>2, <1>3, PTL DEF PostureSpec

-----------------------------------------------------------------------------
(* RUNTIME.                                                                 *)
(* What a run is about to record has been sent; what it is about to send   *)
(* has not, or its record was lost.                                        *)
SendsThenRecords ==
    \A t \in RuntimeRuns :
        /\ at[t] = "record" => unsent[t] \subseteq delivered
        /\ at[t] = "send" => unsent[t] \intersect delivered \subseteq excused

(* Two runs have the same key to send only at the same time.               *)
SharedIsExcused ==
    \A s, t \in RuntimeRuns : s # t => unsent[s] \intersect unsent[t] \subseteq excused

(* What was sent is recorded, or a run is about to, or its record was lost.*)
SentIsRecorded ==
    \A k \in delivered : \/ k \in runtime_alerts \union excused
                         \/ \E t \in RuntimeRuns : at[t] = "record" /\ k \in unsent[t]

RuntimeInv == /\ RuntimeTypeOK
              /\ SendsThenRecords /\ SharedIsExcused /\ SentIsRecorded /\ RecordedWasSent
-----------------------------------------------------------------------------
(* There are no rows, no runs and no messages at first.                    *)
LEMMA InitRuntime == RuntimeInit => RuntimeInv
<1> SUFFICES ASSUME RuntimeInit PROVE RuntimeInv
  OBVIOUS
<1>1. RuntimeTypeOK
  BY RuntimeAssumption DEF RuntimeInit, RuntimeTypeOK, Uses
<1>2. SendsThenRecords /\ SharedIsExcused /\ SentIsRecorded /\ RecordedWasSent
  BY DEF RuntimeInit, SendsThenRecords, SharedIsExcused, SentIsRecorded, RecordedWasSent
<1> QED
  BY <1>1, <1>2 DEF RuntimeInv

(* Every step keeps every variable in its domain.                          *)
LEMMA StepRuntimeTyped == RuntimeTypeOK /\ [RuntimeNext]_runtimeVars => RuntimeTypeOK'
<1> SUFFICES ASSUME RuntimeTypeOK, [RuntimeNext]_runtimeVars PROVE RuntimeTypeOK'
  OBVIOUS
<1> USE RuntimeAssumption DEF RuntimeTypeOK, Uses, Goes, Hitch
<1>1. ASSUME NEW c \in Cycles, Age(c) PROVE RuntimeTypeOK'
  BY <1>1 DEF Age
<1>2. ASSUME NEW c \in Cycles, NEW a \in Apps, Upgrade(a, c) PROVE RuntimeTypeOK'
  BY <1>2 DEF Upgrade
<1>3. ASSUME NEW t \in RuntimeRuns, NEW ok \in BOOLEAN, FetchReleases(t, ok) PROVE RuntimeTypeOK'
  BY <1>3 DEF FetchReleases
<1>4. ASSUME NEW t \in RuntimeRuns, RunEnds(t) PROVE RuntimeTypeOK'
  BY <1>4 DEF RunEnds
<1>5. ASSUME NEW t \in RuntimeRuns, NEW ok \in BOOLEAN, ScanApps(t, ok) PROVE RuntimeTypeOK'
  BY <1>5 DEF ScanApps
<1>6. ASSUME NEW t \in RuntimeRuns, FindAlerts(t) PROVE RuntimeTypeOK'
  <2>1. find_alerts \subseteq Keys
    BY DEF find_alerts
  <2> QED
    BY <1>6, <2>1 DEF FindAlerts, not_sent
<1>7. ASSUME NEW t \in RuntimeRuns, NEW ok \in BOOLEAN, NEW arrives \in BOOLEAN,
             SendAll(t, arrives, ok)
      PROVE  RuntimeTypeOK'
  BY <1>7 DEF SendAll, next_after
<1>8. ASSUME NEW t \in RuntimeRuns, RecordSent(t) PROVE RuntimeTypeOK'
  BY <1>8 DEF RecordSent
<1>9. CASE UNCHANGED runtimeVars
  BY <1>9 DEF runtimeVars
<1> QED
  BY <1>1, <1>2, <1>3, <1>4, <1>5, <1>6, <1>7, <1>8, <1>9 DEF RuntimeNext, RuntimeStep

(* Every step keeps apart what is sent, what is recorded and what is       *)
(* excused.                                                                *)
LEMMA StepRecords == RuntimeInv /\ [RuntimeNext]_runtimeVars => RuntimeInv'
<1> SUFFICES ASSUME RuntimeInv, [RuntimeNext]_runtimeVars PROVE RuntimeInv'
  OBVIOUS
<1>0. /\ at \in [RuntimeRuns -> {"idle", "scan", "find", "first", "send", "record"}]
      /\ unsent \in [RuntimeRuns -> SUBSET Keys]
  BY DEF RuntimeInv, RuntimeTypeOK
<1> DEFINE Pieces == SendsThenRecords /\ SharedIsExcused /\ SentIsRecorded /\ RecordedWasSent
<1> SUFFICES Pieces'
  BY StepRuntimeTyped DEF RuntimeInv
<1> USE <1>0 DEF RuntimeInv, SendsThenRecords, SharedIsExcused, SentIsRecorded, RecordedWasSent,
        Goes
<1>1. ASSUME NEW t \in RuntimeRuns, NEW stage \in {"scan", "find"}, at[t] \in {"idle", "scan"},
             at' = [at EXCEPT ![t] = stage],
             UNCHANGED <<unsent, runtime_alerts, delivered, again, silenced, excused>>
      PROVE  Pieces'
  BY <1>1
<1>2. ASSUME UNCHANGED <<at, unsent, runtime_alerts, delivered, again, silenced, excused>>
      PROVE  Pieces'
  BY <1>2
<1>3. ASSUME NEW c \in Cycles, Age(c) PROVE Pieces'
  BY <1>2, <1>3 DEF Age
<1>4. ASSUME NEW c \in Cycles, NEW a \in Apps, Upgrade(a, c) PROVE Pieces'
  BY <1>2, <1>4 DEF Upgrade
<1>5. ASSUME NEW t \in RuntimeRuns, NEW ok \in BOOLEAN, FetchReleases(t, ok) PROVE Pieces'
  BY <1>1, <1>5 DEF FetchReleases
<1>6. ASSUME NEW t \in RuntimeRuns, RunEnds(t) PROVE Pieces'
  BY <1>6 DEF RunEnds
<1>7. ASSUME NEW t \in RuntimeRuns, NEW ok \in BOOLEAN, ScanApps(t, ok) PROVE Pieces'
  BY <1>1, <1>7 DEF ScanApps
<1>8. ASSUME NEW t \in RuntimeRuns, FindAlerts(t) PROVE Pieces'
  BY <1>8 DEF FindAlerts, not_sent
<1>9. ASSUME NEW t \in RuntimeRuns, NEW ok \in BOOLEAN, NEW arrives \in BOOLEAN,
             SendAll(t, arrives, ok)
      PROVE  Pieces'
  BY <1>9 DEF SendAll, next_after
<1>10. ASSUME NEW t \in RuntimeRuns, RecordSent(t) PROVE Pieces'
  BY <1>10 DEF RecordSent
<1>11. CASE UNCHANGED runtimeVars
  BY <1>2, <1>11 DEF runtimeVars
<1> QED
  BY <1>3, <1>4, <1>5, <1>6, <1>7, <1>8, <1>9, <1>10, <1>11 DEF RuntimeNext, RuntimeStep
-----------------------------------------------------------------------------
(* send_runtime_alerts: whatever runs at the same time, fails or is lost,  *)
(* only what was sent is recorded (but for the first run), and only what   *)
(* was not recorded is sent again.                                         *)
THEOREM RecordsAreTrue == RuntimeSpec => []RecordedWasSent
<1>1. RuntimeInit => RuntimeInv
  BY InitRuntime
<1>2. RuntimeInv /\ [RuntimeNext]_runtimeVars => RuntimeInv'
  BY StepRecords
<1>3. RuntimeInv => RecordedWasSent
  BY DEF RuntimeInv
<1> QED
  BY <1>1, <1>2, <1>3, PTL DEF RuntimeSpec

-----------------------------------------------------------------------------
(* The repository cleanup.                                                  *)
(* The issues of a deleted repository went with it.                        *)
GoneHasNoIssue == \A i \in issues : github[i[1]] # "gone"

(* The scan under way passes over what is excluded; where it is going to   *)
(* file it has committed rows, and those of an existing repository stay.   *)
ScanKnows ==
    /\ scan_left \intersect excluded = {} /\ to_file \intersect excluded = {}
    /\ \A h \in to_file : h \in rows \/ github[h] = "gone"

(* The cleanup closes issues of excluded repositories only, and what it is *)
(* about to purge has no open issue.                                       *)
SweepKnows ==
    /\ sweep \in {"closing", "purging"} => candidates # {}
    /\ sweep = "closing" => at_hand \in excluded
    /\ sweep = "purging" => github[at_hand] = "gone" \/ at_hand \in excluded
    /\ \A i \in issues :
         /\ sweep = "closing" /\ i[1] = at_hand => i[2] \in to_close
         /\ sweep = "purging" => i[1] # at_hand

IssuesHaveRows == \A i \in issues : i[1] \in rows \union faded

CleanupInv == CleanupTypeOK /\ GoneHasNoIssue /\ ScanKnows /\ SweepKnows /\ IssuesHaveRows
-----------------------------------------------------------------------------
(* At first nothing is stored, filed or excluded.                          *)
LEMMA InitCleanup == CleanupInit => CleanupInv
<1> SUFFICES ASSUME CleanupInit PROVE CleanupInv
  OBVIOUS
<1>1. CleanupTypeOK
  BY CleanupAssumption DEF CleanupInit, CleanupTypeOK, Titles
<1>2. GoneHasNoIssue /\ ScanKnows /\ SweepKnows /\ IssuesHaveRows
  BY DEF CleanupInit, GoneHasNoIssue, ScanKnows, SweepKnows, IssuesHaveRows
<1> QED
  BY <1>1, <1>2 DEF CleanupInv

(* The candidate at hand is one of them, and the same as long as they are. *)
LEMMA AtHand == /\ candidates # {} => at_hand \in candidates
                /\ candidates' = candidates => at_hand' = at_hand
BY DEF at_hand

(* Every step keeps every variable in its domain.                          *)
LEMMA StepCleanupTyped == CleanupTypeOK /\ [CleanupNext]_cleanupVars => CleanupTypeOK'
<1> SUFFICES ASSUME CleanupTypeOK, [CleanupNext]_cleanupVars PROVE CleanupTypeOK'
  OBVIOUS
<1> USE CleanupAssumption DEF CleanupTypeOK, scan, Changes, Refused, Ends, Sweeps, Next_one
<1>1. CASE CleanupCrash \/ ScanLists \/ UNCHANGED cleanupVars
  BY <1>1 DEF CleanupCrash, ScanLists, list_target_repos, cleanupVars
<1>2. ASSUME NEW h \in Homes, Exclude(h) PROVE CleanupTypeOK'
  BY <1>2 DEF Exclude
<1>3. ASSUME NEW h \in Homes, NEW s \in {"listed", "unlisted", "renamed", "gone"}, Change(h, s)
      PROVE  CleanupTypeOK'
  BY <1>3 DEF Change
<1>4. ASSUME NEW h \in Homes, NEW found \in SUBSET {h}, ScanWrites(h, found) PROVE CleanupTypeOK'
  BY <1>4 DEF ScanWrites
<1>4a. ASSUME NEW h \in Homes, RowsFade(h) PROVE CleanupTypeOK'
  BY <1>4a DEF RowsFade
<1>5. ASSUME NEW h \in Homes, NEW titles \in SUBSET Titles, ScanFiles(h, titles)
      PROVE  CleanupTypeOK'
  BY <1>5 DEF ScanFiles
<1>6. CASE SweepLists \/ FindKnown \/ MeetExcluded
  BY <1>6 DEF SweepLists, FindKnown, MeetExcluded, list_target_repos
<1>7. CASE Purge \/ SweepEnds \/ SweepFails
  BY <1>7 DEF Purge, SweepEnds, SweepFails
<1>8. ASSUME NEW a \in {"yes", "no", "unclear"}, CheckExists(a) PROVE CleanupTypeOK'
  <2>1. refusals' = refusals \/ Refused
    BY <1>8 DEF CheckExists
  <2>2. refusals' \in 0..MaxRefusals
    BY <2>1
  <2>3. \/ sweep' = "purging" /\ candidates' = candidates
        \/ Next_one
    BY <1>8 DEF CheckExists
  <2> QED
    BY <1>8, <2>2, <2>3 DEF CheckExists
<1>9. ASSUME NEW title \in Titles, NEW ok \in BOOLEAN, CloseIssue(title, ok) PROVE CleanupTypeOK'
  BY <1>9 DEF CloseIssue, after_closing
<1> QED
  BY <1>1, <1>2, <1>3, <1>4, <1>4a, <1>5, <1>6, <1>7, <1>8, <1>9 DEF CleanupNext

(* Every step keeps what the scan and the cleanup know of each other.      *)
LEMMA StepCleanup ==
  ASSUME CleanupInv, [CleanupNext]_cleanupVars
  PROVE  CleanupInv'
<1> DEFINE Pieces == GoneHasNoIssue /\ ScanKnows /\ SweepKnows /\ IssuesHaveRows
<1> SUFFICES Pieces'
  BY StepCleanupTyped DEF CleanupInv
<1>0. /\ github \in [Homes -> {"listed", "unlisted", "renamed", "gone"}]
      /\ issues \subseteq Homes \X Titles /\ rows \subseteq Homes /\ candidates \subseteq Homes
      /\ scan_left \subseteq Homes /\ to_file \subseteq Homes
  BY DEF CleanupInv, CleanupTypeOK
<1>00. \A i \in issues : i[1] \in Homes /\ i[2] \in Titles /\ i = <<i[1], i[2]>>
  BY <1>0
<1> USE <1>0, <1>00, AtHand DEF CleanupInv, GoneHasNoIssue, ScanKnows, SweepKnows,
        IssuesHaveRows, scan, Changes, Refused, Ends, Sweeps, Next_one
<1>1. CASE CleanupCrash \/ ScanLists \/ UNCHANGED cleanupVars
  BY <1>1 DEF CleanupCrash, ScanLists, list_target_repos, cleanupVars
<1>2. ASSUME NEW h \in Homes, Exclude(h) PROVE Pieces'
  BY <1>2 DEF Exclude
<1>3. ASSUME NEW h \in Homes, NEW s \in {"listed", "unlisted", "renamed", "gone"}, Change(h, s)
      PROVE  Pieces'
  BY <1>3 DEF Change
<1>4. ASSUME NEW h \in Homes, NEW found \in SUBSET {h}, ScanWrites(h, found) PROVE Pieces'
  BY <1>4 DEF ScanWrites
<1>4a. ASSUME NEW h \in Homes, RowsFade(h) PROVE Pieces'
  BY <1>4a DEF RowsFade
<1>5. ASSUME NEW h \in Homes, NEW titles \in SUBSET Titles, ScanFiles(h, titles)
      PROVE  Pieces'
  BY <1>5 DEF ScanFiles
<1>6. CASE SweepLists \/ FindKnown \/ MeetExcluded
  BY <1>6 DEF SweepLists, FindKnown, MeetExcluded
<1>7. CASE Purge \/ SweepEnds \/ SweepFails
  BY <1>7 DEF Purge, SweepEnds, SweepFails
<1>8. ASSUME NEW a \in {"yes", "no", "unclear"}, CheckExists(a) PROVE Pieces'
  BY <1>8 DEF CheckExists, exists
<1>9. ASSUME NEW title \in Titles, NEW ok \in BOOLEAN, CloseIssue(title, ok) PROVE Pieces'
  BY <1>9 DEF CloseIssue, after_closing
<1> QED
  BY <1>1, <1>2, <1>3, <1>4, <1>4a, <1>5, <1>6, <1>7, <1>8, <1>9 DEF CleanupNext
-----------------------------------------------------------------------------
(* The cleanup of repositories never orphans an issue, whatever the scan   *)
(* beside it, the owner and SCAN_EXCLUDE_REPOS do in between: what it      *)
(* purges has none, and an issue without rows lost them by retention or by *)
(* a replacement.                                                          *)
THEOREM NoIssueIsOrphaned == CleanupSpec => []NoOrphanIssue
<1>1. CleanupInit => CleanupInv
  BY InitCleanup
<1>2. CleanupInv /\ [CleanupNext]_cleanupVars => CleanupInv'
  BY StepCleanup
<1>3. CleanupInv => NoOrphanIssue
  BY DEF CleanupInv, SweepKnows, IssuesHaveRows, NoOrphanIssue
<1> QED
  BY <1>1, <1>2, <1>3, PTL DEF CleanupSpec

-----------------------------------------------------------------------------
(* DEPSOPS.                                                                 *)
Sure(p) == p \notin unrecorded /\ p \notin sharedPulls

Busy(o) == op[o] \in {"scanning", "recording"}

(* The pull requests that a run merged and heard of.                        *)
ours == {p \in Pulls : mergedAt[p] # 0}

(* A row of a merge is no older than the run that made it.                  *)
IsMerged(p) == \E e \in logged[p] : e.action = "merged" /\ e.processed_at >= mergedAt[p]

Expired(p) == mergedAt[p] < opsClock - LogRetention

(* What a run has merged it merged itself.                                  *)
MergeTimes == \A o \in Ops : \A p \in merged[o] : mergedAt[p] = began[o]

Flags(o) == {f[1] : f \in flagged[o]}

(* What is in hand belongs to a run under way; unless it is shared, no     *)
(* other run is under way.                                                 *)
HandsAreApart ==
    \A o \in Ops :
       /\ op[o] = "idle" => InHand(o) = {} /\ repos_left[o] = {}
       /\ \A p \in InHand(o) \ sharedPulls : \A q \in Ops \ {o} : op[q] = "idle"

(* What a run has in hand it has in one of its lists, and only of the      *)
(* repositories it has listed; what it has still to look at ends with the  *)
(* scan.                                                                   *)
ListsAreApart ==
    \A o \in Ops :
       /\ op[o] # "scanning" => to_judge[o] = {} /\ to_merge[o] = {} /\ repos_left[o] = {}
       /\ \A p \in InHand(o) :
             /\ p[1] \notin repos_left[o]
             /\ p \in resolved[o] => p \notin to_judge[o] \union to_merge[o] \union merged[o]
                                              \union Flags(o)
             /\ p \in to_judge[o] => p \notin to_merge[o] \union merged[o] \union Flags(o)
             /\ p \in to_merge[o] => p \notin merged[o] \union Flags(o)
             /\ p \in merged[o] => p \notin Flags(o)

(* A pull request that was seen exists; what is settled is not open.       *)
SettledStays ==
    \A p \in Pulls :
       /\ p \in ours \union stale => pull[p] \in {"merged", "closed"}
       /\ p \in stale => p \notin ours
       /\ \A o \in Ops :
             /\ p \in resolved[o] => pull[p] \in {"merged", "closed"}
             /\ p \in merged[o] => p \in ours
             /\ p \in InHand(o) => pull[p] # "absent"
       /\ logged[p] # {} => pull[p] # "absent"

(* What one run alone has in hand was open when it was listed.             *)
HandsAreOpen ==
    \A o \in Ops : \A p \in InHand(o) \ sharedPulls :
       p \notin resolved[o] => Open(p) \/ p \in stale \/ p \in merged[o]

(* The rows of a pull request have each a time of their own, in the past   *)
(* of every run that has still to record.                                  *)
TimesAreApart ==
    /\ \A o \in Ops : began[o] <= opsClock /\ (op[o] # "idle" => began[o] >= 1)
    /\ \A p \in Pulls \ sharedPulls :
        /\ \A e \in logged[p] : e.processed_at <= opsClock /\ e.processed_at >= 1
        /\ \A o \in Ops : Busy(o) => \A e \in logged[p] : e.processed_at < began[o]
        /\ logged[p] # {} => \E i \in logged[p] :
                                \A j \in logged[p] \ {i} : j.processed_at < i.processed_at

FlagsAreOpen ==
    \A p \in Pulls : Sure(p) /\ latest_action(p) = "flagged" =>
        \/ Open(p) \/ p \in stale
        \/ \E o \in Ops : Busy(o) /\ p \in resolved[o] \union merged[o]

MergesAreLogged ==
    \A p \in ours : Sure(p) =>
        /\ \/ IsMerged(p) \/ Expired(p)
           \/ \E o \in Ops : Busy(o) /\ p \in merged[o]
        /\ \A o \in Ops : p \notin resolved[o]

DepsopsInv == /\ DepsopsTypeOK /\ HandsAreApart /\ ListsAreApart /\ SettledStays
              /\ HandsAreOpen /\ TimesAreApart /\ FlagsAreOpen /\ MergesAreLogged
              /\ MergeTimes

DepsopsSpec == DepsopsInit /\ [][DepsopsNext]_opsVars

-----------------------------------------------------------------------------
(* The row with the latest time is the one latest chooses.                 *)
LEMMA LatestIs ==
    ASSUME NEW held, \A j \in held : j.processed_at \in Nat,
           NEW i \in held, \A j \in held \ {i} : j.processed_at < i.processed_at
    PROVE  latest(held) = i
<1> DEFINE Is(k) == \A j \in held \ {k} : j.processed_at < k.processed_at
<1>1. \E k \in held : Is(k)
  OBVIOUS
<1>2. latest(held) \in held /\ Is(latest(held))
  BY <1>1 DEF latest
<1>3. \A a, b \in Nat : ~(a < b /\ b < a)
  OBVIOUS
<1> QED
  BY <1>2, <1>3

(* What record writes for one pull request is a row or a set of rows.      *)
LEMMA RecordedTyped ==
    ASSUME NEW p \in Pulls, NEW o \in Ops, NEW when \in Nat, logged[p] \subseteq Rows,
           flagged[o] \subseteq Pulls \X Reasons
    PROVE  recorded(p, o, when) \subseteq Rows
<1> DEFINE held == logged[p] \union {Row("merged", "", when) : q \in merged[o] \intersect {p}}
           why == {f[2] : f \in {f \in flagged[o] : f[1] = p}}
           last == latest(held)
           same == held # {} /\ last.action = "flagged" /\ last.reason \in why
<1>1. \A w \in Reasons : Row("flagged", w, when) \in Rows
  BY DEF Row, Rows
<1>2. Row("merged", "", when) \in Rows
  BY DEF Row, Rows
<1>3. why \subseteq Reasons
  OBVIOUS
<1>4. held \subseteq Rows
  BY <1>2
<1>5. recorded(p, o, when) =
          IF p \in resolved[o] THEN {}
          ELSE IF same THEN (held \ {last}) \union {Row("flagged", last.reason, when)}
          ELSE IF why = {} THEN held
          ELSE held \union {Row("flagged", CHOOSE w \in why : TRUE, when)}
  BY DEF recorded
<1>6. why # {} => (CHOOSE w \in why : TRUE) \in why
  OBVIOUS
<1>7. same => last.reason \in Reasons
  BY <1>3
<1> HIDE DEF held, why, last
<1>8. why # {} => (CHOOSE w \in why : TRUE) \in Reasons
  BY <1>3, <1>6
<1> QED
  BY <1>1, <1>4, <1>5, <1>7, <1>8

(* Every variable begins in its domain, and nothing is in hand or settled. *)
LEMMA InitDepsops == DepsopsInit => DepsopsInv
<1> SUFFICES ASSUME DepsopsInit PROVE DepsopsInv
  OBVIOUS
<1>1. DepsopsTypeOK
  BY DepsopsAssumption DEF DepsopsInit, DepsopsTypeOK, Nothing
<1>2. /\ \A o \in Ops : InHand(o) = {} /\ repos_left[o] = {}
      /\ \A o \in Ops : to_judge[o] = {} /\ to_merge[o] = {} /\ merged[o] = {} /\ resolved[o] = {}
      /\ \A p \in Pulls : logged[p] = {}
      /\ ours = {} /\ stale = {} /\ \A o \in Ops : op[o] = "idle" /\ began[o] = 0
      /\ opsClock = 0
  BY DEF DepsopsInit, InHand, Nothing, ours
<1>3. HandsAreApart /\ ListsAreApart
  BY <1>2 DEF HandsAreApart, ListsAreApart
<1>4. SettledStays /\ HandsAreOpen
  BY <1>2 DEF SettledStays, HandsAreOpen
<1>5. TimesAreApart
  BY <1>2 DEF TimesAreApart
<1>6. FlagsAreOpen /\ MergesAreLogged /\ MergeTimes
  BY <1>2 DEF FlagsAreOpen, MergesAreLogged, MergeTimes, latest_action
<1> QED
  BY <1>1, <1>3, <1>4, <1>5, <1>6 DEF DepsopsInv

(* Every step keeps every variable in its domain.                          *)
LEMMA StepDepsopsTyped == DepsopsTypeOK /\ [DepsopsNext]_opsVars => DepsopsTypeOK'
<1> SUFFICES ASSUME DepsopsTypeOK, [DepsopsNext]_opsVars PROVE DepsopsTypeOK'
  OBVIOUS
<1> DEFINE Hub == /\ bump \in [Pulls -> Bumps] /\ ci \subseteq OpsRepos
                  /\ pull \in [Pulls -> {"absent", "open", "merged", "closed"}]
                  /\ mergeable \in [Pulls -> {"clean", "dirty", "unclear"}]
           Log == logged \in [Pulls -> SUBSET Rows]
           Times == opsClock \in Nat /\ began \in [Ops -> 0..LastStart] /\ slips \in 0..MaxSlips
           Run == op \in [Ops -> {"idle", "scanning", "recording", "tidying", "telling"}]
           Lists == /\ repos_left \in [Ops -> SUBSET OpsRepos]
                    /\ {to_judge, to_merge, merged, resolved} \subseteq [Ops -> SUBSET Pulls]
                    /\ flagged \in [Ops -> SUBSET (Pulls \X Reasons)]
           Ghosts == /\ mergedAt \in [Pulls -> 0..LastStart]
                     /\ unrecorded \union sharedPulls \union stale \subseteq Pulls
<1>1. Hub /\ Log /\ Times /\ Run /\ Lists /\ Ghosts
  BY DEF DepsopsTypeOK
<1>2. Hub' /\ Log' /\ Times' /\ Run' /\ Lists' /\ Ghosts' => DepsopsTypeOK'
  BY DEF DepsopsTypeOK
<1> USE DEF opsRun
<1>3. Slip => slips' \in 0..MaxSlips
  BY <1>1, DepsopsAssumption DEF Slip
<1>4. \A o \in Ops : InHand(o) \subseteq Pulls
  BY <1>1 DEF InHand
<1>5. \A o \in Ops, to \in {"idle", "scanning", "recording", "tidying", "telling"} :
         op' = [op EXCEPT ![o] = to] => Run'
  BY <1>1
<1>6. \A o \in Ops : OpsEnd(o) /\ UNCHANGED <<began>> => Lists'
  BY <1>1 DEF OpsEnd
<1>7. CASE UNCHANGED opsVars
  BY <1>1, <1>2, <1>7 DEF opsVars
<1>8. ASSUME NEW p \in Pulls, OpenPull(p) \/ SettleOutside(p)
                           \/ \E s \in {"clean", "dirty", "unclear"} : Recheck(p, s)
      PROVE  DepsopsTypeOK'
  BY <1>1, <1>2, <1>8 DEF OpenPull, SettleOutside, Recheck
<1>9. ASSUME NEW o \in Ops, StartOps(o) PROVE DepsopsTypeOK'
  <2>1. Times'
    BY <1>1, <1>9, DepsopsAssumption DEF StartOps
  <2>2. Run' /\ Hub' /\ Log'
    BY <1>1, <1>9, <1>5 DEF StartOps, Moves
  <2>3. Lists'
    BY <1>1, <1>9 DEF StartOps
  <2>4. Ghosts'
    BY <1>1, <1>9, <1>4 DEF StartOps
  <2> QED
    BY <2>1, <2>2, <2>3, <2>4, <1>2
<1>10. ASSUME NEW o \in Ops, OpsScanned(o) \/ OpsDone(o) \/ OpsFails(o) PROVE DepsopsTypeOK'
  <2>1. CASE OpsScanned(o)
    BY <1>1, <1>2, <1>5, <2>1 DEF OpsScanned, Moves
  <2>2. CASE OpsDone(o)
    BY <1>1, <1>2, <1>5, <1>6, <2>2 DEF OpsDone, Moves
  <2>3. CASE OpsFails(o)
    <3>1. Run' /\ Lists' /\ Ghosts' /\ Hub' /\ Log'
      BY <1>1, <1>6, <2>3 DEF OpsFails
    <3>2. Times'
      BY <1>1, <1>3, <2>3 DEF OpsFails
    <3> QED
      BY <3>1, <3>2, <1>2
  <2> QED
    BY <1>10, <2>1, <2>2, <2>3
<1>11. ASSUME NEW o \in Ops, NEW ok \in BOOLEAN, RecordLogs(o, ok) PROVE DepsopsTypeOK'
  <2>1. opsClock' \in Nat /\ began[o] \in Nat
    BY <1>1, <1>11, DepsopsAssumption DEF RecordLogs
  <2>2. Log'
    <3>1. ok => logged' = [p \in Pulls |->
                   recorded(p, o, IF o \in UserOps THEN opsClock' ELSE began[o])]
      BY <1>11 DEF RecordLogs
    <3>2. ~ok => logged' = logged
      BY <1>11 DEF RecordLogs
    <3>3. (IF o \in UserOps THEN opsClock' ELSE began[o]) \in Nat
      BY <2>1
    <3>4. ASSUME NEW p \in Pulls
          PROVE  recorded(p, o, IF o \in UserOps THEN opsClock' ELSE began[o]) \subseteq Rows
      BY <1>1, <3>3, RecordedTyped
    <3> QED
      BY <1>1, <3>1, <3>2, <3>4
  <2>3. slips' \in 0..MaxSlips
    BY <1>1, <1>3, <1>11 DEF RecordLogs
  <2>4. Run'
    BY <1>1, <1>5, <1>11 DEF RecordLogs, Moves
  <2>5. Hub' /\ Lists' /\ Ghosts' /\ began' = began
    BY <1>1, <1>11 DEF RecordLogs
  <2> QED
    BY <1>1, <1>2, <2>1, <2>2, <2>3, <2>4, <2>5
<1>12. ASSUME NEW o \in Ops, NEW ok \in BOOLEAN, TidyLogs(o, ok) PROVE DepsopsTypeOK'
  <2>1. Log'
    <3>1. \A held : delete_expired(collapse_duplicate_flagged(held)) \subseteq held
      BY DEF delete_expired, collapse_duplicate_flagged
    <3> QED
      BY <1>1, <1>12, <3>1 DEF TidyLogs
  <2>2. Times'
    BY <1>1, <1>3, <1>12 DEF TidyLogs
  <2>3. Hub' /\ Run' /\ Lists' /\ Ghosts'
    BY <1>1, <1>5, <1>12 DEF TidyLogs, Moves
  <2> QED
    BY <1>2, <2>1, <2>2, <2>3
<1>13. ASSUME NEW o \in Ops, NEW r \in OpsRepos, NEW ok \in BOOLEAN, ListPulls(o, r, ok)
       PROVE  DepsopsTypeOK'
  <2>1. Times'
    BY <1>1, <1>3, <1>13 DEF ListPulls
  <2>2. Lists'
    <3> DEFINE open == {p \in Pulls : p[1] = r /\ Open(p)}
               gone == find_resolved_flagged(r, open)
    <3>1. open \subseteq Pulls /\ gone \subseteq Pulls
      BY DEF find_resolved_flagged
    <3>2. /\ to_judge' = [to_judge EXCEPT ![o] = open] \/ to_judge' = to_judge
          /\ resolved' = [resolved EXCEPT ![o] = @ \union gone] \/ resolved' = resolved
          /\ repos_left' = [repos_left EXCEPT ![o] = @ \ {r}]
          /\ UNCHANGED <<to_merge, merged, flagged>>
      BY <1>13 DEF ListPulls
    <3> HIDE DEF open, gone
    <3> QED
      BY <1>1, <3>1, <3>2, SMTT(30)
  <2>3. Hub' /\ Run' /\ Ghosts' /\ Log'
    BY <1>1, <1>13 DEF ListPulls, find_resolved_flagged
  <2> QED
    BY <1>2, <2>1, <2>2, <2>3
<1>14. ASSUME NEW o \in Ops, NEW p \in Pulls, NEW ok \in BOOLEAN, Judge(o, p, ok)
       PROVE  DepsopsTypeOK'
  <2>1. Times'
    BY <1>1, <1>3, <1>14 DEF Judge
  <2>2. reasons(p) \subseteq Reasons
    BY <1>1, DepsopsAssumption DEF reasons, Reasons
  <2>3. Lists'
    <3>1. /\ flagged' = [flagged EXCEPT ![o] = @ \union ({p} \X reasons(p))] \/ flagged' = flagged
          /\ to_judge' = [to_judge EXCEPT ![o] = @ \ {p}]
          /\ to_merge' = [to_merge EXCEPT ![o] = {p}] \/ to_merge' = [to_merge EXCEPT ![o] = {}]
             \/ to_merge' = to_merge
          /\ UNCHANGED <<repos_left, merged, resolved>>
      BY <1>14 DEF Judge
    <3>2. {p} \X reasons(p) \subseteq Pulls \X Reasons
      BY <2>2
    <3> QED
      BY <1>1, <3>1, <3>2
  <2>4. Hub' /\ Run' /\ Ghosts' /\ Log'
    BY <1>1, <1>14 DEF Judge
  <2> QED
    BY <1>2, <2>1, <2>3, <2>4
<1>15. ASSUME NEW o \in Ops, NEW p \in Pulls, NEW ok \in BOOLEAN, Merge(o, p, ok)
       PROVE  DepsopsTypeOK'
  <2>1. Times'
    BY <1>1, <1>3, <1>15 DEF Merge
  <2>2. Lists'
    BY <1>1, <1>15 DEF Merge
  <2>3. Hub' /\ Run' /\ Ghosts' /\ Log'
    BY <1>1, <1>15 DEF Merge
  <2> QED
    BY <1>2, <2>1, <2>2, <2>3
<1> QED
  BY <1>7, <1>8, <1>9, <1>10, <1>11, <1>12, <1>13, <1>14, <1>15 DEF DepsopsNext, OpsHorizon

(* A pull request that a run has not in hand keeps its rows.               *)
LEMMA OthersRowsStay ==
    ASSUME NEW p \in Pulls, NEW o \in Ops, NEW when, p \notin InHand(o)
    PROVE  recorded(p, o, when) = logged[p]
<1>1. p \notin resolved[o] /\ p \notin merged[o] /\ \A f \in flagged[o] : f[1] # p
  BY DEF InHand
<1>2. {f[2] : f \in {f \in flagged[o] : f[1] = p}} = {}
  BY <1>1
<1>3. logged[p] \union {Row("merged", "", when) : q \in merged[o] \intersect {p}} = logged[p]
  BY <1>1
<1> QED
  BY <1>1, <1>2, <1>3 DEF recorded

(* A merge or a flag becomes the latest row, and no row of a merge goes.   *)
LEMMA RecordAddsLatest ==
    ASSUME NEW p \in Pulls, NEW o \in Ops, NEW when \in Nat, logged[p] \subseteq Rows,
           flagged[o] \subseteq Pulls \X Reasons,
           \A e \in logged[p] : e.processed_at < when,
           logged[p] # {} => \E i \in logged[p] :
                                \A j \in logged[p] \ {i} : j.processed_at < i.processed_at,
           p \in InHand(o), p \notin resolved[o], p \in merged[o] => p \notin Flags(o),
           p \in merged[o] \/ p \in Flags(o)
    PROVE  LET after == recorded(p, o, when)
           IN  \E i \in after :
                 /\ i.processed_at = when
                 /\ i.action = IF p \in merged[o] THEN "merged" ELSE "flagged"
                 /\ \A j \in after \ {i} : j \in logged[p]
                 /\ \A j \in logged[p] : j.action = "merged" => j \in after
<1> DEFINE held == logged[p] \union {Row("merged", "", when) : q \in merged[o] \intersect {p}}
           why == {f[2] : f \in {f \in flagged[o] : f[1] = p}}
           last == latest(held)
           same == held # {} /\ last.action = "flagged" /\ last.reason \in why
           after == recorded(p, o, when)
<1>1. after = IF same THEN (held \ {last}) \union {Row("flagged", last.reason, when)}
          ELSE IF why = {} THEN held
          ELSE held \union {Row("flagged", CHOOSE w \in why : TRUE, when)}
  BY DEF recorded
<1>2. \A e \in logged[p] : e.processed_at \in Nat
  BY DEF Rows
<1>3. \A a, r : Row(a, r, when).action = a /\ Row(a, r, when).processed_at = when
  BY DEF Row
<1>4. CASE p \in merged[o]
  <2> DEFINE i == Row("merged", "", when)
  <2>1. held = logged[p] \union {i}
    BY <1>4
  <2>2. why = {}
    BY <1>4 DEF Flags
  <2>3. ~same
    <3> HIDE DEF held, i
    <3> QED
      BY <2>2
  <2>4. after = held
    <3> HIDE DEF held, why, same, after
    <3> QED
      BY <1>1, <2>2, <2>3
  <2>5. i \in after /\ i.processed_at = when /\ i.action = "merged"
    BY <1>3, <2>1, <2>4
  <2> HIDE DEF after, i, held
  <2>6. \A j \in after \ {i} : j \in logged[p]
    BY <2>1, <2>4
  <2>7. \A j \in logged[p] : j.action = "merged" => j \in after
    BY <2>1, <2>4
  <2>8. \E k \in after :
                 /\ k.processed_at = when
                 /\ k.action = IF p \in merged[o] THEN "merged" ELSE "flagged"
                 /\ \A j \in after \ {k} : j \in logged[p]
                 /\ \A j \in logged[p] : j.action = "merged" => j \in after
    BY <1>4, <2>5, <2>6, <2>7
  <2> QED
    BY <2>8 DEF after
<1>5. CASE p \notin merged[o]
  <2>1. held = logged[p]
    BY <1>5
  <2>2. why # {}
    <3>1. PICK f \in flagged[o] : f[1] = p
      BY <1>5 DEF Flags
    <3>2. f[2] \in why
      BY <3>1
    <3> QED
      BY <3>2
  <2> DEFINE i == IF same THEN Row("flagged", last.reason, when)
                  ELSE Row("flagged", CHOOSE w \in why : TRUE, when)
  <2>3. i.processed_at = when /\ i.action = "flagged"
    BY <1>3
  <2>4. after = (IF same THEN held \ {last} ELSE held) \union {i}
    <3>1. CASE same
      <4> HIDE DEF held, why, last
      <4> QED
        BY <1>1, <3>1
    <3>2. CASE ~same
      <4> HIDE DEF held, why, last
      <4> QED
        BY <1>1, <2>2, <3>2
    <3> QED
      BY <3>1, <3>2
  <2> HIDE DEF after, i, held, why, last
  <2>5. \A j \in after \ {i} : j \in logged[p]
    BY <2>1, <2>4
  <2>6. \A j \in logged[p] : j.action = "merged" => j \in after
    BY <2>1, <2>4
  <2>7. i \in after
    BY <2>4
  <2>8. \E k \in after :
                 /\ k.processed_at = when
                 /\ k.action = IF p \in merged[o] THEN "merged" ELSE "flagged"
                 /\ \A j \in after \ {k} : j \in logged[p]
                 /\ \A j \in logged[p] : j.action = "merged" => j \in after
    BY <1>5, <2>3, <2>5, <2>6, <2>7
  <2> QED
    BY <2>8 DEF after
<1> QED
  BY <1>4, <1>5

(* Tidying keeps the latest row, if any, and the merges that are recent.   *)
LEMMA TidyKeepsLatest ==
    ASSUME NEW held, held \subseteq Rows, opsClock \in Nat,
           NEW i \in held, \A j \in held \ {i} : j.processed_at < i.processed_at
    PROVE  LET T == delete_expired(collapse_duplicate_flagged(held))
           IN  /\ T \subseteq held /\ (T # {} => i \in T)
               /\ \A j \in held : j.action = "merged" =>
                     j \in T \/ j.processed_at < opsClock - LogRetention
<1> DEFINE uniq == collapse_duplicate_flagged(held)
           T == delete_expired(uniq)
           before(k) == {j \in held : j.processed_at < k.processed_at}
           next(k, j) == k \in before(j) /\ before(j) \ before(k) = {k}
<1>1. uniq = {k \in held : ~\E j \in held : next(k, j) /\ k.action = "flagged"
                                         /\ j.action = "flagged" /\ k.reason = j.reason}
  BY DEF collapse_duplicate_flagged
<1>2. \A j \in held : j.processed_at \in Nat
  BY DEF Rows
<1>3. \A j \in held : ~next(i, j)
  BY <1>2
<1>4. \A j, k \in held : next(k, j) => k \in held
  OBVIOUS
<1> HIDE DEF before, next
<1>5. i \in uniq /\ uniq \subseteq held /\ \A j \in held : j.action = "merged" => j \in uniq
  BY <1>1, <1>3
<1>6. T = {k \in uniq : k.processed_at >= opsClock - LogRetention}
  BY DEF delete_expired
<1> HIDE DEF uniq
<1>7. opsClock - LogRetention \in Int
  BY DepsopsAssumption
<1>8. T # {} => i \in T
  <2> SUFFICES ASSUME NEW k \in T PROVE i \in T
    OBVIOUS
  <2>1. k = i \/ k.processed_at < i.processed_at
    BY <1>5, <1>6
  <2> QED
    BY <1>2, <1>5, <1>6, <1>7, <2>1
<1>9. \A j \in held : j.action = "merged" => j \in T \/ j.processed_at < opsClock - LogRetention
  BY <1>2, <1>5, <1>6, <1>7
<1>10. T \subseteq held
  BY <1>5, <1>6
<1> QED
  BY <1>8, <1>9, <1>10 DEF uniq

(* Rows have times.                                                        *)
LEMMA RowTimes ==
    DepsopsTypeOK => \A p \in Pulls : logged[p] \subseteq Rows
                                      /\ \A e \in logged[p] : e.processed_at \in Nat
<1> SUFFICES ASSUME DepsopsTypeOK, NEW p \in Pulls
             PROVE  logged[p] \subseteq Rows /\ \A e \in logged[p] : e.processed_at \in Nat
  OBVIOUS
<1>1. logged[p] \subseteq Rows
  BY DEF DepsopsTypeOK
<1> QED
  BY <1>1 DEF Rows

(* The action of the latest row is the action that latest_action tells.    *)
LEMMA LatestAction ==
    ASSUME TimesAreApart, DepsopsTypeOK, NEW p \in Pulls \ sharedPulls, NEW i \in logged[p],
           \A j \in logged[p] \ {i} : j.processed_at < i.processed_at
    PROVE  latest_action(p) = i.action
<1>1. \A j \in logged[p] : j.processed_at \in Nat
  BY RowTimes
<1>2. latest(logged[p]) = i
  BY <1>1, LatestIs
<1> QED
  BY <1>2 DEF latest_action

(* Where a run is, and what it has in hand, is the run's own.              *)
LEMMA OutsideSteps ==
    ASSUME DepsopsInv, NEW p \in Pulls,
           OpenPull(p) \/ SettleOutside(p)
             \/ \E s \in {"clean", "dirty", "unclear"} : Recheck(p, s)
    PROVE  DepsopsInv'
<1> USE DEF DepsopsInv, opsRun
<1>0. DepsopsTypeOK'
  <2>1. [DepsopsNext]_opsVars
    BY DEF DepsopsNext
  <2> QED
    BY <2>1, StepDepsopsTyped
<1>1. UNCHANGED <<op, began, repos_left, to_judge, to_merge, merged, flagged, resolved, logged,
                  opsClock, mergedAt, ours, unrecorded, sharedPulls>>
  BY DEF OpenPull, SettleOutside, Recheck, ours
<1>2. \A q \in Ops : InHand(q)' = InHand(q) /\ Flags(q)' = Flags(q)
  BY <1>1 DEF InHand, Flags
<1>3. HandsAreApart'
  BY <1>1, <1>2 DEF HandsAreApart
<1>4. ListsAreApart'
  BY <1>1, <1>2 DEF ListsAreApart
<1>5. TimesAreApart'
  BY <1>1 DEF TimesAreApart, Busy
<1>6. MergesAreLogged' /\ MergeTimes'
  BY <1>1 DEF MergesAreLogged, MergeTimes, Busy, Sure, IsMerged, Expired
<1>7. \/ pull' = pull /\ stale' = stale
      \/ /\ pull[p] = "absent" /\ pull' = [pull EXCEPT ![p] = "open"] /\ stale' = stale
      \/ /\ pull[p] = "open" /\ pull' = [pull EXCEPT ![p] = "closed"] /\ stale' = stale \union {p}
  BY DEF OpenPull, SettleOutside, Recheck, Open
<1>8. pull \in [Pulls -> {"absent", "open", "merged", "closed"}]
  BY DEF DepsopsTypeOK
<1>9. SettledStays'
  BY <1>1, <1>2, <1>7, <1>8 DEF SettledStays
<1>10. \A q \in Pulls : Open(q) \/ q \in stale => Open(q)' \/ q \in stale'
  BY <1>7, <1>8 DEF Open
<1>11. \A o \in Ops : InHand(o) \subseteq Pulls
  BY DEF InHand, DepsopsTypeOK
<1>12. HandsAreOpen'
  BY <1>1, <1>2, <1>10, <1>11 DEF HandsAreOpen
<1>13. FlagsAreOpen'
  <2>1. \A q \in Pulls : latest_action(q)' = latest_action(q)
    BY <1>1 DEF latest_action
  <2> QED
    BY <1>1, <1>10, <2>1 DEF FlagsAreOpen, Sure, Busy
<1> QED
  BY <1>0, <1>3, <1>4, <1>5, <1>6, <1>9, <1>12, <1>13

(* A new run has nothing in hand; what the others have is shared with it.  *)
LEMMA StartSteps ==
    ASSUME DepsopsInv, NEW o \in Ops, StartOps(o)
    PROVE  DepsopsInv'
<1> USE DEF DepsopsInv, opsRun
<1>0. DepsopsTypeOK'
  <2>1. [DepsopsNext]_opsVars
    BY DEF DepsopsNext
  <2> QED
    BY <2>1, StepDepsopsTyped
<1>1. /\ opsClock' = opsClock + 1 /\ op[o] = "idle" /\ op' = [op EXCEPT ![o] = "scanning"]
      /\ began' = [began EXCEPT ![o] = opsClock + 1]
      /\ repos_left' = [repos_left EXCEPT ![o] = OpsRepos]
      /\ sharedPulls' = sharedPulls \union UNION {InHand(q) : q \in Ops \ {o}}
      /\ UNCHANGED <<pull, to_judge, to_merge, merged, flagged, resolved, logged, mergedAt, ours,
                     unrecorded, stale>>
  BY DEF StartOps, Moves, ours
<1>2. \A q \in Ops : InHand(q)' = InHand(q) /\ Flags(q)' = Flags(q)
  BY <1>1 DEF InHand, Flags
<1>3. InHand(o) = {} /\ \A q \in Ops \ {o} : InHand(q) \subseteq sharedPulls'
  BY <1>1 DEF HandsAreApart
<1>4. op \in [Ops -> {"idle", "scanning", "recording", "tidying", "telling"}] /\ opsClock \in Nat
      /\ began \in [Ops -> Nat] /\ repos_left \in [Ops -> SUBSET OpsRepos]
      /\ sharedPulls \subseteq sharedPulls'
  BY <1>1, DepsopsAssumption DEF DepsopsTypeOK
<1>5. HandsAreApart'
  BY <1>1, <1>2, <1>3, <1>4 DEF HandsAreApart
<1>6. ListsAreApart'
  BY <1>1, <1>2, <1>3, <1>4 DEF ListsAreApart
<1>7. SettledStays'
  BY <1>1, <1>2 DEF SettledStays
<1>8. HandsAreOpen'
  BY <1>1, <1>2, <1>3, <1>4 DEF HandsAreOpen, Open
<1>9. \A p \in Pulls : \A e \in logged[p] : e.processed_at \in Nat
  BY RowTimes
<1>10. TimesAreApart'
  <2>1. \A q \in Ops : began'[q] <= opsClock' /\ (op'[q] # "idle" => began'[q] >= 1)
    BY <1>1, <1>4 DEF TimesAreApart
  <2>2. ASSUME NEW p \in Pulls \ sharedPulls'
        PROVE  /\ \A e \in logged[p] : e.processed_at <= opsClock' /\ e.processed_at >= 1
               /\ \A q \in Ops : Busy(q)' => \A e \in logged[p] : e.processed_at < began'[q]
               /\ logged[p] # {} => \E i \in logged[p] :
                                \A j \in logged[p] \ {i} : j.processed_at < i.processed_at
    BY <1>1, <1>4, <1>9, <2>2 DEF TimesAreApart, Busy
  <2> QED
    BY <1>1, <2>1, <2>2 DEF TimesAreApart
<1>11. \A q \in Ops : Busy(q) => Busy(q)'
  BY <1>1, <1>4 DEF Busy
<1>12. FlagsAreOpen'
  <2>1. \A q \in Pulls : latest_action(q)' = latest_action(q)
    BY <1>1 DEF latest_action
  <2> QED
    BY <1>1, <1>4, <1>11, <2>1 DEF FlagsAreOpen, Sure, Open
<1>13. MergesAreLogged'
  <2>1. \A p \in ours : IsMerged(p)' = IsMerged(p)
    BY <1>1 DEF IsMerged
  <2>2. \A p \in ours : Expired(p) => Expired(p)'
    BY <1>1, <1>4, DepsopsAssumption DEF Expired, ours, DepsopsTypeOK
  <2> QED
    BY <1>1, <1>4, <1>11, <2>1, <2>2 DEF MergesAreLogged, Sure
<1>14. MergeTimes'
  <2>1. merged[o] = {}
    BY <1>3 DEF InHand
  <2> QED
    BY <1>1, <1>4, <2>1 DEF MergeTimes
<1> QED
  BY <1>0, <1>5, <1>6, <1>7, <1>8, <1>10, <1>12, <1>13, <1>14

(* What a run lists it has not had in hand; what was flagged and is no     *)
(* longer open was settled by somebody else, or by a run under way.        *)
LEMMA ListSteps ==
    ASSUME DepsopsInv, NEW o \in Ops, NEW r \in OpsRepos, NEW ok \in BOOLEAN, ListPulls(o, r, ok)
    PROVE  DepsopsInv'
<1> USE DEF DepsopsInv
<1>0. DepsopsTypeOK'
  <2>1. [DepsopsNext]_opsVars
    BY DEF DepsopsNext
  <2> QED
    BY <2>1, StepDepsopsTyped
<1> DEFINE open == {p \in Pulls : p[1] = r /\ Open(p)}
           gone == find_resolved_flagged(r, open)
           met == {p \in open \union gone : \E q \in Ops \ {o} : op[q] # "idle"}
           seen == {p \in Pulls : p[1] = r /\ ~\E q \in Ops \ {o} : p \in InHand(q)}
<1>1. /\ op[o] = "scanning" /\ to_judge[o] = {} /\ to_merge[o] = {} /\ r \in repos_left[o]
      /\ repos_left' = [repos_left EXCEPT ![o] = @ \ {r}]
      /\ \/ /\ to_judge' = [to_judge EXCEPT ![o] = open]
            /\ resolved' = [resolved EXCEPT ![o] = @ \union gone]
            /\ sharedPulls' = sharedPulls \union met
            /\ stale' = stale \ seen
         \/ UNCHANGED <<to_judge, resolved, sharedPulls, stale>>
      /\ UNCHANGED <<op, opsClock, began, pull, to_merge, merged, flagged, logged, mergedAt, ours,
                     unrecorded>>
  BY DEF ListPulls, ours
<1>2. /\ \A p \in open : p \in Pulls /\ p[1] = r /\ Open(p)
      /\ \A p \in gone : p \in Pulls /\ p[1] = r /\ ~Open(p) /\ latest_action(p) = "flagged"
      /\ \A p \in Pulls : p[1] = r /\ ~Open(p) /\ latest_action(p) = "flagged" => p \in gone
      /\ \A p \in seen : p \in Pulls /\ p[1] = r /\ \A q \in Ops \ {o} : p \notin InHand(q)
      /\ \A p \in open \union gone : p \notin met => \A q \in Ops \ {o} : op[q] = "idle"
  BY DEF find_resolved_flagged
<1>3. \A p \in gone : pull[p] \in {"merged", "closed"}
  <2>1. \A p \in Pulls : pull[p] \in {"absent", "open", "merged", "closed"}
    BY DEF DepsopsTypeOK
  <2>2. \A p \in Pulls : latest_action(p) = "flagged" => pull[p] # "absent"
    BY DEF SettledStays, latest_action
  <2> QED
    BY <1>2, <2>1, <2>2 DEF Open
<1> HIDE DEF open, gone, met, seen
<1>4. /\ to_judge \in [Ops -> SUBSET Pulls] /\ resolved \in [Ops -> SUBSET Pulls]
      /\ repos_left \in [Ops -> SUBSET OpsRepos]
      /\ \A q \in Ops : InHand(q) \subseteq Pulls
  BY DEF DepsopsTypeOK, InHand
<1>5. /\ \A q \in Ops \ {o} : InHand(q)' = InHand(q) /\ resolved'[q] = resolved[q]
                              /\ to_judge'[q] = to_judge[q] /\ repos_left'[q] = repos_left[q]
      /\ \A q \in Ops : Flags(q)' = Flags(q)
      /\ repos_left'[o] = repos_left[o] \ {r}
  BY <1>1, <1>4 DEF InHand, Flags
<1>6. \/ /\ InHand(o)' = InHand(o) \union open \union gone
         /\ to_judge'[o] = open /\ resolved'[o] = resolved[o] \union gone
         /\ sharedPulls' = sharedPulls \union met /\ stale' = stale \ seen
      \/ /\ InHand(o)' = InHand(o) /\ UNCHANGED <<to_judge, resolved, sharedPulls, stale>>
  BY <1>1, <1>4 DEF InHand
<1>7. \A p \in InHand(o) : p[1] # r /\ p \notin seen
  BY <1>1, <1>2 DEF ListsAreApart
<1>8. sharedPulls \subseteq sharedPulls' /\ stale' \subseteq stale
  BY <1>6
<1>9. HandsAreApart'
  <2>1. \A q \in Ops : op[q] = "idle" => q # o
    BY <1>1
  <2>2. \A q \in Ops : op'[q] = "idle" => InHand(q)' = {} /\ repos_left'[q] = {}
    BY <1>1, <1>5, <2>1 DEF HandsAreApart
  <2>3. \A p \in InHand(o)' \ sharedPulls' : \A q \in Ops \ {o} : op'[q] = "idle"
    BY <1>1, <1>2, <1>6, <1>8 DEF HandsAreApart
  <2>4. \A k \in Ops \ {o} : \A p \in InHand(k)' \ sharedPulls' :
           \A q \in Ops \ {k} : op'[q] = "idle"
    BY <1>1, <1>5, <1>8 DEF HandsAreApart
  <2> QED
    BY <2>2, <2>3, <2>4 DEF HandsAreApart
<1>10. ListsAreApart'
  <2> DEFINE Apart(k, p) ==
             /\ p[1] \notin repos_left[k]
             /\ p \in resolved[k] => p \notin to_judge[k] \union to_merge[k] \union merged[k]
                                              \union Flags(k)
             /\ p \in to_judge[k] => p \notin to_merge[k] \union merged[k] \union Flags(k)
             /\ p \in to_merge[k] => p \notin merged[k] \union Flags(k)
             /\ p \in merged[k] => p \notin Flags(k)
  <2>1. \A k \in Ops : op'[k] # "scanning" => to_judge'[k] = {} /\ to_merge'[k] = {}
                                              /\ repos_left'[k] = {}
    BY <1>1, <1>5 DEF ListsAreApart
  <2>2. \A k \in Ops \ {o} : \A p \in InHand(k)' : Apart(k, p)'
    BY <1>1, <1>5 DEF ListsAreApart
  <2>3. to_merge[o] \union merged[o] \union resolved[o] \union to_judge[o] \union Flags(o)
          = InHand(o)
    BY DEF InHand, Flags
  <2>4. ASSUME NEW p \in InHand(o)' PROVE Apart(o, p)'
    <3>1. CASE p \in InHand(o)
      <4>1. p[1] # r /\ Apart(o, p)
        BY <1>7, <3>1 DEF ListsAreApart
      <4>2. p \notin open /\ p \notin gone
        BY <1>2, <4>1
      <4> QED
        BY <1>1, <1>5, <1>6, <4>1, <4>2
    <3>2. CASE p \notin InHand(o)
      <4>1. p \in open \union gone
        BY <1>6, <3>2
      <4>2. ~(p \in open /\ p \in gone) /\ p[1] = r
        BY <1>2, <4>1
      <4>3. p \notin to_merge[o] /\ p \notin merged[o] /\ p \notin resolved[o] /\ p \notin Flags(o)
        BY <2>3, <3>2
      <4> QED
        BY <1>1, <1>5, <1>6, <4>1, <4>2, <4>3
    <3> QED
      BY <3>1, <3>2
  <2> QED
    BY <2>1, <2>2, <2>4 DEF ListsAreApart
<1>11. SettledStays'
  <2>1. \A p \in Pulls : /\ p \in ours' \union stale' => pull'[p] \in {"merged", "closed"}
                         /\ p \in stale' => p \notin ours'
                         /\ logged'[p] # {} => pull'[p] # "absent"
    BY <1>1, <1>8 DEF SettledStays
  <2>2. \A p \in Pulls : /\ p \in resolved'[o] => pull'[p] \in {"merged", "closed"}
                         /\ p \in merged'[o] => p \in ours'
                         /\ p \in InHand(o)' => pull'[p] # "absent"
    BY <1>1, <1>2, <1>3, <1>6 DEF SettledStays, Open
  <2>3. \A p \in Pulls, k \in Ops \ {o} :
                         /\ p \in resolved'[k] => pull'[p] \in {"merged", "closed"}
                         /\ p \in merged'[k] => p \in ours'
                         /\ p \in InHand(k)' => pull'[p] # "absent"
    BY <1>1, <1>5 DEF SettledStays
  <2> QED
    BY <2>1, <2>2, <2>3 DEF SettledStays
<1>12. HandsAreOpen'
  <2>1. ASSUME NEW p \in InHand(o)' \ sharedPulls', p \notin resolved'[o]
        PROVE  Open(p)' \/ p \in stale' \/ p \in merged'[o]
    <3>1. CASE p \in InHand(o)
      BY <1>1, <1>6, <1>7, <1>8, <2>1, <3>1 DEF HandsAreOpen, Open
    <3>2. CASE p \notin InHand(o)
      BY <1>1, <1>2, <1>6, <2>1, <3>2 DEF Open
    <3> QED
      BY <3>1, <3>2
  <2>2. ASSUME NEW k \in Ops \ {o}, NEW p \in InHand(k)' \ sharedPulls', p \notin resolved'[k]
        PROVE  Open(p)' \/ p \in stale' \/ p \in merged'[k]
    <3>1. p \in InHand(k) /\ p \notin sharedPulls /\ p \notin resolved[k] /\ p \notin seen
      BY <1>2, <1>5, <1>8, <2>2
    <3> QED
      BY <1>1, <1>6, <3>1 DEF HandsAreOpen, Open
  <2> QED
    BY <2>1, <2>2 DEF HandsAreOpen
<1>13. TimesAreApart'
  BY <1>1, <1>8 DEF TimesAreApart, Busy
<1>14. \A p \in Pulls : latest_action(p)' = latest_action(p)
  BY <1>1 DEF latest_action
<1>15. FlagsAreOpen'
  <2> SUFFICES ASSUME NEW p \in Pulls, Sure(p), latest_action(p) = "flagged"
               PROVE  \/ Open(p) \/ p \in stale'
                      \/ \E k \in Ops : Busy(k) /\ p \in resolved'[k] \union merged[k]
    BY <1>1, <1>8, <1>14 DEF FlagsAreOpen, Sure, Busy, Open
  <2>1. CASE p \in stale /\ p \notin stale'
    <3>1. p \in seen /\ resolved'[o] = resolved[o] \union gone
      BY <1>6, <2>1
    <3>2. Open(p) \/ p \in gone
      BY <1>2, <3>1
    <3> QED
      BY <1>1, <3>1, <3>2 DEF Busy
  <2>2. CASE ~(p \in stale /\ p \notin stale')
    <3>1. p \in stale => p \in stale'
      BY <2>2
    <3>2. \A k \in Ops : resolved[k] \subseteq resolved'[k]
      BY <1>5, <1>6
    <3> QED
      BY <3>1, <3>2 DEF FlagsAreOpen
  <2> QED
    BY <2>1, <2>2
<1>16. MergesAreLogged'
  <2> SUFFICES ASSUME NEW p \in ours, Sure(p), p \notin sharedPulls'
               PROVE  /\ \/ IsMerged(p) \/ Expired(p)
                         \/ \E k \in Ops : Busy(k) /\ p \in merged[k]
                      /\ \A k \in Ops : p \notin resolved'[k]
    BY <1>1, <1>8 DEF MergesAreLogged, Sure, Busy, IsMerged, Expired
  <2>1. p \in Pulls
    BY DEF ours
  <2>2. p \in gone => p \in met
    <3> SUFFICES ASSUME p \in gone PROVE \E q \in Ops \ {o} : op[q] # "idle"
      BY <1>2
    <3>1. ~Open(p) /\ p \notin stale
      BY <1>2, <2>1 DEF SettledStays
    <3>2. PICK q \in Ops : Busy(q) /\ p \in resolved[q] \union merged[q]
      BY <1>2, <2>1, <3>1 DEF FlagsAreOpen
    <3>3. p \in InHand(q)
      BY <3>2 DEF InHand
    <3>4. q # o
      BY <1>2, <1>7, <3>3
    <3> QED
      BY <3>2, <3>4 DEF Busy
  <2>3. \A k \in Ops : p \notin resolved'[k]
    BY <1>5, <1>6, <2>2 DEF MergesAreLogged
  <2> QED
    BY <2>3 DEF MergesAreLogged
<1>17. MergeTimes'
  BY <1>1 DEF MergeTimes
<1> QED
  BY <1>0, <1>9, <1>10, <1>11, <1>12, <1>13, <1>15, <1>16, <1>17

(* Judging moves a pull request between the lists of its run, or drops it. *)
LEMMA JudgeSteps ==
    ASSUME DepsopsInv, NEW o \in Ops, NEW p \in Pulls, NEW ok \in BOOLEAN, Judge(o, p, ok)
    PROVE  DepsopsInv'
<1> USE DEF DepsopsInv
<1>0. DepsopsTypeOK'
  <2>1. [DepsopsNext]_opsVars
    BY DEF DepsopsNext
  <2> QED
    BY <2>1, StepDepsopsTyped
<1>1. /\ p \in to_judge[o] /\ to_merge[o] = {}
      /\ to_judge' = [to_judge EXCEPT ![o] = @ \ {p}]
      /\ \/ /\ flagged' = [flagged EXCEPT ![o] = @ \union ({p} \X reasons(p))]
            /\ to_merge' = [to_merge EXCEPT ![o] = IF reasons(p) = {} THEN {p} ELSE {}]
         \/ UNCHANGED <<flagged, to_merge>>
      /\ UNCHANGED <<op, opsClock, began, pull, repos_left, merged, resolved, logged, mergedAt,
                     ours, unrecorded, sharedPulls, stale>>
  BY DEF Judge, ours
<1>2. /\ to_judge \in [Ops -> SUBSET Pulls] /\ to_merge \in [Ops -> SUBSET Pulls]
      /\ flagged \in [Ops -> SUBSET (Pulls \X Reasons)]
  BY DEF DepsopsTypeOK
<1>3. \A k \in Ops \ {o} : InHand(k)' = InHand(k) /\ Flags(k)' = Flags(k)
                           /\ to_judge'[k] = to_judge[k] /\ to_merge'[k] = to_merge[k]
  BY <1>1, <1>2 DEF InHand, Flags
<1>4. \/ Flags(o)' = Flags(o) \union {p} /\ to_merge'[o] = {}
      \/ Flags(o)' = Flags(o) /\ to_merge'[o] = {p}
      \/ Flags(o)' = Flags(o) /\ to_merge'[o] = {}
  <2>1. CASE UNCHANGED <<flagged, to_merge>>
    BY <1>1, <2>1 DEF Flags
  <2>2. CASE /\ flagged' = [flagged EXCEPT ![o] = @ \union ({p} \X reasons(p))]
             /\ to_merge' = [to_merge EXCEPT ![o] = IF reasons(p) = {} THEN {p} ELSE {}]
    <3>1. flagged'[o] = flagged[o] \union ({p} \X reasons(p))
          /\ to_merge'[o] = IF reasons(p) = {} THEN {p} ELSE {}
      BY <1>2, <2>2
    <3>2. CASE reasons(p) = {}
      <4>1. flagged'[o] = flagged[o]
        BY <3>1, <3>2
      <4> QED
        BY <3>1, <3>2, <4>1 DEF Flags
    <3>3. CASE reasons(p) # {}
      <4>1. PICK w \in reasons(p) : TRUE
        BY <3>3
      <4>2. <<p, w>> \in flagged'[o]
        BY <3>1, <4>1
      <4>3. \A f \in flagged'[o] : f \in flagged[o] \/ f[1] = p
        BY <3>1
      <4>4. flagged[o] \subseteq flagged'[o]
        BY <3>1
      <4>5. Flags(o)' = Flags(o) \union {p}
        BY <4>2, <4>3, <4>4 DEF Flags
      <4> QED
        BY <3>1, <3>3, <4>5
    <3> QED
      BY <3>2, <3>3
  <2> QED
    BY <1>1, <2>1, <2>2
<1>5. \A k \in Ops : InHand(k) = to_judge[k] \union to_merge[k] \union merged[k] \union resolved[k]
                                 \union Flags(k)
  BY DEF InHand, Flags
<1>6. \A k \in Ops : InHand(k)' = to_judge'[k] \union to_merge'[k] \union merged[k]
                                  \union resolved[k] \union Flags(k)'
  BY <1>1 DEF InHand, Flags
<1>7. p \in InHand(o) /\ to_judge'[o] = to_judge[o] \ {p} /\ InHand(o)' \subseteq InHand(o)
  <2>1. p \in InHand(o) /\ to_judge'[o] = to_judge[o] \ {p}
    BY <1>1, <1>2, <1>5
  <2>2. InHand(o)' \subseteq InHand(o)
    BY <1>4, <1>5, <1>6, <2>1
  <2> QED
    BY <2>1, <2>2
<1>8. \A k \in Ops : InHand(k)' \subseteq InHand(k)
  BY <1>3, <1>7
<1>9. HandsAreApart'
  BY <1>1, <1>8 DEF HandsAreApart
<1>10. ListsAreApart'
  <2> DEFINE Apart(k, q) ==
             /\ q[1] \notin repos_left[k]
             /\ q \in resolved[k] => q \notin to_judge[k] \union to_merge[k] \union merged[k]
                                              \union Flags(k)
             /\ q \in to_judge[k] => q \notin to_merge[k] \union merged[k] \union Flags(k)
             /\ q \in to_merge[k] => q \notin merged[k] \union Flags(k)
             /\ q \in merged[k] => q \notin Flags(k)
  <2>0. op[o] = "scanning"
    BY <1>1 DEF ListsAreApart
  <2>1. \A k \in Ops : op'[k] # "scanning" => to_judge'[k] = {} /\ to_merge'[k] = {}
                                              /\ repos_left'[k] = {}
    BY <1>1, <1>3, <2>0 DEF ListsAreApart
  <2>2. \A k \in Ops \ {o} : \A q \in InHand(k)' : Apart(k, q)'
    BY <1>1, <1>3 DEF ListsAreApart
  <2>3. Apart(o, p)
    BY <1>7 DEF ListsAreApart
  <2>4. ASSUME NEW q \in InHand(o)' PROVE Apart(o, q)'
    <3>1. CASE q = p
      BY <1>1, <1>4, <1>7, <2>3, <3>1
    <3>2. CASE q # p
      <4>1. Apart(o, q)
        BY <1>8, <2>4 DEF ListsAreApart
      <4> QED
        BY <1>1, <1>4, <1>7, <3>2, <4>1
    <3> QED
      BY <3>1, <3>2
  <2> QED
    BY <2>1, <2>2, <2>4 DEF ListsAreApart
<1>11. SettledStays'
  BY <1>1, <1>8 DEF SettledStays
<1>12. HandsAreOpen'
  BY <1>1, <1>8 DEF HandsAreOpen, Open
<1>13. TimesAreApart'
  BY <1>1 DEF TimesAreApart, Busy
<1>14. \A q \in Pulls : latest_action(q)' = latest_action(q)
  BY <1>1 DEF latest_action
<1>15. FlagsAreOpen' /\ MergesAreLogged' /\ MergeTimes'
  BY <1>1, <1>14 DEF FlagsAreOpen, MergesAreLogged, MergeTimes, Sure, Busy, IsMerged, Expired, Open
<1> QED
  BY <1>0, <1>9, <1>10, <1>11, <1>12, <1>13, <1>15

(* A merge the run hears of is its own; one it does not is as if somebody  *)
(* else had merged.                                                        *)
LEMMA MergeSteps ==
    ASSUME DepsopsInv, NEW o \in Ops, NEW p \in Pulls, NEW ok \in BOOLEAN, Merge(o, p, ok)
    PROVE  DepsopsInv'
<1> USE DEF DepsopsInv
<1>0. DepsopsTypeOK'
  <2>1. [DepsopsNext]_opsVars
    BY DEF DepsopsNext
  <2> QED
    BY <2>1, StepDepsopsTyped
<1>1. /\ p \in to_merge[o] /\ to_merge' = [to_merge EXCEPT ![o] = {}]
      /\ \/ UNCHANGED <<pull, merged, mergedAt, stale>>
         \/ /\ Open(p) /\ pull' = [pull EXCEPT ![p] = "merged"]
            /\ \/ /\ merged' = [merged EXCEPT ![o] = @ \union {p}] /\ stale' = stale
                  /\ mergedAt' = [mergedAt EXCEPT ![p] = began[o]]
               \/ UNCHANGED <<merged, mergedAt>> /\ stale' = stale \union {p}
      /\ UNCHANGED <<op, opsClock, began, repos_left, to_judge, flagged, resolved, logged,
                     unrecorded, sharedPulls>>
  BY DEF Merge
<1>2. /\ to_merge \in [Ops -> SUBSET Pulls] /\ merged \in [Ops -> SUBSET Pulls]
      /\ pull \in [Pulls -> {"absent", "open", "merged", "closed"}] /\ ours \subseteq Pulls
      /\ mergedAt \in [Pulls -> 0..LastStart]
  BY DEF DepsopsTypeOK, ours
<1>3. \A k \in Ops : Flags(k)' = Flags(k)
  BY <1>1 DEF Flags
<1>4. \A k \in Ops : InHand(k) = to_judge[k] \union to_merge[k] \union merged[k] \union resolved[k]
                                 \union Flags(k)
  BY DEF InHand, Flags
<1>5. \A k \in Ops : InHand(k)' = to_judge[k] \union to_merge'[k] \union merged'[k]
                                  \union resolved[k] \union Flags(k)
  BY <1>1 DEF InHand, Flags
<1>6. \A k \in Ops \ {o} : to_merge'[k] = to_merge[k] /\ merged'[k] = merged[k]
                           /\ InHand(k)' = InHand(k)
  <2> SUFFICES ASSUME NEW k \in Ops \ {o}
               PROVE  to_merge'[k] = to_merge[k] /\ merged'[k] = merged[k] /\ InHand(k)' = InHand(k)
    OBVIOUS
  <2>1. to_merge'[k] = to_merge[k]
    BY <1>1, <1>2
  <2>2. merged'[k] = merged[k]
    BY <1>1, <1>2
  <2> QED
    BY <1>4, <1>5, <2>1, <2>2
<1>6a. op[o] # "idle" /\ began[o] # 0
  BY <1>1 DEF ListsAreApart, TimesAreApart
<1>6b. /\ \A q \in Pulls \ {p} : mergedAt'[q] = mergedAt[q]
       /\ mergedAt'[p] = mergedAt[p] \/ (mergedAt'[p] = began[o] /\ Open(p) /\ stale' = stale)
  BY <1>1, <1>2
<1>6c. ours' = ours \/ (ours' = ours \union {p} /\ Open(p) /\ stale' = stale)
  <2>1. CASE mergedAt' = mergedAt
    BY <2>1 DEF ours
  <2>2. CASE mergedAt' # mergedAt
    <3>1. mergedAt' = [mergedAt EXCEPT ![p] = began[o]] /\ Open(p) /\ stale' = stale
      BY <1>1, <2>2
    <3>2. \A q \in Pulls : q \in ours' <=> q \in ours \union {p}
      BY <1>2, <1>6a, <3>1 DEF ours
    <3>3. ours' \subseteq Pulls /\ ours \union {p} \subseteq Pulls
      BY DEF ours
    <3> QED
      BY <3>1, <3>2, <3>3
  <2> QED
    BY <2>1, <2>2
<1>6d. p \in merged'[o] => p \in merged[o] \/ mergedAt'[p] = began[o]
  BY <1>1, <1>2
<1>6e. \A q \in ours : q \in Pulls /\ ~Open(q)
  BY DEF SettledStays, Open, ours
<1>6f. \A q \in ours : mergedAt'[q] = mergedAt[q]
  BY <1>6b, <1>6e
<1>7. to_merge'[o] = {} /\ merged'[o] \subseteq merged[o] \union {p} /\ p \in InHand(o)
  <2>1. to_merge'[o] = {}
    BY <1>1, <1>2
  <2>2. merged'[o] \subseteq merged[o] \union {p}
    BY <1>1, <1>2
  <2>3. p \in InHand(o)
    BY <1>1, <1>4
  <2> QED
    BY <2>1, <2>2, <2>3
<1>8. \A k \in Ops : InHand(k)' \subseteq InHand(k)
  BY <1>4, <1>5, <1>6, <1>7
<1>9. op[o] = "scanning" /\ p \notin resolved[o] /\ p \notin Flags(o) /\ p \notin to_judge[o]
  BY <1>1, <1>7 DEF ListsAreApart
<1>10. HandsAreApart'
  BY <1>1, <1>8 DEF HandsAreApart
<1>11. ListsAreApart'
  <2> DEFINE Apart(k, q) ==
             /\ q[1] \notin repos_left[k]
             /\ q \in resolved[k] => q \notin to_judge[k] \union to_merge[k] \union merged[k]
                                              \union Flags(k)
             /\ q \in to_judge[k] => q \notin to_merge[k] \union merged[k] \union Flags(k)
             /\ q \in to_merge[k] => q \notin merged[k] \union Flags(k)
             /\ q \in merged[k] => q \notin Flags(k)
  <2>1. \A k \in Ops : op'[k] # "scanning" => to_judge'[k] = {} /\ to_merge'[k] = {}
                                              /\ repos_left'[k] = {}
    BY <1>1, <1>6, <1>9 DEF ListsAreApart
  <2>2. \A k \in Ops \ {o} : \A q \in InHand(k)' : Apart(k, q)'
    BY <1>1, <1>3, <1>6 DEF ListsAreApart
  <2>3. ASSUME NEW q \in InHand(o)' PROVE Apart(o, q)'
    <3>1. Apart(o, q)
      BY <1>8, <2>3 DEF ListsAreApart
    <3> QED
      BY <1>1, <1>3, <1>7, <1>9, <3>1
  <2> QED
    BY <2>1, <2>2, <2>3 DEF ListsAreApart
<1>12. SettledStays'
  <2> SUFFICES ASSUME NEW q \in Pulls
               PROVE  /\ q \in ours' \union stale' => pull'[q] \in {"merged", "closed"}
                      /\ q \in stale' => q \notin ours'
                      /\ \A k \in Ops :
                           /\ q \in resolved[k] => pull'[q] \in {"merged", "closed"}
                           /\ q \in merged'[k] => q \in ours'
                           /\ q \in InHand(k)' => pull'[q] # "absent"
                      /\ logged[q] # {} => pull'[q] # "absent"
    BY <1>1 DEF SettledStays
  <2>1. \A k \in Ops : q \in merged'[k] => q \in ours'
    <3>1. q \in merged'[o] => q \in ours'
      BY <1>2, <1>6a, <1>6c, <1>6d, <1>7 DEF SettledStays, ours
    <3> QED
      BY <1>6, <1>6c, <3>1 DEF SettledStays
  <2>2. q \in ours' => q \in ours \/ (q = p /\ pull'[p] = "merged")
    <3>1. ours' # ours => mergedAt' # mergedAt
      BY DEF ours
    <3> QED
      BY <1>1, <1>2, <1>6c, <3>1
  <2>3. q \in stale' => q \in stale \/ (q = p /\ ours' = ours /\ Open(p) /\ pull'[p] = "merged")
    <3>1. mergedAt' = mergedAt => ours' = ours
      BY DEF ours
    <3> QED
      BY <1>1, <1>2, <3>1
  <2>4. q \in stale' => q \notin ours'
    BY <1>6c, <1>6e, <2>3 DEF SettledStays, Open
  <2>5. pull'[q] = pull[q] \/ pull'[q] = "merged"
    BY <1>1, <1>2
  <2> QED
    BY <1>8, <2>1, <2>2, <2>3, <2>4, <2>5 DEF SettledStays
<1>13. HandsAreOpen'
  <2> SUFFICES ASSUME NEW k \in Ops, NEW q \in InHand(k)' \ sharedPulls, q \notin resolved[k]
               PROVE  Open(q)' \/ q \in stale' \/ q \in merged'[k]
    BY <1>1 DEF HandsAreOpen
  <2>1. Open(q) \/ q \in stale \/ q \in merged[k]
    BY <1>8 DEF HandsAreOpen
  <2>2. q \in stale => q \in stale'
    BY <1>1
  <2>3. q \in merged[k] => q \in merged'[k]
    BY <1>1, <1>2
  <2>4. q = p => k = o
    BY <1>7, <1>8, <1>9 DEF HandsAreApart
  <2>5. q \in Pulls
    BY <1>8 DEF InHand, DepsopsTypeOK
  <2>6. q # p => pull'[q] = pull[q]
    BY <1>1, <1>2, <2>5
  <2>7. q = p /\ merged' = [merged EXCEPT ![o] = @ \union {p}] => q \in merged'[k]
    BY <1>2, <2>4
  <2>8. Open(q) => Open(q)' \/ q \in stale' \/ q \in merged'[k]
    BY <1>1, <2>6, <2>7 DEF Open
  <2> QED
    BY <2>1, <2>2, <2>3, <2>8
<1>14. TimesAreApart'
  BY <1>1 DEF TimesAreApart, Busy
<1>15. /\ \A q \in Pulls : latest_action(q)' = latest_action(q)
       /\ \A q \in ours : IsMerged(q)' = IsMerged(q) /\ Expired(q)' = Expired(q)
       /\ Busy(o) /\ \A k \in Ops : Busy(k)' = Busy(k) /\ merged[k] \subseteq merged'[k]
  BY <1>1, <1>2, <1>6f, <1>9 DEF latest_action, IsMerged, Expired, Busy
<1>16. FlagsAreOpen'
  <2> SUFFICES ASSUME NEW q \in Pulls, Sure(q), latest_action(q) = "flagged"
               PROVE  \/ Open(q)' \/ q \in stale'
                      \/ \E k \in Ops : Busy(k) /\ q \in resolved[k] \union merged'[k]
    BY <1>1, <1>15 DEF FlagsAreOpen, Sure
  <2>1. Open(q) => Open(q)' \/ q \in stale' \/ q \in merged'[o]
    BY <1>1, <1>2 DEF Open
  <2>2. q \in stale => q \in stale'
    BY <1>1
  <2> QED
    BY <1>15, <2>1, <2>2 DEF FlagsAreOpen
<1>17. MergesAreLogged'
  <2> SUFFICES ASSUME NEW q \in ours', Sure(q)
               PROVE  /\ \/ IsMerged(q)' \/ Expired(q)'
                         \/ \E k \in Ops : Busy(k) /\ q \in merged'[k]
                      /\ \A k \in Ops : q \notin resolved[k]
    BY <1>1, <1>15 DEF MergesAreLogged, Sure
  <2>1. CASE q \in ours
    <3>1. IsMerged(q) \/ Expired(q) \/ \E k \in Ops : Busy(k) /\ q \in merged[k]
      BY <2>1 DEF MergesAreLogged
    <3>2. \A k \in Ops : q \notin resolved[k]
      BY <2>1 DEF MergesAreLogged
    <3> HIDE DEF Sure
    <3> QED
      BY <1>15, <2>1, <3>1, <3>2
  <2>2. CASE q \notin ours
    <3>1. q = p /\ Open(p) /\ mergedAt' # mergedAt
      BY <1>6c, <2>2 DEF ours
    <3>2. p \in merged'[o]
      BY <1>1, <1>2, <3>1
    <3> HIDE DEF Sure
    <3> QED
      BY <1>15, <3>1, <3>2 DEF SettledStays, Open
  <2> QED
    BY <2>1, <2>2
<1>18. MergeTimes'
  <2>1. \A k \in Ops : \A q \in merged[k] : q \in ours
    BY DEF SettledStays, DepsopsTypeOK
  <2>2. \A k \in Ops \ {o} : \A q \in merged'[k] : mergedAt'[q] = began[k]
    BY <1>6, <1>6f, <2>1 DEF MergeTimes
  <2>3. \A q \in merged[o] : mergedAt'[q] = began[o]
    BY <1>6f, <2>1 DEF MergeTimes
  <2>4. \A q \in merged'[o] : mergedAt'[q] = began[o]
    BY <1>6d, <1>7, <2>3
  <2> QED
    BY <1>1, <2>2, <2>4 DEF MergeTimes
<1> QED
  BY <1>0, <1>10, <1>11, <1>12, <1>13, <1>14, <1>16, <1>17, <1>18

(* The scan ends with nothing left to look at; the end of a run leaves     *)
(* nothing in hand, and a run that fails leaves its merges unrecorded.     *)
LEMMA PassSteps ==
    ASSUME DepsopsInv, NEW o \in Ops, OpsScanned(o) \/ OpsDone(o) \/ OpsFails(o)
    PROVE  DepsopsInv'
<1> USE DEF DepsopsInv, opsRun
<1>0. DepsopsTypeOK'
  <2>1. [DepsopsNext]_opsVars
    BY DEF DepsopsNext
  <2> QED
    BY <2>1, StepDepsopsTyped
<1>1. /\ UNCHANGED <<opsClock, began, pull, logged, mergedAt, ours, sharedPulls, stale>>
      /\ \/ /\ op[o] = "scanning" /\ op' = [op EXCEPT ![o] = "recording"]
            /\ repos_left[o] = {} /\ to_judge[o] = {} /\ to_merge[o] = {}
            /\ UNCHANGED <<repos_left, to_judge, to_merge, merged, flagged, resolved, unrecorded>>
         \/ /\ op[o] = "telling" \/ unrecorded' = unrecorded \union merged[o] \union resolved[o]
            /\ op' = [op EXCEPT ![o] = "idle"] /\ OpsEnd(o)
            /\ unrecorded \subseteq unrecorded'
  BY DEF OpsScanned, OpsDone, OpsFails, Moves, ours
<1>2. /\ op \in [Ops -> {"idle", "scanning", "recording", "tidying", "telling"}]
      /\ to_judge \in [Ops -> SUBSET Pulls] /\ to_merge \in [Ops -> SUBSET Pulls]
      /\ merged \in [Ops -> SUBSET Pulls] /\ resolved \in [Ops -> SUBSET Pulls]
      /\ flagged \in [Ops -> SUBSET (Pulls \X Reasons)] /\ repos_left \in [Ops -> SUBSET OpsRepos]
      /\ ours \subseteq Pulls
  BY DEF DepsopsTypeOK, ours
<1>3. /\ \A q \in Pulls : latest_action(q)' = latest_action(q) /\ IsMerged(q)' = IsMerged(q)
      /\ \A q \in Pulls : Open(q)' = Open(q) /\ Expired(q)' = Expired(q)
  BY <1>1 DEF latest_action, IsMerged, Expired, Open
<1>3a. MergeTimes'
  <2>1. \A k \in Ops : merged'[k] \subseteq merged[k]
    BY <1>1, <1>2 DEF OpsEnd
  <2> QED
    BY <1>1, <2>1 DEF MergeTimes
<1>4. CASE /\ op[o] = "scanning" /\ op' = [op EXCEPT ![o] = "recording"]
           /\ repos_left[o] = {} /\ to_judge[o] = {} /\ to_merge[o] = {}
           /\ UNCHANGED <<repos_left, to_judge, to_merge, merged, flagged, resolved, unrecorded>>
  <2>2. \A k \in Ops : InHand(k)' = InHand(k) /\ Flags(k)' = Flags(k)
    BY <1>4 DEF InHand, Flags
  <2>3. \A k \in Ops : op'[k] = "idle" <=> op[k] = "idle"
    BY <1>2, <1>4
  <2>4. HandsAreApart'
    BY <1>1, <1>4, <2>2, <2>3 DEF HandsAreApart
  <2>5. ListsAreApart'
    BY <1>2, <1>4, <2>2 DEF ListsAreApart
  <2>6. SettledStays'
    BY <1>1, <1>4, <2>2 DEF SettledStays
  <2>7. HandsAreOpen'
    BY <1>1, <1>4, <2>2 DEF HandsAreOpen, Open
  <2>8. \A k \in Ops : Busy(k)' = Busy(k)
    BY <1>2, <1>4 DEF Busy
  <2>9. TimesAreApart'
    BY <1>1, <2>3, <2>8 DEF TimesAreApart
  <2>10. FlagsAreOpen'
    BY <1>1, <1>3, <1>4, <2>8 DEF FlagsAreOpen, Sure
  <2>11. MergesAreLogged'
    BY <1>1, <1>2, <1>3, <1>4, <2>8 DEF MergesAreLogged, Sure
  <2> QED
    BY <1>0, <1>3a, <2>4, <2>5, <2>6, <2>7, <2>9, <2>10, <2>11
<1>5. CASE /\ op[o] = "telling" \/ unrecorded' = unrecorded \union merged[o] \union resolved[o]
           /\ op' = [op EXCEPT ![o] = "idle"] /\ OpsEnd(o)
           /\ unrecorded \subseteq unrecorded'
  <2>1. /\ op'[o] = "idle" /\ \A k \in Ops \ {o} : op'[k] = op[k]
        /\ to_judge'[o] = {} /\ to_merge'[o] = {} /\ merged'[o] = {} /\ flagged'[o] = {}
        /\ resolved'[o] = {} /\ repos_left'[o] = {}
    BY <1>2, <1>5 DEF OpsEnd
  <2>2. \A k \in Ops \ {o} : /\ to_judge'[k] = to_judge[k] /\ to_merge'[k] = to_merge[k]
                             /\ merged'[k] = merged[k] /\ flagged'[k] = flagged[k]
                             /\ resolved'[k] = resolved[k] /\ repos_left'[k] = repos_left[k]
    BY <1>2, <1>5 DEF OpsEnd
  <2>3. InHand(o)' = {}
    BY <2>1 DEF InHand
  <2>4. \A k \in Ops \ {o} : InHand(k)' = InHand(k) /\ Flags(k)' = Flags(k)
    BY <2>2 DEF InHand, Flags
  <2>5. HandsAreApart'
    <3>1. \A k \in Ops : op'[k] = "idle" => InHand(k)' = {} /\ repos_left'[k] = {}
      BY <2>1, <2>2, <2>3, <2>4 DEF HandsAreApart
    <3>2. \A k \in Ops : \A p \in InHand(k)' \ sharedPulls' : \A q \in Ops \ {k} : op'[q] = "idle"
      BY <1>1, <2>1, <2>3, <2>4 DEF HandsAreApart
    <3> QED
      BY <3>1, <3>2 DEF HandsAreApart
  <2>6. ListsAreApart'
    <3> SUFFICES ASSUME NEW k \in Ops
                 PROVE  /\ op'[k] # "scanning" => to_judge'[k] = {} /\ to_merge'[k] = {}
                                                  /\ repos_left'[k] = {}
                        /\ \A p \in InHand(k)' :
                             /\ p[1] \notin repos_left'[k]
                             /\ p \in resolved'[k] => p \notin to_judge'[k] \union to_merge'[k]
                                                              \union merged'[k] \union Flags(k)'
                             /\ p \in to_judge'[k] => p \notin to_merge'[k] \union merged'[k]
                                                              \union Flags(k)'
                             /\ p \in to_merge'[k] => p \notin merged'[k] \union Flags(k)'
                             /\ p \in merged'[k] => p \notin Flags(k)'
      BY DEF ListsAreApart
    <3>1. CASE k = o
      BY <2>1, <2>3, <3>1
    <3>2. CASE k # o
      BY <2>1, <2>2, <2>4, <3>2 DEF ListsAreApart
    <3> QED
      BY <3>1, <3>2
  <2>7. SettledStays'
    <3>1. \A p \in Pulls, k \in Ops : /\ p \in resolved'[k] => p \in resolved[k]
                                      /\ p \in merged'[k] => p \in merged[k]
                                      /\ p \in InHand(k)' => p \in InHand(k)
      BY <2>1, <2>2, <2>3, <2>4
    <3> QED
      BY <1>1, <3>1 DEF SettledStays
  <2>8. HandsAreOpen'
    <3> SUFFICES ASSUME NEW k \in Ops, NEW p \in InHand(k)' \ sharedPulls, p \notin resolved'[k]
                 PROVE  Open(p)' \/ p \in stale \/ p \in merged'[k]
      BY <1>1 DEF HandsAreOpen
    <3>1. k # o
      BY <2>3
    <3> QED
      BY <1>1, <2>2, <2>4, <3>1 DEF HandsAreOpen, Open
  <2>9. \A k \in Ops : Busy(k)' => k # o /\ Busy(k)
    BY <2>1 DEF Busy
  <2>10. TimesAreApart'
    <3>1. \A k \in Ops : op'[k] # "idle" => op[k] # "idle"
      BY <2>1
    <3> QED
      BY <1>1, <2>9, <3>1 DEF TimesAreApart
  <2>11. ASSUME NEW k \in Ops, Busy(k), NEW q \in Pulls, Sure(q)',
                NEW list \in {merged, resolved}, q \in list[k]
         PROVE  k # o
    <3>1. k = o => unrecorded' = unrecorded \union merged[o] \union resolved[o]
      BY <1>5, <2>11 DEF Busy
    <3> QED
      BY <2>11, <3>1 DEF Sure
  <2>12. FlagsAreOpen'
    <3> SUFFICES ASSUME NEW p \in Pulls, Sure(p)', latest_action(p) = "flagged", ~Open(p),
                        p \notin stale
                 PROVE  \E k \in Ops : Busy(k)' /\ p \in resolved'[k] \union merged'[k]
      BY <1>1, <1>3 DEF FlagsAreOpen
    <3>1. PICK k \in Ops : Busy(k) /\ p \in resolved[k] \union merged[k]
      BY <1>1, <1>5 DEF FlagsAreOpen, Sure
    <3>2. k # o
      BY <2>11, <3>1
    <3> QED
      BY <2>1, <2>2, <3>1, <3>2 DEF Busy
  <2>13. MergesAreLogged'
    <3> SUFFICES ASSUME NEW p \in ours, Sure(p)'
                 PROVE  /\ \/ IsMerged(p) \/ Expired(p)
                           \/ \E k \in Ops : Busy(k)' /\ p \in merged'[k]
                        /\ \A k \in Ops : p \notin resolved'[k]
      BY <1>1, <1>2, <1>3 DEF MergesAreLogged
    <3>1. p \in Pulls /\ Sure(p)
      BY <1>1, <1>2, <1>5 DEF Sure
    <3>2. \A k \in Ops : p \notin resolved'[k]
      BY <2>1, <2>2, <3>1 DEF MergesAreLogged
    <3>3. ASSUME NEW k \in Ops, Busy(k), p \in merged[k] PROVE Busy(k)' /\ p \in merged'[k]
      <4>1. k # o
        BY <2>11, <3>1, <3>3
      <4> QED
        BY <2>1, <2>2, <3>3, <4>1 DEF Busy
    <3> QED
      BY <3>1, <3>2, <3>3 DEF MergesAreLogged
  <2> QED
    BY <1>0, <1>3a, <2>5, <2>6, <2>7, <2>8, <2>10, <2>12, <2>13
<1> QED
  BY <1>1, <1>4, <1>5

(* Recording: what the run merged has its row, what it flagged alone is    *)
(* open or was settled since, what was resolved has no rows any more.      *)
LEMMA RecordSteps ==
    ASSUME DepsopsInv, NEW o \in Ops, NEW ok \in BOOLEAN, RecordLogs(o, ok)
    PROVE  DepsopsInv'
<1> USE DEF DepsopsInv, opsRun
<1>0. DepsopsTypeOK'
  <2>1. [DepsopsNext]_opsVars
    BY DEF DepsopsNext
  <2> QED
    BY <2>1, StepDepsopsTyped
<1> DEFINE when == IF o \in UserOps THEN opsClock' ELSE began[o]
<1>1. /\ op[o] = "recording"
      /\ op' = [op EXCEPT ![o] = "tidying"] \/ op' = [op EXCEPT ![o] = "telling"]
      /\ opsClock' = IF o \in UserOps THEN opsClock + 1 ELSE opsClock
      /\ \/ unrecorded' = unrecorded /\ logged' = [p \in Pulls |-> recorded(p, o, when)]
         \/ unrecorded' = unrecorded \union merged[o] \union resolved[o] /\ logged' = logged
      /\ UNCHANGED <<pull, began, repos_left, to_judge, to_merge, merged, flagged, resolved,
                     mergedAt, ours, sharedPulls, stale>>
  BY DEF RecordLogs, Moves, ours
<1>2. /\ op \in [Ops -> {"idle", "scanning", "recording", "tidying", "telling"}]
      /\ opsClock \in Nat /\ began \in [Ops -> Nat] /\ LogRetention \in Nat
      /\ flagged \in [Ops -> SUBSET (Pulls \X Reasons)]
      /\ ours \subseteq Pulls /\ unrecorded \subseteq unrecorded'
      /\ mergedAt \in [Pulls -> Nat]
  BY <1>1, DepsopsAssumption DEF DepsopsTypeOK, ours
<1>3. /\ when \in Nat /\ when >= 1 /\ when <= opsClock' /\ opsClock' >= opsClock
      /\ opsClock' \in Nat /\ when >= began[o]
  BY <1>1, <1>2 DEF TimesAreApart
<1>4. \A p \in Pulls \ sharedPulls : \A e \in logged[p] : e.processed_at < when
  <2> SUFFICES ASSUME NEW p \in Pulls \ sharedPulls, NEW e \in logged[p]
               PROVE  e.processed_at < when
    OBVIOUS
  <2>1. e.processed_at <= opsClock /\ e.processed_at < began[o] /\ e.processed_at \in Nat
    BY <1>1, RowTimes DEF TimesAreApart, Busy
  <2> QED
    BY <1>1, <1>2, <2>1
<1> HIDE DEF when
<1>5. \A k \in Ops : InHand(k)' = InHand(k) /\ Flags(k)' = Flags(k)
  BY <1>1 DEF InHand, Flags
<1>6. /\ ~Busy(o)' /\ \A k \in Ops \ {o} : Busy(k)' = Busy(k) /\ op'[k] = op[k]
      /\ op'[o] \notin {"idle", "scanning"}
  BY <1>1, <1>2 DEF Busy
<1>7. \A p \in Pulls : p \notin InHand(o) => logged'[p] = logged[p]
  BY <1>1, OthersRowsStay
<1>8. \A p \in InHand(o) : p \in Pulls /\ p \in resolved[o] \union merged[o] \union Flags(o)
  <2>1. to_judge[o] = {} /\ to_merge[o] = {}
    BY <1>1 DEF ListsAreApart
  <2> QED
    BY <2>1 DEF InHand, Flags, DepsopsTypeOK
<1>9. logged' = logged \/ \A p \in InHand(o) : p \in resolved[o] => logged'[p] = {}
  BY <1>1, <1>8 DEF recorded
<1>10. logged' # logged => unrecorded' = unrecorded
  BY <1>1
<1>11. \A p \in InHand(o) \ sharedPulls : p \notin resolved[o] /\ logged' # logged =>
          \E i \in logged'[p] :
                 /\ i.processed_at = when
                 /\ i.action = IF p \in merged[o] THEN "merged" ELSE "flagged"
                 /\ \A j \in logged'[p] \ {i} : j \in logged[p]
                 /\ \A j \in logged[p] : j.action = "merged" => j \in logged'[p]
  <2> SUFFICES ASSUME NEW p \in InHand(o) \ sharedPulls, p \notin resolved[o], logged' # logged
               PROVE  \E i \in logged'[p] :
                         /\ i.processed_at = when
                         /\ i.action = IF p \in merged[o] THEN "merged" ELSE "flagged"
                         /\ \A j \in logged'[p] \ {i} : j \in logged[p]
                         /\ \A j \in logged[p] : j.action = "merged" => j \in logged'[p]
    OBVIOUS
  <2>1. p \in Pulls /\ p \notin sharedPulls /\ (p \in merged[o] \/ p \in Flags(o))
    BY <1>8
  <2>2. p \in merged[o] => p \notin Flags(o)
    BY DEF ListsAreApart
  <2>3. logged[p] # {} => \E i \in logged[p] : \A j \in logged[p] \ {i} :
                             j.processed_at < i.processed_at
    BY <2>1 DEF TimesAreApart
  <2>4. flagged[o] \subseteq Pulls \X Reasons /\ logged[p] \subseteq Rows
    BY <1>2, <2>1, RowTimes
  <2>5. logged'[p] = recorded(p, o, when)
    BY <1>1, <2>1
  <2> QED
    BY <1>3, <1>4, <2>1, <2>2, <2>3, <2>4, <2>5, RecordAddsLatest
<1>12. HandsAreApart'
  <2>1. \A k \in Ops : op'[k] = "idle" <=> op[k] = "idle"
    BY <1>1, <1>6
  <2> QED
    BY <1>1, <1>5, <2>1 DEF HandsAreApart
<1>13. ListsAreApart'
  <2>1. \A k \in Ops : op'[k] # "scanning" => op[k] # "scanning"
    BY <1>1, <1>6
  <2> QED
    BY <1>1, <1>5, <2>1 DEF ListsAreApart
<1>14. SettledStays'
  <2>1. \A p \in Pulls : logged'[p] # {} => pull[p] # "absent"
    BY <1>7 DEF SettledStays
  <2> QED
    BY <1>1, <1>5, <2>1 DEF SettledStays
<1>15. HandsAreOpen'
  BY <1>1, <1>5 DEF HandsAreOpen, Open
<1>16. ASSUME NEW p \in InHand(o) \ sharedPulls, NEW k \in Ops \ {o} PROVE ~Busy(k)'
  BY <1>6, <1>16 DEF HandsAreApart, Busy
<1>17. TimesAreApart'
  <2>1. \A k \in Ops : began[k] <= opsClock' /\ (op'[k] # "idle" => began[k] >= 1)
    BY <1>1, <1>2, <1>3, <1>6 DEF TimesAreApart
  <2> DEFINE InTime(p) ==
               /\ \A e \in logged'[p] : e.processed_at <= opsClock' /\ e.processed_at >= 1
               /\ \A k \in Ops : Busy(k)' => \A e \in logged'[p] : e.processed_at < began[k]
               /\ logged'[p] # {} => \E i \in logged'[p] :
                                \A j \in logged'[p] \ {i} : j.processed_at < i.processed_at
  <2>2. ASSUME NEW p \in Pulls \ sharedPulls, logged'[p] = logged[p] PROVE InTime(p)
    <3>1. \A e \in logged[p] : e.processed_at \in Nat
      BY RowTimes
    <3> QED
      BY <1>2, <1>3, <1>6, <2>2, <3>1 DEF TimesAreApart
  <2>3. ASSUME NEW p \in InHand(o) \ sharedPulls, p \notin resolved[o], logged' # logged
        PROVE  InTime(p)
    <3>1. PICK i \in logged'[p] : /\ i.processed_at = when
                                  /\ \A j \in logged'[p] \ {i} : j \in logged[p]
      BY <1>11, <2>3
    <3>2. \A e \in logged[p] : e.processed_at < when /\ e.processed_at <= opsClock
                                 /\ e.processed_at >= 1 /\ e.processed_at \in Nat
      BY <1>4, <1>8, RowTimes DEF TimesAreApart
    <3>3. \A e \in logged'[p] : e.processed_at <= opsClock' /\ e.processed_at >= 1
      BY <1>2, <1>3, <3>1, <3>2
    <3>4. \A k \in Ops : ~Busy(k)'
      BY <1>6, <1>16
    <3> QED
      BY <3>1, <3>2, <3>3, <3>4
  <2>4. ASSUME NEW p \in InHand(o) \ sharedPulls, p \in resolved[o], logged' # logged
        PROVE  InTime(p)
    BY <1>9, <2>4
  <2>5. \A p \in Pulls \ sharedPulls : InTime(p)
    <3> SUFFICES ASSUME NEW p \in Pulls \ sharedPulls PROVE InTime(p)
      OBVIOUS
    <3> HIDE DEF InTime
    <3> QED
      BY <1>7, <2>2, <2>3, <2>4
  <2> QED
    BY <1>1, <2>1, <2>5 DEF TimesAreApart
<1>18. ASSUME NEW p \in InHand(o) \ sharedPulls, p \notin resolved[o], logged' # logged
       PROVE  /\ latest_action(p)' = IF p \in merged[o] THEN "merged" ELSE "flagged"
              /\ p \in merged[o] \/ IsMerged(p) => IsMerged(p)'
  <2>1. PICK i \in logged'[p] :
                 /\ i.processed_at = when
                 /\ i.action = IF p \in merged[o] THEN "merged" ELSE "flagged"
                 /\ \A j \in logged'[p] \ {i} : j \in logged[p]
                 /\ \A j \in logged[p] : j.action = "merged" => j \in logged'[p]
    BY <1>11, <1>18
  <2>2. \A j \in logged'[p] \ {i} : j.processed_at < i.processed_at
    BY <1>4, <1>8, <2>1
  <2>3. \A j \in logged'[p] : j.processed_at \in Nat
    BY <1>3, <1>4, <1>8, <2>1, RowTimes
  <2>4. latest(logged'[p]) = i
    BY <2>2, <2>3, LatestIs
  <2>5. latest_action(p)' = i.action
    BY <2>4 DEF latest_action
  <2>6. p \in merged[o] \/ IsMerged(p) => IsMerged(p)'
    <3>1. p \in merged[o] => mergedAt'[p] = began[o]
      BY <1>1 DEF MergeTimes
    <3> QED
      BY <1>1, <1>3, <2>1, <3>1 DEF IsMerged
  <2> QED
    BY <2>1, <2>5, <2>6
<1>19. ASSUME NEW p, logged'[p] = logged[p]
       PROVE  latest_action(p)' = latest_action(p) /\ IsMerged(p)' = IsMerged(p)
  BY <1>1, <1>19 DEF latest_action, IsMerged
<1>20. FlagsAreOpen'
  <2> SUFFICES ASSUME NEW p \in Pulls, Sure(p)', latest_action(p)' = "flagged", ~Open(p),
                      p \notin stale
               PROVE  \E k \in Ops : Busy(k)' /\ p \in resolved[k] \union merged[k]
    BY <1>1 DEF FlagsAreOpen, Open
  <2>1. Sure(p) /\ p \notin sharedPulls
    BY <1>1, <1>2 DEF Sure
  <2>2. CASE logged'[p] = logged[p]
    <3>1. PICK k \in Ops : Busy(k) /\ p \in resolved[k] \union merged[k]
      BY <1>19, <2>1, <2>2 DEF FlagsAreOpen
    <3>2. p \in InHand(k)
      BY <3>1 DEF InHand
    <3>3. k # o
      <4> SUFFICES ASSUME k = o PROVE FALSE
        OBVIOUS
      <4>1. unrecorded' # unrecorded \union merged[o] \union resolved[o]
        BY <3>1 DEF Sure
      <4>2. logged' = [q \in Pulls |-> recorded(q, o, when)]
        BY <1>1, <4>1
      <4>3. p \in resolved[o] => logged'[p] = {}
        BY <4>2 DEF recorded
      <4>4. p \notin resolved[o]
        BY <2>2, <4>3 DEF latest_action
      <4>5. p \in merged[o] /\ p \notin Flags(o)
        BY <3>1, <3>2, <4>4 DEF ListsAreApart
      <4>6. logged[p] \subseteq Rows /\ flagged[o] \subseteq Pulls \X Reasons
        BY <1>2, RowTimes
      <4>7. logged[p] # {} => \E i \in logged[p] : \A j \in logged[p] \ {i} :
                             j.processed_at < i.processed_at
        BY <2>1 DEF TimesAreApart
      <4>8. PICK i \in logged'[p] : i.processed_at = when
        BY <1>3, <1>4, <2>1, <3>2, <4>2, <4>4, <4>5, <4>6, <4>7, RecordAddsLatest
      <4>9. i.processed_at < when
        BY <1>4, <2>1, <2>2, <4>8
      <4> QED
        BY <1>3, <4>8, <4>9
    <3> QED
      BY <1>6, <3>1, <3>3
  <2>3. CASE logged'[p] # logged[p]
    <3>1. p \in InHand(o) /\ p \notin resolved[o] /\ logged' # logged
      BY <1>7, <1>9, <2>3 DEF latest_action
    <3>2. p \notin merged[o]
      BY <1>18, <2>1, <3>1
    <3> QED
      BY <2>1, <3>1, <3>2 DEF HandsAreOpen
  <2> QED
    BY <2>2, <2>3
<1>21. MergesAreLogged'
  <2> SUFFICES ASSUME NEW p \in ours, Sure(p)'
               PROVE  /\ \/ IsMerged(p)' \/ Expired(p)'
                         \/ \E k \in Ops : Busy(k)' /\ p \in merged[k]
                      /\ \A k \in Ops : p \notin resolved[k]
    BY <1>1 DEF MergesAreLogged
  <2>1. Sure(p) /\ p \notin sharedPulls /\ p \in Pulls
    BY <1>1, <1>2 DEF Sure
  <2>2. \A k \in Ops : p \notin resolved[k]
    BY <2>1 DEF MergesAreLogged
  <2>3. Expired(p) => Expired(p)'
    BY <1>1, <1>2, <1>3, <2>1 DEF Expired
  <2>4. IsMerged(p) => IsMerged(p)'
    BY <1>7, <1>18, <1>19, <2>1, <2>2
  <2>5. p \in merged[o] => IsMerged(p)'
    <3> SUFFICES ASSUME p \in merged[o] PROVE IsMerged(p)'
      OBVIOUS
    <3>1. unrecorded' # unrecorded \union merged[o] \union resolved[o]
      BY DEF Sure
    <3>2. logged' = [q \in Pulls |-> recorded(q, o, when)]
      BY <1>1, <3>1
    <3>3. p \in InHand(o) /\ p \notin resolved[o]
      BY <2>2 DEF InHand
    <3>4. p \notin Flags(o)
      BY <3>3 DEF ListsAreApart
    <3>5. logged[p] \subseteq Rows /\ flagged[o] \subseteq Pulls \X Reasons
      BY <1>2, <2>1, RowTimes
    <3>6. logged[p] # {} => \E i \in logged[p] : \A j \in logged[p] \ {i} :
                             j.processed_at < i.processed_at
      BY <2>1 DEF TimesAreApart
    <3>7. \E i \in logged'[p] : /\ i.action = IF p \in merged[o] THEN "merged" ELSE "flagged"
                                /\ i.processed_at = when
      BY <1>3, <1>4, <2>1, <3>2, <3>3, <3>4, <3>5, <3>6, RecordAddsLatest
    <3>8. mergedAt'[p] = began[o]
      BY <1>1 DEF MergeTimes
    <3> QED
      BY <1>3, <3>7, <3>8 DEF IsMerged
  <2>6. \A k \in Ops \ {o} : Busy(k) => Busy(k)'
    BY <1>6
  <2> QED
    BY <2>1, <2>2, <2>3, <2>4, <2>5, <2>6 DEF MergesAreLogged
<1>22. MergeTimes'
  BY <1>1 DEF MergeTimes
<1> QED
  BY <1>0, <1>12, <1>13, <1>14, <1>15, <1>17, <1>20, <1>21, <1>22

(* Tidying keeps what the latest row says, and the merges until they       *)
(* expire.                                                                 *)
LEMMA TidySteps ==
    ASSUME DepsopsInv, NEW o \in Ops, NEW ok \in BOOLEAN, TidyLogs(o, ok)
    PROVE  DepsopsInv'
<1> USE DEF DepsopsInv, opsRun
<1>0. DepsopsTypeOK'
  <2>1. [DepsopsNext]_opsVars
    BY DEF DepsopsNext
  <2> QED
    BY <2>1, StepDepsopsTyped
<1> DEFINE tidied(p) == delete_expired(collapse_duplicate_flagged(logged[p]))
<1>1. /\ op[o] = "tidying" /\ op' = [op EXCEPT ![o] = "telling"]
      /\ logged' = [p \in Pulls |-> tidied(p)] \/ logged' = logged
      /\ UNCHANGED <<pull, opsClock, began, repos_left, to_judge, to_merge, merged, flagged,
                     resolved, mergedAt, ours, unrecorded, sharedPulls, stale>>
  BY DEF TidyLogs, Moves, ours
<1>2. /\ op \in [Ops -> {"idle", "scanning", "recording", "tidying", "telling"}]
      /\ opsClock \in Nat /\ LogRetention \in Nat /\ ours \subseteq Pulls
      /\ mergedAt \in [Pulls -> Nat]
  BY DepsopsAssumption DEF DepsopsTypeOK, ours
<1>3. \A p \in Pulls : logged'[p] = logged[p] \/ logged'[p] = tidied(p)
  BY <1>1
<1>4. \A p \in Pulls : logged'[p] \subseteq logged[p]
  <2>1. \A p : tidied(p) \subseteq logged[p]
    BY DEF delete_expired, collapse_duplicate_flagged
  <2> QED
    BY <1>3, <2>1
<1>5. ASSUME NEW p \in Pulls \ sharedPulls, logged[p] # {}
      PROVE  \E i \in logged[p] :
                /\ \A j \in logged[p] \ {i} : j.processed_at < i.processed_at
                /\ logged'[p] # {} => i \in logged'[p]
                /\ \A j \in logged[p] : j.action = "merged" =>
                      j \in logged'[p] \/ j.processed_at < opsClock - LogRetention
  <2>1. PICK i \in logged[p] : \A j \in logged[p] \ {i} : j.processed_at < i.processed_at
    BY <1>5 DEF TimesAreApart
  <2>2. CASE logged'[p] = logged[p]
    BY <2>1, <2>2
  <2>3. CASE logged'[p] = tidied(p)
    BY <1>2, <2>1, <2>3, RowTimes, TidyKeepsLatest
  <2> QED
    BY <1>3, <2>2, <2>3
<1> HIDE DEF tidied
<1>6. \A k \in Ops : InHand(k)' = InHand(k) /\ Flags(k)' = Flags(k)
  BY <1>1 DEF InHand, Flags
<1>7. \A k \in Ops : /\ Busy(k)' = Busy(k)
                     /\ (op'[k] = "idle" <=> op[k] = "idle")
                     /\ (op'[k] # "scanning" => op[k] # "scanning")
  BY <1>1, <1>2 DEF Busy
<1>8. HandsAreApart'
  BY <1>1, <1>6, <1>7 DEF HandsAreApart
<1>9. ListsAreApart'
  BY <1>1, <1>6, <1>7 DEF ListsAreApart
<1>10. SettledStays'
  BY <1>1, <1>4, <1>6 DEF SettledStays
<1>11. HandsAreOpen'
  BY <1>1, <1>6 DEF HandsAreOpen, Open
<1>12. TimesAreApart'
  <2>1. \A k \in Ops : began[k] <= opsClock /\ (op'[k] # "idle" => began[k] >= 1)
    BY <1>7 DEF TimesAreApart
  <2>2. ASSUME NEW p \in Pulls \ sharedPulls, logged'[p] # {}
        PROVE  \E i \in logged'[p] : \A j \in logged'[p] \ {i} : j.processed_at < i.processed_at
    BY <1>4, <1>5, <2>2
  <2>3. ASSUME NEW p \in Pulls \ sharedPulls
        PROVE  /\ \A e \in logged'[p] : e.processed_at <= opsClock /\ e.processed_at >= 1
               /\ \A k \in Ops : Busy(k)' => \A e \in logged'[p] : e.processed_at < began[k]
    BY <1>4, <1>7 DEF TimesAreApart
  <2> QED
    BY <1>1, <2>1, <2>2, <2>3 DEF TimesAreApart
<1>13. ASSUME NEW p \in Pulls \ sharedPulls
       PROVE  /\ latest_action(p)' = "flagged" => latest_action(p) = "flagged"
              /\ IsMerged(p) => IsMerged(p)' \/ Expired(p)
  <2>1. CASE logged[p] = {}
    <3>1. logged'[p] = {}
      BY <1>4, <2>1
    <3> QED
      BY <2>1, <3>1 DEF latest_action, IsMerged
  <2>2. CASE logged[p] # {}
    <3>1. PICK i \in logged[p] :
                /\ \A j \in logged[p] \ {i} : j.processed_at < i.processed_at
                /\ logged'[p] # {} => i \in logged'[p]
                /\ \A j \in logged[p] : j.action = "merged" =>
                      j \in logged'[p] \/ j.processed_at < opsClock - LogRetention
      BY <1>5, <2>2
    <3>2. \A j \in logged[p] : j.processed_at \in Nat /\ j.processed_at >= 1
      BY RowTimes DEF TimesAreApart
    <3>3. latest(logged[p]) = i
      BY <3>1, <3>2, LatestIs
    <3>4. logged'[p] # {} => latest(logged'[p]) = i
      <4>1. \A j \in logged'[p] : j.processed_at \in Nat
        BY <1>4, <3>2
      <4>2. \A j \in logged'[p] \ {i} : j.processed_at < i.processed_at
        BY <1>4, <3>1
      <4> QED
        BY <3>1, <4>1, <4>2, LatestIs
    <3>5. latest_action(p)' = "flagged" => latest_action(p) = "flagged"
      BY <2>2, <3>3, <3>4 DEF latest_action
    <3>6. IsMerged(p) => IsMerged(p)' \/ Expired(p)
      <4> SUFFICES ASSUME NEW j \in logged[p], j.action = "merged", j \notin logged'[p],
                          j.processed_at >= mergedAt[p]
                   PROVE  Expired(p)
        BY <1>1 DEF IsMerged
      <4> QED
        BY <1>2, <3>1, <3>2 DEF Expired
    <3> QED
      BY <3>5, <3>6
  <2> QED
    BY <2>1, <2>2
<1>14. FlagsAreOpen'
  <2> SUFFICES ASSUME NEW p \in Pulls, Sure(p), latest_action(p)' = "flagged"
               PROVE  \/ Open(p) \/ p \in stale
                      \/ \E k \in Ops : Busy(k) /\ p \in resolved[k] \union merged[k]
    BY <1>1, <1>7 DEF FlagsAreOpen, Sure, Open
  <2>1. latest_action(p) = "flagged"
    BY <1>13 DEF Sure
  <2> QED
    BY <2>1 DEF FlagsAreOpen
<1>15. MergesAreLogged'
  <2> SUFFICES ASSUME NEW p \in ours, Sure(p)
               PROVE  /\ \/ IsMerged(p)' \/ Expired(p)
                         \/ \E k \in Ops : Busy(k) /\ p \in merged[k]
                      /\ \A k \in Ops : p \notin resolved[k]
    BY <1>1, <1>7 DEF MergesAreLogged, Sure, Expired
  <2>1. p \in Pulls \ sharedPulls
    BY <1>2 DEF Sure
  <2>2. IsMerged(p) => IsMerged(p)' \/ Expired(p)
    BY <1>13, <2>1
  <2> QED
    BY <2>2 DEF MergesAreLogged
<1>16. MergeTimes'
  BY <1>1 DEF MergeTimes
<1> QED
  BY <1>0, <1>8, <1>9, <1>10, <1>11, <1>12, <1>14, <1>15, <1>16

(* The invariant is inductive.                                             *)
LEMMA StepDepsops == DepsopsInv /\ [DepsopsNext]_opsVars => DepsopsInv'
<1> SUFFICES ASSUME DepsopsInv, [DepsopsNext]_opsVars PROVE DepsopsInv'
  OBVIOUS
<1>1. CASE UNCHANGED opsVars
  <2>1. UNCHANGED <<op, opsClock, began, pull, repos_left, to_judge, to_merge, merged, flagged,
                    resolved, logged, mergedAt, ours, unrecorded, sharedPulls, stale>>
    BY <1>1 DEF opsVars, opsRun, ours
  <2>2. /\ \A o \in Ops : InHand(o)' = InHand(o) /\ Flags(o)' = Flags(o) /\ Busy(o)' = Busy(o)
        /\ \A p : /\ latest_action(p)' = latest_action(p) /\ Open(p)' = Open(p)
                  /\ IsMerged(p)' = IsMerged(p) /\ Sure(p)' = Sure(p) /\ Expired(p)' = Expired(p)
    BY <2>1 DEF InHand, Flags, Busy, latest_action, Open, IsMerged, Expired, Sure
  <2>3. DepsopsTypeOK'
    BY StepDepsopsTyped DEF DepsopsInv
  <2>4. HandsAreApart' /\ ListsAreApart'
    BY <2>1, <2>2 DEF DepsopsInv, HandsAreApart, ListsAreApart
  <2>5. SettledStays' /\ HandsAreOpen' /\ TimesAreApart'
    BY <2>1, <2>2 DEF DepsopsInv, SettledStays, HandsAreOpen, TimesAreApart
  <2>6. FlagsAreOpen' /\ MergesAreLogged' /\ MergeTimes'
    BY <2>1, <2>2 DEF DepsopsInv, FlagsAreOpen, MergesAreLogged, MergeTimes
  <2> QED
    BY <2>3, <2>4, <2>5, <2>6 DEF DepsopsInv
<1>2. CASE DepsopsNext
  BY <1>1, <1>2, OutsideSteps, StartSteps, ListSteps, JudgeSteps, MergeSteps, PassSteps,
     RecordSteps, TidySteps DEF DepsopsNext, OpsHorizon
<1> QED
  BY <1>1, <1>2

(* Between runs that have it in hand, a pull request's records agree with  *)
(* GitHub.                                                                 *)
LEMMA RecordsAgree == DepsopsInv => LogMatchesGitHub
<1> SUFFICES ASSUME DepsopsInv, NEW p \in Pulls, Sure(p), \A o \in Ops : p \notin InHand(o)
             PROVE  /\ p \in ours => IsMerged(p) \/ Expired(p)
                    /\ latest_action(p) = "flagged" => Open(p) \/ p \in stale
  BY DEF LogMatchesGitHub, Sure, IsMerged, Expired, ours
<1>1. \A o \in Ops : p \notin resolved[o] \union merged[o]
  BY DEF InHand
<1> QED
  BY <1>1 DEF DepsopsInv, FlagsAreOpen, MergesAreLogged

-----------------------------------------------------------------------------
(* The scans of users.  Ages stop growing at their bound.                  *)
LEMMA InitUserScan == UserScanInit => UserScanTypeOK
<1> SUFFICES ASSUME UserScanInit PROVE UserScanTypeOK
  OBVIOUS
<1>1. 0 \in Ages /\ 0 \in 0..MaxLost
  BY UserScanAssumption DEF Ages
<1> QED
  BY <1>1 DEF UserScanInit, UserScanTypeOK

(* Every step of a thread, a tick or a restart keeps the domains.          *)
LEMMA StepUserScan == UserScanTypeOK /\ [UserScanNext]_scanVars => UserScanTypeOK'
<1> SUFFICES ASSUME UserScanTypeOK, [UserScanNext]_scanVars PROVE UserScanTypeOK'
  OBVIOUS
<1> DEFINE Steps == {"idle", "looking", "marking", "scanning", "finishing", "failing"}
           Record == /\ scan_status \in {"none", "running", "done", "error"}
                     /\ scan_age \in Ages /\ thread_age \in [Threads -> Ages]
           Going == thread \in [Threads -> Steps]
           Seen == saw_row \in [Threads -> BOOLEAN]
<1>1. Record /\ Going /\ Seen /\ lost \in 0..MaxLost
  BY DEF UserScanTypeOK
<1>2. Record' /\ Going' /\ Seen' /\ lost' \in 0..MaxLost => UserScanTypeOK'
  BY DEF UserScanTypeOK
<1>3. 0 \in Ages /\ \A a \in Ages : older(a) \in Ages
  BY UserScanAssumption DEF Ages, older
<1>4. Loses => lost' \in 0..MaxLost
  BY <1>1, UserScanAssumption DEF Loses
<1>5. \A t \in Threads, to \in Steps : thread' = [thread EXCEPT ![t] = to] => Going'
  BY <1>1
<1>6. \A t \in Threads, s \in {"running", "done", "error"} :
         SetsRow(t, s) /\ UNCHANGED thread_age => Record'
  BY <1>1 DEF SetsRow
<1>7. CASE UNCHANGED scanVars
  BY <1>1, <1>2, <1>7 DEF scanVars
<1>8. CASE UserScanTick \/ UserScanRestart
  <2>1. Record'
    BY <1>1, <1>3, <1>8 DEF UserScanTick, UserScanRestart
  <2>2. Going' /\ Seen' /\ lost' \in 0..MaxLost
    BY <1>1, <1>4, <1>8 DEF UserScanTick, UserScanRestart
  <2> QED
    BY <1>2, <2>1, <2>2
<1>9. ASSUME NEW t \in Threads, Starts(t) PROVE UserScanTypeOK'
  BY <1>1, <1>2, <1>3, <1>5, <1>9 DEF Starts, ThreadGoes
<1>10. ASSUME NEW t \in Threads, ThreadStep(t) PROVE UserScanTypeOK'
  <2>1. Record'
    BY <1>1, <1>6, <1>10 DEF ThreadStep, LooksForRow, MarksRunning, Scans, MarksDone, MarksError
  <2>2. Going'
    BY <1>5, <1>10
    DEF ThreadStep, LooksForRow, MarksRunning, Scans, MarksDone, MarksError, ThreadGoes
  <2>3. Seen' /\ lost' = lost
    BY <1>1, <1>10 DEF ThreadStep, LooksForRow, MarksRunning, Scans, MarksDone, MarksError
  <2> QED
    BY <1>1, <1>2, <2>1, <2>2, <2>3
<1>11. ASSUME NEW t \in Threads, ScanRaises(t) \/ ScanBreaks(t) PROVE UserScanTypeOK'
  BY <1>1, <1>2, <1>4, <1>5, <1>11 DEF ScanRaises, ScanBreaks, ThreadGoes
<1> QED
  BY <1>7, <1>8, <1>9, <1>10, <1>11 DEF UserScanNext, ScanAtLogin, ScanAtCrawl

-----------------------------------------------------------------------------
FeedsSpec == FeedsInit /\ [][FeedsNext]_feedVars
UserScanSpec == UserScanInit /\ [][UserScanNext]_scanVars

(* A behaviour of the composition is one of each job, which moves as the   *)
(* job's module says or not at all.                                        *)
LEMMA EachJob ==
  Spec => /\ CommitWatchSpec /\ FeedsSpec /\ PostureSpec /\ RuntimeSpec
          /\ CleanupSpec /\ DepsopsSpec /\ UserScanSpec
<1>1. Init => /\ CommitWatchInit /\ FeedsInit /\ PostureInit /\ RuntimeInit
              /\ CleanupInit /\ DepsopsInit /\ UserScanInit
  BY DEF Init
<1>2. [Next]_vars => [CommitWatchNext]_watchVars
  BY DEF Next, vars
<1>3. [Next]_vars => [FeedsNext]_feedVars
  BY DEF Next, vars
<1>4. [Next]_vars => [PostureNext]_postureVars
  BY DEF Next, vars
<1>5. [Next]_vars => [RuntimeNext]_runtimeVars
  BY DEF Next, vars
<1>6. [Next]_vars => [CleanupNext]_cleanupVars
  BY DEF Next, vars
<1>7. [Next]_vars => [DepsopsNext]_opsVars
  BY DEF Next, vars
<1>8. [Next]_vars => [UserScanNext]_scanVars
  BY DEF Next, vars
<1> QED
  BY <1>1, <1>2, <1>3, <1>4, <1>5, <1>6, <1>7, <1>8, PTL
  DEF Spec, CommitWatchSpec, FeedsSpec, PostureSpec, RuntimeSpec, CleanupSpec, DepsopsSpec,
      UserScanSpec

(* Every commit pushed to a watched branch is inspected before the state   *)
(* of the branch moves past it (commitwatch: process_repo).                *)
THEOREM CommitsAreSeen == CommitWatchSpec => []NothingPassesUnseen
<1>1. CommitWatchInv => NothingPassesUnseen
  BY DEF CommitWatchInv
<1> QED
  BY <1>1, InitCommitWatch, StepCommitWatch, PTL DEF CommitWatchSpec

(* The stored entries of KEV and OSV are those of their catalogues         *)
(* (kev/repository.py, osv/repository.py).                                 *)
THEOREM FeedsAreKept == FeedsSpec => []FeedsHold
<1>1. FeedsInv => FeedsHold
  BY DEF FeedsInv, FirmIsKnown, KeptIsStored, FeedsHold
<1> QED
  BY <1>1, InitFeeds, StepFeeds, PTL DEF FeedsSpec

(* The records of DEPSOPS agree with GitHub (PrLogRepository.record,       *)
(* find_resolved_flagged, PrLogRetention.cleanup).                         *)
THEOREM RecordsMatchGitHub == DepsopsSpec => []LogMatchesGitHub
  BY InitDepsops, StepDepsops, RecordsAgree, PTL DEF DepsopsSpec

(* In the composition every job's variables stay in their domains,         *)
(* whichever job runs.                                                     *)
THEOREM JobsTyped == Spec => []JobsTypeOK
<1>1. CommitWatchSpec => []CommitWatchInv
  BY InitCommitWatch, StepCommitWatch, PTL DEF CommitWatchSpec
<1>2. FeedsSpec => []FeedsInv
  BY InitFeeds, StepFeeds, PTL DEF FeedsSpec
<1>3. PostureSpec => []PostureInv
  BY InitPosture, StepPictured, PTL DEF PostureSpec
<1>4. RuntimeSpec => []RuntimeInv
  BY InitRuntime, StepRecords, PTL DEF RuntimeSpec
<1>5. CleanupSpec => []CleanupInv
  BY InitCleanup, StepCleanup, PTL DEF CleanupSpec
<1>6. DepsopsSpec => []DepsopsInv
  BY InitDepsops, StepDepsops, PTL DEF DepsopsSpec
<1>7. UserScanSpec => []UserScanTypeOK
  BY InitUserScan, StepUserScan, PTL DEF UserScanSpec
<1>8. /\ CommitWatchInv /\ FeedsInv /\ PostureInv /\ RuntimeInv
      /\ CleanupInv /\ DepsopsInv /\ UserScanTypeOK
      => JobsTypeOK
  BY DEF CommitWatchInv, FeedsInv, PostureInv, RuntimeInv, CleanupInv, DepsopsInv, JobsTypeOK
<1> QED
  BY <1>1, <1>2, <1>3, <1>4, <1>5, <1>6, <1>7, <1>8, EachJob, PTL

(* In the composition each job keeps what it promises.                     *)
THEOREM JobsAreSafe ==
  Spec => [](/\ NothingPassesUnseen /\ FeedsHold /\ StoredIsTold /\ RecordedWasSent
             /\ NoOrphanIssue /\ LogMatchesGitHub)
  BY EachJob, CommitsAreSeen, FeedsAreKept, WhatIsStoredIsTold, RecordsAreTrue, NoIssueIsOrphaned,
     RecordsMatchGitHub, PTL

(* What a rule was asked is one of its questions, and what it answered is  *)
(* its reply to that.                                                      *)
Answered == part \in RuleNames =>
               /\ asked \in Asks(part)
               /\ answer # NoAnswer => answer = <<Reply(part, asked)>>

LEMMA AnsweredHolds == Spec => []Answered
<1>1. Init => Answered
  BY DEF Init, Answered
<1>2. Answered /\ [Next]_vars => Answered'
  <2> SUFFICES ASSUME Answered, [Next]_vars PROVE Answered'
    OBVIOUS
  <2>1. part' = part /\ asked' = asked
    BY DEF Next, vars, ruleVars
  <2>2. answer' = answer \/ answer' = <<Reply(part, asked)>>
    BY DEF Next, vars, ruleVars
  <2> QED
    BY <2>1, <2>2 DEF Answered
<1> QED
  BY <1>1, <1>2, PTL DEF Spec

(* Any group of the rules agrees, once a rule answers as asked.            *)
LEMMA GroupAgrees ==
  ASSUME NEW rules \in SUBSET RuleNames, Answered
  PROVE  Agree(rules)
<1> SUFFICES ASSUME part \in rules, answer # NoAnswer
             PROVE  Rightly(part, asked, answer[1])
  BY DEF Agree
<1>0. part \in RuleNames
  OBVIOUS
<1>1. asked \in Asks(part) /\ answer = <<Reply(part, asked)>>
  BY <1>0 DEF Answered
<1>2. answer[1] = Reply(part, asked)
  BY <1>1
<1> QED
  BY <1>0, <1>1, <1>2, RulesAnswerRightly

(* In the composition a rule is asked once, what it is asked stays, and it *)
(* answers as its documents promise: the rules by which rows are read,     *)
(* shown, counted and sent.                                                *)
THEOREM ReadersAreRight == Spec => []ReadersAgree
<1>1. Readers \in SUBSET RuleNames
  BY DEF RuleNames
<1>2. Answered => ReadersAgree
  BY <1>1, GroupAgrees DEF ReadersAgree
<1> QED
  BY <1>2, AnsweredHolds, PTL

(* The same of audits, probes and runtimes.                                *)
THEOREM ChecksAreRight == Spec => []ChecksAgree
<1>1. Checks \in SUBSET RuleNames
  BY DEF RuleNames
<1>2. Answered => ChecksAgree
  BY <1>1, GroupAgrees DEF ChecksAgree
<1> QED
  BY <1>2, AnsweredHolds, PTL

(* The same of what is scanned in one repository.                          *)
THEOREM ScansAreRight == Spec => []ScansAgree
<1>1. ScanRules \in SUBSET RuleNames
  BY DEF RuleNames
<1>2. Answered => ScansAgree
  BY <1>1, GroupAgrees DEF ScansAgree
<1> QED
  BY <1>2, AnsweredHolds, PTL
======================================================================
