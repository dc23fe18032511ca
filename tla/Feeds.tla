-------------------------------- MODULE Feeds --------------------------------
(***************************************************************************)
(* The public feeds: the KEV catalogue, which is fetched whole and         *)
(* mirrored (kev/crawler.py), and OSV, of which what was modified within a *)
(* window is fetched entry by entry, an ecosystem at a time, and old rows  *)
(* are removed (osv/crawler.py).  A scheduled and a posted run may overlap *)
(* (CrawlRunner); what they do not manage they log, and end as successes.  *)
(***************************************************************************)
EXTENDS Integers, FiniteSets

CONSTANTS Cves,
          Ecosystems, Vulns,      \* OSV: entries in each ecosystem
          FeedRuns,               \* of either crawler
          Window, FeedRetention,      \* OSV_DAYS, OSV_RETENTION_DAYS
          LastDay, MaxOutages     \* bounds: the clock; failures

ASSUME FeedsAssumption == /\ Window \in Nat /\ FeedRetention \in Nat /\ Window <= FeedRetention
                          /\ LastDay \in Nat /\ MaxOutages \in Nat

Entries == Ecosystems \X Vulns

VARIABLES
    catalogue,      \* CVEs in CISA's feed
    kev,            \* CVEs with a row
    kevRun,         \* where each KEV run is
    current_cve_ids,   \* what it fetched
    firm,           \* ghost: stored while every run under way had it
    modified,       \* of each OSV entry, -1 if there is none
    osv,            \* modified of its row, -1 if there is none
    osvRun,         \* where each OSV run is: the ecosystems left, or not running
    cutoff, refs,   \* its cutoff, and what it is processing with the stamps listed
    records,        \* those of refs fetched in full
    kept,           \* ghost: the stamp stored by a run that was alone
    feedDay, outages

kevVars == <<catalogue, kev, kevRun, current_cve_ids, firm>>
osvVars == <<modified, osv, osvRun, cutoff, refs, records, kept>>
feedVars == <<kevVars, osvVars, feedDay, outages>>

Stamps == -1..LastDay
Idle == [running |-> FALSE, left |-> {}]

FeedsTypeOK ==
    /\ catalogue \subseteq Cves /\ kev \subseteq Cves /\ firm \subseteq Cves
    /\ kevRun \in [FeedRuns -> {"idle", "fetched", "stored", "deleting"}]
    /\ current_cve_ids \in [FeedRuns -> SUBSET Cves]
    /\ modified \in [Entries -> Stamps] /\ osv \in [Entries -> Stamps]
    /\ kept \in [Entries -> Stamps]
    /\ osvRun \in [FeedRuns -> [running : BOOLEAN, left : SUBSET Ecosystems]]
    /\ cutoff \in [FeedRuns -> (-Window)..LastDay]
    /\ refs \in [FeedRuns -> SUBSET (Entries \X Stamps)]
    /\ records \in [FeedRuns -> SUBSET (Entries \X Stamps)]
    /\ feedDay \in 0..LastDay /\ outages \in 0..MaxOutages

FeedsInit ==
    /\ catalogue = {} /\ kev = {} /\ firm = {}
    /\ kevRun = [k \in FeedRuns |-> "idle"] /\ current_cve_ids = [k \in FeedRuns |-> {}]
    /\ modified = [v \in Entries |-> -1] /\ osv = modified /\ kept = modified
    /\ osvRun = [k \in FeedRuns |-> Idle] /\ cutoff = [k \in FeedRuns |-> 0]
    /\ refs = [k \in FeedRuns |-> {}] /\ records = [k \in FeedRuns |-> {}]
    /\ feedDay = 0 /\ outages = 0

Outage == outages < MaxOutages /\ outages' = outages + 1
FailsOrNot(ok) == IF ok THEN UNCHANGED outages ELSE Outage

-----------------------------------------------------------------------------
(* Mutated form, used only to show that the property can fail: an empty    *)
(* feed is believed.                                                       *)
BelievesEmpty(k) == kev \ current_cve_ids[k]

-----------------------------------------------------------------------------
(* CISA adds an entry or takes it back.                                    *)
Catalogues(c) ==
    /\ catalogue' = IF c \in catalogue THEN catalogue \ {c} ELSE catalogue \union {c}
    /\ firm' = firm \ {c}
    /\ UNCHANGED <<kev, kevRun, current_cve_ids, osvVars, feedDay, outages>>

KevGoes(k, from, to) == kevRun[k] = from /\ kevRun' = [kevRun EXCEPT ![k] = to]

(* _fetch_cisa_kev; in an outage of theirs the answer may be an empty list *)
FetchKev(k, ok) ==
    /\ KevGoes(k, "idle", "fetched") /\ FailsOrNot(ok)
    /\ current_cve_ids' = [current_cve_ids EXCEPT ![k] = IF ok THEN catalogue ELSE {}]
    /\ UNCHANGED <<catalogue, kev, firm, osvVars, feedDay>>

(* _upsert_vulnerabilities: one commit                                     *)
UpsertKev(k) ==
    /\ KevGoes(k, "fetched", "stored")
    /\ kev' = kev \union current_cve_ids[k]
    /\ firm' = firm \union {c \in catalogue \intersect current_cve_ids[k] :
                  \A q \in FeedRuns : kevRun[q] # "idle" => c \in current_cve_ids[q]
                                                          \/ current_cve_ids[q] = {}}
    /\ UNCHANGED <<catalogue, current_cve_ids, osvVars, feedDay, outages>>

(* _apply_epss_scores changes none of this and its failure is swallowed;   *)
(* but a failed commit leaves a session on which the deletion fails too.   *)
ApplyEpss(k, ok) ==
    /\ KevGoes(k, "stored", IF ok THEN "deleting" ELSE "idle") /\ FailsOrNot(ok)
    /\ UNCHANGED <<catalogue, kev, current_cve_ids, firm, osvVars, feedDay>>

stale_kev_records(k) == IF current_cve_ids[k] = {} THEN {} ELSE kev \ current_cve_ids[k]

DeleteStaleKev(k, ok) ==
    /\ KevGoes(k, "deleting", "idle") /\ FailsOrNot(ok)
    /\ kev' = IF ok THEN kev \ stale_kev_records(k) ELSE kev
    /\ UNCHANGED <<catalogue, current_cve_ids, firm, osvVars, feedDay>>

(* The fetch or the commit of the upsert raises, or the process stops.     *)
KevFails(k) ==
    /\ kevRun[k] # "idle" /\ kevRun' = [kevRun EXCEPT ![k] = "idle"] /\ Outage
    /\ UNCHANGED <<catalogue, kev, current_cve_ids, firm, osvVars, feedDay>>

-----------------------------------------------------------------------------
Modify(v) ==
    /\ modified[v] # feedDay /\ modified' = [modified EXCEPT ![v] = feedDay]
    /\ UNCHANGED <<kevVars, osv, osvRun, cutoff, refs, records, kept, feedDay, outages>>

FeedDayPasses ==
    /\ feedDay < LastDay /\ feedDay' = feedDay + 1
    /\ UNCHANGED <<kevVars, osvVars, outages>>

StartOsv(k) ==
    /\ osvRun[k] = Idle
    /\ osvRun' = [osvRun EXCEPT ![k] = [running |-> TRUE, left |-> Ecosystems]]
    /\ cutoff' = [cutoff EXCEPT ![k] = feedDay - Window]
    /\ UNCHANGED <<kevVars, modified, osv, refs, records, kept, feedDay, outages>>

(* _fetch_unique_refs, _recent_refs; a failure costs the ecosystem.        *)
FetchRefs(k, e, ok) ==
    /\ e \in osvRun[k].left /\ refs[k] = {} /\ records[k] = {} /\ FailsOrNot(ok)
    /\ osvRun' = [osvRun EXCEPT ![k].left = @ \ {e}]
    /\ refs' = [refs EXCEPT ![k] =
                  IF ok THEN {<<v, modified[v]>> : v \in {v \in Entries :
                                 v[1] = e /\ modified[v] >= 0 /\ modified[v] >= cutoff[k]}}
                  ELSE {}]
    /\ UNCHANGED <<kevVars, modified, osv, cutoff, records, kept, feedDay>>

(* fetch_vuln_by_id, for each: a failure costs the entry.                  *)
FetchVuln(k, r, ok) ==
    /\ r \in refs[k] /\ FailsOrNot(ok)
    /\ refs' = [refs EXCEPT ![k] = @ \ {r}]
    /\ records' = [records EXCEPT ![k] = IF ok THEN @ \union {r} ELSE @]
    /\ UNCHANGED <<kevVars, modified, osv, osvRun, cutoff, kept, feedDay>>

upserted(v, stamp) == stamp

Alone(k) == \A q \in FeedRuns \ {k} : ~osvRun[q].running

(* _upsert_osv_records: a commit for every _COMMIT_EVERY records and one   *)
(* at the end; what was committed before a failure stays.                  *)
UpsertOsv(k, done) ==
    /\ refs[k] = {} /\ done \subseteq records[k] /\ records[k] # {}
    /\ FailsOrNot(done = records[k])
    /\ records' = [records EXCEPT ![k] = {}]
    /\ osv' = [v \in Entries |-> IF \E r \in done : r[1] = v
                                 THEN upserted(v, (CHOOSE r \in done : r[1] = v)[2]) ELSE osv[v]]
    /\ kept' = [v \in Entries |-> IF \E r \in done : r[1] = v
                                  THEN IF Alone(k) THEN (CHOOSE r \in done : r[1] = v)[2] ELSE -1
                                  ELSE kept[v]]
    /\ UNCHANGED <<kevVars, modified, osvRun, cutoff, refs, feedDay>>

(* _delete_old_osv_records, swallowed if it fails; the run is over.        *)
DeleteOldOsv(k, ok) ==
    /\ osvRun[k].running /\ osvRun[k].left = {} /\ refs[k] = {} /\ records[k] = {}
    /\ FailsOrNot(ok)
    /\ osvRun' = [osvRun EXCEPT ![k] = Idle]
    /\ osv' = IF ok THEN [v \in Entries |-> IF osv[v] < feedDay - FeedRetention THEN -1 ELSE osv[v]]
                    ELSE osv
    /\ UNCHANGED <<kevVars, modified, cutoff, refs, records, kept, feedDay>>

FeedsNext ==
    \/ FeedDayPasses
    \/ \E c \in Cves : Catalogues(c)
    \/ \E v \in Entries : Modify(v)
    \/ \E k \in FeedRuns :
          \/ UpsertKev(k) \/ KevFails(k) \/ StartOsv(k)
          \/ \E done \in SUBSET records[k] : UpsertOsv(k, done)
          \/ \E ok \in BOOLEAN :
                \/ FetchKev(k, ok) \/ ApplyEpss(k, ok) \/ DeleteStaleKev(k, ok)
                \/ DeleteOldOsv(k, ok)
                \/ \E e \in Ecosystems : FetchRefs(k, e, ok)
                \/ \E r \in refs[k] : FetchVuln(k, r, ok)

-----------------------------------------------------------------------------
(* What is published stays stored.  A listed CVE that was stored while no  *)
(* run under way had fetched the feed without it keeps its row as long as  *)
(* it is listed, whatever fails and even if a feed comes back empty        *)
(* (_delete_stale_kev_records).  And an OSV entry that a run fetched has a *)
(* row of that version or a later one until it expires, if no other run    *)
(* was under way when it was stored (_upsert_osv_records).                 *)
FeedsHold ==
    /\ firm \subseteq kev
    /\ \A v \in Entries : kept[v] >= feedDay - FeedRetention => osv[v] >= kept[v]
=============================================================================
