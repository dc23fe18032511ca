-------------------------------- MODULE Taxii ----------------------------------
(* taxii/router.py: a client reads a collection object by object, asking    *)
(* again for what was updated after the last one it has got.                *)
EXTENDS Naturals, FiniteSets, FiniteSetsExt

Known == {"kev", "osv"}
Collections == Known \cup {"other"}
Objects == 1..4

(* A question: the api-root and collection, when each object was updated    *)
(* (0: it is not stored), how many objects the client asks for at a time,   *)
(* and the object it then asks for by name.                                 *)
Readings == [root : BOOLEAN, collection : Collections, updated : [Objects -> 0..3],
             limit : 1..3, object : Objects]

NotFound == "404"

validate_root_and_collection(q) == q.root /\ q.collection \in Known

-----------------------------------------------------------------------------
(* Mutated form, used only to show that the property can fail: the rows     *)
(* latest updated come first.                                               *)
LatestFirst(q, x, y) == q.updated[x] < q.updated[y] \/ (q.updated[x] = q.updated[y] /\ x > y)

-----------------------------------------------------------------------------
(* _query_kev_objects, _query_osv_objects: the oldest first, those of one   *)
(* time as the table happens to give them (here by their number).           *)
later(q, x, y) == q.updated[x] > q.updated[y] \/ (q.updated[x] = q.updated[y] /\ x > y)

query_objects(q, added_after) ==
    LET stored == {x \in Objects : q.updated[x] > added_after}
    IN  {x \in stored : Cardinality({y \in stored : later(q, x, y)}) < q.limit}

(* list_objects, again and again until there is nothing more                *)
list_objects(q) ==
    LET from[t \in 0..3] ==
            LET page == query_objects(q, t) IN
            IF page = {} THEN {} ELSE page \cup from[Max({q.updated[x] : x \in page})]
    IN  from[0]

get_object(q) == IF q.updated[q.object] # 0 THEN {q.object} ELSE {}

served(q) == IF ~validate_root_and_collection(q)
             THEN [status |-> NotFound, listed |-> {}, object |-> {}]
             ELSE [status |-> IF get_object(q) = {} THEN NotFound ELSE "200",
                   listed |-> list_objects(q), object |-> get_object(q)]

(* Who goes on from the last object never sees those of its time that come  *)
(* behind it, and misses nothing else: one at a time, there is one object   *)
(* of each time to be had, and where no two share a time, or one page holds *)
(* all, nothing is missed.  The description of added_after says that what   *)
(* was updated at that time or later is returned; exactly what was updated  *)
(* at that time is not.  What is listed can be asked for by name.           *)
ServedRightly(q, r) ==
    LET stored == {x \in Objects : q.updated[x] # 0}
        missed == stored \ r.listed
        of(x) == {y \in stored : q.updated[y] = q.updated[x]}
    IN  /\ r.listed \subseteq stored
        /\ ~(q.root /\ q.collection \in Known) => r.listed = {} /\ r.status = NotFound
        /\ q.root /\ q.collection \in Known =>
             /\ \A x \in missed : \E y \in of(x) \cap r.listed : later(q, x, y)
             /\ q.limit = 1 => \A x \in stored : Cardinality(of(x) \cap r.listed) = 1
             /\ q.limit >= Cardinality(stored) =>
                  \A t \in 1..3 : {x \in stored : q.updated[x] >= t} \ query_objects(q, t)
                                    = {x \in stored : q.updated[x] = t}
             /\ (\A x \in stored : Cardinality(of(x)) = 1) => missed = {}
             /\ q.limit >= Cardinality(stored) => missed = {}
             /\ r.status = "200" <=> q.object \in stored
===============================================================================
