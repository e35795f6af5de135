---------------------------- MODULE ProjectQuota ----------------------------
(***************************************************************************)
(* ProjectQuotaReconciler (resource-cal/main.go), for one ProjectQuota: it *)
(* adds up what the objects in the namespaces of a Rancher project use and *)
(* patches the totals into the quota's status.  Every List it sends is a   *)
(* step, so that objects, namespaces and the quota change during a pass.   *)
(*                                                                         *)
(* A quota covers one type (Group and Kind), or every type of a group when *)
(* its Kind is empty: here it is the type or the group itself, and so is   *)
(* the key of the cache nsUsed.  One resource is counted and each object   *)
(* uses one unit.  A type is in Calculated when api.IsRegistered holds for *)
(* one of its versions.                                                    *)
(***************************************************************************)
EXTENDS Integers, FiniteSets, Sequences, SequencesExt

CONSTANTS
    Types,          \* API types
    Groups,         \* API groups
    GroupOf,        \* [Types -> Groups]
    Namespaced,     \* the types that live in namespaces
    Calculated,     \* the types that have a resource calculator
    Late,           \* the types of them that are not watched from the start
    Namespaces,     \* the namespaces of the cluster
    Specs,          \* the lists of quotas (types and groups) that users write
    None,           \* no ProjectQuota, or no status
    MaxObjects, MaxChanges, MaxFailures   \* bounds of an instance

ASSUME TypesAssumption == /\ IsFiniteSet(Types) /\ Namespaced \subseteq Types
                          /\ Late \subseteq Calculated /\ Calculated \subseteq Namespaced
                          /\ GroupOf \in [Types -> Groups]
                          /\ Types \intersect Groups = {}
ASSUME NamespacesAssumption == IsFiniteSet(Namespaces)
ASSUME QuotasAssumption == Specs \subseteq Seq(Types \union Groups) /\ None \notin Specs
ASSUME LimitsAssumption == {MaxObjects, MaxChanges, MaxFailures} \subseteq Nat

VARIABLES
    objects,    \* how many objects of a type a namespace holds
    members,    \* the namespaces with the project's label
    spec,       \* pj.Spec.Quotas, or None
    status,     \* pj.Status: None or [quotas, counts]
    watched,    \* r.regTypes: the types whose objects are watched
    queued,     \* whether the request is in the work queue
    events,     \* namespaces with an undelivered event of an object
    w,          \* the worker and the locals of CalculateStatus
    missed,     \* history: something no event announces has changed
    spent       \* [changes, failures] so far

cluster == <<objects, members, spec, watched>>
vars == <<cluster, status, queued, events, w, missed, spent>>

Results == {"", "Success", "Error"}
Count == [used : Nat, result : Results]
ASSUME NoneAssumption ==
    /\ None \notin Count
    /\ None \notin [quotas : Specs, counts : Seq(Count)]
NothingCached == [q \in Types \union Groups |-> None]

Idle == [pc |-> "idle", spec |-> <<>>, todo |-> <<>>, kinds |-> {}, i |-> 1,
         nsUsed |-> NothingCached, turn |-> {}, counts |-> <<>>]

Init == /\ objects \in [Namespaces -> [Types -> 0..MaxObjects]]
        /\ \A ns \in Namespaces, t \in Types \ Namespaced : objects[ns][t] = 0
        /\ members \in SUBSET Namespaces
        /\ spec \in Specs
        /\ status = None /\ watched = Calculated \ Late
        /\ queued = TRUE /\ events = {}
        /\ w = Idle
        /\ missed = FALSE
        /\ spent = [changes |-> 0, failures |-> 0]

Spend(what, max) == /\ spent[what] < max
                    /\ spent' = [spent EXCEPT ![what] = @ + 1]
SpendChange  == Spend("changes", MaxChanges)
SpendFailure == Spend("failures", MaxFailures)

-----------------------------------------------------------------------------
(* Reconcile.  An error puts the request back into the queue.              *)

ReturnNil == w' = Idle /\ UNCHANGED queued
ReturnErr == w' = Idle /\ queued' = TRUE

Dequeue == /\ w.pc = "idle" /\ queued
           /\ queued' = FALSE
           /\ w' = [Idle EXCEPT !.pc = "get"]
           /\ missed' = FALSE
           /\ UNCHANGED <<cluster, status, events, spent>>

GetQuota == /\ w.pc = "get"
            /\ IF spec = None
               THEN ReturnNil
               ELSE /\ w' = [w EXCEPT !.pc = "members", !.spec = spec]
                    /\ UNCHANGED queued
            /\ UNCHANGED <<cluster, status, events, missed, spent>>

\* The API server lists the same namespaces in the same order.
ListMembers ==
    /\ w.pc = "members"
    /\ w' = [w EXCEPT !.pc = "kinds", !.todo = SetToSeq(members),
                      !.counts = [i \in DOMAIN w.spec |-> [used |-> 0, result |-> ""]]]
    /\ UNCHANGED <<cluster, status, queued, events, missed, spent>>

\* ListKinds takes what discovery could tell, and no error is returned when
\* some groups, or all, could not be discovered.  A type is seen with all of
\* its versions or not at all.
ListKinds(seen) ==
    /\ w.pc = "kinds"
    /\ IF seen = Types THEN UNCHANGED <<spent, missed>>
                       ELSE SpendFailure /\ missed' = TRUE
    /\ w' = [w EXCEPT !.kinds = seen,
                      !.pc = IF w.todo = <<>> \/ w.spec = <<>> THEN "patch" ELSE "count"]
    /\ UNCHANGED <<cluster, status, queued, events>>

\* UsedQuota: without a calculator only "no objects" can be counted.
UsedQuota(ns, t) ==
    IF t \in Calculated THEN [used |-> objects[ns][t], result |-> "Success"]
    ELSE [used |-> 0, result |-> IF objects[ns][t] > 0 THEN "Error" ELSE "Success"]

\* On to the next quota, or to the first one of the next namespace.
QuotaTooMany(v) ==
    CASE v.i <= Len(v.spec)  -> [v EXCEPT !.pc = "count", !.i = @ + 1]
      [] v.i > Len(v.spec) /\ Len(v.todo) > 1 ->
             [v EXCEPT !.pc = "count", !.i = 1, !.todo = Tail(@), !.nsUsed = NothingCached]
      [] OTHER -> [v EXCEPT !.pc = "patch", !.todo = <<>>]
CacheKept(v) ==
    CASE v.i < Len(v.spec)   -> [v EXCEPT !.pc = "count", !.i = @ + 1]
      [] v.i = Len(v.spec) /\ Len(v.todo) > 1 ->
             [v EXCEPT !.pc = "count", !.i = 1, !.todo = Tail(@)]
      [] OTHER -> [v EXCEPT !.pc = "patch", !.todo = <<>>]
Advance(v) ==
    CASE v.i < Len(v.spec)   -> [v EXCEPT !.pc = "count", !.i = @ + 1]
      [] v.i = Len(v.spec) /\ Len(v.todo) > 1 ->
             [v EXCEPT !.pc = "count", !.i = 1, !.todo = Tail(@), !.nsUsed = NothingCached]
      [] OTHER -> [v EXCEPT !.pc = "patch", !.todo = <<>>]

Quota == w.spec[w.i]
Cached(q) == w.nsUsed[q] # None

\* A key that was counted in this namespace replaces the totals.
CountAgain == /\ w.pc = "count" /\ Cached(Quota)
              /\ w' = Advance([w EXCEPT !.counts[w.i] = w.nsUsed[Quota]])
              /\ UNCHANGED <<cluster, status, queued, events, missed, spent>>

\* One type: the usage is added, the result is that of the last namespace.
CountType ==
    /\ w.pc = "count" /\ Quota \in Types /\ ~ Cached(Quota)
    /\ LET u == UsedQuota(Head(w.todo), Quota) IN
       IF Quota \notin w.kinds \intersect Namespaced
       THEN ReturnErr
       ELSE /\ w' = Advance([w EXCEPT !.nsUsed[Quota] = u,
                                      !.counts[w.i] = [used   |-> @.used + u.used,
                                                       result |-> u.result]])
            /\ UNCHANGED queued
    /\ UNCHANGED <<cluster, status, events, missed, spent>>

OpenGroup == /\ w.pc = "count" /\ Quota \in Groups /\ ~ Cached(Quota)
             /\ w' = [w EXCEPT !.pc = "group",
                               !.turn = {t \in w.kinds : GroupOf[t] = Quota}]
             /\ UNCHANGED <<cluster, status, queued, events, missed, spent>>

\* One type of a group, in the order of a Go map: counted before or now.
CountOfGroup(t) ==
    /\ w.pc = "group" /\ t \in w.turn
    /\ LET u == IF Cached(t) THEN w.nsUsed[t] ELSE UsedQuota(Head(w.todo), t)
           bad == "Error" \in {w.counts[w.i].result, u.result}
       IN  IF t \notin Namespaced
           THEN ReturnErr
           ELSE /\ w' = [w EXCEPT
                           !.turn = @ \ {t},
                           !.nsUsed[Quota] = IF Cached(t) THEN @ ELSE u,
                           !.counts[w.i] = [used   |-> @.used + u.used,
                                            result |-> IF bad THEN "Error" ELSE "Success"]]
                /\ UNCHANGED queued
    /\ UNCHANGED <<cluster, status, events, missed, spent>>

CloseGroup == /\ w.pc = "group" /\ w.turn = {}
              /\ w' = Advance(w)
              /\ UNCHANGED <<cluster, status, queued, events, missed, spent>>

Notifies(new) == new # status

PatchStatus(out) ==
    LET valid == spec # None /\ \A i \in DOMAIN w.counts : w.counts[i].result # ""
        new   == [quotas |-> w.spec, counts |-> w.counts]
    IN  /\ w.pc = "patch" /\ out \in {"ok", "rejected", "lost"}
        /\ IF valid /\ out # "ok" THEN SpendFailure ELSE UNCHANGED spent
        /\ IF valid /\ out # "rejected"
           THEN status' = new /\ queued' = (queued \/ out # "ok" \/ Notifies(new))
           ELSE status' = status /\ queued' = TRUE
        /\ w' = Idle
        /\ UNCHANGED <<cluster, events, missed>>

\* A Get or a List that fails ends the pass with its error.
Reading == \/ w.pc \in {"get", "members"}
           \/ w.pc = "count" /\ Quota \in Types /\ ~ Cached(Quota)
           \/ w.pc = "group" /\ \E t \in w.turn : ~ Cached(t)

RequestFails == /\ Reading
                /\ SpendFailure
                /\ ReturnErr
                /\ UNCHANGED <<cluster, status, events, missed>>

-----------------------------------------------------------------------------
(* ProjectQuotaForObjects: the namespace is read when the event is handled. *)

Deliver(ns) == /\ ns \in events
               /\ events' = events \ {ns}
               /\ queued' = (queued \/ ns \in members)
               /\ UNCHANGED <<cluster, status, w, missed, spent>>

MapFails(ns) == /\ ns \in events
                /\ SpendFailure
                /\ events' = events \ {ns}
                /\ missed' = TRUE
                /\ UNCHANGED <<cluster, status, queued, w>>

\* Only types with a calculator are watched, each once (r.mu keeps two callers
\* apart); a watch begins with a List, and so announces the objects there are.
StartWatcher(t) ==
    /\ t \in Calculated \ watched
    /\ watched' = watched \union {t}
    /\ events' = events \union {ns \in Namespaces : objects[ns][t] > 0}
    /\ UNCHANGED <<objects, members, spec, status, queued, w, missed, spent>>

-----------------------------------------------------------------------------
(* Users.                                                                  *)

\* What nothing announces: objects that no watch will see, and the last one
\* that goes before its watch begins.
ChangeObjects(ns, t, n) ==
    /\ SpendChange
    /\ t \in Namespaced /\ objects[ns][t] # n
    /\ objects' = [objects EXCEPT ![ns][t] = n]
    /\ events' = IF t \in watched THEN events \union {ns} ELSE events
    /\ missed' = (missed \/ t \notin Calculated \/ (t \notin watched /\ n = 0))
    /\ UNCHANGED <<members, spec, watched, status, queued, w>>

MoveNamespace(ns) ==
    /\ SpendChange
    /\ members' = SymDiff(members, {ns})
    /\ missed' = TRUE
    /\ UNCHANGED <<objects, spec, watched, status, queued, events, w>>

ChangeQuota(new) ==
    /\ SpendChange
    /\ new # spec
    /\ spec' = new
    /\ status' = IF None \in {spec, new} THEN None ELSE status
    /\ queued' = TRUE
    /\ UNCHANGED <<objects, members, watched, events, w, missed>>

-----------------------------------------------------------------------------
PassStep == \/ GetQuota \/ ListMembers
            \/ \E seen \in SUBSET Types : ListKinds(seen)
            \/ CountAgain \/ CountType \/ OpenGroup \/ CloseGroup
            \/ \E t \in Types : CountOfGroup(t)
            \/ \E out \in {"ok", "rejected", "lost"} : PatchStatus(out)

Next == \/ Dequeue \/ PassStep \/ RequestFails
        \/ \E ns \in Namespaces : \/ Deliver(ns) \/ MapFails(ns) \/ MoveNamespace(ns)
                                  \/ \E t \in Types, n \in 0..MaxObjects :
                                         ChangeObjects(ns, t, n)
        \/ \E t \in Types : StartWatcher(t)
        \/ \E new \in Specs \union {None} : ChangeQuota(new)

Spec == Init /\ [][Next]_vars

\* The worker and the informers keep running.
FairSpec == /\ Spec /\ WF_vars(Dequeue) /\ WF_vars(PassStep)
            /\ \A ns \in Namespaces : WF_vars(Deliver(ns))

-----------------------------------------------------------------------------
(* Properties.                                                             *)

\* Types of the cluster, the queue and the locals of CalculateStatus; the two
\* loops stay inside the quotas and the types that were discovered.
TypeOK ==
    /\ objects \in [Namespaces -> [Types -> 0..MaxObjects]]
    /\ members \subseteq Namespaces /\ watched \subseteq Calculated
    /\ spec \in Specs \union {None}
    /\ status # None => /\ status.quotas \in Specs
                        /\ status.counts \in [DOMAIN status.quotas -> Count]
    /\ queued \in BOOLEAN /\ missed \in BOOLEAN
    /\ events \subseteq Namespaces
    /\ w.pc \in {"idle", "get", "members", "kinds", "count", "group", "patch"}
    /\ w.spec \in Specs \union {<<>>}
    /\ w.kinds \subseteq Types /\ w.turn \subseteq w.kinds
    /\ w.pc \in {"count", "group"} => w.i \in DOMAIN w.spec /\ w.todo # <<>>
    /\ w.counts \in Seq(Count)
    /\ w.nsUsed \in [Types \union Groups -> Count \union {None}]
    /\ spent \in [changes : 0..MaxChanges, failures : 0..MaxFailures]

Covered(q) == {t \in Types : t = q \/ GroupOf[t] = q}

Use == [x \in Namespaces \X Types |-> objects[x[1]][x[2]]]
Total(q) == SumFunctionOnSet(Use, members \X (Covered(q) \intersect Calculated))

\* No pass runs or is due, all watches run, and every change since the last
\* pass was announced.
Settled == w.pc = "idle" /\ ~ queued /\ events = {} /\ watched = Calculated /\ ~ missed

\* ResourceQuotaStatus.Used "is the current observed total usage of the
\* resource" (projectquota_types.go:69): whatever happened while earlier
\* passes counted namespace by namespace, with a cache per namespace
\* (main.go:245-303), and before their types were watched, in the end the
\* status holds the totals of the project.
\* Only a list that names a quota twice is excepted: its second mention gets
\* what the cache holds of the last namespace (main.go:255).
UsedIsTotal ==
    Settled /\ spec # None /\ IsInjective(spec) =>
        /\ status # None /\ status.quotas = spec
        /\ \A i \in DOMAIN spec : status.counts[i].used = Total(spec[i])

\* UsedQuota reports an error for objects whose "resource calculator" is "not
\* defined" (main.go:368): a quota that leaves objects out never says Success.
ErrorsReported ==
    Settled /\ spec # None =>
        \A i \in DOMAIN spec :
            (\E ns \in members, t \in Covered(spec[i]) \ Calculated : objects[ns][t] > 0)
                => status.counts[i].result = "Error"

\* The types a quota covers can all be counted per namespace.
Countable == spec # None => \A i \in DOMAIN spec : Covered(spec[i]) \subseteq Namespaced

=============================================================================
