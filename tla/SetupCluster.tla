---------------------------- MODULE SetupCluster ----------------------------
(***************************************************************************)
(* SetupClusterForPrometheus (main.go): what is created around one         *)
(* Prometheus.  A call finds out whether the Prometheus is the default     *)
(* one, then upserts a ServiceAccount, a Role and a RoleBinding named      *)
(* "trickster", a preset and, for the default, an AppBinding, and polls    *)
(* for the token of the account.  Calls run one after the other; around    *)
(* them are users, Rancher, the token controller and the garbage           *)
(* collector.  Every request is a step, and CreateOrPatch is two: a Get,   *)
(* then a Create or a Patch of the fields that differ from what was got.   *)
(*                                                                         *)
(* Abstractions.  An object is its owner and its content: the Prometheus   *)
(* whose selectors a preset holds or that an AppBinding refers to, or None *)
(* when it holds anything else.  A write whose answer is lost is a write and an Abandon.    *)
(* The project of kube-system does not change, so that the two Gets of     *)
(* isInProject count as one.                                               *)
(***************************************************************************)
EXTENDS Naturals, FiniteSets

CONSTANTS
    Proms,          \* Prometheuses
    Namespaces,     \* the namespaces they live in
    None,           \* no object, no owner, other content
    Unread,         \* the Get of an upsert has still to be sent
    MaxCalls, MaxChanges, MaxFailures   \* bounds of an instance

ASSUME NoneAssumption   == None \notin Proms \cup {Unread}
ASSUME BoundsAssumption == {MaxCalls, MaxChanges, MaxFailures} \subseteq Nat

VARIABLES
    rancher,      \* whether Rancher manages the cluster
    prom,         \* each Prometheus: [ns, up, uid], uid counts incarnations
    inSystem,     \* whether a namespace is in the system project
    obj,          \* the objects that upserts write: None or [owner, data]
    token,        \* namespaces whose account has a Secret with a token
    w,            \* the call in progress and its locals
    last,         \* history: the last call, if it returned without an error
    served,       \* history: Prometheuses that live and were set up, after which
                  \* no call was made for another one of their namespace
    reg,          \* history: registrations since the AppBinding was created
    touched,      \* history: objects users changed since the last call got them
    everSystem,   \* history: namespaces that ever were in the system project
    mistaken,     \* history: Rancher was not recognised in some call
    spent         \* [calls, changes, failures] so far

cluster == <<rancher, prom, inSystem>>
history == <<last, served, reg, touched, everSystem, mistaken>>
vars    == <<cluster, obj, token, w, history, spent>>

Upserts == {"account", "role", "binding", "preset", "appbinding"}
ClusterPreset == <<"clusterpreset", None>>
Keys == (Upserts \X Namespaces) \cup {ClusterPreset}

Owner  == {"Prometheus", "Role"} \X Proms \X (Nat \ {0})
Object == [owner : Owner \cup {None}, data : Proms \cup {None}]

\* What is absent is no object and no owner.
ASSUME ObjectAssumption == None \notin Object \cup Owner /\ Unread \notin Object

Stages == {"idle", "detect", "prom", "default", "service", "register", "poll"}
             \cup Upserts

Idle == [pc |-> "idle", p |-> None, rancher |-> FALSE, uid |-> 0, default |-> FALSE, seen |-> Unread]

Here == prom[w.p].ns
PromLives(p, uid) == prom[p].up /\ prom[p].uid = uid

Init ==
    /\ rancher \in BOOLEAN
    /\ prom \in [Proms -> [ns : Namespaces, up : {TRUE}, uid : {1}]]
    /\ inSystem \in [Namespaces -> BOOLEAN]
    /\ obj = [k \in Keys |-> None]
    /\ token = {}
    /\ w = Idle
    /\ last = None
    /\ served = {}
    /\ reg = [n \in Namespaces |-> 0]
    /\ touched = {}
    /\ everSystem = {n \in Namespaces : inSystem[n]}
    /\ mistaken = FALSE
    /\ spent = [calls |-> 0, changes |-> 0, failures |-> 0]

Spend(what, max) == /\ spent[what] < max
                    /\ spent' = [spent EXCEPT ![what] = @ + 1]
SpendChange  == Spend("changes", MaxChanges)
SpendFailure == Spend("failures", MaxFailures)
-----------------------------------------------------------------------------
(* The call.  An error ends it and leaves behind what was written.         *)

Fail == w' = Idle

Call(p) ==
    /\ w.pc = "idle" /\ Spend("calls", MaxCalls)
    /\ w' = [Idle EXCEPT !.pc = "detect", !.p = p]
    /\ last' = None
    /\ served' = {q \in served : q = p \/ prom[q].ns # prom[p].ns}
    /\ touched' = {}
    /\ UNCHANGED <<cluster, obj, token, reg, everSystem, mistaken>>

\* DetectClusterManager takes a discovery error for a cluster without Rancher.
Detect(answer) ==
    /\ w.pc = "detect"
    /\ IF answer = rancher THEN UNCHANGED <<mistaken, spent>>
                           ELSE rancher /\ SpendFailure /\ mistaken' = TRUE
    /\ w' = [w EXCEPT !.pc = "prom", !.rancher = answer]
    /\ UNCHANGED <<cluster, obj, token, last, served, reg, touched, everSystem>>

PromNotDecoded ==
    /\ w.pc = "prom"
    /\ IF prom[w.p].up THEN w' = [w EXCEPT !.pc = "default"] ELSE Fail
    /\ UNCHANGED <<cluster, obj, token, history, spent>>
GetProm ==
    /\ w.pc = "prom"
    /\ IF prom[w.p].up
         THEN w' = [w EXCEPT !.pc = "default", !.uid = prom[w.p].uid]
         ELSE Fail
    /\ UNCHANGED <<cluster, obj, token, history, spent>>

\* The default is the Prometheus of the system project, or without Rancher
\* any that is the only one of its namespace.
Singleton(n) == Cardinality({p \in Proms : prom[p].up /\ prom[p].ns = n}) = 1

IsDefault ==
    /\ w.pc = "default"
    /\ w' = [w EXCEPT !.pc = "service",
                      !.default = IF w.rancher THEN inSystem[Here]
                                               ELSE Singleton(Here)]
    /\ UNCHANGED <<cluster, obj, token, history, spent>>

FindService ==
    /\ w.pc = "service"
    /\ w' = [w EXCEPT !.pc = "account"]
    /\ UNCHANGED <<cluster, obj, token, history, spent>>

\* CreatePreset: cluster-wide without Rancher and for the default.
AlwaysClusterPreset == ClusterPreset
PresetKey == IF w.rancher /\ ~ w.default THEN <<"preset", Here>> ELSE ClusterPreset

Key == IF w.pc = "preset" THEN PresetKey ELSE <<w.pc, Here>>

\* NewControllerRef(&prom, gvk): the RoleBinding's has the kind of a Role.
OwnerRef ==
    CASE w.pc \in {"account", "role"} -> <<"Prometheus", w.p, w.uid>>
      [] w.pc = "binding"             -> <<"Role", w.p, w.uid>>
      [] OTHER                        -> None

Content == IF w.pc \in {"preset", "appbinding"} THEN w.p ELSE None

RegisterAlways(created) ==
    CASE w.pc = "account" -> "role"
      [] w.pc = "role"    -> "binding"
      [] w.pc = "binding" -> "preset"
      [] w.pc = "preset"  -> IF w.default THEN "appbinding" ELSE "poll"
      [] OTHER            -> "register"
NextStage(created) ==
    CASE w.pc = "account" -> "role"
      [] w.pc = "role"    -> "binding"
      [] w.pc = "binding" -> "preset"
      [] w.pc = "preset"  -> IF w.default THEN "appbinding" ELSE "poll"
      [] OTHER            -> IF created THEN "register" ELSE "poll"

GetObject ==
    /\ w.pc \in Upserts /\ w.seen = Unread
    /\ w' = [w EXCEPT !.seen = obj[Key]]
    /\ touched' = touched \ {Key}
    /\ UNCHANGED <<cluster, obj, token, last, served, reg, everSystem, mistaken,
                   spent>>

\* Create fails when the object exists by now.
CreateObject ==
    /\ w.pc \in Upserts /\ w.seen = None
    /\ IF obj[Key] # None
         THEN Fail /\ UNCHANGED <<obj, reg>>
         ELSE /\ obj' = [obj EXCEPT ![Key] = [owner |-> OwnerRef, data |-> Content]]
              /\ reg' = IF w.pc = "appbinding" THEN [reg EXCEPT ![Here] = 0] ELSE reg
              /\ w' = [w EXCEPT !.pc = NextStage(TRUE), !.seen = Unread]
    /\ UNCHANGED <<cluster, token, last, served, touched, everSystem, mistaken,
                   spent>>

\* Patch sends the difference between what was got and what is wanted, and
\* fails when the object is gone by now.
OwnerOnCreateOnly(o) ==
    [o EXCEPT !.data = IF Content = w.seen.data THEN @ ELSE Content]
ContentOnCreateOnly(o) ==
    [o EXCEPT !.owner = IF OwnerRef = w.seen.owner THEN @ ELSE OwnerRef]
Patched(o) ==
    [owner |-> IF OwnerRef = w.seen.owner THEN o.owner ELSE OwnerRef,
     data  |-> IF Content = w.seen.data THEN o.data ELSE Content]

PatchObject ==
    /\ w.pc \in Upserts /\ w.seen \notin {Unread, None}
    /\ IF obj[Key] = None
         THEN Fail /\ UNCHANGED obj
         ELSE /\ obj' = [obj EXCEPT ![Key] = Patched(@)]
              /\ w' = [w EXCEPT !.pc = NextStage(FALSE), !.seen = Unread]
    /\ UNCHANGED <<cluster, token, history, spent>>

RegisterPrometheus ==
    /\ w.pc = "register"
    /\ reg' = [reg EXCEPT ![Here] = @ + 1]
    /\ w' = [w EXCEPT !.pc = "poll"]
    /\ UNCHANGED <<cluster, obj, token, last, served, touched, everSystem,
                   mistaken, spent>>

\* PollImmediate: a missing account, Secret or key of it is polled for again.
TokenReady == obj[<<"account", Here>>] # None /\ Here \in token

Poll ==
    /\ w.pc = "poll" /\ TokenReady
    /\ last' = w
    /\ served' = IF PromLives(w.p, w.uid) THEN served \cup {w.p} ELSE served
    /\ w' = Idle
    /\ UNCHANGED <<cluster, obj, token, reg, touched, everSystem, mistaken, spent>>

PollTimesOut ==
    /\ w.pc = "poll"
    /\ Fail
    /\ UNCHANGED <<cluster, obj, token, history, spent>>

\* A request fails, or the process dies, before or after the API server acted.
Abandon ==
    /\ w.pc # "idle"
    /\ SpendFailure
    /\ Fail
    /\ UNCHANGED <<cluster, obj, token, history>>
-----------------------------------------------------------------------------
(* The rest of the cluster.                                                *)

\* A Prometheus is deleted, or created again.
ChangeProm(p) ==
    /\ SpendChange
    /\ prom' = [prom EXCEPT ![p] = [ns  |-> @.ns, up |-> ~ @.up,
                                      uid |-> IF @.up THEN @.uid ELSE @.uid + 1]]
    /\ served' = served \ {p}
    /\ UNCHANGED <<rancher, inSystem, obj, token, w, last, reg, touched, everSystem,
                   mistaken>>

MoveNamespace(n) ==
    /\ rancher /\ SpendChange
    /\ inSystem' = [inSystem EXCEPT ![n] = ~ @]
    /\ everSystem' = everSystem \cup {n}
    /\ UNCHANGED <<rancher, prom, obj, token, w, last, served, reg, touched, mistaken>>

\* A user deletes a preset or an AppBinding; what has an owner is left alone.
DeleteObject(k) ==
    /\ obj[k] # None /\ obj[k].owner = None /\ SpendChange
    /\ obj' = [obj EXCEPT ![k] = None]
    /\ touched' = touched \cup {k}
    /\ UNCHANGED <<cluster, token, w, last, served, reg, everSystem, mistaken>>

\* A user creates a preset of that name, or edits it.
WritePreset(k) ==
    /\ k[1] \in {"preset", "clusterpreset"} /\ SpendChange
    /\ obj' = [obj EXCEPT ![k] = [owner |-> None, data |-> None]]
    /\ touched' = touched \cup {k}
    /\ UNCHANGED <<cluster, token, w, last, served, reg, everSystem, mistaken>>

\* The token controller names a Secret in the account, and has filled it.
IssueToken(n) ==
    /\ obj[<<"account", n>>] # None /\ n \notin token
    /\ token' = token \cup {n}
    /\ UNCHANGED <<cluster, obj, w, history, spent>>

\* The garbage collector looks for an owner of that kind, name and UID; the
\* token of an account is deleted with it.
OwnerLives(o) == o[1] = "Prometheus" /\ PromLives(o[2], o[3])

Collect(k) ==
    /\ obj[k] # None /\ obj[k].owner # None /\ ~ OwnerLives(obj[k].owner)
    /\ obj' = [obj EXCEPT ![k] = None]
    /\ token' = IF k[1] = "account" THEN token \ {k[2]} ELSE token
    /\ UNCHANGED <<cluster, w, history, spent>>
-----------------------------------------------------------------------------
CallStep ==
    \/ \E answer \in BOOLEAN : Detect(answer)
    \/ GetProm \/ IsDefault \/ FindService
    \/ GetObject \/ CreateObject \/ PatchObject
    \/ RegisterPrometheus \/ Poll \/ PollTimesOut

Next ==
    \/ \E p \in Proms : Call(p) \/ ChangeProm(p)
    \/ CallStep \/ Abandon
    \/ \E n \in Namespaces : MoveNamespace(n) \/ IssueToken(n)
    \/ \E k \in Keys : DeleteObject(k) \/ WritePreset(k) \/ Collect(k)

Spec == Init /\ [][Next]_vars
-----------------------------------------------------------------------------
(* Properties.                                                             *)

\* Types of the objects, of the call's locals and of the history; what an
\* upsert has got from the API server is an object or nothing.
TypeOK ==
    /\ rancher \in BOOLEAN /\ mistaken \in BOOLEAN
    /\ prom \in [Proms -> [ns : Namespaces, up : BOOLEAN, uid : Nat]]
    /\ inSystem \in [Namespaces -> BOOLEAN]
    /\ obj \in [Keys -> Object \cup {None}]
    /\ token \subseteq Namespaces
    /\ w \in [pc : Stages, p : Proms \cup {None}, rancher : BOOLEAN, uid : Nat,
              default : BOOLEAN, seen : Object \cup {None, Unread}]
    /\ w.pc # "idle" => w.p \in Proms
    /\ w.pc \in Upserts => w.uid > 0
    /\ served \subseteq Proms /\ reg \in [Namespaces -> Nat]
    /\ touched \subseteq Keys /\ everSystem \subseteq Namespaces
    /\ spent \in [calls : Nat, changes : Nat, failures : Nat]

\* A call that returned without an error has left behind what it is for,
\* unless users changed it since the call got it: its preset, in the place
\* for this Prometheus, and for the default Prometheus its AppBinding.  Patches are computed from an object that was got earlier,
\* and earlier calls for other Prometheuses wrote the same objects.
SetupComplete ==
    last # None =>
      LET n == prom[last.p].ns
          k == IF last.rancher /\ ~ last.default THEN <<"preset", n>>
                                                 ELSE ClusterPreset
          ab == <<"appbinding", n>>
      IN  /\ k \in touched \/ (obj[k] # None /\ obj[k].data = last.p)
          /\ last.default => ab \in touched \/ (obj[ab] # None /\ obj[ab].data = last.p)

\* The token in the configuration that a call returned stays good: the garbage
\* collector never takes the account or its Role from a Prometheus that lives,
\* also when an earlier one of that name had them.
TokenLasts ==
    \A p \in served :
      /\ \A k \in {"account", "role"} : obj[<<k, prom[p].ns>>] # None
      /\ prom[p].ns \in token

\* "NewControllerRef creates an OwnerReference pointing to the given owner"
\* (controller_ref.go:54), and "if ALL objects in the list have been deleted,
\* this object will be garbage collected" (types.go:232): the RoleBinding, made
\* with NewControllerRef(&prom, ...) at main.go:293, stays while prom lives.
BindingLasts ==
    \A p \in served : obj[<<"binding", prom[p].ns>>] # None

\* An AppBinding is registered at most once between two creations, however
\* often calls are repeated; it is left unregistered only by a call that
\* failed between the two (main.go:328-334).
RegisteredOnce ==
    \A n \in Namespaces :
      /\ reg[n] <= 1
      /\ obj[<<"appbinding", n>>] # None /\ reg[n] = 0 =>
            spent.failures > 0 \/ (w.pc = "register" /\ Here = n)

\* A call for a Prometheus of a user project changes nothing outside of its
\* namespace: the cluster-wide preset is left to Prometheuses whose namespace
\* is or was in the system project, unless Rancher was not recognised.
OwnNamespaceOnly ==
    [][CallStep => \A k \in Keys : obj'[k] # obj[k] =>
         \/ k[2] = Here
         \/ k = ClusterPreset /\ (rancher /\ ~ mistaken => Here \in everSystem)]_vars
=============================================================================
