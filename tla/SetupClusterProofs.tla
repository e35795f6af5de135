------------------------- MODULE SetupClusterProofs -------------------------
(***************************************************************************)
(* Proofs about SetupCluster, for any number of Prometheuses, namespaces,  *)
(* calls, changes and failures: its types, that the token of a set-up      *)
(* Prometheus lasts, that a call which succeeds is complete, that an       *)
(* AppBinding is registered once, and that calls keep to their namespace.  *)
(***************************************************************************)
EXTENDS SetupCluster, TLAPS

\* The stages at which the call knows the UID of its Prometheus, and those
\* after which an object has been written.
Identified   == Upserts \cup {"default", "service", "register", "poll"}
AfterRole    == {"binding", "preset", "appbinding", "register", "poll"}
AfterAccount == AfterRole \cup {"role"}
AfterPreset  == {"appbinding", "register", "poll"}

\* Incarnations are numbered upwards, and the call knows one of them.
UidsOK ==
    /\ \A p \in Proms : prom[p].uid > 0
    /\ w.pc \in Identified => w.uid > 0 /\ w.uid <= prom[w.p].uid

\* What the call has found out about Rancher was true once.
ManagerOK ==
    /\ \A n \in Namespaces : inSystem[n] => n \in everSystem
    /\ w.pc \notin {"idle", "detect"} /\ rancher /\ ~ mistaken => w.rancher
    /\ w.pc \in Identified \ {"default"} /\ w.rancher /\ w.default =>
          Here \in everSystem

\* Presets and AppBindings have no owner.
NoOwner ==
    \A k \in Keys :
      obj[k] # None /\ k[1] \in {"preset", "clusterpreset", "appbinding"} =>
          obj[k].owner = None

\* What was got is what is there, unless the collector or a user came between.
SeenOK ==
    /\ w.pc \notin Upserts => w.seen = Unread
    /\ w.pc \in Upserts /\ w.seen # Unread =>
         /\ w.pc \in {"account", "role"} => obj[Key] \in {None, w.seen}
         /\ w.pc \in {"preset", "appbinding"} /\ Key \notin touched =>
               obj[Key] = w.seen

\* An account or a Role belongs to this incarnation of p.
Belongs(kind, p, uid) ==
    LET o == obj[<<kind, prom[p].ns>>]
    IN  o # None /\ o.owner = <<"Prometheus", p, uid>>

\* What a call has written so far belongs to its Prometheus, if that lives.
WrittenOK ==
    w.pc # "idle" /\ PromLives(w.p, w.uid) =>
      /\ w.pc \in AfterAccount => Belongs("account", w.p, w.uid)
      /\ w.pc \in AfterRole    => Belongs("role", w.p, w.uid)

\* A Prometheus that is served owns its account and Role; nobody writes them
\* but a call for itself, which knows its present UID.
ServedOK ==
    \A p \in served :
      /\ prom[p].up /\ prom[p].ns \in token
      /\ Belongs("account", p, prom[p].uid) /\ Belongs("role", p, prom[p].uid)
      /\ w.pc # "idle" => p = w.p \/ prom[p].ns # Here
      /\ w.pc \in Identified /\ p = w.p => w.uid = prom[p].uid

\* The object k is for p, unless users changed it.
For(k, p) == k \in touched \/ (obj[k] # None /\ obj[k].data = p)

\* The preset and the AppBinding that a call has written are for its Prometheus.
CompleteSoFar ==
    /\ w.pc \in AfterPreset => For(PresetKey, w.p)
    /\ w.pc \in {"register", "poll"} /\ w.default => For(<<"appbinding", Here>>, w.p)

LastOK == last # None => last.p \in Proms /\ w.pc = "idle"

\* The registration that a call is about to send is the first one.
FirstRegistration == w.pc = "register" => reg[Here] = 0

IInv ==
    /\ TypeOK /\ UidsOK /\ ManagerOK /\ NoOwner /\ SeenOK /\ WrittenOK /\ ServedOK
    /\ CompleteSoFar /\ LastOK /\ SetupComplete
    /\ FirstRegistration /\ RegisteredOnce

---------------------------------------------------------------------------
(* The Prometheus of a call lives in a namespace, and its objects are in   *)
(* their places.                                                           *)
LEMMA KeyType ==
    ASSUME TypeOK, w.pc # "idle"
    PROVE  /\ w.p \in Proms /\ Here \in Namespaces
           /\ PresetKey \in Keys
           /\ w.pc \in Upserts => /\ Key \in Keys
                                  /\ Key = IF w.pc = "preset" THEN PresetKey ELSE <<w.pc, Here>>
BY DEF TypeOK, Key, PresetKey, ClusterPreset, Keys, Here, Upserts

(* Upserts are followed by other stages.                                   *)
LEMMA NextStageType ==
    ASSUME TypeOK, w.pc \in Upserts, NEW created \in BOOLEAN
    PROVE  NextStage(created) \in Stages \ {"idle"}
BY DEF TypeOK, NextStage, Stages, Upserts

(* An owner reference names a Prometheus and one of its UIDs. *)
LEMMA OwnerRefType ==
    ASSUME TypeOK, w.pc \in Upserts
    PROVE  OwnerRef \in Owner \cup {None} /\ Content \in Proms \cup {None}
<1>1. w.p \in Proms /\ w.uid \in Nat \ {0}
  BY DEF TypeOK, Upserts
<1> QED  BY <1>1 DEF OwnerRef, Owner, Content

(* The cluster before the first call. *)
LEMMA InitHolds == Init => IInv
<1> SUFFICES ASSUME Init PROVE IInv  OBVIOUS
<1> USE DEF Init, Idle
<1> DEFINE NewProm == [ns : Namespaces, up : {TRUE}, uid : {1}]
<1>7. /\ \A r \in NewProm : r \in [ns : Namespaces, up : BOOLEAN, uid : Nat]
      /\ \A r \in NewProm : r.uid = 1
  <2>1. {TRUE} \subseteq BOOLEAN /\ {1} \subseteq Nat
    <3>1. {TRUE} \subseteq BOOLEAN  BY Zenon
    <3>2. {1} \subseteq Nat  OBVIOUS
    <3> QED  BY <3>1, <3>2
  <2>2. \A S, T : S \subseteq BOOLEAN /\ T \subseteq Nat =>
          [ns : Namespaces, up : S, uid : T] \subseteq [ns : Namespaces, up : BOOLEAN, uid : Nat]
    OBVIOUS
  <2>3. \A r \in NewProm : r.uid = 1  OBVIOUS
  <2> QED  BY <2>1, <2>2, <2>3, Zenon
<1>8. prom \in [Proms -> NewProm]  OBVIOUS
<1> HIDE DEF NewProm
<1>1. TypeOK
  <2>1. prom \in [Proms -> [ns : Namespaces, up : BOOLEAN, uid : Nat]]  BY <1>7, <1>8
  <2>2. obj \in [Keys -> Object \cup {None}]  OBVIOUS
  <2>3. w \in [pc : Stages, p : Proms \cup {None}, rancher : BOOLEAN, uid : Nat,
               default : BOOLEAN, seen : Object \cup {None, Unread}]
    BY DEF Stages
  <2>4. w.pc = "idle" /\ w.pc \notin Upserts  BY DEF Upserts
  <2>5. reg \in [Namespaces -> Nat] /\ spent \in [calls : Nat, changes : Nat, failures : Nat]
    OBVIOUS
  <2> QED  BY <2>1, <2>2, <2>3, <2>4, <2>5 DEF TypeOK
<1>2. UidsOK
  BY <1>7, <1>8 DEF UidsOK, Identified, Upserts
<1>6. ManagerOK
  BY DEF ManagerOK, Identified, Upserts
<1>3. NoOwner /\ SeenOK /\ WrittenOK /\ ServedOK
  BY DEF NoOwner, SeenOK, WrittenOK, ServedOK, Upserts
<1>4. CompleteSoFar /\ LastOK /\ SetupComplete /\ FirstRegistration
  BY DEF CompleteSoFar, LastOK, SetupComplete, FirstRegistration, AfterPreset, Upserts
<1>5. RegisteredOnce
  BY DEF RegisteredOnce, Keys, Upserts
<1> QED  BY <1>1, <1>2, <1>3, <1>4, <1>5, <1>6 DEF IInv
---------------------------------------------------------------------------
(* Writing.                                                                *)

\* What a Create or a Patch does that succeeds.
Writes(created, new) ==
    /\ w.pc \in Upserts
    /\ created <=> obj[Key] = None
    /\ obj' = [obj EXCEPT ![Key] = new]
    /\ w' = [w EXCEPT !.pc = NextStage(created), !.seen = Unread]
    /\ reg' = IF created /\ w.pc = "appbinding" THEN [reg EXCEPT ![Here] = 0] ELSE reg
    /\ w.pc # "binding" => new.owner = OwnerRef
    /\ w.pc \in {"preset", "appbinding"} /\ Key \notin touched => new.data = w.p

(* A Create or a Patch fails, or leaves the wanted owner and content: what  *)
(* a Patch does not send, because it was got so, is still so.              *)
LEMMA Upserted ==
    ASSUME IInv, CreateObject \/ PatchObject
    PROVE  \/ w.pc \in Upserts /\ w' = Idle /\ obj' = obj /\ reg' = reg
           \/ \E created \in BOOLEAN, new \in Object : Writes(created, new)
<1> USE DEF IInv
<1>1. /\ w.pc \in Upserts /\ w.pc # "idle"
      /\ Key \in Keys /\ w.p \in Proms
      /\ OwnerRef \in Owner \cup {None} /\ Content \in Proms \cup {None}
  BY KeyType, OwnerRefType DEF CreateObject, PatchObject, Upserts
<1>2. ASSUME CreateObject, obj[Key] = None
      PROVE  \E created \in BOOLEAN, new \in Object : Writes(created, new)
  <2> DEFINE new == [owner |-> OwnerRef, data |-> Content]
  <2>1. new \in Object  BY <1>1 DEF Object
  <2>2. Writes(TRUE, new)  BY <1>1, <1>2 DEF CreateObject, Writes, Content
  <2> QED  BY <2>1, <2>2
<1>3. ASSUME PatchObject, obj[Key] # None
      PROVE  \E created \in BOOLEAN, new \in Object : Writes(created, new)
  <2> DEFINE new == Patched(obj[Key])
  <2>1. obj[Key] \in Object /\ w.seen \in Object
    BY <1>1, <1>3 DEF TypeOK, PatchObject
  <2>2. new \in Object  BY <1>1, <2>1 DEF Object, Patched
  <2>3. w.pc # "binding" => new.owner = OwnerRef
    <3>1. CASE w.pc \in {"account", "role"}
      BY <1>3, <2>1, <3>1 DEF SeenOK, Patched, PatchObject
    <3>2. CASE w.pc \in {"preset", "appbinding"}
      <4>1. Key[1] \in {"preset", "clusterpreset", "appbinding"}
        BY <1>1, <3>2, KeyType DEF PresetKey, ClusterPreset
      <4>2. OwnerRef = None  BY <3>2 DEF OwnerRef
      <4>3. obj[Key].owner = None  BY <1>1, <1>3, <4>1 DEF NoOwner
      <4> QED  BY <4>2, <4>3 DEF Patched
    <3> QED  BY <1>1, <3>1, <3>2 DEF Upserts
  <2>4. w.pc \in {"preset", "appbinding"} /\ Key \notin touched => new.data = w.p
    BY <1>1, <1>3, <2>1 DEF SeenOK, Patched, PatchObject, Content
  <2>5. Writes(FALSE, new)
    BY <1>1, <1>3, <2>3, <2>4 DEF PatchObject, Writes, history
  <2> QED  BY <2>2, <2>5
<1> QED  BY <1>1, <1>2, <1>3 DEF CreateObject, PatchObject, Fail, history
---------------------------------------------------------------------------
(* Types.                                                                  *)

(* The stages that the invariant names are stages. *)
LEMMA StageFacts ==
    /\ {"idle", "detect", "prom", "default", "service", "register", "poll"} \subseteq Stages \ Upserts
    /\ Upserts \subseteq Stages
BY DEF Upserts, Stages

\* The type of the locals, with what they hold from which stage on.
LocalsType ==
    /\ w \in [pc : Stages, p : Proms \cup {None}, rancher : BOOLEAN, uid : Nat,
              default : BOOLEAN, seen : Object \cup {None, Unread}]
    /\ w.pc # "idle" => w.p \in Proms
    /\ w.pc \in Upserts => w.uid > 0

(* A call that has ended has locals of their types. *)
LEMMA IdleType == w' = Idle => LocalsType'
<1> SUFFICES ASSUME w' = Idle PROVE LocalsType'  OBVIOUS
<1>1. w'.pc = "idle" /\ "idle" \in Stages \ Upserts  BY StageFacts DEF Idle
<1>2. w' \in [pc : Stages, p : Proms \cup {None}, rancher : BOOLEAN, uid : Nat,
               default : BOOLEAN, seen : Object \cup {None, Unread}]
  BY <1>1 DEF Idle
<1> QED  BY <1>1, <1>2 DEF LocalsType

(* The locals of a call keep their types. *)
LEMMA LocalsStep ==
    ASSUME IInv, [Next]_vars
    PROVE  LocalsType'
<1> USE DEF IInv, LocalsType
<1>0. LocalsType  BY DEF TypeOK
<1>1. \A p \in Proms : Call(p) => LocalsType'
  <2> SUFFICES ASSUME NEW p \in Proms, Call(p) PROVE LocalsType'  OBVIOUS
  <2>1. w' = [pc |-> "detect", p |-> p, rancher |-> FALSE, uid |-> 0,
              default |-> FALSE, seen |-> Unread]
    BY DEF Call, Idle
  <2> QED  BY <2>1, StageFacts
<1>2. \A answer \in BOOLEAN : Detect(answer) => LocalsType'
  BY <1>0, StageFacts DEF Detect
<1>3. GetProm => LocalsType'
  <2> SUFFICES ASSUME GetProm PROVE LocalsType'  OBVIOUS
  <2>1. w.p \in Proms /\ prom[w.p].uid \in Nat  BY DEF TypeOK, GetProm
  <2>2. CASE w' = [w EXCEPT !.pc = "default", !.uid = prom[w.p].uid]
    BY <1>0, <2>1, <2>2, StageFacts
  <2> QED  BY <2>2, IdleType DEF GetProm, Fail
<1>4. IsDefault => LocalsType'
  <2> SUFFICES ASSUME IsDefault PROVE LocalsType'  OBVIOUS
  <2>1. (IF w.rancher THEN inSystem[Here] ELSE Singleton(Here)) \in BOOLEAN
    BY KeyType DEF TypeOK, Singleton, IsDefault
  <2> QED  BY <1>0, <2>1, StageFacts DEF IsDefault
<1>5. FindService => LocalsType'
  BY <1>0, StageFacts DEF FindService, UidsOK, Identified, Upserts
<1>6. GetObject => LocalsType'
  <2> SUFFICES ASSUME GetObject PROVE LocalsType'  OBVIOUS
  <2>1. obj[Key] \in Object \cup {None}
    BY KeyType, StageFacts DEF TypeOK, GetObject
  <2> QED  BY <1>0, <2>1, StageFacts DEF GetObject
<1>7. CreateObject \/ PatchObject => LocalsType'
  <2> SUFFICES ASSUME NEW created \in BOOLEAN, NEW new \in Object, Writes(created, new)
               PROVE  LocalsType'
    BY Upserted, IdleType
  <2>1. NextStage(created) \in Stages \ {"idle"}  BY NextStageType DEF Writes
  <2> QED  BY <1>0, <2>1, StageFacts DEF Writes
<1>8. RegisterPrometheus => LocalsType'
  BY <1>0, StageFacts DEF RegisterPrometheus
<1>9. Poll \/ PollTimesOut \/ Abandon => LocalsType'
  BY IdleType DEF Poll, PollTimesOut, Abandon, Fail
<1>10. \A p \in Proms : ChangeProm(p) => LocalsType'
  BY <1>0 DEF ChangeProm
<1>11. \A n \in Namespaces : MoveNamespace(n) \/ IssueToken(n) => LocalsType'
  BY <1>0 DEF MoveNamespace, IssueToken
<1>12. \A k \in Keys : DeleteObject(k) \/ WritePreset(k) \/ Collect(k) => LocalsType'
  BY <1>0 DEF DeleteObject, WritePreset, Collect
<1>13. UNCHANGED vars => LocalsType'
  BY <1>0 DEF vars
<1> QED
  BY <1>1, <1>2, <1>3, <1>4, <1>5, <1>6, <1>7, <1>8, <1>9, <1>10, <1>11, <1>12,
     <1>13 DEF Next, CallStep

\* The types of the cluster, its objects, and the history.
ClusterType ==
    /\ rancher \in BOOLEAN /\ mistaken \in BOOLEAN
    /\ prom \in [Proms -> [ns : Namespaces, up : BOOLEAN, uid : Nat]]
    /\ inSystem \in [Namespaces -> BOOLEAN]
    /\ obj \in [Keys -> Object \cup {None}]
    /\ token \subseteq Namespaces
    /\ served \subseteq Proms /\ reg \in [Namespaces -> Nat]
    /\ touched \subseteq Keys /\ everSystem \subseteq Namespaces
    /\ spent \in [calls : Nat, changes : Nat, failures : Nat]

(* So does the history, when a change is counted. *)
LEMMA SpendType ==
    ASSUME ClusterType, NEW what \in {"calls", "changes", "failures"}, NEW max, Spend(what, max)
    PROVE  spent' \in [calls : Nat, changes : Nat, failures : Nat]
BY DEF ClusterType, Spend

(* A Prometheus that is deleted or created again keeps its namespace, and  *)
(* it is then down or another incarnation.                                 *)
LEMMA PromChanged ==
    ASSUME ClusterType, NEW p \in Proms, ChangeProm(p)
    PROVE  /\ prom' \in [Proms -> [ns : Namespaces, up : BOOLEAN, uid : Nat]]
           /\ \A q \in Proms : prom'[q].ns = prom[q].ns /\ prom'[q].uid >= prom[q].uid
           /\ \A q \in Proms \ {p} : prom'[q] = prom[q]
           /\ ~ prom'[p].up \/ prom'[p].uid > prom[p].uid
<1>1. prom \in [Proms -> [ns : Namespaces, up : BOOLEAN, uid : Nat]]  BY DEF ClusterType
<1> DEFINE r == [ns  |-> prom[p].ns, up |-> ~ prom[p].up,
                 uid |-> IF prom[p].up THEN prom[p].uid ELSE prom[p].uid + 1]
<1>2. /\ r \in [ns : Namespaces, up : BOOLEAN, uid : Nat]
      /\ r.ns = prom[p].ns /\ r.uid >= prom[p].uid
      /\ ~ r.up \/ r.uid > prom[p].uid
  <2>1. \A n \in Namespaces, up \in BOOLEAN, uid \in Nat :
          LET x == [ns |-> n, up |-> up, uid |-> uid]
          IN  /\ x \in [ns : Namespaces, up : BOOLEAN, uid : Nat]
              /\ x.ns = n /\ x.up = up /\ x.uid = uid
    OBVIOUS
  <2>2. prom[p].ns \in Namespaces /\ prom[p].uid \in Nat  BY <1>1
  <2>3. CASE prom[p].up
    <3>1. r = [ns |-> prom[p].ns, up |-> FALSE, uid |-> prom[p].uid]  BY <2>3
    <3> HIDE DEF r
    <3> QED  BY <2>1, <2>2, <3>1
  <2>4. CASE ~ prom[p].up
    <3>1. r = [ns |-> prom[p].ns, up |-> TRUE, uid |-> prom[p].uid + 1]  BY <2>4
    <3> HIDE DEF r
    <3> QED  BY <2>1, <2>2, <3>1
  <2> QED  BY <2>3, <2>4
<1>3. prom' = [prom EXCEPT ![p] = r]  BY DEF ChangeProm
<1> HIDE DEF r
<1> QED  BY <1>1, <1>2, <1>3

(* Every step keeps all types. *)
LEMMA TypeStep ==
    ASSUME IInv, [Next]_vars
    PROVE  TypeOK'
<1> USE SpendType DEF IInv, cluster, history, SpendChange, SpendFailure
<1>0. ClusterType  BY DEF TypeOK, ClusterType
<1> USE DEF ClusterType
<1>1. \A p \in Proms : Call(p) => ClusterType'
  BY <1>0 DEF Call
<1>2. \A answer \in BOOLEAN : Detect(answer) => ClusterType'
  <2> SUFFICES ASSUME NEW answer \in BOOLEAN, Detect(answer) PROVE ClusterType'  OBVIOUS
  <2>1. UNCHANGED <<cluster, obj, token, served, reg, touched, everSystem>>  BY DEF Detect
  <2>2. mistaken' \in BOOLEAN  BY <1>0 DEF Detect
  <2>3. spent' \in [calls : Nat, changes : Nat, failures : Nat]  BY <1>0 DEF Detect
  <2> QED  BY <1>0, <2>1, <2>2, <2>3
<1>3. GetProm \/ IsDefault \/ FindService \/ PollTimesOut \/ Abandon => ClusterType'
  BY <1>0 DEF GetProm, IsDefault, FindService, PollTimesOut, Abandon
<1>4. GetObject => ClusterType'
  BY <1>0 DEF GetObject
<1>5. CreateObject \/ PatchObject => ClusterType'
  <2> SUFFICES ASSUME CreateObject \/ PatchObject PROVE ClusterType'  OBVIOUS
  <2>1. UNCHANGED <<cluster, token, served, touched, everSystem, mistaken, spent>>
    BY DEF CreateObject, PatchObject
  <2>2. obj' \in [Keys -> Object \cup {None}] /\ reg' \in [Namespaces -> Nat]
    <3>1. CASE obj' = obj /\ reg' = reg  BY <1>0, <3>1
    <3>2. ASSUME NEW created \in BOOLEAN, NEW new \in Object, Writes(created, new)
          PROVE  obj' \in [Keys -> Object \cup {None}] /\ reg' \in [Namespaces -> Nat]
      BY <1>0, <3>2 DEF Writes
    <3> QED  BY <3>1, <3>2, Upserted
  <2> QED  BY <1>0, <2>1, <2>2
<1>6. RegisterPrometheus \/ Poll => ClusterType'
  BY <1>0, LocalsStep, KeyType DEF RegisterPrometheus, Poll
<1>7. \A p \in Proms : ChangeProm(p) => ClusterType'
  BY <1>0, PromChanged DEF ChangeProm
<1>8. \A n \in Namespaces : MoveNamespace(n) \/ IssueToken(n) => ClusterType'
  <2> SUFFICES ASSUME NEW n \in Namespaces, MoveNamespace(n) \/ IssueToken(n)
               PROVE  ClusterType'
    OBVIOUS
  <2>1. CASE IssueToken(n)  BY <1>0, <2>1 DEF IssueToken
  <2>2. CASE MoveNamespace(n)
    <3>1. inSystem' \in [Namespaces -> BOOLEAN]  BY <1>0, <2>2 DEF MoveNamespace
    <3> QED  BY <1>0, <2>2, <3>1 DEF MoveNamespace
  <2> QED  BY <2>1, <2>2
<1>9. \A k \in Keys : DeleteObject(k) \/ WritePreset(k) \/ Collect(k) => ClusterType'
  BY <1>0 DEF DeleteObject, WritePreset, Collect, Object
<1>10. UNCHANGED vars => ClusterType'
  BY <1>0 DEF vars
<1>11. ClusterType'
  BY <1>1, <1>2, <1>3, <1>4, <1>5, <1>6, <1>7, <1>8, <1>9, <1>10 DEF Next, CallStep
<1> QED  BY <1>11, LocalsStep DEF TypeOK, LocalsType
---------------------------------------------------------------------------
(* What the call knows.                                                    *)

(* Only users delete Prometheuses and create them again. *)
LEMMA PromFrame ==
    [Next]_vars => (\E p \in Proms : ChangeProm(p)) \/ prom' = prom
BY DEF Next, CallStep, vars, cluster, Call, Detect, GetProm, IsDefault, FindService,
       GetObject, CreateObject, PatchObject, RegisterPrometheus, Poll, PollTimesOut,
       Abandon, MoveNamespace, IssueToken, DeleteObject, WritePreset, Collect

(* Prometheuses stay in their namespaces and grow older.                   *)
LEMMA PromsStay ==
    ASSUME IInv, [Next]_vars
    PROVE  \A p \in Proms : prom'[p].ns = prom[p].ns /\ prom'[p].uid >= prom[p].uid
<1>1. ClusterType /\ \A p \in Proms : prom[p].uid \in Nat
  BY DEF IInv, TypeOK, ClusterType
<1>2. CASE \E p \in Proms : ChangeProm(p)  BY <1>1, <1>2, PromChanged
<1>3. CASE prom' = prom  BY <1>1, <1>3
<1> QED  BY <1>2, <1>3, PromFrame

\* Steps of others leave the call as it is.
Outside ==
    \/ \E p \in Proms : ChangeProm(p)
    \/ \E n \in Namespaces : MoveNamespace(n) \/ IssueToken(n)
    \/ \E k \in Keys : DeleteObject(k) \/ WritePreset(k) \/ Collect(k)
    \/ UNCHANGED vars

(* A step that leaves the call alone is a step of others. *)
LEMMA OutsideFrame ==
    Outside => /\ w' = w /\ last' = last /\ reg' = reg
               /\ touched \subseteq touched' /\ served' \subseteq served
BY DEF Outside, ChangeProm, MoveNamespace, IssueToken, DeleteObject, WritePreset, Collect,
       vars, history

(* A call that goes on keeps what it has found out.                        *)
LEMMA GoesOn ==
    ASSUME IInv, [Next]_vars, w'.pc \in Identified
    PROVE  /\ w'.p = w.p /\ w'.rancher = w.rancher
           /\ \/ /\ GetProm /\ w.pc = "prom" /\ w'.pc = "default"
                 /\ prom[w.p].up /\ w'.uid = prom[w.p].uid
              \/ /\ w.pc \in Identified /\ w'.uid = w.uid
                 /\ \/ IsDefault
                    \/ w'.default = w.default /\ (w.pc = "default" => w'.pc = "default")
<1>0. /\ w'.pc \notin {"idle", "detect", "prom"}
      /\ w' # Idle
      /\ Upserts \subseteq Identified
      /\ {"default", "service", "register", "poll"} \subseteq Identified
  BY DEF Identified, Upserts, Idle
<1> USE DEF IInv
<1>1. CASE Outside  BY <1>1, OutsideFrame
<1>2. CASE GetProm  BY <1>0, <1>2 DEF GetProm, Fail, TypeOK
<1>3. CASE IsDefault \/ FindService \/ GetObject \/ RegisterPrometheus
  BY <1>0, <1>3 DEF IsDefault, FindService, GetObject, RegisterPrometheus, TypeOK, Upserts
<1>4. CASE CreateObject \/ PatchObject  BY <1>0, <1>4, Upserted DEF Writes, TypeOK, Upserts
<1>5. CASE (\E p \in Proms : Call(p)) \/ (\E answer \in BOOLEAN : Detect(answer))
  BY <1>0, <1>5 DEF Call, Detect, TypeOK, Idle
<1>6. CASE Poll \/ PollTimesOut \/ Abandon
  BY <1>0, <1>6 DEF Poll, PollTimesOut, Abandon, Fail
<1> QED  BY <1>1, <1>2, <1>3, <1>4, <1>5, <1>6 DEF Next, CallStep, Outside

(* The Prometheus of a call stays the same until its end.                  *)
LEMMA SameProm ==
    ASSUME IInv, [Next]_vars, w'.pc # "idle"
    PROVE  (\E p \in Proms : Call(p)) \/ (w.pc # "idle" /\ w'.p = w.p)
<1> USE DEF IInv
<1>0. w' # Idle  BY DEF Idle
<1>1. CASE Outside  BY <1>1, OutsideFrame
<1>2. CASE GetProm \/ IsDefault \/ FindService \/ GetObject \/ RegisterPrometheus
  BY <1>0, <1>2 DEF GetProm, IsDefault, FindService, GetObject, RegisterPrometheus, Fail,
                    TypeOK, Upserts
<1>3. CASE CreateObject \/ PatchObject
  BY <1>0, <1>3, Upserted DEF Writes, TypeOK, Upserts
<1>4. CASE \E answer \in BOOLEAN : Detect(answer)  BY <1>4 DEF Detect, TypeOK
<1>5. CASE Poll \/ PollTimesOut \/ Abandon
  BY <1>0, <1>5 DEF Poll, PollTimesOut, Abandon, Fail
<1> QED  BY <1>1, <1>2, <1>3, <1>4, <1>5 DEF Next, CallStep, Outside

(* Only DetectClusterManager leads to the Get of the Prometheus.            *)
LEMMA ToProm ==
    ASSUME IInv, [Next]_vars, w'.pc = "prom"
    PROVE  w' = w \/ \E answer \in BOOLEAN : Detect(answer)
<1> USE DEF IInv
<1>0. w' # Idle  BY DEF Idle
<1>1. CASE Outside  BY <1>1, OutsideFrame
<1>2. CASE GetProm \/ IsDefault \/ FindService \/ GetObject \/ RegisterPrometheus
  BY <1>0, <1>2 DEF GetProm, IsDefault, FindService, GetObject, RegisterPrometheus, Fail,
                    TypeOK, Upserts
<1>3. CASE CreateObject \/ PatchObject
  BY <1>0, <1>3, Upserted DEF Writes, TypeOK, NextStage, Upserts
<1>4. CASE \E p \in Proms : Call(p)  BY <1>4 DEF Call, Idle
<1>5. CASE Poll \/ PollTimesOut \/ Abandon
  BY <1>0, <1>5 DEF Poll, PollTimesOut, Abandon, Fail
<1> QED  BY <1>1, <1>2, <1>3, <1>4, <1>5 DEF Next, CallStep, Outside

(* The call knows a UID of its Prometheus, and not a later one. *)
LEMMA UidsStep ==
    ASSUME IInv, [Next]_vars
    PROVE  UidsOK'
<1> USE DEF IInv, UidsOK
<1>1. \A p \in Proms : prom'[p].uid > 0 /\ prom'[p].uid >= prom[p].uid /\ prom[p].uid \in Nat
                       /\ prom'[p].uid \in Nat
  BY PromsStay, TypeStep DEF TypeOK
<1> SUFFICES ASSUME w'.pc \in Identified PROVE w'.uid > 0 /\ w'.uid <= prom'[w'.p].uid
  BY <1>1
<1>2. w.pc # "idle" => w.p \in Proms  BY DEF TypeOK
<1>3. w.uid \in Nat  BY DEF TypeOK
<1>4. CASE GetProm /\ w'.p = w.p /\ w'.uid = prom[w.p].uid
  BY <1>1, <1>2, <1>4 DEF GetProm
<1>5. CASE w.pc \in Identified /\ w'.p = w.p /\ w'.uid = w.uid
  <2>1. w.p \in Proms  BY <1>2, <1>5 DEF Identified, Upserts
  <2> QED  BY <1>1, <1>3, <1>5, <2>1
<1> QED  BY <1>4, <1>5, GoesOn

(* What a call has found out about Rancher stays true once found. *)
LEMMA ManagerStep ==
    ASSUME IInv, [Next]_vars
    PROVE  ManagerOK'
<1> USE DEF IInv, ManagerOK
<1>1. everSystem \subseteq everSystem' /\ rancher' = rancher /\ (mistaken => mistaken')
  <2> USE DEF vars, cluster, history
  <2>1. CASE Outside
    <3>1. everSystem' = everSystem \/ \E n \in Namespaces : everSystem' = everSystem \cup {n}
      BY <2>1 DEF Outside, ChangeProm, MoveNamespace, IssueToken, DeleteObject, WritePreset, Collect
    <3>2. rancher' = rancher
      BY <2>1 DEF Outside, ChangeProm, MoveNamespace, IssueToken, DeleteObject, WritePreset, Collect
    <3>3. mistaken' = mistaken
      BY <2>1 DEF Outside, ChangeProm, MoveNamespace, IssueToken, DeleteObject, WritePreset, Collect
    <3> QED  BY <3>1, <3>2, <3>3
  <2>2. CASE \E p \in Proms : Call(p)  BY <2>2 DEF Call
  <2>3. CASE \E answer \in BOOLEAN : Detect(answer)  BY <2>3 DEF Detect
  <2>4. CASE GetProm \/ IsDefault \/ FindService \/ GetObject  \/ CreateObject \/ PatchObject
    BY <2>4 DEF GetProm, IsDefault, FindService, GetObject, CreateObject, PatchObject
  <2>5. CASE RegisterPrometheus \/ Poll \/ PollTimesOut \/ Abandon
    BY <2>5 DEF RegisterPrometheus, Poll, PollTimesOut, Abandon
  <2> QED  BY <2>1, <2>2, <2>3, <2>4, <2>5 DEF Next, CallStep, Outside
<1>2. \A n \in Namespaces : inSystem'[n] => n \in everSystem'
  <2>1. CASE inSystem' = inSystem  BY <1>1, <2>1
  <2>2. ASSUME NEW n \in Namespaces, MoveNamespace(n)
        PROVE  \A m \in Namespaces : inSystem'[m] => m \in everSystem'
    BY <2>2 DEF MoveNamespace, TypeOK
  <2>3. inSystem' = inSystem \/ \E n \in Namespaces : MoveNamespace(n)
    BY DEF Next, CallStep, vars, cluster, Call, Detect, GetProm, IsDefault, FindService,
         GetObject, CreateObject, PatchObject, RegisterPrometheus, Poll, PollTimesOut,
         Abandon, ChangeProm, IssueToken, DeleteObject, WritePreset, Collect
  <2> QED  BY <2>1, <2>2, <2>3
<1>3. w'.pc \notin {"idle", "detect"} /\ rancher' /\ ~ mistaken' => w'.rancher
  <2> SUFFICES ASSUME w'.pc \notin {"idle", "detect"}, rancher, ~ mistaken'
               PROVE  w'.rancher
    BY <1>1
  <2>1. CASE w'.pc \in Identified
    <3>1. w.pc \notin {"idle", "detect"}  BY <2>1, GoesOn DEF Identified, Upserts
    <3> QED  BY <1>1, <2>1, <3>1, GoesOn
  <2>2. CASE w'.pc = "prom"
    <3>1. CASE w' = w  BY <1>1, <2>2, <3>1
    <3>2. ASSUME NEW answer \in BOOLEAN, Detect(answer)
          PROVE  w'.rancher
      BY <1>1, <2>2, <3>2 DEF Detect, TypeOK
    <3>3. w' = w \/ \E answer \in BOOLEAN : Detect(answer)
      BY <2>2, ToProm
    <3> QED  BY <3>1, <3>2, <3>3
  <2> QED  BY <2>1, <2>2, TypeStep DEF TypeOK, Stages, Identified
<1>4. w'.pc \in Identified \ {"default"} /\ w'.rancher /\ w'.default => Here' \in everSystem'
  <2> SUFFICES ASSUME w'.pc \in Identified \ {"default"}, w'.rancher, w'.default
               PROVE  Here' \in everSystem'
    OBVIOUS
  <2>1. /\ w.pc \in Identified /\ w'.p = w.p /\ w'.rancher = w.rancher
        /\ IsDefault \/ (w'.default = w.default /\ w.pc # "default")
    BY GoesOn
  <2>2. Here' = Here /\ Here \in Namespaces
    BY <2>1, PromsStay, KeyType DEF Here, TypeOK, Identified, Upserts
  <2>3. CASE IsDefault
    <3>1. w'.default = inSystem[Here]  BY <2>1, <2>3 DEF IsDefault, TypeOK
    <3> QED  BY <1>1, <2>2, <3>1
  <2>4. CASE w'.default = w.default /\ w.pc # "default"  BY <1>1, <2>1, <2>2, <2>4
  <2> QED  BY <2>1, <2>3, <2>4
<1> QED  BY <1>1, <1>2, <1>3, <1>4
---------------------------------------------------------------------------
(* What happens to the objects.                                            *)

Presets == {"preset", "clusterpreset", "appbinding"}

(* An object changes in three ways only.                                   *)
LEMMA ObjChanges ==
    ASSUME IInv, [Next]_vars, NEW k \in Keys, obj'[k] # obj[k]
    PROVE  \/ /\ CreateObject \/ PatchObject
              /\ \E created \in BOOLEAN, new \in Object :
                   Writes(created, new) /\ k = Key /\ obj'[k] = new
           \/ /\ obj'[k] = None /\ obj[k] # None /\ w' = w
              /\ \/ obj[k].owner = None /\ touched' = touched \cup {k}
                 \/ obj[k].owner # None /\ ~ OwnerLives(obj[k].owner)
           \/ /\ obj'[k] = [owner |-> None, data |-> None] /\ w' = w
              /\ k[1] \in {"preset", "clusterpreset"} /\ touched' = touched \cup {k}
<1> USE DEF IInv
<1>1. CASE CreateObject \/ PatchObject
  BY <1>1, Upserted, KeyType DEF Writes, TypeOK, Upserts
<1>2. CASE \E l \in Keys : DeleteObject(l) \/ WritePreset(l) \/ Collect(l)
  BY <1>2 DEF DeleteObject, WritePreset, Collect, TypeOK, history
<1>3. (\E l \in Keys : DeleteObject(l) \/ WritePreset(l) \/ Collect(l))
      \/ CreateObject \/ PatchObject
  BY DEF Next, CallStep, vars, Call, Detect, GetProm, IsDefault, FindService, GetObject,
         RegisterPrometheus, Poll, PollTimesOut, Abandon, ChangeProm, MoveNamespace, IssueToken
<1> QED  BY <1>1, <1>2, <1>3

(* Nothing gives a preset or an AppBinding an owner. *)
LEMMA NoOwnerStep ==
    ASSUME IInv, [Next]_vars
    PROVE  NoOwner'
<1> SUFFICES ASSUME NEW k \in Keys, obj'[k] # None, k[1] \in Presets
             PROVE  obj'[k].owner = None
  BY DEF NoOwner, Presets
<1>1. CASE obj'[k] = obj[k]  BY <1>1 DEF IInv, NoOwner, Presets
<1>2. ASSUME NEW created \in BOOLEAN, NEW new \in Object,
             Writes(created, new), k = Key, obj'[k] = new
      PROVE  new.owner = None
  BY <1>2, KeyType DEF Writes, OwnerRef, Presets, Upserts, IInv, PresetKey, ClusterPreset
<1>3. CASE obj'[k] = [owner |-> None, data |-> None]  BY <1>3
<1> QED  BY <1>1, <1>2, <1>3, ObjChanges

(* While a call goes on, its Prometheus and its places are the same.       *)
LEMMA SamePlace ==
    ASSUME IInv, [Next]_vars, w.pc # "idle", w'.p = w.p
    PROVE  Here' = Here /\ Here \in Namespaces
BY PromsStay, KeyType DEF Here, IInv, TypeOK

(* An upsert has got its object in this step, or has still what it got.    *)
LEMMA SeenComes ==
    ASSUME IInv, [Next]_vars, w'.seen # Unread
    PROVE  Outside \/ GetObject
<1> USE DEF IInv, SeenOK
<1>0. w' # Idle  BY DEF Idle
<1>2. CASE \E p \in Proms : Call(p)  BY <1>2 DEF Call, Idle
<1>3. CASE (\E answer \in BOOLEAN : Detect(answer))
           \/ GetProm \/ IsDefault \/ FindService \/ RegisterPrometheus
  BY <1>0, <1>3 DEF Detect, GetProm, IsDefault, FindService, RegisterPrometheus, Fail,
                    TypeOK, Upserts
<1>4. CASE CreateObject \/ PatchObject
  BY <1>0, <1>4, Upserted DEF Writes, TypeOK
<1>5. CASE Poll \/ PollTimesOut \/ Abandon
  BY <1>0, <1>5 DEF Poll, PollTimesOut, Abandon, Fail
<1> QED  BY <1>2, <1>3, <1>4, <1>5 DEF Next, CallStep, Outside

(* What a call has got stays what is there. *)
LEMMA SeenStep ==
    ASSUME IInv, [Next]_vars
    PROVE  SeenOK'
<1> USE DEF IInv, SeenOK
<1> SUFFICES ASSUME w'.seen # Unread
             PROVE  /\ w'.pc \in Upserts
                    /\ w'.pc \in {"account", "role"} => obj'[Key'] \in {None, w'.seen}
                    /\ w'.pc \in {"preset", "appbinding"} /\ Key' \notin touched' =>
                          obj'[Key'] = w'.seen
  OBVIOUS
<1>1. CASE GetObject
  <2>1. w'.p = w.p /\ w'.pc = w.pc /\ w'.rancher = w.rancher /\ w'.default = w.default
        /\ w.pc \in Upserts /\ obj' = obj /\ w'.seen = obj[Key]
    BY <1>1 DEF GetObject, TypeOK
  <2>2. Key' = Key
    <3>1. Here' = Here  BY <2>1, SamePlace DEF Upserts
    <3> QED  BY <2>1, <3>1 DEF Key, PresetKey, ClusterPreset
  <2> QED  BY <2>1, <2>2
<1>2. CASE Outside
  <2>0. w' = w /\ touched \subseteq touched'  BY <1>2, OutsideFrame
  <2>1. w.pc \in Upserts /\ w.pc # "idle"  BY <2>0 DEF Upserts
  <2>2. Key' = Key /\ Key \in Keys
    <3>1. Here' = Here  BY <2>0, <2>1, SamePlace
    <3> QED  BY <2>0, <2>1, <3>1, KeyType DEF Key, PresetKey, ClusterPreset
  <2>3. CASE obj'[Key] = obj[Key]  BY <2>0, <2>1, <2>2, <2>3
  <2>4. CASE obj'[Key] # obj[Key]
    <3>1. ~ \E created \in BOOLEAN, new \in Object : Writes(created, new)
      BY <2>0 DEF Writes, TypeOK
    <3>2. CASE w.pc \in {"account", "role"}
      <4>1. Key[1] \notin {"preset", "clusterpreset"}  BY <2>1, <3>2, KeyType
      <4> QED  BY <2>0, <2>2, <2>4, <3>1, <3>2, <4>1, ObjChanges
    <3>3. CASE w.pc \in {"preset", "appbinding"}
      <4>1. Key[1] \in Presets  BY <2>1, <3>3, KeyType DEF Presets, PresetKey, ClusterPreset
      <4>2. obj[Key] # None => obj[Key].owner = None  BY <2>2, <4>1 DEF NoOwner, Presets
      <4> QED  BY <2>0, <2>2, <2>4, <3>1, <3>3, <4>2, ObjChanges
    <3> QED  BY <2>0, <2>1, <3>2, <3>3
  <2> QED  BY <2>3, <2>4
<1> QED  BY <1>1, <1>2, SeenComes
---------------------------------------------------------------------------
(* Accounts and Roles.                                                     *)

(* How a call gets behind its first object.                                *)
LEMMA Progress ==
    ASSUME IInv, [Next]_vars, w'.pc \in AfterAccount
    PROVE  /\ w.pc \in Identified /\ w'.p = w.p /\ w'.uid = w.uid
           /\ w'.rancher = w.rancher /\ w'.default = w.default
           /\ \/ w'.pc = w.pc
              \/ RegisterPrometheus /\ w'.pc = "poll"
              \/ /\ CreateObject \/ PatchObject
                 /\ \E created \in BOOLEAN, new \in Object :
                      Writes(created, new) /\ w'.pc = NextStage(created)
<1> USE DEF IInv
<1>0. /\ w'.pc \notin {"idle", "detect", "prom", "default", "service", "account"}
      /\ w' # Idle /\ w'.pc \in Identified
  BY DEF AfterAccount, AfterRole, Identified, Upserts, Idle
<1>1. CASE Outside  BY <1>0, <1>1, OutsideFrame
<1>2. CASE GetProm \/ IsDefault \/ FindService
  BY <1>0, <1>2 DEF GetProm, IsDefault, FindService, Fail, TypeOK
<1>3. CASE GetObject \/ RegisterPrometheus
  BY <1>0, <1>3, StageFacts DEF GetObject, RegisterPrometheus, TypeOK, Identified
<1>4. CASE CreateObject \/ PatchObject
  <2>1. PICK created \in BOOLEAN, new \in Object : Writes(created, new)
    BY <1>0, <1>4, Upserted
  <2>2. w.pc \in Upserts /\ w' = [w EXCEPT !.pc = NextStage(created), !.seen = Unread]
    BY <2>1 DEF Writes
  <2> QED  BY <1>4, <2>1, <2>2 DEF TypeOK, Identified
<1>5. CASE (\E p \in Proms : Call(p)) \/ (\E answer \in BOOLEAN : Detect(answer))
  BY <1>0, <1>5 DEF Call, Detect, TypeOK, Idle
<1>6. CASE Poll \/ PollTimesOut \/ Abandon
  BY <1>0, <1>6 DEF Poll, PollTimesOut, Abandon, Fail
<1> QED  BY <1>1, <1>2, <1>3, <1>4, <1>5, <1>6 DEF Next, CallStep, Outside

(* What belongs to a living Prometheus stays, unless a call for another one *)
(* is about to write it.                                                   *)
LEMMA BelongsStays ==
    ASSUME IInv, [Next]_vars, NEW kind \in {"account", "role"},
           NEW p \in Proms, NEW uid \in Nat \ {0}, PromLives(p, uid),
           Belongs(kind, p, uid),
           w.pc = kind /\ Here = prom[p].ns => w.p = p /\ w.uid = uid
    PROVE  Belongs(kind, p, uid)'
<1> DEFINE k == <<kind, prom[p].ns>>
<1> USE DEF IInv
<1>1. k \in Keys  BY DEF TypeOK, Keys, Upserts
<1>2. prom'[p].ns = prom[p].ns  BY PromsStay
<1>3. SUFFICES obj'[k] # None /\ obj'[k].owner = <<"Prometheus", p, uid>>
  BY <1>2 DEF Belongs
<1>4. obj[k] # None /\ obj[k].owner = <<"Prometheus", p, uid>>  BY DEF Belongs
<1>5. obj[k].owner # None  BY <1>4, ObjectAssumption DEF Owner
<1>6. OwnerLives(obj[k].owner)  BY <1>4 DEF OwnerLives
<1>7. CASE obj'[k] = obj[k]  BY <1>4, <1>7
<1>8. ASSUME NEW created \in BOOLEAN, NEW new \in Object,
             Writes(created, new), k = Key, obj'[k] = new
      PROVE  obj'[k] # None /\ obj'[k].owner = <<"Prometheus", p, uid>>
  <2>1. w.pc = kind /\ Here = prom[p].ns
    BY <1>8, KeyType DEF Writes, Upserts, PresetKey, ClusterPreset
  <2>2. new.owner = <<"Prometheus", p, uid>>  BY <1>8, <2>1 DEF Writes, OwnerRef
  <2> QED  BY <1>8, <2>2, ObjectAssumption
<1> HIDE DEF k
<1>9. k[1] \notin {"preset", "clusterpreset"}  BY DEF k
<1> QED  BY <1>1, <1>5, <1>6, <1>7, <1>8, <1>9, ObjChanges

(* What a call has written stays its Prometheus's. *)
LEMMA WrittenStep ==
    ASSUME IInv, [Next]_vars
    PROVE  WrittenOK'
<1> USE DEF IInv
<1> SUFFICES ASSUME PromLives(w.p, w.uid)', NEW kind \in {"account", "role"},
                    w'.pc \in AfterAccount, kind = "role" => w'.pc \in AfterRole
             PROVE  Belongs(kind, w.p, w.uid)'
  BY DEF WrittenOK, AfterAccount, AfterRole
<1>1. w.pc \in Identified /\ w'.p = w.p /\ w'.uid = w.uid  BY Progress
<1>2. w.pc # "idle" /\ w.p \in Proms /\ w.uid \in Nat \ {0} /\ w.uid <= prom[w.p].uid
  BY <1>1 DEF TypeOK, UidsOK, Identified, Upserts
<1>3. PICK p \in Proms, uid \in Nat \ {0} : p = w.p /\ uid = w.uid  BY <1>2
<1>4. prom'[p].up /\ prom'[p].uid = uid  BY <1>1, <1>3 DEF PromLives
<1>5. ~ ChangeProm(p)
  BY <1>2, <1>3, <1>4, PromChanged DEF TypeOK, ClusterType
<1>6. prom'[p] = prom[p]
  BY <1>5, PromFrame, PromChanged DEF TypeOK, ClusterType
<1>7. PromLives(p, uid)  BY <1>4, <1>6 DEF PromLives
<1>8. SUFFICES Belongs(kind, p, uid)'  BY <1>1, <1>3 DEF Belongs
<1>9. CASE Belongs(kind, p, uid)  BY <1>3, <1>7, <1>9, BelongsStays
<1>10. CASE ~ Belongs(kind, p, uid)
  <2>1. ~ (w.pc \in AfterAccount /\ (kind = "role" => w.pc \in AfterRole))
    BY <1>2, <1>3, <1>7, <1>10 DEF WrittenOK
  <2>2. PICK created \in BOOLEAN, new \in Object :
           Writes(created, new) /\ w'.pc = NextStage(created)
    BY <2>1, Progress DEF RegisterPrometheus, AfterAccount, AfterRole
  <2>3. w.pc = kind
    BY <2>1, <2>2 DEF Writes, NextStage, AfterAccount, AfterRole, Upserts
  <2>4. Key = <<kind, prom[p].ns>> /\ Key \in Keys
    BY <1>3, <2>2, <2>3, KeyType DEF Writes, Here, Upserts
  <2>5. new.owner = <<"Prometheus", p, uid>>
    BY <1>3, <2>2, <2>3 DEF Writes, OwnerRef
  <2>6. obj'[Key] = new  BY <2>2, <2>4 DEF Writes, TypeOK
  <2> QED  BY <1>6, <2>4, <2>5, <2>6, ObjectAssumption DEF Belongs
<1> QED  BY <1>9, <1>10

(* What a Prometheus that is served owns stays its own. *)
LEMMA ServedStep ==
    ASSUME IInv, [Next]_vars
    PROVE  ServedOK'
<1> USE DEF IInv
<1> SUFFICES ASSUME NEW p \in served'
             PROVE  /\ prom'[p].up /\ prom'[p].ns \in token'
                    /\ Belongs("account", p, prom[p].uid)' /\ Belongs("role", p, prom[p].uid)'
                    /\ w'.pc # "idle" => p = w'.p \/ prom'[p].ns # Here'
                    /\ w'.pc \in Identified /\ p = w'.p => w'.uid = prom'[p].uid
  BY DEF ServedOK
<1>0. p \in Proms  BY TypeStep DEF TypeOK
<1>1. CASE p \notin served
  <2>1. Poll /\ p = w.p /\ PromLives(w.p, w.uid)
    BY <1>1 DEF Next, CallStep, vars, history, Call, Detect, GetProm, IsDefault, FindService,
         GetObject, CreateObject, PatchObject, RegisterPrometheus, Poll, PollTimesOut,
         Abandon, ChangeProm, MoveNamespace, IssueToken, DeleteObject, WritePreset, Collect
  <2>2. /\ UNCHANGED <<prom, obj, token>> /\ w'.pc = "idle"
        /\ w.pc = "poll" /\ Here \in token
    BY <2>1 DEF Poll, cluster, TokenReady, Idle
  <2>3. prom[p].up /\ prom[p].uid = w.uid /\ Here = prom[p].ns
    BY <2>1 DEF PromLives, Here
  <2>4. Belongs("account", p, prom[p].uid) /\ Belongs("role", p, prom[p].uid)
    BY <2>1, <2>2, <2>3 DEF WrittenOK, AfterAccount, AfterRole
  <2> QED  BY <2>2, <2>3, <2>4 DEF Belongs, Identified, Upserts
<1>2. CASE p \in served
  <2>1. /\ prom[p].up /\ prom[p].ns \in token /\ prom[p].uid \in Nat \ {0}
        /\ Belongs("account", p, prom[p].uid) /\ Belongs("role", p, prom[p].uid)
        /\ w.pc # "idle" => p = w.p \/ prom[p].ns # Here
        /\ w.pc \in Identified /\ p = w.p => w.uid = prom[p].uid
    BY <1>0, <1>2 DEF ServedOK, UidsOK, TypeOK
  <2>2. prom'[p] = prom[p]
    <3>1. ~ ChangeProm(p)  BY DEF ChangeProm
    <3> QED  BY <1>0, <3>1, PromFrame, PromChanged DEF TypeOK, ClusterType
  <2>3. PICK uid \in Nat \ {0} : uid = prom[p].uid  BY <2>1
  <2>4. PromLives(p, uid)  BY <2>1, <2>3 DEF PromLives
  <2>5. \A kind \in {"account", "role"} : Belongs(kind, p, uid)'
    <3> TAKE kind \in {"account", "role"}
    <3>1. Belongs(kind, p, uid)  BY <2>1, <2>3
    <3>2. w.pc = kind /\ Here = prom[p].ns => w.p = p /\ w.uid = uid
      BY <2>1, <2>3 DEF Identified, Upserts
    <3> QED  BY <1>0, <2>4, <3>1, <3>2, BelongsStays
  <2>6. prom'[p].ns \in token'
    <3>1. ASSUME NEW k \in Keys, Collect(k), k[1] = "account", k[2] = prom[p].ns  PROVE FALSE
      <4>1. k = <<"account", prom[p].ns>>  BY <1>0, <3>1 DEF Keys, ClusterPreset
      <4>2. obj[k].owner = <<"Prometheus", p, uid>>  BY <2>1, <2>3, <4>1 DEF Belongs
      <4> QED  BY <2>4, <3>1, <4>2 DEF Collect, OwnerLives
    <3>2. \/ token \subseteq token'
          \/ \E k \in Keys : Collect(k) /\ k[1] = "account" /\ token' = token \ {k[2]}
      BY DEF Next, CallStep, vars, Call, Detect, GetProm, IsDefault, FindService,
         GetObject, CreateObject, PatchObject, RegisterPrometheus, Poll, PollTimesOut,
         Abandon, ChangeProm, MoveNamespace, IssueToken, DeleteObject, WritePreset, Collect
    <3> QED  BY <2>1, <2>2, <3>1, <3>2
  <2>7. w'.pc # "idle" => p = w'.p \/ prom'[p].ns # Here'
    <3>1. CASE \E q \in Proms : Call(q)
      BY <2>1, <2>2, <3>1 DEF Call, Idle, Here, cluster
    <3>2. CASE w'.pc # "idle" /\ w'.p = w.p /\ w.pc # "idle"
      BY <2>1, <2>2, <3>2, SamePlace
    <3> QED  BY <3>1, <3>2, SameProm
  <2>8. w'.pc \in Identified /\ p = w'.p => w'.uid = prom'[p].uid
    BY <2>1, <2>2, GoesOn
  <2> QED  BY <2>1, <2>2, <2>3, <2>5, <2>6, <2>7, <2>8 DEF Belongs
<1> QED  BY <1>1, <1>2
---------------------------------------------------------------------------
(* Presets and AppBindings.                                                *)

(* What is for p stays so, unless a call has just begun or is at work on it. *)
LEMMA ForStays ==
    ASSUME IInv, [Next]_vars, NEW k \in Keys, NEW p \in Proms, k[1] \in Presets,
           w'.pc = "detect" => w' = w,
           w.pc \in Upserts => k # Key,
           For(k, p)
    PROVE  For(k, p)'
<1> USE DEF IInv
<1>1. CASE k \in touched
  <2>1. k \in touched'
    <3>1. CASE Outside  BY <1>1, <3>1, OutsideFrame
    <3>2. CASE \E q \in Proms : Call(q)
      BY <3>2, ObjectAssumption DEF Call, Idle
    <3>3. CASE GetObject  BY <1>1, <3>3 DEF GetObject
    <3>4. CASE (\E answer \in BOOLEAN : Detect(answer)) \/ GetProm \/ IsDefault \/ FindService
               \/ RegisterPrometheus \/ CreateObject \/ PatchObject
      BY <1>1, <3>4 DEF Detect, GetProm, IsDefault, FindService, CreateObject, PatchObject,
             RegisterPrometheus, history
    <3>5. CASE Poll \/ PollTimesOut \/ Abandon
      BY <1>1, <3>5 DEF Poll, PollTimesOut, Abandon, history
    <3> QED  BY <3>1, <3>2, <3>3, <3>4, <3>5 DEF Next, CallStep, Outside
  <2> QED  BY <2>1 DEF For
<1>2. CASE k \notin touched
  <2>1. obj[k] # None /\ obj[k].data = p /\ obj[k].owner = None
    BY <1>2 DEF For, NoOwner, Presets
  <2>2. CASE obj'[k] = obj[k]  BY <2>1, <2>2 DEF For
  <2>3. CASE obj'[k] # obj[k]
    <3>1. k \in touched'  BY <2>1, <2>3, ObjChanges DEF Writes
    <3> QED  BY <3>1 DEF For
  <2> QED  BY <2>2, <2>3
<1> QED  BY <1>1, <1>2

(* A write makes its object one for the Prometheus of the call.            *)
LEMMA ForWritten ==
    ASSUME IInv, CreateObject \/ PatchObject, NEW created \in BOOLEAN, NEW new \in Object,
           Writes(created, new), w.pc \in {"preset", "appbinding"}
    PROVE  /\ Key \in touched \/ (obj'[Key] # None /\ obj'[Key].data = w.p)
           /\ touched' = touched
<1>1. Key \in Keys  BY KeyType DEF IInv, Upserts
<1>2. obj'[Key] = new  BY <1>1 DEF Writes, IInv, TypeOK
<1>3. touched' = touched  BY DEF CreateObject, PatchObject, history
<1> QED  BY <1>2, <1>3, ObjectAssumption DEF Writes

(* What a call has written for its Prometheus stays for it. *)
LEMMA CompleteStep ==
    ASSUME IInv, [Next]_vars
    PROVE  CompleteSoFar'
<1> USE DEF IInv
<1> SUFFICES ASSUME w'.pc \in AfterPreset
             PROVE  /\ For(PresetKey, w.p)'
                    /\ w'.pc \in {"register", "poll"} /\ w'.default =>
                          For(<<"appbinding", Here>>, w.p)'
  BY DEF CompleteSoFar, AfterPreset
<1>1. /\ w.pc \in Identified /\ w'.p = w.p /\ w'.rancher = w.rancher /\ w'.default = w.default
      /\ \/ w'.pc = w.pc
         \/ RegisterPrometheus /\ w'.pc = "poll"
         \/ /\ CreateObject \/ PatchObject
            /\ \E created \in BOOLEAN, new \in Object :
                 Writes(created, new) /\ w'.pc = NextStage(created)
  BY Progress DEF AfterPreset, AfterAccount, AfterRole
<1>2. w.pc # "idle" /\ w.p \in Proms /\ Here' = Here /\ Here \in Namespaces
  BY <1>1, SamePlace, KeyType DEF Identified, Upserts
<1>3. PICK p \in Proms, k \in Keys, ab \in Keys :
         p = w.p /\ k = PresetKey /\ ab = <<"appbinding", Here>>
  BY <1>2, KeyType DEF Keys, Upserts
<1>4. PresetKey' = k /\ <<"appbinding", Here>>' = ab /\ w'.p = p
  BY <1>1, <1>2, <1>3 DEF PresetKey, ClusterPreset
<1>5. /\ k[1] \in Presets /\ k[1] # "appbinding" /\ ab[1] \in Presets /\ ab[1] = "appbinding"
      /\ w.pc = "appbinding" => Key = ab
      /\ w.pc = "preset" => Key = k
  BY <1>2, <1>3, KeyType DEF Presets, PresetKey, ClusterPreset, Upserts
<1>6. w'.pc # "detect"  BY DEF AfterPreset
<1>7. For(k, p)'
  <2>1. CASE w.pc \in AfterPreset
    <3>1. For(k, p)  BY <1>3, <2>1 DEF CompleteSoFar
    <3>2. w.pc \in Upserts => k # Key
      <4>1. w.pc \in Upserts => w.pc = "appbinding"  BY <2>1 DEF AfterPreset, Upserts
      <4> QED  BY <1>5, <4>1
    <3> QED  BY <1>5, <1>6, <3>1, <3>2, ForStays
  <2>2. CASE w.pc \notin AfterPreset
    <3>1. CreateObject \/ PatchObject  BY <1>1, <2>2 DEF RegisterPrometheus, AfterPreset
    <3>2. PICK created \in BOOLEAN, new \in Object :
             Writes(created, new) /\ w'.pc = NextStage(created)
      BY <1>1, <2>2 DEF RegisterPrometheus, AfterPreset
    <3>3. w.pc = "preset"  BY <2>2, <3>2 DEF Writes, NextStage, AfterPreset, Upserts
    <3>4. /\ k \in touched \/ (obj'[k] # None /\ obj'[k].data = p)
          /\ touched' = touched
      BY <1>3, <1>5, <3>1, <3>2, <3>3, ForWritten
    <3> QED  BY <3>4 DEF For
  <2> QED  BY <2>1, <2>2
<1>8. ASSUME w'.pc \in {"register", "poll"}, w'.default  PROVE For(ab, p)'
  <2>1. CASE w.pc \in {"register", "poll"}
    <3>1. For(ab, p)  BY <1>1, <1>3, <1>8, <2>1 DEF CompleteSoFar
    <3>2. w.pc \notin Upserts  BY <2>1 DEF Upserts
    <3> QED  BY <1>5, <1>6, <3>1, <3>2, ForStays
  <2>2. CASE w.pc \notin {"register", "poll"}
    <3>1. CreateObject \/ PatchObject  BY <1>1, <1>8, <2>2 DEF RegisterPrometheus
    <3>2. PICK created \in BOOLEAN, new \in Object :
             Writes(created, new) /\ w'.pc = NextStage(created)
      BY <1>1, <1>8, <2>2 DEF RegisterPrometheus
    <3>3. w.pc = "appbinding"
      <4>1. w.default  BY <1>1, <1>8
      <4>2. w.pc \in Upserts /\ NextStage(created) \in {"register", "poll"}
        BY <1>8, <3>2 DEF Writes
      <4> QED  BY <4>1, <4>2 DEF NextStage, Upserts
    <3>4. /\ ab \in touched \/ (obj'[ab] # None /\ obj'[ab].data = p)
          /\ touched' = touched
      BY <1>3, <1>5, <3>1, <3>2, <3>3, ForWritten
    <3> QED  BY <3>4 DEF For
  <2> QED  BY <2>1, <2>2
<1> QED  BY <1>4, <1>7, <1>8 DEF For

(* The call that returned is over, so that only users change its objects.  *)
LEMMA LastStep ==
    ASSUME IInv, [Next]_vars
    PROVE  LastOK' /\ SetupComplete'
<1> USE DEF IInv
<1> SUFFICES ASSUME last' # None  PROVE LastOK' /\ SetupComplete'
  BY DEF LastOK, SetupComplete
<1>1. CASE Poll
  <2>1. /\ last' = w /\ w' = Idle /\ obj' = obj /\ touched' = touched /\ prom' = prom
        /\ w.pc = "poll" /\ w.p \in Proms
    BY <1>1 DEF Poll, cluster, TypeOK
  <2>2. For(PresetKey, w.p) /\ (w.default => For(<<"appbinding", Here>>, w.p))
    BY <2>1 DEF CompleteSoFar, AfterPreset
  <2>3. LastOK'  BY <2>1 DEF LastOK, Idle
  <2>4. SetupComplete'
    BY <2>1, <2>2 DEF SetupComplete, For, PresetKey, Here
  <2> QED  BY <2>3, <2>4
<1>2. CASE last' = last /\ w'.pc = "idle"
  <2>1. last.p \in Proms /\ w.pc \notin Upserts /\ prom'[last.p].ns = prom[last.p].ns
        /\ prom[last.p].ns \in Namespaces
    BY <1>2, PromsStay DEF LastOK, Upserts, TypeOK
  <2>2. PICK p \in Proms, n \in Namespaces : p = last.p /\ n = prom[last.p].ns  BY <2>1
  <2>3. \A k \in Keys : k[1] \in Presets /\ For(k, p) => For(k, p)'
    BY <1>2, <2>1, ForStays
  <2>4. ClusterPreset \in Keys /\ <<"preset", n>> \in Keys /\ <<"appbinding", n>> \in Keys
    BY DEF Keys, Upserts
  <2>5. ClusterPreset[1] \in Presets /\ <<"preset", n>>[1] \in Presets
        /\ <<"appbinding", n>>[1] \in Presets
    BY DEF ClusterPreset, Presets
  <2>6. SetupComplete'
    BY <1>2, <2>1, <2>2, <2>3, <2>4, <2>5 DEF SetupComplete, For
  <2> QED  BY <1>2, <2>1, <2>6 DEF LastOK
<1>3. Poll \/ (last' = last /\ w'.pc = "idle")
  <2>1. Poll \/ last' = last
    BY DEF Next, CallStep, vars, history, Call, Detect, GetProm, IsDefault, FindService,
         GetObject, CreateObject, PatchObject, RegisterPrometheus, PollTimesOut,
         Abandon, ChangeProm, MoveNamespace, IssueToken, DeleteObject, WritePreset, Collect
  <2>2. last' = last => w'.pc = "idle"
    BY SameProm DEF LastOK, Call
  <2> QED  BY <2>1, <2>2
<1> QED  BY <1>1, <1>2, <1>3

(* A call that fails is remembered. *)
LEMMA FailuresGrow ==
    ASSUME IInv, [Next]_vars
    PROVE  /\ spent.failures \in Nat /\ spent'.failures \in Nat
           /\ spent'.failures >= spent.failures
           /\ Abandon => spent'.failures > 0
<1> USE DEF IInv
<1>1. spent \in [calls : Nat, changes : Nat, failures : Nat]  BY DEF TypeOK
<1>2. \/ spent' = spent
      \/ \E what \in {"calls", "changes", "failures"} : spent' = [spent EXCEPT ![what] = @ + 1]
  BY DEF Next, CallStep, vars, Call, Detect, GetProm, IsDefault, FindService,
         GetObject, CreateObject, PatchObject, RegisterPrometheus, Poll, PollTimesOut,
         Abandon, ChangeProm, MoveNamespace, IssueToken, DeleteObject, WritePreset, Collect,
         SpendChange, SpendFailure, Spend
<1>3. Abandon => spent' = [spent EXCEPT !.failures = @ + 1]
  BY DEF Abandon, SpendFailure, Spend
<1> QED  BY <1>1, <1>2, <1>3

(* A registration that is sent is the first one. *)
LEMMA RegisterStep ==
    ASSUME IInv, [Next]_vars
    PROVE  FirstRegistration' /\ RegisteredOnce'
<1> USE DEF IInv
<1>1. FirstRegistration'
  <2> SUFFICES ASSUME w'.pc = "register"  PROVE reg'[Here'] = 0
    BY DEF FirstRegistration
  <2>1. w.pc \in Identified /\ w'.p = w.p  BY Progress DEF AfterAccount, AfterRole
  <2>2. Here' = Here /\ Here \in Namespaces
    BY <2>1, SamePlace DEF Identified, Upserts
  <2>3. CASE \E created \in BOOLEAN, new \in Object :
                Writes(created, new) /\ w'.pc = NextStage(created)
    BY <2>2, <2>3 DEF Writes, NextStage, TypeOK, Upserts
  <2>4. CASE w'.pc = w.pc
    <3>1. reg' = reg
      BY <2>4 DEF Next, CallStep, vars, history, Call, Detect, GetProm, IsDefault, FindService,
         GetObject, CreateObject, PatchObject, Poll, PollTimesOut, RegisterPrometheus,
         Abandon, ChangeProm, MoveNamespace, IssueToken, DeleteObject, WritePreset, Collect,
         Upserts, TypeOK
    <3> QED  BY <2>2, <2>4, <3>1 DEF FirstRegistration
  <2> QED  BY <2>3, <2>4, Progress DEF AfterAccount, AfterRole
<1>2. RegisteredOnce'
  <2> SUFFICES ASSUME NEW n \in Namespaces
               PROVE  /\ reg'[n] <= 1
                      /\ obj'[<<"appbinding", n>>] # None /\ reg'[n] = 0 =>
                            spent'.failures > 0 \/ (w'.pc = "register" /\ Here' = n)
    BY DEF RegisteredOnce
  <2>0. reg[n] \in Nat /\ reg[n] <= 1 /\ spent.failures \in Nat
    BY DEF TypeOK, RegisteredOnce
  <2> DEFINE ab == <<"appbinding", n>>
  <2>1. ab \in Keys  BY DEF Keys, Upserts
  <2>2. CASE RegisterPrometheus
    <3>1. /\ w.pc = "register" /\ reg' = [reg EXCEPT ![Here] = @ + 1]
          /\ obj' = obj /\ spent' = spent /\ reg[Here] = 0 /\ Here \in Namespaces
      BY <2>2, KeyType DEF RegisterPrometheus, FirstRegistration
    <3>2. CASE n = Here  BY <3>1, <3>2 DEF TypeOK
    <3>3. CASE n # Here  BY <3>1, <3>3 DEF TypeOK, RegisteredOnce
    <3> QED  BY <3>2, <3>3
  <2>3. CASE CreateObject \/ PatchObject
    <3>0. spent' = spent  BY <2>3 DEF CreateObject, PatchObject
    <3>1. CASE w' = Idle /\ obj' = obj /\ reg' = reg /\ w.pc \in Upserts
      BY <2>0, <3>0, <3>1 DEF RegisteredOnce, Upserts
    <3>2. ASSUME NEW created \in BOOLEAN, NEW new \in Object, Writes(created, new)
          PROVE  /\ reg'[n] <= 1
                 /\ obj'[ab] # None /\ reg'[n] = 0 =>
                       spent'.failures > 0 \/ (w'.pc = "register" /\ Here' = n)
      <4>1. w.pc \in Upserts /\ w.pc \notin {"idle", "register"}  BY <3>2 DEF Writes, Upserts
      <4>2. Key \in Keys /\ Here \in Namespaces  BY <4>1, KeyType
      <4>3. w'.p = w.p /\ w'.pc = NextStage(created)  BY <3>2 DEF Writes, TypeOK
      <4>4. Here' = Here  BY <4>1, <4>3, SamePlace
      <4>5. CASE Key = ab
        <5>1. w.pc = "appbinding" /\ Here = n
          BY <4>1, <4>5, KeyType DEF PresetKey, ClusterPreset, Upserts
        <5>2. CASE created
          BY <3>2, <4>2, <4>3, <4>4, <5>1, <5>2 DEF Writes, NextStage, TypeOK
        <5>3. CASE ~ created
          BY <2>0, <3>0, <3>2, <4>5, <5>1, <5>3 DEF Writes, RegisteredOnce
        <5> QED  BY <5>2, <5>3
      <4>6. CASE Key # ab
        <5>1. obj'[ab] = obj[ab]  BY <2>1, <3>2, <4>6 DEF Writes, TypeOK
        <5>2. w.pc # "appbinding" \/ Here # n  BY <4>1, <4>6, KeyType
        <5>3. reg'[n] = reg[n]  BY <3>2, <4>2, <5>2 DEF Writes, TypeOK
        <5> QED  BY <2>0, <3>0, <4>1, <5>1, <5>3 DEF RegisteredOnce
      <4> QED  BY <4>5, <4>6
    <3> QED  BY <2>3, <3>1, <3>2, Upserted
  <2>4. CASE ~ (RegisterPrometheus \/ CreateObject \/ PatchObject)
    <3>1. reg' = reg
      BY <2>4 DEF Next, CallStep, vars, history, Call, Detect, GetProm, IsDefault, FindService,
         GetObject, Poll, PollTimesOut, Abandon, ChangeProm, MoveNamespace, IssueToken,
         DeleteObject, WritePreset, Collect
    <3>2. obj'[ab] # None => obj[ab] # None
      <4>1. ab[1] \notin {"preset", "clusterpreset"}  OBVIOUS
      <4> QED  BY <2>1, <2>4, <4>1, ObjChanges
    <3>3. spent.failures > 0 => spent'.failures > 0  BY FailuresGrow
    <3>4. CASE w.pc = "register" /\ Here = n
      <4>1. CASE Outside
        <5>1. w' = w  BY <4>1, OutsideFrame
        <5>2. Here' = Here  BY <3>4, <5>1, SamePlace
        <5> QED  BY <2>0, <3>1, <3>4, <5>1, <5>2
      <4>2. CASE Abandon  BY <2>0, <3>1, <4>2, FailuresGrow
      <4>3. Outside \/ Abandon
        BY <2>4, <3>4 DEF Next, CallStep, Call, Detect, GetProm, IsDefault, FindService,
           GetObject, Poll, PollTimesOut, Outside, Upserts
      <4> QED  BY <4>1, <4>2, <4>3
    <3>5. CASE ~ (w.pc = "register" /\ Here = n)
      BY <2>0, <3>1, <3>2, <3>3, <3>5 DEF RegisteredOnce
    <3> QED  BY <3>4, <3>5
  <2> QED  BY <2>2, <2>3, <2>4
<1> QED  BY <1>1, <1>2
---------------------------------------------------------------------------
(* The invariant holds from the start, and every step keeps it.            *)

(* The invariant holds in every reachable state. *)
LEMMA Inductive == Spec => []IInv
<1>1. Init => IInv  BY InitHolds
<1>2. IInv /\ [Next]_vars => IInv'
  BY TypeStep, UidsStep, ManagerStep, NoOwnerStep, SeenStep, WrittenStep, ServedStep,
     CompleteStep, LastStep, RegisterStep DEF IInv
<1> QED  BY <1>1, <1>2, PTL DEF Spec

(* In every reachable state the objects, the locals of a call and the      *)
(* history have their types; an upsert writes for a known incarnation      *)
(* (main.go 206-405).                                                      *)
THEOREM TypeCorrect == Spec => []TypeOK
<1>1. IInv => TypeOK  BY DEF IInv
<1> QED  BY <1>1, Inductive, PTL

(* The account, the Role and the token of a Prometheus that was set up stay *)
(* as long as it lives and no call is made for another one of its          *)
(* namespace: the owner references are renewed (main.go 230-320).          *)
THEOREM TokenStays == Spec => []TokenLasts
<1>1. ServedOK => TokenLasts  BY DEF ServedOK, Belongs, TokenLasts
<1>2. IInv => TokenLasts  BY <1>1 DEF IInv
<1> QED  BY <1>2, Inductive, PTL

(* A call that returned without an error has left its preset, and for the   *)
(* default Prometheus its AppBinding, unless users changed them since        *)
(* (main.go 206-405, 407-558).                                              *)
THEOREM CompleteWhenDone == Spec => []SetupComplete
<1>1. IInv => SetupComplete  BY DEF IInv
<1> QED  BY <1>1, Inductive, PTL

(* However often calls are repeated, an AppBinding is registered at most    *)
(* once, and it is left unregistered only by a call that failed             *)
(* (main.go 327-334).                                                       *)
THEOREM RegistersOnce == Spec => []RegisteredOnce
<1>1. IInv => RegisteredOnce  BY DEF IInv
<1> QED  BY <1>1, Inductive, PTL

(* A call writes only in the namespace of its Prometheus, and the cluster-  *)
(* wide preset only if that namespace is or was in the system project.      *)
LEMMA KeepsToItsPlace ==
    ASSUME IInv, Next, CallStep, NEW k \in Keys, obj'[k] # obj[k]
    PROVE  \/ k[2] = Here
           \/ k = ClusterPreset /\ (rancher /\ ~ mistaken => Here \in everSystem)
<1> USE DEF IInv
<1>1. w.pc \in Upserts /\ k = Key
  <2>1. CreateObject \/ PatchObject
    BY DEF CallStep, Detect, GetProm, IsDefault, FindService, GetObject, RegisterPrometheus,
           Poll, PollTimesOut
  <2>2. PICK created \in BOOLEAN, new \in Object : Writes(created, new)  BY <2>1, Upserted
  <2> QED  BY <2>2 DEF Writes, TypeOK
<1>2. CASE w.pc = "preset" /\ Key = ClusterPreset
  <2>1. ~ w.rancher \/ w.default
    BY <1>2 DEF Key, PresetKey, ClusterPreset
  <2>2. rancher /\ ~ mistaken => w.rancher  BY <1>2 DEF ManagerOK
  <2>3. w.rancher /\ w.default => Here \in everSystem
    BY <1>2 DEF ManagerOK, Identified, Upserts
  <2> QED  BY <1>1, <1>2, <2>1, <2>2, <2>3
<1>3. CASE Key[2] = Here  BY <1>1, <1>3
<1> QED  BY <1>1, <1>2, <1>3, KeyType DEF PresetKey, Upserts

(* A call writes in the namespace of its Prometheus, or the cluster-wide    *)
(* preset; that one for a Prometheus of the system project only, unless     *)
(* Rancher was not recognised (main.go 206-485).                            *)
THEOREM CallsKeepToTheirPlace == Spec => OwnNamespaceOnly
<1>1. ASSUME IInv, [Next]_vars
      PROVE  [CallStep => \A k \in Keys : obj'[k] # obj[k] =>
               \/ k[2] = Here
               \/ k = ClusterPreset /\ (rancher /\ ~ mistaken => Here \in everSystem)]_vars
  BY <1>1, KeepsToItsPlace
<1> QED  BY <1>1, Inductive, PTL DEF Spec, OwnNamespaceOnly
=============================================================================
