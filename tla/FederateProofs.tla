--------------------------- MODULE FederateProofs ---------------------------
(***************************************************************************)
(* Proofs about Federate, for every value of its constants: its types; that  *)
(* every copy has an owner issued in its namespace; that a project sees no   *)
(* namespace that never was its own; that a pass never undoes a user's edit. *)
(***************************************************************************)
EXTENDS Federate, TLAPS

InPass == {"fetch", "services", "secrets", "next", "labels", "namespaces",
           "monitor", "copies", "endpoints"}
InProm == {"namespaces", "monitor", "copies", "endpoints"}

\* What the locals of Reconcile hold at each stage of a pass.
LocalsOK ==
    /\ w.pc \in InPass => w.m \in Monitors
    /\ w.pc \in InPass \ {"fetch"} => w.spec \in MonSpecs
    /\ w.pc \in InProm => w.p \in ProjectProms
    /\ w.pc = "endpoints" => w.s \in Services /\ w.svcs[w.s] # None /\ w.tgt # 0
    /\ w.pc \in {"copies", "endpoints"} =>
         /\ \A s \in w.svcTodo : w.svcs[s] # None
         /\ \A x \in w.secTodo : w.secs[x] # None

\* The target of a pass is a copy that was issued; what the pass is about to
\* let through belonged to the project when it was listed.
TargetOK == w.pc \in {"copies", "endpoints"} => w.tgt <= made[w.p][w.m]
FilterOK == w.pc = "monitor" => /\ w.keep \subseteq everIn[w.p]
                                /\ RegistrationNs[w.p] \notin w.keep

WorkerInv == w \in WorkerRec /\ LocalsOK /\ TargetOK /\ FilterOK

\* The UIDs of the copies were issued.
CopyUidsOK ==
    \A p \in ProjectProms : \A m \in Monitors :
      cMon[p][m] # None => 1 <= cMon[p][m].uid /\ cMon[p][m].uid <= made[p][m]

CopiesInv == CopiesOK /\ CopyUidsOK /\ OwnersIssuedHere

\* The history covers what the selectors match now.
HistoryOK ==
    \A n \in Namespaces : \A p \in ProjectProms :
      nsOf[n] = p => n \in everIn[p] \/ n = RegistrationNs[p]

SourceInv == SourceOK /\ HistoryOK

IInv == SourceInv /\ CopiesInv /\ WorkerInv /\ ControlOK /\ Isolation
-----------------------------------------------------------------------------
(* Frames: a part of the invariant whose variables stay, stays.            *)

\* The part about the sources depends on the sources only.
LEMMA SourceFrame == ASSUME SourceInv, UNCHANGED source PROVE SourceInv'
  BY DEF SourceInv, SourceOK, HistoryOK, source

\* The part about the copies depends on the copies only.
LEMMA CopiesFrame == ASSUME CopiesInv, UNCHANGED copies PROVE CopiesInv'
  BY DEF CopiesInv, CopiesOK, CopyUidsOK, OwnersIssuedHere, Issued, copies

\* Isolation depends on the copies and on the history of the selectors.
LEMMA IsolationFrame ==
  ASSUME Isolation, UNCHANGED <<source, copies>> PROVE Isolation'
  BY DEF Isolation, source, copies

\* The part about the worker depends on its locals, the UIDs issued and that history.
LEMMA WorkerFrame == ASSUME WorkerInv, UNCHANGED <<w, made, everIn>>
                     PROVE WorkerInv'
  BY DEF WorkerInv, LocalsOK, TargetOK, FilterOK, InPass, InProm

\* One entry of a table of rows replaced by another.
LEMMA UpdateEntry ==
  ASSUME NEW A, NEW B, NEW T, NEW f \in [A -> [B -> T]], NEW a \in A,
         NEW b \in B, NEW v \in T, NEW g, g = [f EXCEPT ![a][b] = v]
  PROVE  /\ g \in [A -> [B -> T]]
         /\ \A c \in A : \A d \in B :
               g[c][d] = f[c][d] \/ (c = a /\ d = b /\ g[c][d] = v)
<1> DEFINE row == [f[a] EXCEPT ![b] = v]
<1>1. row \in [B -> T] /\ \A d \in B : row[d] = IF d = b THEN v ELSE f[a][d]
  OBVIOUS
<1>2. g = [f EXCEPT ![a] = row] OBVIOUS
<1> HIDE DEF row
<1> QED BY <1>1, <1>2

\* A pass that ends leaves a worker that holds nothing.
LEMMA IdleOK == Idle \in WorkerRec
  BY DEF Idle, WorkerRec, Stages

\* So does the end of the process.
LEMMA EndOfPass == ASSUME w' = Idle \/ w' = [Idle EXCEPT !.pc = "down"]
                   PROVE WorkerInv'
<1>1. w' \in WorkerRec
  <2>1. CASE w' = Idle BY <2>1, IdleOK
  <2>2. CASE w' = [Idle EXCEPT !.pc = "down"]
    BY <2>2, IdleOK DEF WorkerRec, Stages
  <2> QED BY <2>1, <2>2
<1>2. w'.pc = "idle" \/ w'.pc = "down" BY DEF Idle
<1>3. LocalsOK' /\ TargetOK' /\ FilterOK'
  BY <1>2 DEF LocalsOK, TargetOK, FilterOK, InPass, InProm
<1> QED BY <1>1, <1>3 DEF WorkerInv

\* A failure is counted.
LEMMA SpendOK ==
  ASSUME ControlOK, NEW out \in Outcomes, Spend(out)
  PROVE spent' \in [changes : Nat, failures : Nat, crashes : Nat, tampers : Nat]
  BY DEF ControlOK, Spend

\* A change is counted.
LEMMA SpendChangeOK ==
  ASSUME ControlOK, SpendChange
  PROVE spent' \in [changes : Nat, failures : Nat, crashes : Nat, tampers : Nat]
  BY DEF ControlOK, SpendChange
-----------------------------------------------------------------------------
(* A step that changes neither source nor copies: the worker and the queue *)
(* are what remains to be looked at.                                       *)

\* The frames together.
LEMMA QuietStep ==
  ASSUME IInv, UNCHANGED <<source, copies>>, WorkerInv', ControlOK'
  PROVE IInv'
  BY SourceFrame, CopiesFrame, IsolationFrame DEF IInv

\* A pass starts over a monitor, with locals that hold nothing.
LEMMA DequeueOK == ASSUME IInv, NEW m \in Monitors, Dequeue(m) PROVE IInv'
<1>1. w' = [Idle EXCEPT !.pc = "fetch", !.m = m] BY DEF Dequeue, Pass
<1>2. w' \in WorkerRec BY <1>1, IdleOK DEF WorkerRec, Stages, Idle
<1>3. LocalsOK' /\ TargetOK' /\ FilterOK'
  BY <1>1 DEF LocalsOK, TargetOK, FilterOK, Idle, InPass, InProm
<1>4. ControlOK' BY DEF Dequeue, IInv, ControlOK
<1> QED BY <1>2, <1>3, <1>4, QuietStep DEF Dequeue, WorkerInv

\* A pass that fails early queues its monitor again.
LEMMA RequestFailsOK == ASSUME IInv, RequestFails PROVE IInv'
<1>1. w.m \in Monitors BY DEF IInv, WorkerInv, LocalsOK, InPass, RequestFails
<1>2. ControlOK'
  BY <1>1, SpendOK DEF RequestFails, ReturnErr, Outcomes, IInv, ControlOK
<1> QED BY <1>2, EndOfPass, QuietStep DEF RequestFails, ReturnErr

\* A pass that takes a failed discovery for "not Rancher" ends.
LEMMA DiscoveryFailsOK == ASSUME IInv, DiscoveryFails PROVE IInv'
<1>1. w.m \in Monitors BY DEF IInv, WorkerInv, LocalsOK, InPass, DiscoveryFails
<1>2. ControlOK'
  BY <1>1, SpendOK DEF DiscoveryFails, ReturnNil, Outcomes, IInv, ControlOK
<1> QED BY <1>2, EndOfPass, QuietStep DEF DiscoveryFails, ReturnNil

\* The spec that is read is a spec, or the pass ends.
LEMMA FetchMonitorOK == ASSUME IInv, FetchMonitor PROVE IInv'
<1>1. ControlOK' BY DEF FetchMonitor, ReturnNil, IInv, ControlOK
<1>2. UNCHANGED <<source, copies>> BY DEF FetchMonitor
<1>3. CASE Federated(w.m)
  <2>1. w.m \in Monitors BY DEF IInv, WorkerInv, LocalsOK, InPass, FetchMonitor
  <2>2. mon[w.m].spec \in MonSpecs
    BY <1>3, <2>1 DEF Federated, Exists, IInv, SourceInv, SourceOK, MonRec
  <2>3. w' = [w EXCEPT !.pc = "services", !.spec = mon[w.m].spec]
    BY <1>3 DEF FetchMonitor
  <2>4. w' \in WorkerRec BY <2>2, <2>3 DEF IInv, WorkerInv, WorkerRec, Stages
  <2>5. LocalsOK' /\ TargetOK' /\ FilterOK'
    BY <2>1, <2>2, <2>3
    DEF IInv, WorkerInv, WorkerRec, LocalsOK, TargetOK, FilterOK, InPass, InProm
  <2> QED BY <1>1, <1>2, <2>4, <2>5, QuietStep DEF WorkerInv
<1>4. CASE ~ Federated(w.m)
  BY <1>1, <1>2, <1>4, EndOfPass, QuietStep DEF FetchMonitor, ReturnNil
<1> QED BY <1>3, <1>4

\* The Services of the snapshot are Services.
LEMMA ListServicesOK == ASSUME IInv, ListServices PROVE IInv'
<1>1. w.spec \in MonSpecs
  BY DEF IInv, WorkerInv, LocalsOK, InPass, ListServices
<1>2. CARefs[w.spec] \subseteq Secrets BY <1>1, SpecsAssumption
<1> DEFINE snapshot == [s \in Services |->
                          IF s \in Selects[w.spec] THEN svc[s] ELSE None]
<1>3. snapshot \in [Services -> SvcRec \cup {None}]
  BY DEF IInv, SourceInv, SourceOK
<1>4. w' = [w EXCEPT !.pc = "secrets", !.svcs = snapshot,
                     !.toGet = CARefs[w.spec]]
  BY DEF ListServices
<1> HIDE DEF snapshot
<1>5. w' \in WorkerRec
  BY <1>2, <1>3, <1>4 DEF IInv, WorkerInv, WorkerRec, Stages
<1>6. LocalsOK' /\ TargetOK' /\ FilterOK'
  BY <1>1, <1>4 DEF IInv, WorkerInv, WorkerRec, LocalsOK, TargetOK, FilterOK,
                    InPass, InProm, ListServices
<1>7. ControlOK' BY DEF ListServices, IInv, ControlOK
<1> QED BY <1>5, <1>6, <1>7, QuietStep DEF ListServices, WorkerInv

\* The Secret that is read is there, or the pass ends.
LEMMA GetSecretOK == ASSUME IInv, NEW x \in Secrets, GetSecret(x) PROVE IInv'
<1>1. w.m \in Monitors /\ w.spec \in MonSpecs
  BY DEF IInv, WorkerInv, LocalsOK, InPass, GetSecret
<1>2. ControlOK' BY <1>1 DEF GetSecret, ReturnErr, IInv, ControlOK
<1>3. CASE secret[x] = None
  BY <1>2, <1>3, EndOfPass, QuietStep DEF GetSecret, ReturnErr
<1>4. CASE secret[x] # None
  <2>1. secret[x] \in Data BY <1>4 DEF IInv, SourceInv, SourceOK
  <2>2. w' = [w EXCEPT !.secs[x] = secret[x], !.toGet = @ \ {x}]
    BY <1>4 DEF GetSecret
  <2>3. w' \in WorkerRec BY <2>1, <2>2 DEF IInv, WorkerInv, WorkerRec
  <2>4. LocalsOK' /\ TargetOK' /\ FilterOK'
    BY <1>1, <2>2 DEF IInv, WorkerInv, WorkerRec, LocalsOK, TargetOK, FilterOK,
                      InPass, InProm, GetSecret
  <2> QED BY <1>2, <2>3, <2>4, QuietStep DEF GetSecret, WorkerInv
<1> QED BY <1>3, <1>4

\* The loop is over Prometheuses with their UIDs.
LEMMA ListPromsOK == ASSUME IInv, ListProms PROVE IInv'
<1>1. w.m \in Monitors /\ w.spec \in MonSpecs
  BY DEF IInv, WorkerInv, LocalsOK, InPass, ListProms
<1> DEFINE uids == [p \in AllProms |-> IF prom[p].up THEN prom[p].uid ELSE 0]
<1>2. uids \in [AllProms -> Nat] BY DEF IInv, SourceInv, SourceOK
<1>3. w' = [w EXCEPT !.pc = "next", !.todo = uids] BY DEF ListProms
<1> HIDE DEF uids
<1>4. w' \in WorkerRec BY <1>2, <1>3 DEF IInv, WorkerInv, WorkerRec, Stages
<1>5. LocalsOK' /\ TargetOK' /\ FilterOK'
  BY <1>1, <1>3 DEF IInv, WorkerInv, WorkerRec, LocalsOK, TargetOK, FilterOK,
                    InPass, InProm
<1>6. ControlOK' BY DEF ListProms, IInv, ControlOK
<1> QED BY <1>4, <1>5, <1>6, QuietStep DEF ListProms, WorkerInv

\* The loop turns to the default Prometheus or to that of a project.
LEMMA NextPromOK == ASSUME IInv, NEW p \in AllProms, NextProm(p) PROVE IInv'
<1>1. w.m \in Monitors /\ w.spec \in MonSpecs
  BY DEF IInv, WorkerInv, LocalsOK, InPass, NextProm
<1>2. ControlOK' BY DEF NextProm, ReturnNil, IInv, ControlOK
<1>3. CASE p # DefaultProm /\ PromNs[p] = MonitorNs[w.m]
  BY <1>2, <1>3, EndOfPass, QuietStep DEF NextProm, ReturnNil
<1>4. CASE ~ (p # DefaultProm /\ PromNs[p] = MonitorNs[w.m])
  <2> DEFINE stage == IF p = DefaultProm THEN "labels" ELSE "namespaces"
  <2>1. w' = [w EXCEPT !.p = p, !.pc = stage] BY <1>4 DEF NextProm
  <2>2. stage \in {"labels", "namespaces"}
        /\ (stage = "namespaces" => p \in ProjectProms)
    BY DEF AllProms
  <2> HIDE DEF stage
  <2>3. w' \in WorkerRec BY <2>1, <2>2 DEF IInv, WorkerInv, WorkerRec, Stages
  <2>4. LocalsOK' /\ TargetOK' /\ FilterOK'
    BY <1>1, <2>1, <2>2 DEF IInv, WorkerInv, WorkerRec, LocalsOK, TargetOK,
                            FilterOK, InPass, InProm
  <2> QED BY <1>2, <2>3, <2>4, QuietStep DEF NextProm, WorkerInv
<1> QED BY <1>3, <1>4

\* What the selector matches belongs to the project, but for one namespace.
LEMMA ListNamespacesOK ==
  ASSUME IInv, NEW out \in Outcomes, ListNamespaces(out) PROVE IInv'
<1>1. w.m \in Monitors /\ w.spec \in MonSpecs /\ w.p \in ProjectProms
  BY DEF IInv, WorkerInv, LocalsOK, InPass, InProm, ListNamespaces
<1>2. ControlOK' BY SpendOK DEF ListNamespaces, IInv, ControlOK
<1>3. CASE out = "ok"
  <2>1. w' = [w EXCEPT !.pc = "monitor", !.keep = KeptNamespaces(w.p)]
    BY <1>3 DEF ListNamespaces
  <2>2. /\ KeptNamespaces(w.p) \subseteq Namespaces
        /\ KeptNamespaces(w.p) \subseteq everIn[w.p]
        /\ RegistrationNs[w.p] \notin KeptNamespaces(w.p)
    BY <1>1 DEF KeptNamespaces, IInv, SourceInv, HistoryOK
  <2>3. w' \in WorkerRec BY <2>1, <2>2 DEF IInv, WorkerInv, WorkerRec, Stages
  <2>4. everIn' = everIn BY DEF ListNamespaces, source
  <2>5. LocalsOK' /\ TargetOK' /\ FilterOK'
    BY <1>1, <2>1, <2>2, <2>4 DEF IInv, WorkerInv, WorkerRec, LocalsOK,
                                  TargetOK, FilterOK, InPass, InProm
  <2> QED BY <1>2, <2>3, <2>5, QuietStep DEF ListNamespaces, WorkerInv
<1>4. CASE out # "ok"
  <2> DEFINE svcTodo == {s \in Services : w.svcs[s] # None}
             secTodo == {x \in Secrets : w.secs[x] # None}
  <2>1. w' = [w EXCEPT !.pc = "copies", !.errs = TRUE, !.tgt = 0,
                       !.svcTodo = svcTodo, !.secTodo = secTodo]
    BY <1>4 DEF ListNamespaces
  <2>2. /\ svcTodo \subseteq Services /\ \A s \in svcTodo : w.svcs[s] # None
        /\ secTodo \subseteq Secrets /\ \A x \in secTodo : w.secs[x] # None
    OBVIOUS
  <2>3. made' = made /\ made[w.p][w.m] \in Nat
    BY <1>1 DEF ListNamespaces, copies, IInv, CopiesInv, CopiesOK
  <2> HIDE DEF svcTodo, secTodo
  <2>4. w' \in WorkerRec BY <2>1, <2>2 DEF IInv, WorkerInv, WorkerRec, Stages
  <2>5. LocalsOK' /\ TargetOK' /\ FilterOK'
    BY <1>1, <2>1, <2>2, <2>3 DEF IInv, WorkerInv, WorkerRec, LocalsOK,
                                  TargetOK, FilterOK, InPass, InProm
  <2> QED BY <1>2, <2>4, <2>5, QuietStep DEF ListNamespaces, WorkerInv
<1> QED BY <1>3, <1>4

\* The loop lets go of a Prometheus.
LEMMA EndOfPromOK == ASSUME IInv, EndOfProm PROVE IInv'
<1>1. w.m \in Monitors /\ w.spec \in MonSpecs /\ w.p \in ProjectProms
  BY DEF IInv, WorkerInv, LocalsOK, InPass, InProm, EndOfProm
<1>2. w' = [w EXCEPT !.pc = "next", !.todo[w.p] = 0, !.p = None, !.tgt = 0]
  BY DEF EndOfProm
<1>3. w' \in WorkerRec BY <1>1, <1>2 DEF IInv, WorkerInv, WorkerRec, Stages
<1>4. LocalsOK' /\ TargetOK' /\ FilterOK'
  BY <1>1, <1>2 DEF IInv, WorkerInv, WorkerRec, LocalsOK, TargetOK, FilterOK,
                    InPass, InProm
<1>5. ControlOK' BY DEF EndOfProm, IInv, ControlOK
<1> QED BY <1>3, <1>4, <1>5, QuietStep DEF EndOfProm, WorkerInv

\* A pass with errors queues its monitor again.
LEMMA FinishPassOK == ASSUME IInv, FinishPass PROVE IInv'
<1>1. w.m \in Monitors BY DEF IInv, WorkerInv, LocalsOK, InPass, FinishPass
<1>2. ControlOK'
  BY <1>1 DEF FinishPass, ReturnErr, ReturnNil, IInv, ControlOK
<1> QED BY <1>2, EndOfPass, QuietStep DEF FinishPass, ReturnErr, ReturnNil

\* A process that dies leaves the cluster as it is.
LEMMA DieOK ==
  ASSUME IInv, Die, UNCHANGED <<source, copies, missed>>,
         spent' \in [changes : Nat, failures : Nat, crashes : Nat, tampers : Nat]
  PROVE  IInv'
<1>1. ControlOK' BY DEF Die, IInv, ControlOK
<1> QED BY <1>1, EndOfPass, QuietStep DEF Die

\* Both panics of Reconcile.
LEMMA PanicsOK == ASSUME IInv, NilTargetPanics \/ PortPanics PROVE IInv'
  BY DieOK DEF NilTargetPanics, PortPanics, IInv, ControlOK

\* A crash.
LEMMA CrashOK == ASSUME IInv, Crash PROVE IInv'
<1>1. spent' \in [changes : Nat, failures : Nat, crashes : Nat, tampers : Nat]
  BY DEF Crash, IInv, ControlOK
<1> QED BY <1>1, DieOK DEF Crash
-----------------------------------------------------------------------------
(* The writes of a pass.                                                   *)

\* The label is written to a monitor that keeps its other fields.
LEMMA PatchLabelsOK ==
  ASSUME IInv, NEW out \in Outcomes, PatchLabels(out) PROVE IInv'
<1>1. w.m \in Monitors /\ w.spec \in MonSpecs
  BY DEF IInv, WorkerInv, LocalsOK, InPass, PatchLabels
<1>2. ControlOK' BY <1>1, SpendOK DEF PatchLabels, IInv, ControlOK
<1>3. Exists(w.m) => mon[w.m] \in MonRec
  BY <1>1 DEF Exists, IInv, SourceInv, SourceOK
<1>4. mon' \in [Monitors -> MonRec \cup {None}]
  <2>1. Exists(w.m) => Labelled \in MonRec BY <1>3 DEF Labelled, MonRec
  <2> QED BY <1>1, <2>1 DEF PatchLabels, IInv, SourceInv, SourceOK
<1>5. SourceInv'
  BY <1>4 DEF PatchLabels, IInv, SourceInv, SourceOK, HistoryOK
<1> DEFINE spec == IF out = "ok" THEN mon[w.m].spec ELSE w.spec
           errs == w.errs \/ out # "ok"
<1>6. spec \in MonSpecs
  BY <1>1, <1>3 DEF PatchLabels, MonRec
<1>7. w' = [w EXCEPT !.pc = "next", !.p = None, !.todo[DefaultProm] = 0,
                     !.spec = spec, !.errs = errs]
  BY DEF PatchLabels
<1>8. errs \in BOOLEAN OBVIOUS
<1> HIDE DEF spec, errs
<1>9. w' \in WorkerRec
  BY <1>6, <1>7, <1>8 DEF IInv, WorkerInv, WorkerRec, Stages, AllProms
<1>10. LocalsOK' /\ TargetOK' /\ FilterOK'
  BY <1>1, <1>6, <1>7 DEF IInv, WorkerInv, WorkerRec, LocalsOK, TargetOK,
                          FilterOK, InPass, InProm
<1>11. CopiesInv' /\ Isolation'
  BY CopiesFrame DEF PatchLabels, IInv, Isolation, copies
<1> QED BY <1>2, <1>5, <1>9, <1>10, <1>11 DEF IInv, WorkerInv

\* A copy gets a UID of its own and the filter of the pass.
LEMMA CopyMonitorOK ==
  ASSUME IInv, NEW out \in Outcomes, CopyMonitor(out) PROVE IInv'
<1>1. w.m \in Monitors /\ w.spec \in MonSpecs /\ w.p \in ProjectProms
  BY DEF IInv, WorkerInv, LocalsOK, InPass, InProm, CopyMonitor
<1>2. ControlOK' BY SpendOK DEF CopyMonitor, IInv, ControlOK
<1> DEFINE old == cMon[w.p][w.m]
           uid == IF old = None THEN made[w.p][w.m] + 1 ELSE old.uid
           copy == MonitorCopy(old, uid)
           svcTodo == {s \in Services : w.svcs[s] # None}
           secTodo == {x \in Secrets : w.secs[x] # None}
           tgt == IF out = "ok" THEN uid ELSE 0
           errs == w.errs \/ out # "ok"
<1>3. made[w.p][w.m] \in Nat /\ (old = None \/ old \in CMonRec)
  BY <1>1 DEF IInv, CopiesInv, CopiesOK
<1>4. uid \in Nat /\ 1 <= uid
  BY <1>1, <1>3 DEF CMonRec, IInv, CopiesInv, CopyUidsOK
<1>5. w.keep \subseteq Namespaces /\ w.keep \subseteq everIn[w.p]
      /\ RegistrationNs[w.p] \notin w.keep /\ w.todo[w.p] \in Nat
  BY <1>1 DEF IInv, WorkerInv, WorkerRec, FilterOK, CopyMonitor, AllProms
<1>6. copy \in CMonRec /\ copy.uid = uid /\ copy.keep = w.keep
  BY <1>1, <1>4, <1>5 DEF MonitorCopy, CopyWith, CMonRec
<1>7. /\ cMon' = cMon \/ cMon' = [cMon EXCEPT ![w.p][w.m] = copy]
      /\ made' = IF out # "rejected" /\ old = None
                   THEN [made EXCEPT ![w.p][w.m] = @ + 1] ELSE made
      /\ out = "rejected" => cMon' = cMon
      /\ UNCHANGED <<cSvc, cEp, cSec>>
  BY DEF CopyMonitor
<1>8. w' = [w EXCEPT !.pc = "copies", !.keep = {}, !.tgt = tgt,
                     !.svcTodo = svcTodo, !.secTodo = secTodo, !.errs = errs]
  BY DEF CopyMonitor
<1>9. /\ svcTodo \subseteq Services /\ \A s \in svcTodo : w.svcs[s] # None
      /\ secTodo \subseteq Secrets /\ \A x \in secTodo : w.secs[x] # None
      /\ errs \in BOOLEAN
  OBVIOUS
<1>10. made' \in [ProjectProms -> [Monitors -> Nat]]
       /\ \A p \in ProjectProms : \A m \in Monitors : made[p][m] <= made'[p][m]
  BY <1>1, <1>3, <1>7 DEF IInv, CopiesInv, CopiesOK
<1>11. out # "rejected" => uid <= made'[w.p][w.m]
  BY <1>1, <1>3, <1>7 DEF IInv, CopiesInv, CopiesOK, CopyUidsOK
<1>12. tgt \in Nat /\ tgt <= made'[w.p][w.m]
  BY <1>1, <1>4, <1>10, <1>11
<1> HIDE DEF copy, uid, tgt, svcTodo, secTodo, errs
<1>20. /\ cMon' \in [ProjectProms -> [Monitors -> CMonRec \cup {None}]]
      /\ \A p \in ProjectProms : \A k \in Monitors :
            cMon'[p][k] = cMon[p][k]
            \/ (p = w.p /\ k = w.m /\ cMon'[p][k] = copy)
  <2> DEFINE T == CMonRec \cup {None}
  <2>1. cMon \in [ProjectProms -> [Monitors -> T]]
    BY DEF IInv, CopiesInv, CopiesOK
  <2>2. cMon' = cMon \/ (copy \in T /\ cMon' = [cMon EXCEPT ![w.p][w.m] = copy])
    BY <1>6, <1>7
  <2> HIDE DEF T
  <2>3. /\ cMon' \in [ProjectProms -> [Monitors -> T]]
        /\ \A p \in ProjectProms : \A k \in Monitors :
              cMon'[p][k] = cMon[p][k]
              \/ (p = w.p /\ k = w.m /\ cMon'[p][k] = copy)
    <3>1. CASE cMon' = cMon BY <2>1, <3>1
    <3>2. CASE copy \in T /\ cMon' = [cMon EXCEPT ![w.p][w.m] = copy]
      BY <1>1, <2>1, <3>2, UpdateEntry
    <3> QED BY <2>2, <3>1, <3>2
  <2> QED BY <2>3 DEF T
<1>13. CopiesOK' BY <1>7, <1>10, <1>20 DEF IInv, CopiesInv, CopiesOK
<1>14. CopyUidsOK'
  <2> SUFFICES ASSUME NEW p \in ProjectProms, NEW m \in Monitors,
                      cMon'[p][m] # None
               PROVE  1 <= cMon'[p][m].uid /\ cMon'[p][m].uid <= made'[p][m]
    BY DEF CopyUidsOK
  <2>1. CASE cMon'[p][m] = cMon[p][m]
    BY <1>10, <2>1 DEF IInv, CopiesInv, CopiesOK, CopyUidsOK, CMonRec
  <2>2. CASE p = w.p /\ m = w.m /\ cMon'[p][m] = copy /\ out # "rejected"
    BY <1>4, <1>6, <1>11, <2>2
  <2>3. out = "rejected" => cMon'[p][m] = cMon[p][m] BY <1>7
  <2> QED BY <1>20, <2>1, <2>2, <2>3
<1>15. OwnersIssuedHere'
  BY <1>7, <1>10
     DEF IInv, CopiesInv, CopiesOK, CSvcRec, CEpRec, CSecRec, Owner,
         OwnersIssuedHere, Issued
<1>16. Isolation'
  BY <1>1, <1>5, <1>6, <1>20 DEF IInv, Isolation, CopyMonitor, source
<1>17. SourceInv' BY SourceFrame DEF CopyMonitor, IInv
<1>18. w' \in WorkerRec
  BY <1>8, <1>9, <1>12 DEF IInv, WorkerInv, WorkerRec, Stages
<1>19. LocalsOK' /\ TargetOK' /\ FilterOK'
  BY <1>1, <1>8, <1>9, <1>12 DEF IInv, WorkerInv, WorkerRec, LocalsOK,
                                 TargetOK, FilterOK, InPass, InProm
<1> QED BY <1>2, <1>13, <1>14, <1>15, <1>16, <1>17, <1>18, <1>19
        DEF IInv, CopiesInv, WorkerInv

\* A copy of a Service, Endpoints or Secret that names the target of the pass.
LEMMA TargetRefOK ==
  ASSUME IInv, w.pc \in {"copies", "endpoints"}, w.tgt # 0
  PROVE  /\ w.m \in Monitors /\ w.spec \in MonSpecs /\ w.p \in ProjectProms
         /\ TargetRef \in Owner /\ Issued(w.p, TargetRef)
<1>1. w.m \in Monitors /\ w.spec \in MonSpecs /\ w.p \in ProjectProms
  BY DEF IInv, WorkerInv, LocalsOK, InPass, InProm
<1>2. w.tgt \in Nat /\ w.tgt <= made[w.p][w.m] /\ made[w.p][w.m] \in Nat
  BY <1>1 DEF IInv, WorkerInv, WorkerRec, TargetOK, CopiesInv, CopiesOK
<1> QED BY <1>1, <1>2 DEF TargetRef, Owner, Issued

\* Ports merged into ports are ports.
LEMMA UpsertPortsOK ==
  ASSUME NEW f \in PartialPorts, NEW g \in PartialPorts
  PROVE  UpsertPorts(f, g) \in PartialPorts
<1>1. PICK D \in SUBSET PortNames : f \in [D -> PortNums] BY DEF PartialPorts
<1>2. PICK E \in SUBSET PortNames : g \in [E -> PortNums] BY DEF PartialPorts
<1>3. UpsertPorts(f, g) \in [D \cup E -> PortNums]
  BY <1>1, <1>2 DEF UpsertPorts
<1> QED BY <1>3 DEF PartialPorts

\* A Service is copied on behalf of the target of the pass.
LEMMA CopyServiceOK ==
  ASSUME IInv, NEW s \in Services, NEW out \in Outcomes, CopyService(s, out)
  PROVE  IInv'
<1>1. /\ w.m \in Monitors /\ w.spec \in MonSpecs /\ w.p \in ProjectProms
      /\ TargetRef \in Owner /\ Issued(w.p, TargetRef)
  BY TargetRefOK DEF CopyService, NilTarget
<1>2. ControlOK' BY SpendOK DEF CopyService, IInv, ControlOK
<1> DEFINE old == cSvc[w.p][s]
           ports == IF old = None THEN w.svcs[s].ports
                    ELSE UpsertPorts(old.ports, w.svcs[s].ports)
           copy == [owner |-> TargetRef, ports |-> ports]
           errs == w.errs \/ out # "ok"
<1>3. w.svcs[s] \in SvcRec /\ w.svcs[s] # None
  BY DEF IInv, WorkerInv, WorkerRec, LocalsOK, CopyService
<1>4. w.svcs[s].ports \in PartialPorts
  BY <1>3, PortsAssumption DEF SvcRec, PartialPorts
<1>5. old = None \/ old.ports \in PartialPorts
  BY <1>1 DEF IInv, CopiesInv, CopiesOK, CSvcRec
<1>6. ports \in PartialPorts BY <1>4, <1>5, UpsertPortsOK
<1>7. copy \in CSvcRec /\ copy.owner = TargetRef BY <1>1, <1>6 DEF CSvcRec
<1>8. /\ cSvc' = cSvc \/ cSvc' = [cSvc EXCEPT ![w.p][s] = copy]
      /\ UNCHANGED <<source, cMon, made, cEp, cSec>>
  BY DEF CopyService
<1>9. w' = [w EXCEPT !.pc = "endpoints", !.s = s, !.svcTodo = @ \ {s},
                     !.errs = errs]
  BY DEF CopyService
<1>10. errs \in BOOLEAN OBVIOUS
<1> HIDE DEF copy, errs
<1>11. /\ cSvc' \in [ProjectProms -> [Services -> CSvcRec \cup {None}]]
      /\ \A p \in ProjectProms : \A k \in Services :
            cSvc'[p][k] = cSvc[p][k]
            \/ (p = w.p /\ k = s /\ cSvc'[p][k] = copy)
  <2> DEFINE T == CSvcRec \cup {None}
  <2>1. cSvc \in [ProjectProms -> [Services -> T]]
    BY DEF IInv, CopiesInv, CopiesOK
  <2>2. cSvc' = cSvc \/ (copy \in T /\ cSvc' = [cSvc EXCEPT ![w.p][s] = copy])
    BY <1>7, <1>8
  <2> HIDE DEF T
  <2>3. /\ cSvc' \in [ProjectProms -> [Services -> T]]
        /\ \A p \in ProjectProms : \A k \in Services :
              cSvc'[p][k] = cSvc[p][k]
              \/ (p = w.p /\ k = s /\ cSvc'[p][k] = copy)
    <3>1. CASE cSvc' = cSvc BY <2>1, <3>1
    <3>2. CASE copy \in T /\ cSvc' = [cSvc EXCEPT ![w.p][s] = copy]
      BY <1>1, <2>1, <3>2, UpdateEntry
    <3> QED BY <2>2, <3>1, <3>2
  <2> QED BY <2>3 DEF T
<1>12. CopiesOK' /\ CopyUidsOK'
  BY <1>8, <1>11 DEF IInv, CopiesInv, CopiesOK, CopyUidsOK
<1>13. OwnersIssuedHere'
  BY <1>1, <1>7, <1>8, <1>11
     DEF IInv, CopiesInv, OwnersIssuedHere, Issued
<1>14. w' \in WorkerRec BY <1>9, <1>10 DEF IInv, WorkerInv, WorkerRec, Stages
<1>15. LocalsOK' /\ TargetOK' /\ FilterOK'
  BY <1>1, <1>3, <1>8, <1>9
     DEF IInv, WorkerInv, WorkerRec, LocalsOK, TargetOK, FilterOK, InPass,
         InProm, CopyService, NilTarget
<1>16. SourceInv' /\ Isolation'
  BY <1>8, SourceFrame DEF IInv, Isolation, source
<1> QED BY <1>2, <1>12, <1>13, <1>14, <1>15, <1>16
        DEF IInv, CopiesInv, WorkerInv

\* What copyEndpoints writes, on behalf of the target of the pass.
LEMMA EndpointsCopyOK ==
  ASSUME IInv, NEW out \in Outcomes, CopyEndpoints(out), out # "rejected"
  PROVE  \E copy \in CEpRec : /\ copy.owner = TargetRef
                              /\ cEp' = [cEp EXCEPT ![w.p][w.s] = copy]
<1>1. /\ w.p \in ProjectProms /\ TargetRef \in Owner
      /\ w.s \in Services /\ w.svcs[w.s] # None
  BY TargetRefOK DEF CopyEndpoints, IInv, WorkerInv, LocalsOK
<1> DEFINE old == cEp[w.p][w.s]
           src == w.svcs[w.s]
           ports == [n \in ep[w.s] |-> src.ports[n]]
           ip == IF ep[w.s] # {} THEN src.ip ELSE IF old = None THEN None ELSE old.ip
           all == IF old = None THEN ports ELSE UpsertPorts(old.ports, ports)
           copy == [owner |-> TargetRef, ip |-> ip, ports |-> all]
<1>2. src \in SvcRec
  BY <1>1 DEF IInv, WorkerInv, WorkerRec
<1>3. PICK D \in SUBSET PortNames : src.ports \in [D -> PortNums]
  <2>1. src.ports \in SvcPorts BY <1>2 DEF SvcRec
  <2> QED BY <2>1, PortsAssumption
<1>4. ports \in PartialPorts
  <2>1. ep[w.s] # None /\ ep[w.s] \subseteq D
    BY <1>3 DEF CopyEndpoints, PortMissing
  <2>2. ports \in [ep[w.s] -> PortNums] BY <1>3, <2>1
  <2> QED BY <2>1, <2>2 DEF PartialPorts
<1>5. old = None \/ (old.ports \in PartialPorts /\ old.ip \in IPs \cup {None})
  BY <1>1 DEF IInv, CopiesInv, CopiesOK, CEpRec
<1>6. all \in PartialPorts BY <1>4, <1>5, UpsertPortsOK
<1>7. ip \in IPs \cup {None} BY <1>2, <1>5 DEF SvcRec
<1>8. copy.owner = TargetRef /\ copy \in CEpRec BY <1>1, <1>6, <1>7 DEF CEpRec
<1>9. cEp' = [cEp EXCEPT ![w.p][w.s] = copy] BY DEF CopyEndpoints
<1> HIDE DEF copy
<1> QED BY <1>8, <1>9

\* The Endpoints of the Service are copied.
LEMMA CopyEndpointsOK ==
  ASSUME IInv, NEW out \in Outcomes, CopyEndpoints(out) PROVE IInv'
<1>1. /\ w.m \in Monitors /\ w.spec \in MonSpecs /\ w.p \in ProjectProms
      /\ TargetRef \in Owner /\ Issued(w.p, TargetRef)
      /\ w.s \in Services /\ w.svcs[w.s] # None /\ w.tgt # 0
  BY TargetRefOK DEF CopyEndpoints, IInv, WorkerInv, LocalsOK
<1>2. ControlOK' BY SpendOK DEF CopyEndpoints, IInv, ControlOK
<1> DEFINE errs == w.errs \/ out # "ok"
<1>3. UNCHANGED <<source, cMon, made, cSvc, cSec>> BY DEF CopyEndpoints
<1>4. w' = [w EXCEPT !.pc = "copies", !.s = None, !.errs = errs]
  BY DEF CopyEndpoints
<1>5. errs \in BOOLEAN OBVIOUS
<1> HIDE DEF errs
<1>6. /\ cEp' \in [ProjectProms -> [Services -> CEpRec \cup {None}]]
      /\ \A p \in ProjectProms : \A k \in Services :
            cEp'[p][k] = cEp[p][k]
            \/ (p = w.p /\ k = w.s /\ cEp'[p][k].owner = TargetRef)
  <2> DEFINE T == CEpRec \cup {None}
  <2>1. cEp \in [ProjectProms -> [Services -> T]]
    BY DEF IInv, CopiesInv, CopiesOK
  <2>2. CASE out = "rejected" BY <2>1, <2>2 DEF CopyEndpoints
  <2>3. CASE out # "rejected"
    <3>1. PICK copy \in CEpRec : /\ copy.owner = TargetRef
                                 /\ cEp' = [cEp EXCEPT ![w.p][w.s] = copy]
      BY <2>3, EndpointsCopyOK
    <3>2. copy \in T OBVIOUS
    <3> HIDE DEF T
    <3>3. /\ cEp' \in [ProjectProms -> [Services -> T]]
          /\ \A p \in ProjectProms : \A k \in Services :
                cEp'[p][k] = cEp[p][k]
                \/ (p = w.p /\ k = w.s /\ cEp'[p][k] = copy)
      BY <1>1, <2>1, <3>1, <3>2, UpdateEntry
    <3> QED BY <3>1, <3>3 DEF T
  <2> QED BY <2>2, <2>3
<1>7. CopiesOK' /\ CopyUidsOK'
  BY <1>3, <1>6 DEF IInv, CopiesInv, CopiesOK, CopyUidsOK
<1>8. OwnersIssuedHere'
  <2>1. PICK own \in Owner : own = TargetRef /\ Issued(w.p, own) BY <1>1
  <2>2. \A p \in ProjectProms : \A k \in Services :
          cEp'[p][k] = cEp[p][k]
          \/ (Issued(p, own) /\ cEp'[p][k].owner = own)
    BY <1>6, <2>1
  <2> QED BY <1>3, <2>2 DEF IInv, CopiesInv, OwnersIssuedHere, Issued
<1>9. w' \in WorkerRec BY <1>4, <1>5 DEF IInv, WorkerInv, WorkerRec, Stages
<1>10. LocalsOK' /\ TargetOK' /\ FilterOK'
  BY <1>1, <1>3, <1>4
     DEF IInv, WorkerInv, WorkerRec, LocalsOK, TargetOK, FilterOK, InPass,
         InProm, CopyEndpoints
<1>11. SourceInv' /\ Isolation'
  BY <1>3, SourceFrame DEF IInv, Isolation, source
<1> QED BY <1>2, <1>7, <1>8, <1>9, <1>10, <1>11 DEF IInv, CopiesInv, WorkerInv

\* A CA Secret is copied on behalf of the target of the pass.
LEMMA CopySecretOK ==
  ASSUME IInv, NEW x \in Secrets, NEW out \in Outcomes, CopySecret(x, out)
  PROVE  IInv'
<1>1. /\ w.m \in Monitors /\ w.spec \in MonSpecs /\ w.p \in ProjectProms
      /\ TargetRef \in Owner /\ Issued(w.p, TargetRef)
  BY TargetRefOK DEF CopySecret, NilTarget
<1>2. ControlOK' BY SpendOK DEF CopySecret, IInv, ControlOK
<1> DEFINE errs == w.errs \/ out # "ok"
<1>3. w.secs[x] \in Data
  BY DEF IInv, WorkerInv, WorkerRec, LocalsOK, CopySecret
<1>4. SecretCopy(x) \in CSecRec /\ SecretCopy(x).owner = TargetRef
  BY <1>1, <1>3 DEF SecretCopy, CSecRec
<1>5. /\ cSec' = cSec \/ cSec' = [cSec EXCEPT ![w.p][x] = SecretCopy(x)]
      /\ UNCHANGED <<source, cMon, made, cSvc, cEp>>
  BY DEF CopySecret
<1>6. w' = [w EXCEPT !.secTodo = @ \ {x}, !.errs = errs] BY DEF CopySecret
<1>7. errs \in BOOLEAN OBVIOUS
<1> HIDE DEF errs
<1>8. /\ cSec' \in [ProjectProms -> [Secrets -> CSecRec \cup {None}]]
      /\ \A p \in ProjectProms : \A k \in Secrets :
            cSec'[p][k] = cSec[p][k]
            \/ (p = w.p /\ k = x /\ cSec'[p][k] = SecretCopy(x))
  <2> DEFINE T == CSecRec \cup {None}
  <2>1. cSec \in [ProjectProms -> [Secrets -> T]]
    BY DEF IInv, CopiesInv, CopiesOK
  <2>2. cSec' = cSec \/ (SecretCopy(x) \in T /\ cSec' = [cSec EXCEPT ![w.p][x] = SecretCopy(x)])
    BY <1>4, <1>5
  <2> HIDE DEF T
  <2>3. /\ cSec' \in [ProjectProms -> [Secrets -> T]]
        /\ \A p \in ProjectProms : \A k \in Secrets :
              cSec'[p][k] = cSec[p][k]
              \/ (p = w.p /\ k = x /\ cSec'[p][k] = SecretCopy(x))
    <3>1. CASE cSec' = cSec BY <2>1, <3>1
    <3>2. CASE SecretCopy(x) \in T /\ cSec' = [cSec EXCEPT ![w.p][x] = SecretCopy(x)]
      BY <1>1, <2>1, <3>2, UpdateEntry
    <3> QED BY <2>2, <3>1, <3>2
  <2> QED BY <2>3 DEF T
<1>9. CopiesOK' /\ CopyUidsOK'
  BY <1>5, <1>8 DEF IInv, CopiesInv, CopiesOK, CopyUidsOK
<1>10. OwnersIssuedHere'
  BY <1>1, <1>4, <1>5, <1>8
     DEF IInv, CopiesInv, OwnersIssuedHere, Issued
<1>11. w' \in WorkerRec BY <1>6, <1>7 DEF IInv, WorkerInv, WorkerRec, Stages
<1>12. LocalsOK' /\ TargetOK' /\ FilterOK'
  BY <1>1, <1>5, <1>6
     DEF IInv, WorkerInv, WorkerRec, LocalsOK, TargetOK, FilterOK, InPass,
         InProm, CopySecret
<1>13. SourceInv' /\ Isolation'
  BY <1>5, SourceFrame DEF IInv, Isolation, source
<1> QED BY <1>2, <1>9, <1>10, <1>11, <1>12, <1>13
        DEF IInv, CopiesInv, WorkerInv
-----------------------------------------------------------------------------
(* Notifications, and the rest of the cluster.                             *)

\* A notification is delivered or dropped.
LEMMA DeliverOK ==
  ASSUME IInv, NEW e \in Services \cup AllProms, Deliver(e) \/ MapFails(e)
  PROVE  IInv'
<1>1. ControlOK'
  BY SpendOK DEF Deliver, MapFails, ServiceMonitorsFor, Outcomes, IInv, ControlOK
<1> QED BY <1>1, WorkerFrame, QuietStep
        DEF Deliver, MapFails, IInv, source, copies

\* The informers' resync.
LEMMA ResyncMonitorOK ==
  ASSUME IInv, NEW m \in Monitors, ResyncMonitor(m) PROVE IInv'
<1>1. ControlOK' BY DEF ResyncMonitor, IInv, ControlOK
<1> QED BY <1>1, WorkerFrame, QuietStep DEF ResyncMonitor, IInv, source, copies

\* The process starts again.
LEMMA RestartOK == ASSUME IInv, Restart PROVE IInv'
<1>1. ControlOK' BY DEF Restart, Existing, IInv, ControlOK
<1> QED BY <1>1, EndOfPass, QuietStep DEF Restart

\* What a change of the sources leaves alone.
LEMMA SourceStep ==
  ASSUME IInv, UNCHANGED <<copies, w>>, SourceInv', ControlOK',
         \A p \in ProjectProms : everIn[p] \subseteq everIn'[p]
  PROVE  IInv'
<1>1. CopiesInv' BY CopiesFrame DEF IInv
<1>2. Isolation'
  BY DEF IInv, Isolation, copies
<1>3. LocalsOK' /\ TargetOK'
  BY DEF IInv, WorkerInv, LocalsOK, TargetOK, InPass, InProm, copies
<1>4. FilterOK'
  BY DEF IInv, WorkerInv, FilterOK, LocalsOK, InPass, InProm
<1> QED BY <1>1, <1>2, <1>3, <1>4 DEF IInv, WorkerInv

\* A user edits, deletes or creates a source monitor.
LEMMA ChangeMonitorOK ==
  ASSUME IInv, NEW m \in Monitors, NEW new \in MonRec \cup {None},
         ChangeMonitor(m, new)
  PROVE  IInv'
<1>1. SourceInv' BY DEF ChangeMonitor, IInv, SourceInv, SourceOK, HistoryOK
<1>2. ControlOK'
  BY SpendChangeOK DEF ChangeMonitor, Enqueue, IInv, ControlOK
<1> QED BY <1>1, <1>2, SourceStep DEF ChangeMonitor

\* A user edits, deletes or creates a Service.
LEMMA ChangeServiceOK ==
  ASSUME IInv, NEW s \in Services, NEW new \in SvcRec \cup {None},
         ChangeService(s, new)
  PROVE  IInv'
<1>1. SourceInv' BY DEF ChangeService, IInv, SourceInv, SourceOK, HistoryOK
<1>2. ControlOK'
  BY SpendChangeOK DEF ChangeService, Notify, IInv, ControlOK
<1> QED BY <1>1, <1>2, SourceStep DEF ChangeService

\* A user edits, deletes or creates a CA Secret.
LEMMA ChangeSecretOK ==
  ASSUME IInv, NEW x \in Secrets, NEW new \in Data \cup {None},
         ChangeSecret(x, new)
  PROVE  IInv'
<1>1. SourceInv' BY DEF ChangeSecret, IInv, SourceInv, SourceOK, HistoryOK
<1>2. ControlOK' BY SpendChangeOK DEF ChangeSecret, IInv, ControlOK
<1> QED BY <1>1, <1>2, SourceStep DEF ChangeSecret

\* A Prometheus goes, or comes back under a new UID.
LEMMA ChangePromOK ==
  ASSUME IInv, NEW p \in AllProms, ChangeProm(p) PROVE IInv'
<1>1. prom' \in [AllProms -> [up : BOOLEAN, uid : Nat]]
  <2>1. prom[p] \in [up : BOOLEAN, uid : Nat]
    BY DEF IInv, SourceInv, SourceOK
  <2> DEFINE next == IF prom[p].up THEN [prom[p] EXCEPT !.up = FALSE]
                     ELSE [up |-> TRUE, uid |-> prom[p].uid + 1]
  <2>2. next \in [up : BOOLEAN, uid : Nat]
    <3>1. [prom[p] EXCEPT !.up = FALSE] \in [up : BOOLEAN, uid : Nat] BY <2>1
    <3>2. [up |-> TRUE, uid |-> prom[p].uid + 1] \in [up : BOOLEAN, uid : Nat]
      BY <2>1
    <3> QED BY <3>1, <3>2
  <2>3. prom' = [prom EXCEPT ![p] = next] BY DEF ChangeProm
  <2> HIDE DEF next
  <2> QED BY <2>2, <2>3 DEF IInv, SourceInv, SourceOK
<1>3. SourceInv'
  BY <1>1 DEF ChangeProm, IInv, SourceInv, SourceOK, HistoryOK
<1>2. ControlOK' BY SpendChangeOK DEF ChangeProm, Notify, IInv, ControlOK
<1> QED BY <1>2, <1>3, SourceStep DEF ChangeProm

\* A namespace moves: the history grows with it.
LEMMA MoveNamespaceOK ==
  ASSUME IInv, NEW n \in Namespaces, NEW p \in ProjectProms \cup {None},
         MoveNamespace(n, p)
  PROVE  IInv'
<1>1. SourceInv'
  <2>1. SourceOK' BY DEF MoveNamespace, IInv, SourceInv, SourceOK
  <2>2. HistoryOK'
    BY NoneAssumption
       DEF MoveNamespace, IInv, SourceInv, SourceOK, HistoryOK, AllProms
  <2> QED BY <2>1, <2>2 DEF SourceInv
<1>2. ControlOK' BY SpendChangeOK DEF MoveNamespace, IInv, ControlOK
<1>3. \A q \in ProjectProms : everIn[q] \subseteq everIn'[q]
  BY DEF MoveNamespace, IInv, SourceInv, SourceOK
<1> QED BY <1>1, <1>2, <1>3, SourceStep DEF MoveNamespace

\* The endpoints controller follows, or the pods stop to be ready.
LEMMA EndpointsOK ==
  ASSUME IInv, NEW s \in Services, SyncEndpoints(s) \/ PodsNotReady(s)
  PROVE  IInv'
<1> DEFINE ready == IF svc[s] = None THEN None ELSE DOMAIN svc[s].ports
<1>1. ready \in (SUBSET PortNames) \cup {None}
  BY PortsAssumption DEF IInv, SourceInv, SourceOK, SvcRec
<1>2. ep' = [ep EXCEPT ![s] = ready] \/ ep' = [ep EXCEPT ![s] = {}]
  BY DEF SyncEndpoints, PodsNotReady
<1> HIDE DEF ready
<1>3. SourceInv'
  BY <1>1, <1>2
     DEF SyncEndpoints, PodsNotReady, IInv, SourceInv, SourceOK, HistoryOK
<1>4. ControlOK'
  BY SpendChangeOK DEF SyncEndpoints, PodsNotReady, IInv, ControlOK
<1> QED BY <1>3, <1>4, SourceStep DEF SyncEndpoints, PodsNotReady

\* Deleting a copy is harmless to the rest of the invariant.
LEMMA DeletedOK ==
  ASSUME IInv, UNCHANGED <<source, made, w>>, ControlOK', CopiesOK',
         \A p \in ProjectProms :
           /\ \A m \in Monitors : cMon'[p][m] = cMon[p][m] \/ cMon'[p][m] = None
           /\ \A s \in Services :
                /\ cSvc'[p][s] = cSvc[p][s] \/ cSvc'[p][s] = None
                /\ cEp'[p][s] = cEp[p][s] \/ cEp'[p][s] = None
           /\ \A x \in Secrets : cSec'[p][x] = cSec[p][x] \/ cSec'[p][x] = None
  PROVE  IInv'
<1>1. CopyUidsOK' BY DEF IInv, CopiesInv, CopyUidsOK
<1>2. OwnersIssuedHere' BY DEF IInv, CopiesInv, OwnersIssuedHere, Issued
<1>3. Isolation' BY DEF IInv, Isolation, source
<1>4. SourceInv' /\ WorkerInv'
  BY SourceFrame, WorkerFrame DEF IInv, source
<1> QED BY <1>1, <1>2, <1>3, <1>4 DEF IInv, CopiesInv

\* A copy of a monitor goes, by the garbage collector or by a user.
LEMMA CollectMonitorOK ==
  ASSUME IInv, NEW p \in ProjectProms, NEW m \in Monitors,
         CollectMonitor(p, m) \/ DeleteCopy(p, m)
  PROVE  IInv'
<1> DEFINE T == CMonRec \cup {None}
<1>1. cMon \in [ProjectProms -> [Monitors -> T]] /\ None \in T
  BY DEF IInv, CopiesInv, CopiesOK
<1>2. cMon' = [cMon EXCEPT ![p][m] = None] BY DEF CollectMonitor, DeleteCopy
<1> HIDE DEF T
<1>3. /\ cMon' \in [ProjectProms -> [Monitors -> T]]
      /\ \A q \in ProjectProms : \A j \in Monitors :
            cMon'[q][j] = cMon[q][j] \/ cMon'[q][j] = None
  BY <1>1, <1>2, UpdateEntry
<1>4. CopiesOK' BY <1>3 DEF CollectMonitor, DeleteCopy, IInv, CopiesInv, CopiesOK, T
<1>5. ControlOK' BY DEF CollectMonitor, DeleteCopy, IInv, ControlOK
<1> QED BY <1>3, <1>4, <1>5, DeletedOK DEF CollectMonitor, DeleteCopy

\* The garbage collector deletes a copy of a Service.
LEMMA CollectServiceOK ==
  ASSUME IInv, NEW p \in ProjectProms, NEW s \in Services,
         CollectService(p, s)
  PROVE  IInv'
<1> DEFINE T == CSvcRec \cup {None}
<1>1. cSvc \in [ProjectProms -> [Services -> T]] /\ None \in T
  BY DEF IInv, CopiesInv, CopiesOK
<1>2. cSvc' = [cSvc EXCEPT ![p][s] = None] BY DEF CollectService
<1> HIDE DEF T
<1>3. /\ cSvc' \in [ProjectProms -> [Services -> T]]
      /\ \A q \in ProjectProms : \A j \in Services :
            cSvc'[q][j] = cSvc[q][j] \/ cSvc'[q][j] = None
  BY <1>1, <1>2, UpdateEntry
<1>4. CopiesOK' BY <1>3 DEF CollectService, IInv, CopiesInv, CopiesOK, T
<1>5. ControlOK' BY DEF CollectService, IInv, ControlOK
<1> QED BY <1>3, <1>4, <1>5, DeletedOK DEF CollectService

\* The garbage collector deletes a copy of an Endpoints.
LEMMA CollectEndpointsOK ==
  ASSUME IInv, NEW p \in ProjectProms, NEW s \in Services,
         CollectEndpoints(p, s)
  PROVE  IInv'
<1> DEFINE T == CEpRec \cup {None}
<1>1. cEp \in [ProjectProms -> [Services -> T]] /\ None \in T
  BY DEF IInv, CopiesInv, CopiesOK
<1>2. cEp' = [cEp EXCEPT ![p][s] = None] BY DEF CollectEndpoints
<1> HIDE DEF T
<1>3. /\ cEp' \in [ProjectProms -> [Services -> T]]
      /\ \A q \in ProjectProms : \A j \in Services :
            cEp'[q][j] = cEp[q][j] \/ cEp'[q][j] = None
  BY <1>1, <1>2, UpdateEntry
<1>4. CopiesOK' BY <1>3 DEF CollectEndpoints, IInv, CopiesInv, CopiesOK, T
<1>5. ControlOK' BY DEF CollectEndpoints, IInv, ControlOK
<1> QED BY <1>3, <1>4, <1>5, DeletedOK DEF CollectEndpoints

\* The garbage collector deletes a copy of a Secret.
LEMMA CollectSecretOK ==
  ASSUME IInv, NEW p \in ProjectProms, NEW x \in Secrets,
         CollectSecret(p, x)
  PROVE  IInv'
<1> DEFINE T == CSecRec \cup {None}
<1>1. cSec \in [ProjectProms -> [Secrets -> T]] /\ None \in T
  BY DEF IInv, CopiesInv, CopiesOK
<1>2. cSec' = [cSec EXCEPT ![p][x] = None] BY DEF CollectSecret
<1> HIDE DEF T
<1>3. /\ cSec' \in [ProjectProms -> [Secrets -> T]]
      /\ \A q \in ProjectProms : \A j \in Secrets :
            cSec'[q][j] = cSec[q][j] \/ cSec'[q][j] = None
  BY <1>1, <1>2, UpdateEntry
<1>4. CopiesOK' BY <1>3 DEF CollectSecret, IInv, CopiesInv, CopiesOK, T
<1>5. ControlOK' BY DEF CollectSecret, IInv, ControlOK
<1> QED BY <1>3, <1>4, <1>5, DeletedOK DEF CollectSecret

-----------------------------------------------------------------------------
\* The invariant holds at first.
LEMMA InitOK == ASSUME Init PROVE IInv
<1>1. SourceOK
  <2>1. ep \in [Services -> SUBSET PortNames]
    BY PortsAssumption DEF Init, SvcRec
  <2> QED BY <2>1 DEF Init, SourceOK, MonRec, KeptNamespaces
<1>2. HistoryOK BY DEF Init, HistoryOK, KeptNamespaces
<1>3. CopiesInv
  BY DEF Init, CopiesInv, CopiesOK, CopyUidsOK, OwnersIssuedHere
<1>4. w \in WorkerRec BY IdleOK DEF Init
<1>5. LocalsOK /\ TargetOK /\ FilterOK
  BY DEF Init, LocalsOK, TargetOK, FilterOK, Idle, InPass, InProm
<1>6. ControlOK BY DEF Init, ControlOK, Existing
<1>7. Isolation BY DEF Init, Isolation
<1> QED BY <1>1, <1>2, <1>3, <1>4, <1>5, <1>6, <1>7
        DEF IInv, SourceInv, WorkerInv

\* Every step of a pass keeps it.
LEMMA PassStepOK == ASSUME IInv, PassStep PROVE IInv'
  BY RequestFailsOK, FetchMonitorOK, DiscoveryFailsOK, ListServicesOK,
     GetSecretOK, ListPromsOK, NextPromOK, PatchLabelsOK, ListNamespacesOK,
     CopyMonitorOK, CopyEndpointsOK, CopyServiceOK, CopySecretOK, PanicsOK,
     EndOfPromOK, FinishPassOK DEF PassStep

\* Every step of the system keeps it.
LEMMA StepOK == ASSUME IInv, [Next]_vars PROVE IInv'
<1>1. CASE \E m \in Monitors : Dequeue(m) \/ ResyncMonitor(m)
  BY <1>1, DequeueOK, ResyncMonitorOK
<1>2. CASE PassStep BY <1>2, PassStepOK
<1>3. CASE \E e \in Services \cup AllProms : Deliver(e) \/ MapFails(e)
  BY <1>3, DeliverOK
<1>4. CASE Crash \/ Restart BY <1>4, CrashOK, RestartOK
<1>5. CASE \E s \in Services : SyncEndpoints(s) BY <1>5, EndpointsOK
<1>6. CASE Collect
  BY <1>6, CollectMonitorOK, CollectServiceOK, CollectEndpointsOK,
     CollectSecretOK DEF Collect
<1>7. CASE Change
  BY <1>7, ChangeMonitorOK, ChangeServiceOK, EndpointsOK, ChangeSecretOK,
     ChangePromOK, MoveNamespaceOK, CollectMonitorOK DEF Change
<1>8. CASE UNCHANGED vars
  <2>1. ControlOK' BY <1>8 DEF vars, IInv, ControlOK
  <2> QED BY <1>8, <2>1, WorkerFrame, QuietStep DEF vars, source, copies, IInv
<1> QED BY <1>1, <1>2, <1>3, <1>4, <1>5, <1>6, <1>7, <1>8 DEF Next

\* The inductive invariant holds in every reachable state.
THEOREM Invariance == Spec => []IInv
<1>1. Init => IInv BY InitOK
<1>2. IInv /\ [Next]_vars => IInv' BY StepOK
<1> QED BY <1>1, <1>2, PTL DEF Spec

\* The API objects, the queue and the locals of Reconcile keep their types.
THEOREM TypeCorrect == Spec => []TypeOK
<1>1. IInv => TypeOK BY DEF IInv, SourceInv, CopiesInv, WorkerInv, TypeOK
<1> QED BY <1>1, Invariance, PTL

\* Every copy of a Service, Endpoints or Secret has an owner that was issued in
\* its namespace: the garbage collector can delete what the reconciler wrote,
\* through every failure, crash and panic of Reconcile.
THEOREM OwnersIssued == Spec => []OwnersIssuedHere
<1>1. IInv => OwnersIssuedHere BY DEF IInv, CopiesInv
<1> QED BY <1>1, Invariance, PTL

\* The keep relabelling of copyServiceMonitor lets no namespace through that
\* never belonged to the project.
THEOREM ProjectsIsolated == Spec => []Isolation
<1>1. IInv => Isolation BY DEF IInv
<1> QED BY <1>1, Invariance, PTL

\* No step of a pass undoes an edit a user made to a source monitor after the
\* pass read it: updateServiceMonitorLabels alone writes to the source.
THEOREM EditsSurvive == Spec => UserEditsSurvive
<1> DEFINE Kept == \A m \in Monitors :
                     /\ Exists(m) <=> Exists(m)'
                     /\ Exists(m) => mon'[m].fed = mon[m].fed
                                     /\ mon'[m].spec = mon[m].spec
<1>1. ASSUME mon' = mon PROVE Kept
  BY <1>1 DEF Exists
<1>2. ASSUME IInv, NEW out \in Outcomes, PatchLabels(out) PROVE Kept
  <2>1. w.m \in Monitors
    BY <1>2 DEF IInv, WorkerInv, LocalsOK, InPass, PatchLabels
  <2>2. CASE mon' = mon BY <1>1, <2>2
  <2>3. CASE Exists(w.m) /\ mon' = [mon EXCEPT ![w.m] = Labelled]
    <3>1. mon[w.m] \in MonRec
      BY <1>2, <2>1, <2>3 DEF Exists, IInv, SourceInv, SourceOK
    <3>2. /\ Labelled \in MonRec
          /\ Labelled.fed = mon[w.m].fed /\ Labelled.spec = mon[w.m].spec
      BY <3>1 DEF Labelled, MonRec
    <3>3. Labelled # None BY <3>2, NoObjectAssumption
    <3>4. \A m \in Monitors :
            mon'[m] = IF m = w.m THEN Labelled ELSE mon[m]
      BY <1>2, <2>3 DEF IInv, SourceInv, SourceOK
    <3> HIDE DEF Labelled
    <3> QED BY <2>1, <2>3, <3>2, <3>3, <3>4 DEF Exists
  <2> QED BY <1>2, <2>2, <2>3 DEF PatchLabels
<1>3. ASSUME IInv, PassStep PROVE Kept
  <2>1. (\E out \in Outcomes : PatchLabels(out)) \/ mon' = mon
    BY <1>3
       DEF PassStep, RequestFails, FetchMonitor, DiscoveryFails, ListServices,
           GetSecret, ListProms, NextProm, ListNamespaces, CopyMonitor,
           CopyEndpoints, CopyService, CopySecret, NilTargetPanics, PortPanics,
           EndOfProm, FinishPass, source
  <2> QED BY <1>1, <1>2, <1>3, <2>1
<1> HIDE DEF Kept
<1>4. IInv /\ [Next]_vars => [PassStep => Kept]_vars BY <1>3
<1>5. Spec => [][PassStep => Kept]_vars BY <1>4, Invariance, PTL DEF Spec
<1> QED BY <1>5 DEF UserEditsSurvive, Kept

=============================================================================
