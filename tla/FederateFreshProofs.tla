------------------------ MODULE FederateFreshProofs -------------------------
(***************************************************************************)
(* FreshOrPending of Federate, for every value of its constants: the copies *)
(* of a federated monitor are up to date, or a pass that will write them is *)
(* pending or in progress.                                                 *)
(*                                                                         *)
(* The argument is about the monitors that are steady: federated, with no  *)
(* pass bound to start.  As long as one monitor is steady, whatever the    *)
(* pass in progress read before is still what the cluster holds, because   *)
(* every change of it is announced: so that pass, over the same or another *)
(* monitor, writes nothing that spoils the copies of a steady one.         *)
(***************************************************************************)
EXTENDS FederateProofs

Steady(m) == Federated(m) /\ ~ Pending(m)

\* The stages after the Services were listed, and after the Prometheuses were.
InLoop  == {"next", "labels"} \cup InProm
Read    == {"secrets"} \cup InLoop
Copying == {"copies", "endpoints"}

\* Whether there is a pass, and where its loop over the Prometheuses stands.
LoopOK ==
    /\ w.pc \in {"idle", "down"} => w.m = None
    /\ w.pc \in InLoop => w.toGet = {}
    /\ w.pc = "labels" => w.p = DefaultProm
    /\ w.pc \in InProm => Listed(w.p)

\* What the pass at hand has read still holds for a steady monitor m: the
\* Services m selects, the Prometheuses, and the copy it writes on behalf of;
\* for its own monitor also the spec, and that it has every CA Secret.
ServicesCurrent(m) == \A s \in Selects[mon[m].spec] : w.svcs[s] \in {None, svc[s]}
PromsCurrent       == \A p \in AllProms : Listed(p) => PromLives(p, w.todo[p])
TargetCurrent      == w.pc \in Copying /\ w.tgt # 0 => OwnedNow(w.p, TargetRef)
OwnCurrent(m) ==
    /\ w.pc \in InPass \ {"fetch"} => w.spec = mon[m].spec
    /\ w.pc \in Read =>
         /\ \A s \in Selects[mon[m].spec] : w.svcs[s] = svc[s]
         /\ \A x \in CARefs[mon[m].spec] : x \in w.toGet \/ w.secs[x] # None

SnapshotOK ==
    \A m \in Monitors : Steady(m) =>
      /\ w.pc \in Read => ServicesCurrent(m)
      /\ w.pc \in InLoop => PromsCurrent
      /\ TargetCurrent
      /\ w.m = m => OwnCurrent(m)

\* The two halves of ServiceMirrored.
ServiceCopied(p, s) ==
    /\ cSvc[p][s] # None /\ OwnedNow(p, cSvc[p][s].owner)
    /\ \A n \in DOMAIN svc[s].ports :
          /\ n \in DOMAIN cSvc[p][s].ports
          /\ cSvc[p][s].ports[n] = svc[s].ports[n]
EndpointsCopied(p, s) == cEp[p][s] # None /\ OwnedNow(p, cEp[p][s].owner)

\* The copies of a steady monitor that its pass is done with.
DoneOK ==
    \A m \in Monitors :
      Steady(m) /\ w.m = m /\ w.pc \in Copying /\ ~ w.errs =>
        /\ w.tgt # 0
        /\ MonitorMirrored(w.p, m)
        /\ \A s \in Selects[mon[m].spec] \ w.svcTodo : svc[s] # None =>
             /\ ServiceCopied(w.p, s)
             /\ (w.pc = "endpoints" /\ w.s = s) \/ EndpointsCopied(w.p, s)
        /\ \A x \in CARefs[mon[m].spec] \ w.secTodo : SecretMirrored(w.p, x)

\* The UID that stands for "not listed" is none that a Prometheus ever has.
UidsOK == \A p \in AllProms : prom[p].uid # 0

FreshInv == IInv /\ UidsOK /\ LoopOK /\ SnapshotOK /\ DoneOK /\ FreshOrPending

\* What a step leaves alone, as far as a monitor that stays steady can tell.
Undisturbed(m) ==
    Steady(m)' =>
      /\ Steady(m)
      /\ mon'[m] = mon[m] /\ prom' = prom
      /\ \A s \in Selects[mon[m].spec] : svc'[s] = svc[s]
      /\ \A p \in ProjectProms :
           /\ \A own \in Owner : OwnedNow(p, own) => OwnedNow(p, own)'
           /\ MonitorMirrored(p, m) => MonitorMirrored(p, m)'
           /\ \A s \in Selects[mon[m].spec] : svc[s] # None =>
                /\ ServiceCopied(p, s) => ServiceCopied(p, s)'
                /\ EndpointsCopied(p, s) => EndpointsCopied(p, s)'
           /\ \A x \in Secrets : SecretMirrored(p, x) => SecretMirrored(p, x)'
-----------------------------------------------------------------------------
(* What a step leaves alone.                                               *)

\* A monitor stops being pending only when its pass starts, or starts to be

\* federated only when a user edits it: other steps make no monitor steady.
LEMMA SteadyStays ==
  ASSUME NEW m \in Monitors, mon'[m] = mon[m], queue \subseteq queue',
         missed \subseteq missed', watch \subseteq watch',
         w.pc = "down" => w'.pc = "down"
  PROVE  Steady(m)' => Steady(m)
  BY DEF Steady, Federated, Exists, Pending, ServiceMonitorsFor

\* A step that writes neither to the cluster nor to the copies.
LEMMA QuietUndisturbed ==
  ASSUME NEW m \in Monitors, UNCHANGED <<source, copies>>,
         Steady(m)' => Steady(m)
  PROVE  Undisturbed(m)
  BY DEF Undisturbed, source, copies, OwnedNow, MonitorLives, PromLives,
         MonitorMirrored, ServiceCopied, EndpointsCopied, SecretMirrored

\* A step that writes to the copies of monitors alone: what lives stays alive.
LEMMA MonitorsWritten ==
  ASSUME IInv, NEW m \in Monitors, UNCHANGED <<source, cSvc, cEp, cSec>>,
         Steady(m)' => Steady(m),
         \A p \in ProjectProms : Steady(m)' =>
            /\ \A own \in Owner : OwnedNow(p, own) => OwnedNow(p, own)'
            /\ MonitorMirrored(p, m) => MonitorMirrored(p, m)'
  PROVE  Undisturbed(m)
<1> SUFFICES ASSUME Steady(m)', NEW p \in ProjectProms
             PROVE  /\ \A s \in Selects[mon[m].spec] : svc[s] # None =>
                         /\ ServiceCopied(p, s) => ServiceCopied(p, s)'
                         /\ EndpointsCopied(p, s) => EndpointsCopied(p, s)'
                    /\ \A x \in Secrets : SecretMirrored(p, x) => SecretMirrored(p, x)'
  BY DEF Undisturbed, source
<1>1. \A own \in Owner : OwnedNow(p, own) => OwnedNow(p, own)'  OBVIOUS
<1>2. mon[m].spec \in MonSpecs
  BY DEF Steady, Federated, Exists, IInv, SourceInv, SourceOK, MonRec
<1>3. Selects[mon[m].spec] \subseteq Services  BY <1>2, SpecsAssumption
<1>4. \A s \in Services : cSvc[p][s] # None => cSvc[p][s].owner \in Owner
  BY DEF IInv, CopiesInv, CopiesOK, CSvcRec
<1>5. \A s \in Services : cEp[p][s] # None => cEp[p][s].owner \in Owner
  BY DEF IInv, CopiesInv, CopiesOK, CEpRec
<1>6. \A x \in Secrets : cSec[p][x] # None => cSec[p][x].owner \in Owner
  BY DEF IInv, CopiesInv, CopiesOK, CSecRec
<1>7. ASSUME NEW s \in Services, ServiceCopied(p, s) PROVE ServiceCopied(p, s)'
  BY <1>1, <1>4, <1>7 DEF ServiceCopied, source
<1>8. ASSUME NEW s \in Services, EndpointsCopied(p, s) PROVE EndpointsCopied(p, s)'
  BY <1>1, <1>5, <1>8 DEF EndpointsCopied
<1>9. ASSUME NEW x \in Secrets, SecretMirrored(p, x) PROVE SecretMirrored(p, x)'
  BY <1>1, <1>6, <1>9 DEF SecretMirrored
<1> QED  BY <1>3, <1>7, <1>8, <1>9

\* A step that writes to the other copies.
LEMMA CopiesWritten ==
  ASSUME NEW m \in Monitors, UNCHANGED <<source, cMon>>,
         Steady(m)' => Steady(m),
         \A p \in ProjectProms : Steady(m)' =>
            /\ \A s \in Selects[mon[m].spec] : svc[s] # None =>
                 /\ ServiceCopied(p, s) => ServiceCopied(p, s)'
                 /\ EndpointsCopied(p, s) => EndpointsCopied(p, s)'
            /\ \A x \in Secrets : SecretMirrored(p, x) => SecretMirrored(p, x)'
  PROVE  Undisturbed(m)
<1>1. \A p \in ProjectProms :
        /\ \A own \in Owner : OwnedNow(p, own) => OwnedNow(p, own)'
        /\ MonitorMirrored(p, m) => MonitorMirrored(p, m)'
  BY DEF OwnedNow, MonitorLives, MonitorMirrored, PromLives, source
<1> QED  BY <1>1 DEF Undisturbed, source

\* What a copy keeps if its variable, and what it is owned by, stay.
LEMMA SameService ==
  ASSUME NEW p \in ProjectProms, NEW s \in Services, UNCHANGED <<source, cMon>>,
         cSvc'[p][s] = cSvc[p][s]
  PROVE  ServiceCopied(p, s) => ServiceCopied(p, s)'
  BY DEF ServiceCopied, OwnedNow, MonitorLives, PromLives, source

\* The same for the copy of an Endpoints.
LEMMA SameEndpoints ==
  ASSUME NEW p \in ProjectProms, NEW s \in Services, UNCHANGED <<source, cMon>>,
         cEp'[p][s] = cEp[p][s]
  PROVE  EndpointsCopied(p, s) => EndpointsCopied(p, s)'
  BY DEF EndpointsCopied, OwnedNow, MonitorLives, PromLives, source

\* The same for the copy of a CA Secret.
LEMMA SameSecret ==
  ASSUME NEW p \in ProjectProms, NEW x \in Secrets, UNCHANGED <<source, cMon>>,
         cSec'[p][x] = cSec[p][x]
  PROVE  SecretMirrored(p, x) => SecretMirrored(p, x)'
  BY DEF SecretMirrored, OwnedNow, MonitorLives, PromLives, source

\* What a monitor selects and refers to.
LEMMA Selected ==
  ASSUME IInv, NEW m \in Monitors, Steady(m)
  PROVE  /\ mon[m] \in MonRec /\ mon[m].spec \in MonSpecs
         /\ Selects[mon[m].spec] \subseteq Services
         /\ CARefs[mon[m].spec] \subseteq Secrets
  BY SpecsAssumption
     DEF Steady, Federated, Exists, IInv, SourceInv, SourceOK, MonRec
-----------------------------------------------------------------------------
(* What follows for the parts of the invariant.                            *)

UpToDate(m, p) == IF p = DefaultProm THEN mon[m].lab ELSE Mirrored(m, p)

\* What is up to date for a monitor that stays steady, stays up to date.
LEMMA UpToDateStays ==
  ASSUME IInv, NEW m \in Monitors, NEW p \in AllProms, Undisturbed(m), Steady(m)',
         UpToDate(m, p)
  PROVE  UpToDate(m, p)'
<1>1. /\ Steady(m) /\ mon'[m] = mon[m]
      /\ \A s \in Selects[mon[m].spec] : svc'[s] = svc[s]
  BY DEF Undisturbed
<1>2. CASE p = DefaultProm  BY <1>1, <1>2 DEF UpToDate
<1>3. CASE p \in ProjectProms /\ p # DefaultProm
  <2>1. Mirrored(m, p)  BY <1>3 DEF UpToDate
  <2>2. MonitorMirrored(p, m)'  BY <1>3, <2>1 DEF Undisturbed, Mirrored
  <2>3. ASSUME NEW s \in Selects[mon[m].spec], svc[s] # None
        PROVE  ServiceMirrored(p, s)'
    <3>1. ServiceCopied(p, s) /\ EndpointsCopied(p, s)
      BY <2>1, <2>3 DEF Mirrored, ServiceMirrored, ServiceCopied, EndpointsCopied
    <3>2. ServiceCopied(p, s)' /\ EndpointsCopied(p, s)'
      BY <1>3, <2>3, <3>1 DEF Undisturbed
    <3> QED  BY <3>2 DEF ServiceMirrored, ServiceCopied, EndpointsCopied
  <2>4. ASSUME NEW x \in CARefs[mon[m].spec] PROVE SecretMirrored(p, x)'
    BY <1>1, <1>3, <2>1, Selected DEF Undisturbed, Mirrored
  <2> QED  BY <1>1, <1>3, <2>2, <2>3, <2>4 DEF UpToDate, Mirrored
<1> QED  BY <1>2, <1>3 DEF AllProms

\* What a pass stops to have in progress, it has brought up to date.
LEMMA FreshStep ==
  ASSUME FreshInv,
         \A m \in Monitors : Undisturbed(m) \/ \A p \in AllProms : InProgress(m, p)',
         \A m \in Monitors : \A p \in AllProms :
            Undisturbed(m) /\ Steady(m)' /\ ~ Blocked(m) /\ prom[p].up /\ InProgress(m, p)
              => InProgress(m, p)' \/ UpToDate(m, p)'
  PROVE  FreshOrPending'
<1>1. ASSUME NEW m \in Monitors, NEW p \in AllProms, Steady(m)', ~ Blocked(m)',
             prom'[p].up
      PROVE  UpToDate(m, p)' \/ InProgress(m, p)'
  <2>1. CASE \A q \in AllProms : InProgress(m, q)'  BY <2>1
  <2>2. CASE Undisturbed(m)
    <3>1. Steady(m) /\ prom' = prom  BY <1>1, <2>2 DEF Undisturbed
    <3>2. ~ Blocked(m) /\ prom[p].up  BY <1>1, <3>1 DEF Blocked
    <3>3. UpToDate(m, p) \/ InProgress(m, p)
      BY <3>1, <3>2, PromsAssumption
         DEF FreshInv, FreshOrPending, Steady, UpToDate, AllProms
    <3> QED  BY <1>1, <2>2, <3>2, <3>3, UpToDateStays DEF FreshInv
  <2> QED  BY <2>1, <2>2
<1>2. DefaultProm \in AllProms /\ \A p \in ProjectProms : p \in AllProms /\ p # DefaultProm
  BY PromsAssumption DEF AllProms
<1>3. ASSUME NEW m \in Monitors, Steady(m)', ~ Blocked(m)'
      PROVE  /\ prom'[DefaultProm].up => mon'[m].lab \/ InProgress(m, DefaultProm)'
             /\ \A p \in ProjectProms :
                  prom'[p].up => Mirrored(m, p)' \/ InProgress(m, p)'
  BY <1>1, <1>2, <1>3 DEF UpToDate
<1> QED  BY <1>3 DEF FreshOrPending, Steady

\* A pass that is over leaves nothing to say but that.
LEMMA NotInPass ==
  ASSUME w'.pc \in {"idle", "down", "fetch"}, w'.pc = "fetch" \/ w'.m = None
  PROVE  /\ LoopOK' /\ DoneOK'
         /\ SnapshotOK'
  BY DEF LoopOK, DoneOK, SnapshotOK, TargetCurrent, OwnCurrent, InLoop, InProm, Read,
         Copying, InPass

\* A pass may end once it has nothing in progress for a steady monitor.
LEMMA PassEnds ==
  ASSUME FreshInv, w'.pc \in {"idle", "down"}, w'.m = None,
         \A m \in Monitors : Undisturbed(m),
         \A m \in Monitors : \A p \in AllProms :
            Steady(m)' /\ ~ Blocked(m) /\ prom[p].up => ~ InProgress(m, p)
  PROVE  LoopOK' /\ SnapshotOK' /\ DoneOK' /\ FreshOrPending'
<1>1. LoopOK' /\ SnapshotOK' /\ DoneOK'  BY NotInPass
<1>2. FreshOrPending'  BY FreshStep
<1> QED  BY <1>1, <1>2

\* What the worker holds stays right while the rest of the cluster moves.
LEMMA SameWorker ==
  ASSUME FreshInv, w' = w, \A m \in Monitors : Undisturbed(m)
  PROVE  LoopOK' /\ SnapshotOK' /\ DoneOK' /\ FreshOrPending'
<1>1. LoopOK'  BY DEF FreshInv, LoopOK, Listed
<1>2. PICK v : v = w  OBVIOUS
<1>3. ASSUME NEW m \in Monitors, Steady(m)'
      PROVE  /\ Steady(m) /\ mon'[m] = mon[m] /\ prom' = prom
             /\ \A s \in Selects[mon[m].spec] : svc'[s] = svc[s]
  BY <1>3 DEF Undisturbed
<1>4. ASSUME w.pc \in Copying, w.tgt # 0
      PROVE  w.p \in ProjectProms /\ TargetRef \in Owner /\ TargetRef' = TargetRef
  BY <1>4, TargetRefOK DEF FreshInv, Copying, TargetRef
<1>5. ASSUME NEW m \in Monitors, Steady(m)'
      PROVE  /\ w'.pc \in Read => ServicesCurrent(m)'
             /\ w'.pc \in InLoop => PromsCurrent'
             /\ TargetCurrent'
             /\ w'.m = m => OwnCurrent(m)'
  <2>1. /\ w.pc \in Read => ServicesCurrent(m)
        /\ w.pc \in InLoop => PromsCurrent
        /\ TargetCurrent
        /\ w.m = m => OwnCurrent(m)
    BY <1>3, <1>5 DEF FreshInv, SnapshotOK
  <2>2. w'.pc \in Read => ServicesCurrent(m)'
    BY <1>3, <1>5, <2>1 DEF ServicesCurrent
  <2>3. w'.pc \in InLoop => PromsCurrent'
    BY <1>3, <1>5, <2>1 DEF PromsCurrent, PromLives, Listed
  <2>4. TargetCurrent'
    <3> SUFFICES ASSUME w.pc \in Copying, w.tgt # 0 PROVE OwnedNow(v.p, TargetRef)'
      BY <1>2 DEF TargetCurrent
    <3>1. OwnedNow(v.p, TargetRef)  BY <1>2, <2>1 DEF TargetCurrent
    <3>2. PICK own \in Owner : own = TargetRef  BY <1>4
    <3>3. OwnedNow(v.p, own)'  BY <1>2, <1>4, <1>5, <3>1, <3>2 DEF Undisturbed
    <3> QED  BY <1>4, <3>2, <3>3 DEF OwnedNow, MonitorLives
  <2>5. w'.m = m => OwnCurrent(m)'
    BY <1>3, <1>5, <2>1 DEF OwnCurrent
  <2> QED  BY <2>2, <2>3, <2>4, <2>5
<1>6. SnapshotOK'  BY <1>5 DEF SnapshotOK
<1>7. ASSUME NEW m \in Monitors, Steady(m)', w.m = m, w.pc \in Copying, ~ w.errs
      PROVE  /\ w.tgt # 0
             /\ MonitorMirrored(v.p, m)'
             /\ \A s \in Selects[mon[m].spec] \ w.svcTodo : svc[s] # None =>
                  /\ ServiceCopied(v.p, s)'
                  /\ (w.pc = "endpoints" /\ w.s = s) \/ EndpointsCopied(v.p, s)'
             /\ \A x \in CARefs[mon[m].spec] \ w.secTodo : SecretMirrored(v.p, x)'
  <2>1. /\ w.tgt # 0
        /\ MonitorMirrored(v.p, m)
        /\ \A s \in Selects[mon[m].spec] \ w.svcTodo : svc[s] # None =>
             /\ ServiceCopied(v.p, s)
             /\ (w.pc = "endpoints" /\ w.s = s) \/ EndpointsCopied(v.p, s)
        /\ \A x \in CARefs[mon[m].spec] \ w.secTodo : SecretMirrored(v.p, x)
    BY <1>2, <1>3, <1>7 DEF FreshInv, DoneOK
  <2>2. v.p \in ProjectProms  BY <1>2, <1>4, <1>7, <2>1
  <2>3. CARefs[mon[m].spec] \subseteq Secrets  BY <1>3, <1>7, Selected DEF FreshInv
  <2> QED  BY <1>7, <2>1, <2>2, <2>3 DEF Undisturbed
<1>8. DoneOK'  BY <1>2, <1>3, <1>7 DEF DoneOK
<1>9. FreshOrPending'
  <2>1. \A m \in Monitors : \A p \in AllProms : InProgress(m, p) => InProgress(m, p)'
    BY DEF InProgress, Listed
  <2> QED  BY <2>1, FreshStep
<1> QED  BY <1>1, <1>6, <1>8, <1>9
-----------------------------------------------------------------------------
(* Notifications and the rest of the cluster: a change that spoils copies, *)
(* or what the pass in progress has read, is announced to every monitor    *)
(* that it concerns.                                                       *)

\* A step that changes nothing.
LEMMA StutterUndisturbed ==
  ASSUME NEW m \in Monitors, UNCHANGED vars PROVE Undisturbed(m)
<1>1. Steady(m)' => Steady(m)  BY SteadyStays DEF vars, source
<1> QED  BY <1>1, QuietUndisturbed DEF vars, source, copies

\* A notification that is delivered queues whom it concerns; one that is

\* dropped is counted as missed by every federated monitor.
LEMMA NotifiedUndisturbed ==
  ASSUME NEW m \in Monitors, NEW e \in Services \cup AllProms,
         Deliver(e) \/ MapFails(e)
  PROVE  Undisturbed(m)
<1>1. UNCHANGED <<source, copies, w>>  BY DEF Deliver, MapFails
<1>2. queue \subseteq queue' /\ missed \subseteq missed'  BY DEF Deliver, MapFails
<1>3. \/ watch' = watch \ {e} /\ queue' = queue \cup ServiceMonitorsFor(e)
      \/ watch' = watch \ {e} /\ missed' = missed \cup {n \in Monitors : Federated(n)}
  BY DEF Deliver, MapFails
<1>4. Federated(m)' <=> Federated(m)  BY <1>1 DEF Federated, Exists, source
<1>5. \A d : m \in ServiceMonitorsFor(d)' <=> m \in ServiceMonitorsFor(d)
  BY <1>1, <1>4 DEF ServiceMonitorsFor, source
<1>6. m \in ServiceMonitorsFor(e) => Federated(m)  BY DEF ServiceMonitorsFor
<1>7. Steady(m)' => Steady(m)
  BY <1>1, <1>2, <1>3, <1>4, <1>5, <1>6 DEF Steady, Pending
<1> QED  BY <1>1, <1>7, QuietUndisturbed DEF source, copies

\* The informers' resync only queues.
LEMMA ResyncUndisturbed ==
  ASSUME NEW m \in Monitors, NEW n \in Monitors, ResyncMonitor(n) PROVE Undisturbed(m)
<1>1. Steady(m)' => Steady(m)  BY SteadyStays DEF ResyncMonitor, source
<1> QED  BY <1>1, QuietUndisturbed DEF ResyncMonitor, source, copies

\* The source and nothing else changed, in a way that m does not see.
LEMMA SourceUndisturbed ==
  ASSUME NEW m \in Monitors, UNCHANGED copies,
         Steady(m)' => /\ Steady(m) /\ mon'[m] = mon[m] /\ prom' = prom
                       /\ \A s \in Selects[mon[m].spec] : svc'[s] = svc[s]
  PROVE  Undisturbed(m)
  BY DEF Undisturbed, copies, OwnedNow, MonitorLives, PromLives,
         MonitorMirrored, ServiceCopied, EndpointsCopied, SecretMirrored

\* An edit of a source monitor queues that monitor, and concerns no other.
LEMMA ChangeMonitorUndisturbed ==
  ASSUME IInv, NEW m \in Monitors, NEW n \in Monitors, NEW new \in MonRec \cup {None},
         ChangeMonitor(n, new)
  PROVE  Undisturbed(m)
<1>1. /\ UNCHANGED <<svc, prom, copies, watch, w, missed>>
      /\ mon' = [mon EXCEPT ![n] = new]
      /\ queue' = IF w.pc = "down" THEN queue ELSE queue \cup {n}
  BY DEF ChangeMonitor, Enqueue
<1>2. Steady(m)' => m # n  BY <1>1 DEF Steady, Pending
<1>3. m # n => mon'[m] = mon[m]  BY <1>1 DEF IInv, SourceInv, SourceOK
<1>4. Steady(m)' => Steady(m)  BY <1>1, <1>2, <1>3, SteadyStays
<1> QED  BY <1>1, <1>2, <1>3, <1>4, SourceUndisturbed DEF copies

\* An edit of a Service is announced to every monitor that selects it.
LEMMA ChangeServiceUndisturbed ==
  ASSUME IInv, NEW m \in Monitors, NEW k \in Services, NEW new \in SvcRec \cup {None},
         ChangeService(k, new)
  PROVE  Undisturbed(m)
<1>1. /\ UNCHANGED <<mon, prom, copies, queue, w, missed>>
      /\ svc' = [svc EXCEPT ![k] = new]
      /\ watch' = IF w.pc = "down" THEN watch ELSE watch \cup {k}
  BY DEF ChangeService, Notify
<1>2. Steady(m)' => Steady(m)  BY <1>1, SteadyStays
<1>3. Steady(m)' => k \notin Selects[mon[m].spec]
  <2> SUFFICES ASSUME Steady(m)', k \in Selects[mon[m].spec] PROVE FALSE  OBVIOUS
  <2>1. k \in watch' /\ Federated(m)'  BY <1>1 DEF Steady, Pending
  <2>2. m \in ServiceMonitorsFor(k)'  BY <1>1, <2>1 DEF ServiceMonitorsFor
  <2> QED  BY <2>1, <2>2 DEF Steady, Pending
<1>4. Steady(m)' => \A s \in Selects[mon[m].spec] : svc'[s] = svc[s]
  <2>1. ASSUME Steady(m) PROVE Selects[mon[m].spec] \subseteq Services  BY <2>1, Selected
  <2> QED  BY <1>1, <1>2, <1>3, <2>1 DEF IInv, SourceInv, SourceOK
<1> QED  BY <1>1, <1>2, <1>4, SourceUndisturbed DEF copies

\* A Prometheus that comes or goes is announced to every federated monitor.
LEMMA ChangePromUndisturbed ==
  ASSUME NEW m \in Monitors, NEW p \in AllProms, ChangeProm(p)
  PROVE  Undisturbed(m)
<1>1. /\ UNCHANGED <<mon, svc, copies, queue, w, missed>>
      /\ watch' = IF w.pc = "down" THEN watch ELSE watch \cup {p}
  BY DEF ChangeProm, Notify
<1>2. ~ Steady(m)'
  <2> SUFFICES ASSUME Steady(m)' PROVE FALSE  OBVIOUS
  <2>1. p \in watch' /\ Federated(m)'  BY <1>1 DEF Steady, Pending
  <2>2. m \in ServiceMonitorsFor(p)'  BY <2>1, KindsAssumption DEF ServiceMonitorsFor
  <2> QED  BY <2>1, <2>2 DEF Steady, Pending
<1> QED  BY <1>2 DEF Undisturbed

\* Secrets, selectors of projects and Endpoints: nothing of it is in question.
LEMMA OtherSourceUndisturbed ==
  ASSUME NEW m \in Monitors,
         UNCHANGED <<mon, svc, prom, copies, queue, watch, w, missed>>
  PROVE  Undisturbed(m)
<1>1. Steady(m)' => Steady(m)  BY SteadyStays
<1> QED  BY <1>1, SourceUndisturbed DEF copies

\* A copy that a user deletes is counted as missed by every federated monitor.
LEMMA DeleteCopyUndisturbed ==
  ASSUME NEW m \in Monitors, NEW p \in ProjectProms, NEW n \in Monitors, DeleteCopy(p, n)
  PROVE  Undisturbed(m)
<1>1. ~ Steady(m)'
  <2>1. mon' = mon /\ missed' = missed \cup {k \in Monitors : Federated(k)}
    BY DEF DeleteCopy, source
  <2> QED  BY <2>1 DEF Steady, Pending, Federated, Exists
<1> QED  BY <1>1 DEF Undisturbed

\* The garbage collector deletes nothing that is owned by what lives.
LEMMA CollectUndisturbed ==
  ASSUME IInv, NEW m \in Monitors, Collect PROVE Undisturbed(m)
<1>1. UNCHANGED <<source, made, queue, watch, w, missed, spent>>
  BY DEF Collect, CollectMonitor, CollectService, CollectEndpoints, CollectSecret
<1>2. Steady(m)' => Steady(m)  BY <1>1, SteadyStays DEF source
<1>3. PICK p \in ProjectProms :
        \/ \E n \in Monitors : CollectMonitor(p, n)
        \/ \E s \in Services : CollectService(p, s) \/ CollectEndpoints(p, s)
        \/ \E x \in Secrets : CollectSecret(p, x)
  BY DEF Collect
<1>4. ASSUME NEW n \in Monitors, CollectMonitor(p, n) PROVE Undisturbed(m)
  <2>1. /\ UNCHANGED <<cSvc, cEp, cSec>> /\ prom' = prom /\ mon' = mon
        /\ ~ PromLives(p, cMon[p][n].owner)
        /\ cMon' = [cMon EXCEPT ![p][n] = None]
    BY <1>4 DEF CollectMonitor, source
  <2>2. \A q \in ProjectProms : \A k \in Monitors :
           cMon'[q][k] = cMon[q][k] \/ (q = p /\ k = n)
    BY <2>1 DEF IInv, CopiesInv, CopiesOK
  <2>3. ASSUME NEW q \in ProjectProms, NEW own \in Owner, OwnedNow(q, own)
        PROVE  OwnedNow(q, own)'
    BY <2>1, <2>2, <2>3 DEF OwnedNow, MonitorLives, PromLives, Owner
  <2>4. ASSUME NEW q \in ProjectProms, MonitorMirrored(q, m)
        PROVE  MonitorMirrored(q, m)'
    BY <2>1, <2>2, <2>4 DEF MonitorMirrored, PromLives
  <2> QED  BY <1>1, <1>2, <2>1, <2>3, <2>4, MonitorsWritten
<1>5. ASSUME NEW k \in Services, CollectService(p, k) PROVE Undisturbed(m)
  <2>1. /\ UNCHANGED <<cMon, cEp, cSec>> /\ ~ MonitorLives(p, cSvc[p][k].owner)
        /\ cSvc' = [cSvc EXCEPT ![p][k] = None]
    BY <1>5 DEF CollectService
  <2>2. \A q \in ProjectProms : \A s \in Services :
           cSvc'[q][s] = cSvc[q][s] \/ (q = p /\ s = k)
    BY <2>1 DEF IInv, CopiesInv, CopiesOK
  <2>3. ~ ServiceCopied(p, k)  BY <2>1 DEF ServiceCopied, OwnedNow
  <2>4. ASSUME NEW q \in ProjectProms, NEW s \in Services
        PROVE  ServiceCopied(q, s) => ServiceCopied(q, s)'
    BY <1>1, <2>1, <2>2, <2>3, SameService
  <2> QED  BY <1>1, <1>2, <2>1, <2>4, Selected, SameEndpoints, SameSecret, CopiesWritten
<1>6. ASSUME NEW k \in Services, CollectEndpoints(p, k) PROVE Undisturbed(m)
  <2>1. /\ UNCHANGED <<cMon, cSvc, cSec>> /\ ~ MonitorLives(p, cEp[p][k].owner)
        /\ cEp' = [cEp EXCEPT ![p][k] = None]
    BY <1>6 DEF CollectEndpoints
  <2>2. \A q \in ProjectProms : \A s \in Services :
           cEp'[q][s] = cEp[q][s] \/ (q = p /\ s = k)
    BY <2>1 DEF IInv, CopiesInv, CopiesOK
  <2>3. ~ EndpointsCopied(p, k)  BY <2>1 DEF EndpointsCopied, OwnedNow
  <2>4. ASSUME NEW q \in ProjectProms, NEW s \in Services
        PROVE  EndpointsCopied(q, s) => EndpointsCopied(q, s)'
    BY <1>1, <2>1, <2>2, <2>3, SameEndpoints
  <2> QED  BY <1>1, <1>2, <2>1, <2>4, Selected, SameService, SameSecret, CopiesWritten
<1>7. ASSUME NEW k \in Secrets, CollectSecret(p, k) PROVE Undisturbed(m)
  <2>1. /\ UNCHANGED <<cMon, cSvc, cEp>> /\ ~ MonitorLives(p, cSec[p][k].owner)
        /\ cSec' = [cSec EXCEPT ![p][k] = None]
    BY <1>7 DEF CollectSecret
  <2>2. \A q \in ProjectProms : \A x \in Secrets :
           cSec'[q][x] = cSec[q][x] \/ (q = p /\ x = k)
    BY <2>1 DEF IInv, CopiesInv, CopiesOK
  <2>3. ~ SecretMirrored(p, k)  BY <2>1 DEF SecretMirrored, OwnedNow
  <2>4. ASSUME NEW q \in ProjectProms, NEW x \in Secrets
        PROVE  SecretMirrored(q, x) => SecretMirrored(q, x)'
    BY <1>1, <2>1, <2>2, <2>3, SameSecret
  <2> QED  BY <1>1, <1>2, <2>1, <2>4, Selected, SameService, SameEndpoints, CopiesWritten
<1> QED  BY <1>3, <1>4, <1>5, <1>6, <1>7
-----------------------------------------------------------------------------
(* The writes of a pass, whichever monitor it is over.                     *)

\* A step of the pass that writes nothing.
LEMMA ReadUndisturbed ==
  ASSUME NEW m \in Monitors, UNCHANGED <<source, copies, watch>>, w.pc # "down",
         queue \subseteq queue', missed \subseteq missed'
  PROVE  Undisturbed(m)
<1>1. Steady(m)' => Steady(m)  BY SteadyStays DEF source
<1> QED  BY <1>1, QuietUndisturbed

\* A process that dies is bound to start a pass over every monitor.
LEMMA DieUndisturbed == ASSUME NEW m \in Monitors, Die PROVE Undisturbed(m)
<1>1. w'.pc = "down"  BY DEF Die, Idle
<1> QED  BY <1>1 DEF Undisturbed, Steady, Pending

\* The List that a process starts with queues every monitor there is.
LEMMA RestartUndisturbed == ASSUME NEW m \in Monitors, Restart PROVE Undisturbed(m)
<1>1. mon' = mon /\ queue' = {n \in Monitors : Exists(n)}  BY DEF Restart, source, Existing
<1>2. ~ Steady(m)'  BY <1>1 DEF Steady, Pending, Federated, Exists
<1> QED  BY <1>2 DEF Undisturbed

\* The label is written, or the monitor has it already.
LEMMA PatchLabelsUndisturbed ==
  ASSUME IInv, NEW m \in Monitors, NEW out \in Outcomes, PatchLabels(out)
  PROVE  Undisturbed(m)
<1>1. /\ UNCHANGED <<svc, prom, copies, watch, missed>> /\ w.pc = "labels"
      /\ mon' = mon \/ mon' = [mon EXCEPT ![w.m] = Labelled]
      /\ queue' = IF mon' # mon THEN queue \cup {w.m} ELSE queue
  BY DEF PatchLabels
<1>2. Steady(m)' => mon'[m] = mon[m]
  <2>1. CASE mon' = mon  BY <2>1
  <2>2. CASE mon' # mon
    <3>1. w.m \in queue' /\ mon' = [mon EXCEPT ![w.m] = Labelled]  BY <1>1, <2>2
    <3>2. Steady(m)' => m # w.m  BY <3>1 DEF Steady, Pending
    <3> QED  BY <3>1, <3>2 DEF IInv, SourceInv, SourceOK
  <2> QED  BY <2>1, <2>2
<1>3. Steady(m)' => Steady(m)  BY <1>1, <1>2, SteadyStays
<1> QED  BY <1>1, <1>2, <1>3, SourceUndisturbed

\* What copyServiceMonitor writes, and the target that it returns.
LEMMA MonitorWritten ==
  ASSUME IInv, NEW out \in Outcomes, CopyMonitor(out),
         NEW p \in ProjectProms, p = w.p, NEW n \in Monitors, n = w.m
  PROVE  \E copy \in CMonRec :
            /\ copy.uid # 0 /\ copy.owner = w.todo[p] /\ copy.spec = w.spec
            /\ cMon[p][n] # None => copy.uid = cMon[p][n].uid
            /\ cMon' = IF out = "rejected" THEN cMon ELSE [cMon EXCEPT ![p][n] = copy]
            /\ w'.tgt = IF out = "ok" THEN copy.uid ELSE 0
<1> DEFINE old == cMon[p][n]
           uid == IF old = None THEN made[p][n] + 1 ELSE old.uid
           copy == MonitorCopy(old, uid)
<1>1. /\ w.spec \in MonSpecs /\ w.keep \subseteq Namespaces /\ w.todo[p] \in Nat
  BY DEF CopyMonitor, IInv, WorkerInv, WorkerRec, LocalsOK, InPass, AllProms
<1>2. made[p][n] \in Nat /\ (old = None \/ old \in CMonRec)
  BY DEF IInv, CopiesInv, CopiesOK
<1>3. uid \in Nat /\ uid # 0 /\ (old # None => uid = old.uid)
  BY <1>2 DEF CMonRec, IInv, CopiesInv, CopyUidsOK
<1>4. cMon' = IF out = "rejected" THEN cMon ELSE [cMon EXCEPT ![p][n] = copy]
  BY DEF CopyMonitor
<1>5. w'.tgt = IF out = "ok" THEN uid ELSE 0
  BY DEF CopyMonitor, IInv, WorkerInv, WorkerRec
<1> HIDE DEF uid
<1>6. copy \in CMonRec /\ copy.uid = uid /\ copy.owner = w.todo[p] /\ copy.spec = w.spec
  BY <1>1, <1>3 DEF MonitorCopy, CopyWith, CMonRec
<1> HIDE DEF copy
<1> QED  BY <1>3, <1>4, <1>5, <1>6

\* The copy of a monitor keeps its UID, and gets an owner that lives.
LEMMA CopyMonitorUndisturbed ==
  ASSUME FreshInv, NEW m \in Monitors, NEW out \in Outcomes, CopyMonitor(out)
  PROVE  Undisturbed(m)
<1>1. /\ UNCHANGED <<source, cSvc, cEp, cSec, queue, watch, missed>>
      /\ w.pc = "monitor"
  BY DEF CopyMonitor
<1>2. Steady(m)' => Steady(m)  BY <1>1, SteadyStays DEF source
<1>3. PICK p \in ProjectProms, n \in Monitors : p = w.p /\ n = w.m
  BY <1>1 DEF FreshInv, IInv, WorkerInv, LocalsOK, InPass, InProm
<1>4. PICK copy \in CMonRec :
         /\ copy.uid # 0 /\ copy.owner = w.todo[p] /\ copy.spec = w.spec
         /\ cMon[p][n] # None => copy.uid = cMon[p][n].uid
         /\ cMon' = IF out = "rejected" THEN cMon ELSE [cMon EXCEPT ![p][n] = copy]
         /\ w'.tgt = IF out = "ok" THEN copy.uid ELSE 0
  <2>1. IInv  BY DEF FreshInv
  <2>2. p = w.p /\ n = w.m  BY <1>3
  <2> QED  BY <1>3, <2>1, <2>2, MonitorWritten, Zenon
<1>5. copy # None  BY NoObjectAssumption
<1>6. \A q \in ProjectProms : \A k \in Monitors :
        cMon'[q][k] = cMon[q][k] \/ (q = p /\ k = n /\ cMon'[q][k] = copy)
  BY <1>4 DEF FreshInv, IInv, CopiesInv, CopiesOK
<1>7. Steady(m)' => PromLives(p, w.todo[p])
  <2> SUFFICES ASSUME Steady(m) PROVE PromLives(p, w.todo[p])  BY <1>2
  <2>1. Listed(p)  BY <1>1, <1>3 DEF FreshInv, LoopOK, InProm
  <2> QED  BY <1>1, <2>1 DEF FreshInv, SnapshotOK, PromsCurrent, InLoop, InProm, AllProms
<1>8. ASSUME Steady(m)', NEW q \in ProjectProms, NEW own \in Owner, OwnedNow(q, own)
       PROVE  OwnedNow(q, own)'
  <2>1. own[1] \in Monitors  BY DEF Owner
  <2>2. CASE cMon'[q][own[1]] = cMon[q][own[1]]
    BY <1>1, <1>8, <2>2 DEF OwnedNow, MonitorLives, PromLives, source
  <2>3. CASE q = p /\ own[1] = n /\ cMon'[q][own[1]] = copy
    <3>1. cMon[p][n] # None /\ cMon[p][n].uid = own[2]
      BY <1>8, <2>3 DEF OwnedNow, MonitorLives
    <3>2. copy.uid = own[2]  BY <1>4, <3>1
    <3>3. PromLives(p, copy.owner)'
      BY <1>1, <1>4, <1>7, <1>8 DEF PromLives, source
    <3> QED  BY <1>5, <2>3, <3>2, <3>3 DEF OwnedNow, MonitorLives, PromLives
  <2> QED  BY <1>6, <2>1, <2>2, <2>3
<1>9. ASSUME Steady(m)', NEW q \in ProjectProms, MonitorMirrored(q, m)
       PROVE  MonitorMirrored(q, m)'
  <2>1. CASE cMon'[q][m] = cMon[q][m]
    BY <1>1, <1>9, <2>1 DEF MonitorMirrored, PromLives, source
  <2>2. CASE q = p /\ m = n /\ cMon'[q][m] = copy
    <3>1. w.spec = mon[m].spec
      BY <1>1, <1>2, <1>3, <1>9, <2>2 DEF FreshInv, SnapshotOK, OwnCurrent, InPass
    <3>2. PromLives(p, copy.owner)'
      BY <1>1, <1>4, <1>7, <1>9 DEF PromLives, source
    <3> QED  BY <1>1, <1>4, <1>5, <2>2, <3>1, <3>2 DEF MonitorMirrored, PromLives, source
  <2> QED  BY <1>6, <2>1, <2>2
<1> QED  BY <1>1, <1>2, <1>8, <1>9, MonitorsWritten DEF FreshInv

\* On behalf of what a copy is written: the target of the pass.
LEMMA TargetLives ==
  ASSUME FreshInv, NEW m \in Monitors, Steady(m), w.pc \in Copying, w.tgt # 0
  PROVE  OwnedNow(w.p, TargetRef)
  BY DEF FreshInv, SnapshotOK, TargetCurrent

\* copyService merges the ports that the Service has into those of the copy.
LEMMA ServiceWritten ==
  ASSUME FreshInv, NEW m \in Monitors, Steady(m), NEW k \in Services, NEW out \in Outcomes,
         CopyService(k, out), out # "rejected", k \in Selects[mon[m].spec],
         NEW p \in ProjectProms, p = w.p
  PROVE  ServiceCopied(p, k)'
<1>1. /\ UNCHANGED <<source, cMon>> /\ w.pc = "copies" /\ w.tgt # 0 /\ k \in w.svcTodo
  BY DEF CopyService, NilTarget
<1> DEFINE old == cSvc[p][k]
           ports == IF old = None THEN w.svcs[k].ports
                    ELSE UpsertPorts(old.ports, w.svcs[k].ports)
           copy == [owner |-> TargetRef, ports |-> ports]
<1>2. cSvc' = [cSvc EXCEPT ![p][k] = copy]  BY DEF CopyService
<1>3. w.svcs[k] = svc[k] /\ svc[k] # None
  <2>1. w.svcs[k] # None  BY <1>1 DEF FreshInv, IInv, WorkerInv, LocalsOK
  <2>2. w.svcs[k] \in {None, svc[k]}
    BY <1>1 DEF FreshInv, SnapshotOK, ServicesCurrent, Read, InLoop, InProm
  <2> QED  BY <2>1, <2>2
<1>4. \A n \in DOMAIN svc[k].ports : n \in DOMAIN ports /\ ports[n] = svc[k].ports[n]
  BY <1>3 DEF UpsertPorts
<1>5. ports \in PartialPorts
  <2>1. svc[k].ports \in PartialPorts
    BY <1>3, PortsAssumption DEF FreshInv, IInv, SourceInv, SourceOK, SvcRec, PartialPorts
  <2>2. old = None \/ old.ports \in PartialPorts
    BY DEF FreshInv, IInv, CopiesInv, CopiesOK, CSvcRec
  <2> QED  BY <1>3, <2>1, <2>2, UpsertPortsOK
<1>6. OwnedNow(p, TargetRef)  BY <1>1, TargetLives DEF Copying
<1>7. TargetRef \in Owner  BY <1>1, TargetRefOK DEF FreshInv
<1> HIDE DEF ports
<1>8. copy \in CSvcRec /\ copy.owner = TargetRef /\ copy.ports = ports
  BY <1>5, <1>7 DEF CSvcRec
<1>9. copy # None  BY <1>8, NoObjectAssumption
<1> HIDE DEF copy
<1>10. cSvc'[p][k] = copy  BY <1>2 DEF FreshInv, IInv, CopiesInv, CopiesOK
<1>11. PICK own \in Owner : own = TargetRef  BY <1>7
<1>12. OwnedNow(p, own)'
  BY <1>1, <1>6, <1>11 DEF OwnedNow, MonitorLives, PromLives, source
<1>13. svc' = svc  BY <1>1 DEF source
<1> QED  BY <1>4, <1>8, <1>9, <1>10, <1>11, <1>12, <1>13 DEF ServiceCopied

\* copyService replaces a copy by one that is at least as good.
LEMMA CopyServiceUndisturbed ==
  ASSUME FreshInv, NEW m \in Monitors, NEW k \in Services, NEW out \in Outcomes,
         CopyService(k, out)
  PROVE  Undisturbed(m)
<1>1. /\ UNCHANGED <<source, cMon, cEp, cSec, queue, watch, missed>> /\ w.pc = "copies"
  BY DEF CopyService
<1>2. Steady(m)' => Steady(m)  BY <1>1, SteadyStays DEF source
<1>3. PICK p \in ProjectProms : p = w.p
  BY <1>1 DEF FreshInv, IInv, WorkerInv, LocalsOK, InProm
<1>4. \A q \in ProjectProms : \A s \in Services :
        cSvc'[q][s] = cSvc[q][s] \/ (q = p /\ s = k /\ out # "rejected")
  <2>1. cSvc' = cSvc \/ (out # "rejected" /\ \E c : cSvc' = [cSvc EXCEPT ![p][k] = c])
    BY <1>3 DEF CopyService
  <2> QED  BY <2>1 DEF FreshInv, IInv, CopiesInv, CopiesOK
<1>5. ASSUME Steady(m), NEW q \in ProjectProms, NEW s \in Selects[mon[m].spec],
             ServiceCopied(q, s)
      PROVE  ServiceCopied(q, s)'
  <2>1. s \in Services  BY <1>5, Selected DEF FreshInv
  <2>2. CASE cSvc'[q][s] = cSvc[q][s]  BY <1>1, <1>5, <2>1, <2>2, SameService
  <2>3. CASE q = p /\ s = k /\ out # "rejected"
    BY <1>3, <1>5, <2>1, <2>3, ServiceWritten
  <2> QED  BY <1>4, <2>1, <2>2, <2>3
<1> QED  BY <1>1, <1>2, <1>5, Selected, SameEndpoints, SameSecret, CopiesWritten DEF FreshInv

\* copyEndpoints leaves a copy that is owned by what lives.
LEMMA EndpointsWritten ==
  ASSUME FreshInv, NEW m \in Monitors, Steady(m), NEW out \in Outcomes,
         CopyEndpoints(out), out # "rejected",
         NEW p \in ProjectProms, p = w.p, NEW k \in Services, k = w.s
  PROVE  EndpointsCopied(p, k)'
<1>1. /\ UNCHANGED <<source, cMon>> /\ w.pc = "endpoints" /\ w.tgt # 0
  BY DEF CopyEndpoints, FreshInv, IInv, WorkerInv, LocalsOK
<1>2. PICK copy \in CEpRec : copy.owner = TargetRef /\ cEp' = [cEp EXCEPT ![p][k] = copy]
  BY EndpointsCopyOK DEF FreshInv
<1>3. cEp'[p][k] = copy
  BY <1>2 DEF FreshInv, IInv, CopiesInv, CopiesOK
<1>4. cEp'[p][k].owner = TargetRef  BY <1>2, <1>3
<1>5. cEp'[p][k] # None  BY <1>3, NoObjectAssumption
<1>6. PICK own \in Owner : own = TargetRef  BY <1>1, TargetRefOK DEF FreshInv
<1>7. OwnedNow(p, own)  BY <1>1, <1>6, TargetLives DEF Copying
<1>8. OwnedNow(p, own)'  BY <1>1, <1>7 DEF OwnedNow, MonitorLives, PromLives, source
<1> QED  BY <1>4, <1>5, <1>6, <1>8 DEF EndpointsCopied

\* copyEndpoints replaces a copy by one that is at least as good.
LEMMA CopyEndpointsUndisturbed ==
  ASSUME FreshInv, NEW m \in Monitors, NEW out \in Outcomes, CopyEndpoints(out)
  PROVE  Undisturbed(m)
<1>1. /\ UNCHANGED <<source, cMon, cSvc, cSec, queue, watch, missed>> /\ w.pc = "endpoints"
  BY DEF CopyEndpoints
<1>2. Steady(m)' => Steady(m)  BY <1>1, SteadyStays DEF source
<1>3. PICK p \in ProjectProms, k \in Services : p = w.p /\ k = w.s
  BY <1>1 DEF FreshInv, IInv, WorkerInv, LocalsOK, InProm
<1>4. \A q \in ProjectProms : \A s \in Services :
        cEp'[q][s] = cEp[q][s] \/ (q = p /\ s = k /\ out # "rejected")
  <2>1. cEp' = cEp \/ (out # "rejected" /\ \E c : cEp' = [cEp EXCEPT ![p][k] = c])
    BY <1>3 DEF CopyEndpoints
  <2> QED  BY <2>1 DEF FreshInv, IInv, CopiesInv, CopiesOK
<1>5. ASSUME Steady(m), NEW q \in ProjectProms, NEW s \in Selects[mon[m].spec],
             EndpointsCopied(q, s)
      PROVE  EndpointsCopied(q, s)'
  <2>1. s \in Services  BY <1>5, Selected DEF FreshInv
  <2>2. CASE cEp'[q][s] = cEp[q][s]  BY <1>1, <1>5, <2>1, <2>2, SameEndpoints
  <2>3. CASE q = p /\ s = k /\ out # "rejected"
    BY <1>3, <1>5, <2>1, <2>3, EndpointsWritten
  <2> QED  BY <1>4, <2>1, <2>2, <2>3
<1> QED  BY <1>1, <1>2, <1>5, Selected, SameService, SameSecret, CopiesWritten DEF FreshInv

\* copySecret leaves a copy that is owned by what lives.
LEMMA SecretWritten ==
  ASSUME FreshInv, NEW m \in Monitors, Steady(m), NEW k \in Secrets, NEW out \in Outcomes,
         CopySecret(k, out), out # "rejected", NEW p \in ProjectProms, p = w.p
  PROVE  SecretMirrored(p, k)'
<1>1. /\ UNCHANGED <<source, cMon>> /\ w.pc = "copies" /\ w.tgt # 0 /\ k \in w.secTodo
      /\ cSec' = [cSec EXCEPT ![p][k] = SecretCopy(k)]
  BY DEF CopySecret, NilTarget
<1>2. PICK own \in Owner : own = TargetRef  BY <1>1, TargetRefOK DEF FreshInv
<1>3. PICK copy : copy = SecretCopy(k)  OBVIOUS
<1>4. copy \in CSecRec /\ copy.owner = own
  <2>1. w.secs[k] \in Data  BY <1>1 DEF FreshInv, IInv, WorkerInv, WorkerRec, LocalsOK
  <2> QED  BY <1>2, <1>3, <2>1 DEF SecretCopy, CSecRec
<1>5. cSec'[p][k] = copy  BY <1>1, <1>3 DEF FreshInv, IInv, CopiesInv, CopiesOK
<1>6. OwnedNow(p, own)  BY <1>1, <1>2, TargetLives DEF Copying
<1>7. OwnedNow(p, own)'  BY <1>1, <1>6 DEF OwnedNow, MonitorLives, PromLives, source
<1> QED  BY <1>4, <1>5, <1>7, NoObjectAssumption DEF SecretMirrored

\* copySecret replaces a copy by one that is at least as good.
LEMMA CopySecretUndisturbed ==
  ASSUME FreshInv, NEW m \in Monitors, NEW k \in Secrets, NEW out \in Outcomes,
         CopySecret(k, out)
  PROVE  Undisturbed(m)
<1>1. /\ UNCHANGED <<source, cMon, cSvc, cEp, queue, watch, missed>> /\ w.pc = "copies"
  BY DEF CopySecret
<1>2. Steady(m)' => Steady(m)  BY <1>1, SteadyStays DEF source
<1>3. PICK p \in ProjectProms : p = w.p
  BY <1>1 DEF FreshInv, IInv, WorkerInv, LocalsOK, InProm
<1>4. \A q \in ProjectProms : \A x \in Secrets :
        cSec'[q][x] = cSec[q][x] \/ (q = p /\ x = k /\ out # "rejected")
  <2>1. cSec' = cSec \/ (out # "rejected" /\ cSec' = [cSec EXCEPT ![p][k] = SecretCopy(k)])
    BY <1>3 DEF CopySecret
  <2> QED  BY <2>1 DEF FreshInv, IInv, CopiesInv, CopiesOK
<1>5. ASSUME Steady(m), NEW q \in ProjectProms, NEW x \in Secrets, SecretMirrored(q, x)
      PROVE  SecretMirrored(q, x)'
  <2>1. CASE cSec'[q][x] = cSec[q][x]  BY <1>1, <1>5, <2>1, SameSecret
  <2>2. CASE q = p /\ x = k /\ out # "rejected"
    BY <1>3, <1>5, <2>2, SecretWritten
  <2> QED  BY <1>4, <2>1, <2>2
<1> QED  BY <1>1, <1>2, <1>5, Selected, SameService, SameEndpoints, CopiesWritten DEF FreshInv
-----------------------------------------------------------------------------
(* The steps of the worker.                                                *)

\* A new pass over m: everything about m is in progress.
LEMMA DequeueFresh ==
  ASSUME FreshInv, NEW m \in Monitors, Dequeue(m)
  PROVE  LoopOK' /\ SnapshotOK' /\ DoneOK' /\ FreshOrPending'
<1>1. /\ UNCHANGED <<source, copies, watch>> /\ w.pc = "idle"
      /\ queue' = queue \ {m} /\ missed' = missed \ {m}
      /\ w'.pc = "fetch" /\ w'.m = m
  BY DEF Dequeue, Pass, Idle
<1>2. LoopOK' /\ SnapshotOK' /\ DoneOK'  BY <1>1, NotInPass
<1>3. \A p \in AllProms : InProgress(m, p)'  BY <1>1 DEF InProgress
<1>4. ASSUME NEW n \in Monitors, n # m PROVE Undisturbed(n)
  <2>1. Steady(n)' => Steady(n)
    BY <1>1, <1>4
       DEF Steady, Federated, Exists, Pending, ServiceMonitorsFor, source
  <2> QED  BY <1>1, <2>1, QuietUndisturbed
<1>5. ASSUME NEW n \in Monitors, NEW p \in AllProms, InProgress(n, p), Steady(n), n # m
      PROVE  FALSE
  <2>1. w.m = None  BY <1>1 DEF FreshInv, LoopOK
  <2> QED  BY <1>5, <2>1, NoneAssumption DEF InProgress
<1>6. ASSUME NEW n \in Monitors, NEW p \in AllProms,
             Undisturbed(n) /\ Steady(n)' /\ ~ Blocked(n) /\ prom[p].up /\ InProgress(n, p)
      PROVE  InProgress(n, p)' \/ UpToDate(n, p)'
  BY <1>3, <1>5, <1>6 DEF Undisturbed
<1>7. FreshOrPending'  BY <1>3, <1>4, <1>6, FreshStep
<1> QED  BY <1>2, <1>7

\* A pass that is given up is queued again, and its monitor is not steady.
LEMMA GivenUp ==
  ASSUME FreshInv, w' = Idle, w.m \in queue' \cup missed',
         \A m \in Monitors : Undisturbed(m)
  PROVE  LoopOK' /\ SnapshotOK' /\ DoneOK' /\ FreshOrPending'
<1>1. w'.pc = "idle" /\ w'.m = None  BY DEF Idle
<1>2. \A m \in Monitors : \A p \in AllProms : Steady(m)' => ~ InProgress(m, p)
  BY DEF Steady, Pending, InProgress
<1> QED  BY <1>1, <1>2, PassEnds

\* A failed Get or List ends the pass with an error.
LEMMA RequestFailsFresh ==
  ASSUME FreshInv, RequestFails PROVE LoopOK' /\ SnapshotOK' /\ DoneOK' /\ FreshOrPending'
<1>1. /\ UNCHANGED <<source, copies, watch>> /\ w.pc # "down" /\ w' = Idle
      /\ queue' = queue \cup {w.m} /\ missed' = missed
  BY DEF RequestFails, ReturnErr
<1>2. \A m \in Monitors : Undisturbed(m)  BY <1>1, ReadUndisturbed
<1> QED  BY <1>1, <1>2, GivenUp

\* Discovery that fails ends the pass without an error: a miss.
LEMMA DiscoveryFailsFresh ==
  ASSUME FreshInv, DiscoveryFails PROVE LoopOK' /\ SnapshotOK' /\ DoneOK' /\ FreshOrPending'
<1>1. /\ UNCHANGED <<source, copies, watch>> /\ w.pc # "down" /\ w' = Idle
      /\ queue' = queue /\ missed' = missed \cup {w.m}
  BY DEF DiscoveryFails, ReturnNil
<1>2. \A m \in Monitors : Undisturbed(m)  BY <1>1, ReadUndisturbed
<1> QED  BY <1>1, <1>2, GivenUp

\* A panic or a crash.
LEMMA DieFresh ==
  ASSUME FreshInv, Die PROVE LoopOK' /\ SnapshotOK' /\ DoneOK' /\ FreshOrPending'
<1>1. w'.pc = "down" /\ w'.m = None  BY DEF Die, Idle
<1>2. \A m \in Monitors : ~ Steady(m)'  BY <1>1 DEF Steady, Pending
<1>3. \A m \in Monitors : Undisturbed(m)  BY DieUndisturbed
<1> QED  BY <1>1, <1>2, <1>3, PassEnds

\* The process starts again, with no pass.
LEMMA RestartFresh ==
  ASSUME FreshInv, Restart PROVE LoopOK' /\ SnapshotOK' /\ DoneOK' /\ FreshOrPending'
<1>1. w'.pc = "idle" /\ w'.m = None /\ w.pc = "down"  BY DEF Restart, Idle
<1>2. w.m = None  BY <1>1 DEF FreshInv, LoopOK
<1>3. \A m \in Monitors : \A p \in AllProms : ~ InProgress(m, p)
  BY <1>2, NoneAssumption DEF InProgress
<1>4. \A m \in Monitors : Undisturbed(m)  BY RestartUndisturbed
<1> QED  BY <1>1, <1>3, <1>4, PassEnds

\* The last pass over the Prometheuses is done; errors queue it again.
LEMMA FinishPassFresh ==
  ASSUME FreshInv, FinishPass PROVE LoopOK' /\ SnapshotOK' /\ DoneOK' /\ FreshOrPending'
<1>1. /\ UNCHANGED <<source, copies, watch, missed>> /\ w.pc = "next" /\ w' = Idle
      /\ queue' = IF w.errs THEN queue \cup {w.m} ELSE queue
      /\ \A p \in AllProms : ~ Listed(p)
  BY DEF FinishPass, ReturnErr, ReturnNil
<1>2. \A m \in Monitors : Undisturbed(m)  BY <1>1, ReadUndisturbed
<1>3. CASE w.errs  BY <1>1, <1>2, <1>3, GivenUp
<1>4. CASE ~ w.errs
  <2>1. \A m \in Monitors : \A p \in AllProms : ~ InProgress(m, p)
    BY <1>1, <1>4 DEF InProgress
  <2>2. w'.pc = "idle" /\ w'.m = None  BY <1>1 DEF Idle
  <2> QED  BY <1>2, <2>1, <2>2, PassEnds
<1> QED  BY <1>3, <1>4

\* The pass reads the spec of its monitor, or has nothing to do.
LEMMA FetchMonitorFresh ==
  ASSUME FreshInv, FetchMonitor PROVE LoopOK' /\ SnapshotOK' /\ DoneOK' /\ FreshOrPending'
<1>1. /\ UNCHANGED <<source, copies, watch, missed, queue>> /\ w.pc = "fetch"
  BY DEF FetchMonitor, ReturnNil
<1>2. \A m \in Monitors : Undisturbed(m)  BY <1>1, ReadUndisturbed
<1>3. CASE ~ Federated(w.m)
  <2>1. w'.pc = "idle" /\ w'.m = None  BY <1>3 DEF FetchMonitor, ReturnNil, Idle
  <2>2. \A m \in Monitors : \A p \in AllProms : Steady(m)' => ~ InProgress(m, p)
    BY <1>2, <1>3 DEF Undisturbed, Steady, InProgress
  <2> QED  BY <1>2, <2>1, <2>2, PassEnds
<1>4. CASE Federated(w.m)
  <2>1. w' = [w EXCEPT !.pc = "services", !.spec = mon[w.m].spec]  BY <1>4 DEF FetchMonitor
  <2>2. w'.pc = "services" /\ w'.m = w.m /\ w'.spec = mon[w.m].spec
    BY <2>1 DEF FreshInv, IInv, WorkerInv, WorkerRec
  <2>3. mon' = mon  BY <1>1 DEF source
  <2>4. LoopOK' /\ DoneOK'
    BY <2>2 DEF LoopOK, DoneOK, InLoop, InProm, Copying
  <2>5. SnapshotOK'
    BY <2>2, <2>3 DEF SnapshotOK, TargetCurrent, OwnCurrent, InLoop, InProm, Read, Copying, InPass
  <2>6. \A m \in Monitors : \A p \in AllProms : InProgress(m, p) => InProgress(m, p)'
    BY <2>2 DEF InProgress
  <2>7. FreshOrPending'  BY <1>2, <2>6, FreshStep
  <2> QED  BY <2>4, <2>5, <2>7
<1> QED  BY <1>3, <1>4

\* The Services are read in one List: all of what is steady selects is current.
LEMMA ListServicesFresh ==
  ASSUME FreshInv, ListServices PROVE LoopOK' /\ SnapshotOK' /\ DoneOK' /\ FreshOrPending'
<1>1. /\ UNCHANGED <<source, copies, watch, missed, queue>> /\ w.pc = "services"
  BY DEF ListServices
<1>2. \A m \in Monitors : Undisturbed(m)  BY <1>1, ReadUndisturbed
<1>3. PICK svcs : svcs = [s \in Services |-> IF s \in Selects[w.spec] THEN svc[s] ELSE None]
  OBVIOUS
<1>4. w' = [w EXCEPT !.pc = "secrets", !.svcs = svcs, !.toGet = CARefs[w.spec]]
  BY <1>3 DEF ListServices
<1>5. /\ w'.pc = "secrets" /\ w'.m = w.m /\ w'.spec = w.spec /\ w'.svcs = svcs
      /\ w'.toGet = CARefs[w.spec]
  BY <1>4 DEF FreshInv, IInv, WorkerInv, WorkerRec
<1>6. mon' = mon /\ svc' = svc  BY <1>1 DEF source
<1>7. LoopOK' /\ DoneOK'
  BY <1>5 DEF LoopOK, DoneOK, InLoop, InProm, Copying
<1>8. ASSUME NEW m \in Monitors, Steady(m)'
      PROVE  ServicesCurrent(m)' /\ (w.m = m => OwnCurrent(m)')
  <2>1. Steady(m)  BY <1>2, <1>8 DEF Undisturbed
  <2>2. Selects[mon[m].spec] \subseteq Services  BY <2>1, Selected DEF FreshInv
  <2>3. ServicesCurrent(m)'  BY <1>3, <1>5, <1>6, <2>2 DEF ServicesCurrent
  <2>4. w.m = m => w.spec = mon[m].spec
    BY <1>1, <2>1 DEF FreshInv, SnapshotOK, OwnCurrent, InPass
  <2>5. w.m = m => OwnCurrent(m)'
    BY <1>3, <1>5, <1>6, <2>2, <2>4 DEF OwnCurrent
  <2> QED  BY <2>3, <2>5
<1>9. SnapshotOK'
  BY <1>5, <1>8 DEF SnapshotOK, TargetCurrent, InLoop, InProm, Copying
<1>10. \A m \in Monitors : \A p \in AllProms : InProgress(m, p) => InProgress(m, p)'
  BY <1>5 DEF InProgress
<1>11. FreshOrPending'  BY <1>2, <1>10, FreshStep
<1> QED  BY <1>7, <1>9, <1>11

\* A CA Secret is read, or the pass ends with an error.
LEMMA GetSecretFresh ==
  ASSUME FreshInv, NEW x \in Secrets, GetSecret(x)
  PROVE  LoopOK' /\ SnapshotOK' /\ DoneOK' /\ FreshOrPending'
<1>1. /\ UNCHANGED <<source, copies, watch, missed>> /\ w.pc = "secrets"
      /\ queue \subseteq queue'
  BY DEF GetSecret, ReturnErr
<1>2. \A m \in Monitors : Undisturbed(m)  BY <1>1, ReadUndisturbed
<1>3. CASE secret[x] = None
  <2>1. w' = Idle /\ w.m \in queue'  BY <1>3 DEF GetSecret, ReturnErr
  <2> QED  BY <1>2, <2>1, GivenUp
<1>4. CASE secret[x] # None
  <2>1. w' = [w EXCEPT !.secs[x] = secret[x], !.toGet = @ \ {x}]  BY <1>4 DEF GetSecret
  <2>2. /\ w'.pc = "secrets" /\ w'.m = w.m /\ w'.spec = w.spec /\ w'.svcs = w.svcs
        /\ w'.toGet = w.toGet \ {x} /\ w'.secs = [w.secs EXCEPT ![x] = secret[x]]
    BY <1>1, <2>1 DEF FreshInv, IInv, WorkerInv, WorkerRec
  <2>3. mon' = mon /\ svc' = svc  BY <1>1 DEF source
  <2>4. LoopOK' /\ DoneOK'
    BY <2>2 DEF LoopOK, DoneOK, InLoop, InProm, Copying
  <2>5. \A y \in Secrets : y \in w.toGet \/ w.secs[y] # None
                             => y \in w'.toGet \/ w'.secs[y] # None
    BY <1>4, <2>2 DEF FreshInv, IInv, WorkerInv, WorkerRec
  <2>6. ASSUME NEW m \in Monitors, Steady(m)'
        PROVE  ServicesCurrent(m)' /\ (w.m = m => OwnCurrent(m)')
    <3>1. Steady(m)  BY <1>2, <2>6 DEF Undisturbed
    <3>2. CARefs[mon[m].spec] \subseteq Secrets  BY <3>1, Selected DEF FreshInv
    <3>3. ServicesCurrent(m) /\ (w.m = m => OwnCurrent(m))
      BY <1>1, <3>1 DEF FreshInv, SnapshotOK, Read
    <3>4. ServicesCurrent(m)'  BY <2>2, <2>3, <3>3 DEF ServicesCurrent
    <3>5. w.m = m => OwnCurrent(m)'
      BY <1>1, <2>2, <2>3, <2>5, <3>2, <3>3 DEF OwnCurrent, Read, InPass
    <3> QED  BY <3>4, <3>5
  <2>7. SnapshotOK'
    BY <2>2, <2>6 DEF SnapshotOK, TargetCurrent, InLoop, InProm, Copying
  <2>8. \A m \in Monitors : \A p \in AllProms : InProgress(m, p) => InProgress(m, p)'
    BY <2>2 DEF InProgress
  <2>9. FreshOrPending'  BY <1>2, <2>8, FreshStep
  <2> QED  BY <2>4, <2>7, <2>9
<1> QED  BY <1>3, <1>4

\* Every Prometheus that is up is listed, under the UID it has.
LEMMA ListPromsFresh ==
  ASSUME FreshInv, ListProms PROVE LoopOK' /\ SnapshotOK' /\ DoneOK' /\ FreshOrPending'
<1>1. /\ UNCHANGED <<source, copies, watch, missed, queue>> /\ w.pc = "secrets"
      /\ w.toGet = {}
  BY DEF ListProms
<1>2. \A m \in Monitors : Undisturbed(m)  BY <1>1, ReadUndisturbed
<1>3. PICK uids : uids = [p \in AllProms |-> IF prom[p].up THEN prom[p].uid ELSE 0]
  OBVIOUS
<1>4. w' = [w EXCEPT !.pc = "next", !.todo = uids]  BY <1>3 DEF ListProms
<1>5. /\ w'.pc = "next" /\ w'.m = w.m /\ w'.spec = w.spec /\ w'.svcs = w.svcs
      /\ w'.toGet = w.toGet /\ w'.secs = w.secs /\ w'.todo = uids /\ w'.errs = w.errs
  BY <1>4 DEF FreshInv, IInv, WorkerInv, WorkerRec
<1>6. mon' = mon /\ svc' = svc /\ prom' = prom  BY <1>1 DEF source
<1>7. LoopOK' /\ DoneOK'
  BY <1>1, <1>5 DEF LoopOK, DoneOK, InLoop, InProm, Copying
<1>8. PromsCurrent'  BY <1>3, <1>5, <1>6 DEF PromsCurrent, PromLives, Listed
<1>9. ASSUME NEW m \in Monitors, Steady(m)'
      PROVE  ServicesCurrent(m)' /\ (w.m = m => OwnCurrent(m)')
  <2>1. Steady(m)  BY <1>2, <1>9 DEF Undisturbed
  <2>2. ServicesCurrent(m) /\ (w.m = m => OwnCurrent(m))
    BY <1>1, <2>1 DEF FreshInv, SnapshotOK, Read
  <2>3. ServicesCurrent(m)'  BY <1>5, <1>6, <2>2 DEF ServicesCurrent
  <2>4. w.m = m => OwnCurrent(m)'
    BY <1>1, <1>5, <1>6, <2>2 DEF OwnCurrent, Read, InPass
  <2> QED  BY <2>3, <2>4
<1>10. SnapshotOK'
  BY <1>5, <1>8, <1>9 DEF SnapshotOK, TargetCurrent, Copying
<1>11. \A m \in Monitors : \A p \in AllProms :
          prom[p].up /\ InProgress(m, p) => InProgress(m, p)'
  <2>1. \A p \in AllProms : prom[p].up => uids[p] # 0
    BY <1>3 DEF FreshInv, UidsOK
  <2> QED  BY <1>5, <2>1 DEF InProgress, Listed
<1>12. FreshOrPending'  BY <1>2, <1>11, FreshStep
<1> QED  BY <1>7, <1>10, <1>12

\* The locals that the loop over the Prometheuses leaves alone stay current.
LEMMA LoopStep ==
  ASSUME FreshInv, \A m \in Monitors : Undisturbed(m),
         w.pc \in InLoop, w'.pc \in InLoop, w'.m = w.m, w'.svcs = w.svcs,
         w'.secs = w.secs, w'.toGet = w.toGet,
         \A p \in AllProms : w'.todo[p] \in {0, w.todo[p]},
         \A m \in Monitors : Steady(m)' =>
            TargetCurrent' /\ (w.m = m => w'.spec = mon[m].spec)
  PROVE  SnapshotOK'
<1> SUFFICES ASSUME NEW m \in Monitors, Steady(m)'
             PROVE  ServicesCurrent(m)' /\ PromsCurrent' /\ (w.m = m => OwnCurrent(m)')
  BY DEF SnapshotOK
<1>1. /\ Steady(m) /\ mon'[m] = mon[m] /\ prom' = prom
      /\ \A s \in Selects[mon[m].spec] : svc'[s] = svc[s]
  BY DEF Undisturbed
<1>2. w.pc \in Read /\ w'.pc \in Read  BY DEF Read
<1>3. ServicesCurrent(m) /\ PromsCurrent /\ (w.m = m => OwnCurrent(m))
  BY <1>1, <1>2 DEF FreshInv, SnapshotOK
<1>4. ServicesCurrent(m)'  BY <1>1, <1>3 DEF ServicesCurrent
<1>5. PromsCurrent'  BY <1>1, <1>3 DEF PromsCurrent, PromLives, Listed
<1>6. w.m = m => OwnCurrent(m)'
  BY <1>1, <1>2, <1>3 DEF OwnCurrent
<1> QED  BY <1>4, <1>5, <1>6

\* So does the target of the pass while it copies.
LEMMA TargetStays ==
  ASSUME FreshInv, NEW m \in Monitors, Undisturbed(m), Steady(m)', w.pc \in Copying,
         w'.p = w.p, w'.m = w.m, w'.tgt = w.tgt
  PROVE  TargetCurrent'
<1> SUFFICES ASSUME w.tgt # 0, NEW p \in ProjectProms, p = w.p,
                    NEW own \in Owner, own = TargetRef
             PROVE  OwnedNow(p, own)'
  <2>1. ASSUME w.tgt # 0 PROVE w.p \in ProjectProms /\ TargetRef \in Owner
    BY <2>1, TargetRefOK DEF FreshInv, Copying
  <2>2. TargetRef' = TargetRef  BY DEF TargetRef
  <2> QED  BY <2>1, <2>2 DEF TargetCurrent, OwnedNow, MonitorLives
<1>1. Steady(m)  BY DEF Undisturbed
<1>2. OwnedNow(p, own)  BY <1>1, TargetLives
<1> QED  BY <1>2 DEF Undisturbed

\* The spec that the pass over a steady monitor has read.
LEMMA OwnSpec ==
  ASSUME FreshInv, NEW m \in Monitors, Undisturbed(m), Steady(m)', w.m = m, w.pc \in InLoop
  PROVE  w.spec = mon[m].spec
<1>1. Steady(m)  BY DEF Undisturbed
<1>2. w.pc \in InPass \ {"fetch"}  BY DEF InLoop, InProm, InPass
<1> QED  BY <1>1, <1>2 DEF FreshInv, SnapshotOK, OwnCurrent

\* A monitor in the namespace of a listed, hence living Prometheus is blocked.
LEMMA NextPromFresh ==
  ASSUME FreshInv, NEW p \in AllProms, NextProm(p)
  PROVE  LoopOK' /\ SnapshotOK' /\ DoneOK' /\ FreshOrPending'
<1>1. /\ UNCHANGED <<source, copies, watch, missed, queue>> /\ w.pc = "next" /\ Listed(p)
  BY DEF NextProm, ReturnNil
<1>2. \A m \in Monitors : Undisturbed(m)  BY <1>1, ReadUndisturbed
<1>3. CASE p # DefaultProm /\ PromNs[p] = MonitorNs[w.m]
  <2>1. w'.pc = "idle" /\ w'.m = None  BY <1>3 DEF NextProm, ReturnNil, Idle
  <2>2. p \in ProjectProms  BY <1>3 DEF AllProms
  <2>3. ASSUME NEW m \in Monitors, Steady(m)', w.m = m PROVE Blocked(m)
    <3>1. PromLives(p, w.todo[p])
      BY <1>1, <1>2, <2>3 DEF Undisturbed, FreshInv, SnapshotOK, PromsCurrent, InLoop
    <3> QED  BY <1>3, <2>2, <2>3, <3>1 DEF Blocked, PromLives
  <2>4. \A m \in Monitors : \A q \in AllProms :
           Steady(m)' /\ ~ Blocked(m) => ~ InProgress(m, q)
    BY <2>3 DEF InProgress
  <2> QED  BY <1>2, <2>1, <2>4, PassEnds
<1>4. CASE ~ (p # DefaultProm /\ PromNs[p] = MonitorNs[w.m])
  <2>1. PICK pc \in {"labels", "namespaces"} : pc = "labels" <=> p = DefaultProm
    BY DEF AllProms
  <2>2. w' = [w EXCEPT !.p = p, !.pc = pc]  BY <1>4, <2>1 DEF NextProm
  <2>3. /\ w'.pc = pc /\ w'.p = p /\ w'.m = w.m /\ w'.spec = w.spec /\ w'.svcs = w.svcs
        /\ w'.toGet = w.toGet /\ w'.secs = w.secs /\ w'.todo = w.todo /\ w'.errs = w.errs
    BY <2>2 DEF FreshInv, IInv, WorkerInv, WorkerRec
  <2>4. LoopOK' /\ DoneOK'
    BY <1>1, <2>1, <2>3 DEF FreshInv, LoopOK, DoneOK, InLoop, InProm, Copying, Listed
  <2>5. TargetCurrent'  BY <2>3 DEF TargetCurrent, Copying
  <2>6. SnapshotOK'
    BY <1>1, <1>2, <2>3, <2>5, LoopStep, OwnSpec DEF InLoop, InProm
  <2>7. \A m \in Monitors : \A q \in AllProms : InProgress(m, q) => InProgress(m, q)'
    BY <1>1, <2>3 DEF InProgress, Listed
  <2>8. FreshOrPending'  BY <1>2, <2>7, FreshStep
  <2> QED  BY <2>4, <2>6, <2>8
<1> QED  BY <1>3, <1>4

\* The label of a steady monitor was there already, or could not be written.
LEMMA PatchLabelsFresh ==
  ASSUME FreshInv, NEW out \in Outcomes, PatchLabels(out)
  PROVE  LoopOK' /\ SnapshotOK' /\ DoneOK' /\ FreshOrPending'
<1>1. w.pc = "labels" /\ w.m \in Monitors
  BY DEF PatchLabels, FreshInv, IInv, WorkerInv, LocalsOK, InPass
<1>2. \A m \in Monitors : Undisturbed(m)  BY PatchLabelsUndisturbed DEF FreshInv
<1>3. PICK spec : spec = IF out = "ok" THEN mon[w.m].spec ELSE w.spec  OBVIOUS
<1>4. PICK errs \in BOOLEAN : errs <=> w.errs \/ out # "ok"  OBVIOUS
<1>5. PICK todo : todo = [w.todo EXCEPT ![DefaultProm] = 0]  OBVIOUS
<1>6. w' = [w EXCEPT !.pc = "next", !.p = None, !.todo = todo, !.spec = spec, !.errs = errs]
  BY <1>3, <1>4, <1>5 DEF PatchLabels, FreshInv, IInv, WorkerInv, WorkerRec
<1>7. /\ w'.pc = "next" /\ w'.m = w.m /\ w'.spec = spec /\ w'.svcs = w.svcs
      /\ w'.toGet = w.toGet /\ w'.secs = w.secs /\ w'.todo = todo /\ w'.errs = errs
  BY <1>6 DEF FreshInv, IInv, WorkerInv, WorkerRec
<1>8. \A p \in AllProms : todo[p] = IF p = DefaultProm THEN 0 ELSE w.todo[p]
  BY <1>5 DEF FreshInv, IInv, WorkerInv, WorkerRec
<1>9. LoopOK' /\ DoneOK'
  BY <1>1, <1>7 DEF FreshInv, LoopOK, DoneOK, InLoop, InProm, Copying
<1>10. TargetCurrent'  BY <1>7 DEF TargetCurrent, Copying
<1>11. \A m \in Monitors : Steady(m)' /\ w.m = m => spec = mon[m].spec
  BY <1>1, <1>2, <1>3, OwnSpec DEF InLoop
<1>12. SnapshotOK'
  BY <1>1, <1>2, <1>7, <1>8, <1>10, <1>11, LoopStep DEF InLoop
<1>13. ASSUME NEW m \in Monitors, NEW p \in AllProms, Steady(m)', InProgress(m, p)
       PROVE  InProgress(m, p)' \/ UpToDate(m, p)'
  <2>1. w.m = m /\ (w.errs \/ w.todo[p] # 0)
    BY <1>1, <1>13 DEF InProgress, Listed
  <2>2. CASE errs  BY <1>7, <2>1, <2>2 DEF InProgress
  <2>3. CASE ~ errs /\ p # DefaultProm
    BY <1>4, <1>7, <1>8, <2>1, <2>3 DEF InProgress, Listed
  <2>4. CASE ~ errs /\ p = DefaultProm
    <3>1. out = "ok" /\ Steady(m) /\ mon'[m] = mon[m]
      BY <1>2, <1>4, <1>13, <2>4 DEF Undisturbed
    <3>2. Exists(m) /\ mon[m] \in MonRec
      BY <3>1, Selected DEF Steady, Federated, FreshInv
    <3>3. mon' = [mon EXCEPT ![m] = Labelled]  BY <2>1, <3>1, <3>2 DEF PatchLabels
    <3>4. mon'[m].lab
      BY <2>1, <3>2, <3>3 DEF Labelled, MonRec, FreshInv, IInv, SourceInv, SourceOK
    <3> QED  BY <2>4, <3>4 DEF UpToDate
  <2> QED  BY <2>2, <2>3, <2>4
<1>14. FreshOrPending'  BY <1>2, <1>13, FreshStep
<1> QED  BY <1>9, <1>12, <1>14

\* The namespaces of the project; an error is collected, and nothing copied.
LEMMA ListNamespacesFresh ==
  ASSUME FreshInv, NEW out \in Outcomes, ListNamespaces(out)
  PROVE  LoopOK' /\ SnapshotOK' /\ DoneOK' /\ FreshOrPending'
<1>1. /\ UNCHANGED <<source, copies, watch, missed, queue>> /\ w.pc = "namespaces"
  BY DEF ListNamespaces
<1>2. \A m \in Monitors : Undisturbed(m)  BY <1>1, ReadUndisturbed
<1>3. /\ w'.m = w.m /\ w'.spec = w.spec /\ w'.svcs = w.svcs /\ w'.toGet = w.toGet
      /\ w'.secs = w.secs /\ w'.todo = w.todo /\ w'.p = w.p
      /\ \/ w'.pc = "monitor" /\ w'.errs = w.errs
         \/ w'.pc = "copies" /\ w'.errs = TRUE /\ w'.tgt = 0
  <2>1. CASE out = "ok"
    <3>1. w' = [w EXCEPT !.pc = "monitor", !.keep = KeptNamespaces(w.p)]
      BY <2>1 DEF ListNamespaces
    <3> QED  BY <3>1 DEF FreshInv, IInv, WorkerInv, WorkerRec
  <2>2. CASE out # "ok"
    <3>1. PICK ss, xs : w' = [w EXCEPT !.pc = "copies", !.errs = TRUE, !.tgt = 0,
                                       !.svcTodo = ss, !.secTodo = xs]
      BY <2>2 DEF ListNamespaces
    <3> QED  BY <3>1 DEF FreshInv, IInv, WorkerInv, WorkerRec
  <2> QED  BY <2>1, <2>2
<1>4. LoopOK' /\ DoneOK'
  BY <1>1, <1>3 DEF FreshInv, LoopOK, DoneOK, InLoop, InProm, Copying, Listed
<1>5. TargetCurrent'  BY <1>3 DEF TargetCurrent, Copying
<1>6. SnapshotOK'
  BY <1>1, <1>2, <1>3, <1>5, LoopStep, OwnSpec DEF InLoop, InProm
<1>7. \A m \in Monitors : \A p \in AllProms : InProgress(m, p) => InProgress(m, p)'
  BY <1>1, <1>3 DEF InProgress, Listed
<1>8. FreshOrPending'  BY <1>2, <1>7, FreshStep
<1> QED  BY <1>4, <1>6, <1>8
-----------------------------------------------------------------------------
(* The copies of one Prometheus.                                           *)

\* The copy of the monitor is the first of the copies to be up to date.
LEMMA CopyMonitorFresh ==
  ASSUME FreshInv, NEW out \in Outcomes, CopyMonitor(out)
  PROVE  LoopOK' /\ SnapshotOK' /\ DoneOK' /\ FreshOrPending'
<1>1. UNCHANGED <<source, cSvc, cEp, cSec>> /\ w.pc = "monitor"  BY DEF CopyMonitor
<1>2. \A m \in Monitors : Undisturbed(m)  BY CopyMonitorUndisturbed
<1>3. PICK p \in ProjectProms, n \in Monitors : p = w.p /\ n = w.m
  BY <1>1 DEF FreshInv, IInv, WorkerInv, LocalsOK, InPass, InProm
<1>4. PICK copy \in CMonRec :
         /\ copy.uid # 0 /\ copy.owner = w.todo[p] /\ copy.spec = w.spec
         /\ cMon[p][n] # None => copy.uid = cMon[p][n].uid
         /\ cMon' = IF out = "rejected" THEN cMon ELSE [cMon EXCEPT ![p][n] = copy]
         /\ w'.tgt = IF out = "ok" THEN copy.uid ELSE 0
  <2>1. IInv  BY DEF FreshInv
  <2>2. p = w.p /\ n = w.m  BY <1>3
  <2> QED  BY <1>3, <2>1, <2>2, MonitorWritten, Zenon
<1>5. /\ w'.pc = "copies" /\ w'.m = n /\ w'.spec = w.spec /\ w'.svcs = w.svcs
      /\ w'.toGet = w.toGet /\ w'.secs = w.secs /\ w'.todo = w.todo /\ w'.p = p
      /\ w'.svcTodo = {s \in Services : w.svcs[s] # None}
      /\ w'.secTodo = {x \in Secrets : w.secs[x] # None}
      /\ w'.errs <=> w.errs \/ out # "ok"
  <2>1. PICK ss, xs, t, e :
           /\ w' = [w EXCEPT !.pc = "copies", !.keep = {}, !.tgt = t, !.svcTodo = ss,
                             !.secTodo = xs, !.errs = e]
           /\ ss = {s \in Services : w.svcs[s] # None}
           /\ xs = {x \in Secrets : w.secs[x] # None}
           /\ e = (w.errs \/ out # "ok")
    BY DEF CopyMonitor
  <2>2. /\ w'.pc = "copies" /\ w'.m = w.m /\ w'.spec = w.spec /\ w'.svcs = w.svcs
        /\ w'.toGet = w.toGet /\ w'.secs = w.secs /\ w'.todo = w.todo /\ w'.p = w.p
    BY <2>1 DEF FreshInv, IInv, WorkerInv, WorkerRec
  <2>3. w'.svcTodo = ss /\ w'.secTodo = xs /\ w'.errs = e
    BY <2>1 DEF FreshInv, IInv, WorkerInv, WorkerRec
  <2> QED  BY <1>3, <2>1, <2>2, <2>3
<1>6. LoopOK'
  BY <1>1, <1>3, <1>5 DEF FreshInv, LoopOK, InLoop, InProm, Listed
<1>7. ASSUME NEW m \in Monitors, Steady(m)' PROVE PromLives(p, w.todo[p])'
  <2>1. Steady(m) /\ prom' = prom  BY <1>2, <1>7 DEF Undisturbed
  <2>2. Listed(p)  BY <1>1, <1>3 DEF FreshInv, LoopOK, InProm
  <2>3. PromLives(p, w.todo[p])
    BY <1>1, <2>1, <2>2 DEF FreshInv, SnapshotOK, PromsCurrent, InLoop, InProm, AllProms
  <2> QED  BY <1>5, <2>1, <2>3 DEF PromLives
<1>8. out = "ok" => cMon'[p][n] = copy /\ copy # None
  BY <1>4, NoObjectAssumption DEF FreshInv, IInv, CopiesInv, CopiesOK
<1>9. ASSUME NEW m \in Monitors, Steady(m)' PROVE TargetCurrent'
  <2>1. CASE out # "ok"  BY <1>4, <2>1 DEF TargetCurrent
  <2>2. CASE out = "ok"
    <3>1. PromLives(p, copy.owner)'  BY <1>4, <1>5, <1>7, <1>9 DEF PromLives
    <3>2. w'.tgt = copy.uid  BY <1>4, <2>2
    <3>3. TargetRef' = <<n, copy.uid>>  BY <1>5, <3>2 DEF TargetRef
    <3> QED  BY <1>5, <1>8, <2>2, <3>1, <3>3
             DEF TargetCurrent, OwnedNow, MonitorLives, PromLives
  <2> QED  BY <2>1, <2>2
<1>10. SnapshotOK'
  BY <1>1, <1>2, <1>3, <1>5, <1>9, LoopStep, OwnSpec DEF InLoop, InProm
<1>11. ASSUME Steady(n)', ~ w'.errs
       PROVE  /\ w'.tgt # 0
              /\ MonitorMirrored(p, n)'
              /\ \A s \in Selects[mon'[n].spec] \ w'.svcTodo : svc'[s] = None
              /\ CARefs[mon'[n].spec] \subseteq w'.secTodo
  <2>1. out = "ok" /\ Steady(n) /\ mon'[n] = mon[n] /\ svc' = svc
    BY <1>1, <1>2, <1>5, <1>11 DEF Undisturbed, source
  <2>2. w'.tgt # 0  BY <1>4, <2>1
  <2>3. w.spec = mon[n].spec  BY <1>1, <1>2, <1>3, <1>11, OwnSpec DEF InLoop, InProm
  <2>4. PromLives(p, copy.owner)'  BY <1>4, <1>5, <1>7, <1>11 DEF PromLives
  <2>5. MonitorMirrored(p, n)'
    BY <1>4, <1>8, <2>1, <2>3, <2>4 DEF MonitorMirrored, PromLives
  <2>6. OwnCurrent(n) /\ w.pc \in Read
    BY <1>1, <1>3, <2>1 DEF FreshInv, SnapshotOK, Read, InLoop, InProm
  <2>7. Selects[mon[n].spec] \subseteq Services /\ CARefs[mon[n].spec] \subseteq Secrets
    BY <2>1, Selected DEF FreshInv
  <2>8. \A s \in Selects[mon[n].spec] : w.svcs[s] = svc[s]
    BY <2>6 DEF OwnCurrent
  <2>9. \A x \in CARefs[mon[n].spec] : w.secs[x] # None
    BY <1>1, <2>6 DEF OwnCurrent, FreshInv, LoopOK, InLoop, InProm
  <2> QED  BY <1>5, <2>1, <2>2, <2>5, <2>7, <2>8, <2>9
<1>12. DoneOK'  BY <1>3, <1>5, <1>11 DEF DoneOK
<1>13. \A m \in Monitors : \A q \in AllProms : InProgress(m, q) => InProgress(m, q)'
  BY <1>1, <1>3, <1>5 DEF InProgress, Listed
<1>14. FreshOrPending'  BY <1>2, <1>13, FreshStep
<1> QED  BY <1>6, <1>10, <1>12, <1>14

\* A write to a Service, an Endpoints or a Secret: what remains to be looked at

\* is the copies that the pass is done with.
LEMMA CopyingStep ==
  ASSUME FreshInv, \A m \in Monitors : Undisturbed(m),
         w.pc \in Copying, w'.pc \in Copying, w'.m = w.m, w'.spec = w.spec,
         w'.svcs = w.svcs, w'.secs = w.secs, w'.toGet = w.toGet, w'.todo = w.todo,
         w'.p = w.p, w'.tgt = w.tgt, w.errs => w'.errs
  PROVE  LoopOK' /\ SnapshotOK' /\ FreshOrPending'
<1>1. w.pc \in InLoop /\ w'.pc \in InLoop /\ w.pc \in InProm /\ w'.pc \in InProm
  BY DEF InLoop, InProm, Copying
<1>2. LoopOK'  BY <1>1 DEF FreshInv, LoopOK, Listed, InProm, Copying
<1>3. SnapshotOK'
  <2>1. \A m \in Monitors : Steady(m)' => TargetCurrent'  BY TargetStays
  <2> QED  BY <1>1, <2>1, LoopStep, OwnSpec
<1>4. \A m \in Monitors : \A q \in AllProms : InProgress(m, q) => InProgress(m, q)'
  BY DEF InProgress, Listed, Copying
<1>5. FreshOrPending'  BY <1>4, FreshStep
<1> QED  BY <1>2, <1>3, <1>5

\* What the pass was done with, for its own monitor, stays done.
LEMMA DoneStays ==
  ASSUME FreshInv, NEW m \in Monitors, Undisturbed(m), Steady(m)', w.m = m,
         w.pc \in Copying, ~ w.errs, NEW p \in ProjectProms, p = w.p
  PROVE  /\ Steady(m) /\ mon'[m] = mon[m] /\ w.tgt # 0
         /\ Selects[mon[m].spec] \subseteq Services /\ CARefs[mon[m].spec] \subseteq Secrets
         /\ MonitorMirrored(p, m)'
         /\ \A s \in Selects[mon[m].spec] \ w.svcTodo : svc[s] # None =>
              /\ ServiceCopied(p, s)'
              /\ (w.pc = "endpoints" /\ w.s = s) \/ EndpointsCopied(p, s)'
         /\ \A x \in CARefs[mon[m].spec] \ w.secTodo : SecretMirrored(p, x)'
<1>1. Steady(m) /\ mon'[m] = mon[m]  BY DEF Undisturbed
<1>2. Selects[mon[m].spec] \subseteq Services /\ CARefs[mon[m].spec] \subseteq Secrets
  BY <1>1, Selected DEF FreshInv
<1>3. /\ w.tgt # 0
      /\ MonitorMirrored(p, m)
      /\ \A s \in Selects[mon[m].spec] \ w.svcTodo : svc[s] # None =>
           /\ ServiceCopied(p, s)
           /\ (w.pc = "endpoints" /\ w.s = s) \/ EndpointsCopied(p, s)
      /\ \A x \in CARefs[mon[m].spec] \ w.secTodo : SecretMirrored(p, x)
  BY <1>1 DEF FreshInv, DoneOK
<1> QED  BY <1>1, <1>2, <1>3 DEF Undisturbed

\* A Service of the pass's monitor is copied; its Endpoints come next.
LEMMA CopyServiceFresh ==
  ASSUME FreshInv, NEW k \in Services, NEW out \in Outcomes, CopyService(k, out)
  PROVE  LoopOK' /\ SnapshotOK' /\ DoneOK' /\ FreshOrPending'
<1>1. w.pc = "copies" /\ UNCHANGED <<source, cEp, cSec>>  BY DEF CopyService
<1>2. \A m \in Monitors : Undisturbed(m)  BY CopyServiceUndisturbed
<1>3. PICK errs : errs = (w.errs \/ out # "ok")  OBVIOUS
<1>4. w' = [w EXCEPT !.pc = "endpoints", !.s = k, !.svcTodo = @ \ {k}, !.errs = errs]
  BY <1>3 DEF CopyService
<1>5. /\ w'.pc = "endpoints" /\ w'.m = w.m /\ w'.spec = w.spec /\ w'.svcs = w.svcs
      /\ w'.secs = w.secs /\ w'.toGet = w.toGet /\ w'.todo = w.todo /\ w'.p = w.p
  BY <1>4 DEF FreshInv, IInv, WorkerInv, WorkerRec
<1>6. /\ w'.tgt = w.tgt /\ w'.s = k /\ w'.svcTodo = w.svcTodo \ {k}
      /\ w'.secTodo = w.secTodo /\ w'.errs = errs
  BY <1>4 DEF FreshInv, IInv, WorkerInv, WorkerRec
<1>7. LoopOK' /\ SnapshotOK' /\ FreshOrPending'
  BY <1>1, <1>2, <1>3, <1>5, <1>6, CopyingStep DEF Copying
<1>8. PICK p \in ProjectProms, m \in Monitors : p = w.p /\ m = w.m
  BY <1>1 DEF FreshInv, IInv, WorkerInv, LocalsOK, InPass, InProm
<1>9. ASSUME Steady(m)', ~ errs
      PROVE  /\ mon'[m] = mon[m] /\ w.tgt # 0 /\ MonitorMirrored(p, m)'
             /\ \A s \in Selects[mon[m].spec] \ w'.svcTodo : svc[s] # None =>
                  ServiceCopied(p, s)' /\ (s = k \/ EndpointsCopied(p, s)')
             /\ \A x \in CARefs[mon[m].spec] \ w.secTodo : SecretMirrored(p, x)'
  <2>1. ~ w.errs /\ out # "rejected"  BY <1>3, <1>9
  <2>2. /\ Steady(m) /\ mon'[m] = mon[m] /\ w.tgt # 0 /\ MonitorMirrored(p, m)'
        /\ \A s \in Selects[mon[m].spec] \ w.svcTodo : svc[s] # None =>
             ServiceCopied(p, s)' /\ EndpointsCopied(p, s)'
        /\ \A x \in CARefs[mon[m].spec] \ w.secTodo : SecretMirrored(p, x)'
    BY <1>1, <1>2, <1>8, <1>9, <2>1, DoneStays DEF Copying
  <2>3. k \in Selects[mon[m].spec] => ServiceCopied(p, k)'
    BY <1>8, <2>1, <2>2, ServiceWritten
  <2> QED  BY <1>6, <2>2, <2>3
<1>10. DoneOK'
  <2>1. svc' = svc  BY <1>1 DEF source
  <2> QED  BY <1>5, <1>6, <1>8, <1>9, <2>1 DEF DoneOK
<1> QED  BY <1>7, <1>10

\* The Endpoints of that Service are copied.
LEMMA CopyEndpointsFresh ==
  ASSUME FreshInv, NEW out \in Outcomes, CopyEndpoints(out)
  PROVE  LoopOK' /\ SnapshotOK' /\ DoneOK' /\ FreshOrPending'
<1>1. w.pc = "endpoints" /\ UNCHANGED <<source, cSvc, cSec>>  BY DEF CopyEndpoints
<1>2. \A m \in Monitors : Undisturbed(m)  BY CopyEndpointsUndisturbed
<1>3. PICK errs : errs = (w.errs \/ out # "ok")  OBVIOUS
<1>4. w' = [w EXCEPT !.pc = "copies", !.s = None, !.errs = errs]
  BY <1>3 DEF CopyEndpoints
<1>5. /\ w'.pc = "copies" /\ w'.m = w.m /\ w'.spec = w.spec /\ w'.svcs = w.svcs
      /\ w'.secs = w.secs /\ w'.toGet = w.toGet /\ w'.todo = w.todo /\ w'.p = w.p
  BY <1>4 DEF FreshInv, IInv, WorkerInv, WorkerRec
<1>6. /\ w'.tgt = w.tgt /\ w'.svcTodo = w.svcTodo
      /\ w'.secTodo = w.secTodo /\ w'.errs = errs
  BY <1>4 DEF FreshInv, IInv, WorkerInv, WorkerRec
<1>7. LoopOK' /\ SnapshotOK' /\ FreshOrPending'
  BY <1>1, <1>2, <1>3, <1>5, <1>6, CopyingStep DEF Copying
<1>8. PICK p \in ProjectProms, m \in Monitors, k \in Services : p = w.p /\ m = w.m /\ k = w.s
  BY <1>1 DEF FreshInv, IInv, WorkerInv, LocalsOK, InPass, InProm
<1>9. ASSUME Steady(m)', ~ errs
      PROVE  /\ mon'[m] = mon[m] /\ w.tgt # 0 /\ MonitorMirrored(p, m)'
             /\ \A s \in Selects[mon[m].spec] \ w.svcTodo : svc[s] # None =>
                  ServiceCopied(p, s)' /\ EndpointsCopied(p, s)'
             /\ \A x \in CARefs[mon[m].spec] \ w.secTodo : SecretMirrored(p, x)'
  <2>1. ~ w.errs /\ out # "rejected"  BY <1>3, <1>9
  <2>2. /\ Steady(m) /\ mon'[m] = mon[m] /\ w.tgt # 0 /\ MonitorMirrored(p, m)'
        /\ \A s \in Selects[mon[m].spec] \ w.svcTodo : svc[s] # None =>
             ServiceCopied(p, s)' /\ (s = k \/ EndpointsCopied(p, s)')
        /\ \A x \in CARefs[mon[m].spec] \ w.secTodo : SecretMirrored(p, x)'
    BY <1>1, <1>2, <1>8, <1>9, <2>1, DoneStays DEF Copying
  <2>3. EndpointsCopied(p, k)'  BY <1>8, <2>1, <2>2, EndpointsWritten
  <2> QED  BY <2>2, <2>3
<1>10. DoneOK'
  <2>1. svc' = svc  BY <1>1 DEF source
  <2> QED  BY <1>5, <1>6, <1>8, <1>9, <2>1 DEF DoneOK
<1> QED  BY <1>7, <1>10

\* A CA Secret of the pass's monitor is copied.
LEMMA CopySecretFresh ==
  ASSUME FreshInv, NEW k \in Secrets, NEW out \in Outcomes, CopySecret(k, out)
  PROVE  LoopOK' /\ SnapshotOK' /\ DoneOK' /\ FreshOrPending'
<1>1. w.pc = "copies" /\ UNCHANGED <<source, cSvc, cEp>>  BY DEF CopySecret
<1>2. \A m \in Monitors : Undisturbed(m)  BY CopySecretUndisturbed
<1>3. PICK errs : errs = (w.errs \/ out # "ok")  OBVIOUS
<1>4. w' = [w EXCEPT !.secTodo = @ \ {k}, !.errs = errs]
  BY <1>3 DEF CopySecret
<1>5. /\ w'.pc = "copies" /\ w'.m = w.m /\ w'.spec = w.spec /\ w'.svcs = w.svcs
      /\ w'.secs = w.secs /\ w'.toGet = w.toGet /\ w'.todo = w.todo /\ w'.p = w.p
  BY <1>1, <1>4 DEF FreshInv, IInv, WorkerInv, WorkerRec
<1>6. /\ w'.tgt = w.tgt /\ w'.svcTodo = w.svcTodo
      /\ w'.secTodo = w.secTodo \ {k} /\ w'.errs = errs
  BY <1>4 DEF FreshInv, IInv, WorkerInv, WorkerRec
<1>7. LoopOK' /\ SnapshotOK' /\ FreshOrPending'
  BY <1>1, <1>2, <1>3, <1>5, <1>6, CopyingStep DEF Copying
<1>8. PICK p \in ProjectProms, m \in Monitors : p = w.p /\ m = w.m
  BY <1>1 DEF FreshInv, IInv, WorkerInv, LocalsOK, InPass, InProm
<1>9. ASSUME Steady(m)', ~ errs
      PROVE  /\ mon'[m] = mon[m] /\ w.tgt # 0 /\ MonitorMirrored(p, m)'
             /\ \A s \in Selects[mon[m].spec] \ w.svcTodo : svc[s] # None =>
                  ServiceCopied(p, s)' /\ EndpointsCopied(p, s)'
             /\ \A x \in CARefs[mon[m].spec] \ w'.secTodo : SecretMirrored(p, x)'
  <2>1. ~ w.errs /\ out # "rejected"  BY <1>3, <1>9
  <2>2. /\ Steady(m) /\ mon'[m] = mon[m] /\ w.tgt # 0 /\ MonitorMirrored(p, m)'
        /\ \A s \in Selects[mon[m].spec] \ w.svcTodo : svc[s] # None =>
             ServiceCopied(p, s)' /\ EndpointsCopied(p, s)'
        /\ \A x \in CARefs[mon[m].spec] \ w.secTodo : SecretMirrored(p, x)'
    BY <1>1, <1>2, <1>8, <1>9, <2>1, DoneStays DEF Copying
  <2>3. SecretMirrored(p, k)'  BY <1>8, <2>1, <2>2, SecretWritten
  <2> QED  BY <1>6, <2>2, <2>3
<1>10. DoneOK'
  <2>1. svc' = svc  BY <1>1 DEF source
  <2> QED  BY <1>5, <1>6, <1>8, <1>9, <2>1 DEF DoneOK
<1> QED  BY <1>7, <1>10

\* Nothing is left to copy for the Prometheus at hand: it is up to date.
LEMMA EndOfPromFresh ==
  ASSUME FreshInv, EndOfProm PROVE LoopOK' /\ SnapshotOK' /\ DoneOK' /\ FreshOrPending'
<1>1. /\ UNCHANGED <<source, copies, watch, missed, queue>> /\ w.pc = "copies"
      /\ w.svcTodo = {} /\ w.secTodo = {}
  BY DEF EndOfProm
<1>2. \A m \in Monitors : Undisturbed(m)  BY <1>1, ReadUndisturbed
<1>3. PICK p \in ProjectProms, n \in Monitors : p = w.p /\ n = w.m
  BY <1>1 DEF FreshInv, IInv, WorkerInv, LocalsOK, InPass, InProm
<1>4. w' = [w EXCEPT !.pc = "next", !.todo[w.p] = 0, !.p = None, !.tgt = 0]
  BY DEF EndOfProm
<1>5. /\ w'.pc = "next" /\ w'.m = n /\ w'.spec = w.spec /\ w'.svcs = w.svcs
      /\ w'.toGet = w.toGet /\ w'.secs = w.secs /\ w'.errs = w.errs
      /\ w'.todo = [w.todo EXCEPT ![p] = 0]
  BY <1>3, <1>4 DEF FreshInv, IInv, WorkerInv, WorkerRec
<1>6. \A q \in AllProms : w'.todo[q] = IF q = p THEN 0 ELSE w.todo[q]
  BY <1>5 DEF FreshInv, IInv, WorkerInv, WorkerRec
<1>7. LoopOK' /\ DoneOK'
  BY <1>1, <1>5 DEF FreshInv, LoopOK, DoneOK, InLoop, InProm, Copying
<1>8. TargetCurrent'  BY <1>5 DEF TargetCurrent, Copying
<1>9. SnapshotOK'
  BY <1>1, <1>2, <1>3, <1>5, <1>6, <1>8, LoopStep, OwnSpec DEF InLoop, InProm
<1>10. ASSUME NEW m \in Monitors, NEW q \in AllProms, Steady(m)', InProgress(m, q)
       PROVE  InProgress(m, q)' \/ UpToDate(m, q)'
  <2>1. m = n /\ (w.errs \/ w.todo[q] # 0)
    BY <1>1, <1>3, <1>10 DEF InProgress, Listed
  <2>2. CASE w.errs  BY <1>5, <2>1, <2>2 DEF InProgress
  <2>3. CASE ~ w.errs /\ q # p
    BY <1>5, <1>6, <2>1, <2>3 DEF InProgress, Listed
  <2>4. CASE ~ w.errs /\ q = p
    <3>1. /\ mon'[n] = mon[n] /\ MonitorMirrored(p, n)'
          /\ \A s \in Selects[mon[n].spec] : svc[s] # None =>
               ServiceCopied(p, s)' /\ EndpointsCopied(p, s)'
          /\ \A x \in CARefs[mon[n].spec] : SecretMirrored(p, x)'
      BY <1>1, <1>2, <1>3, <1>10, <2>1, <2>4, DoneStays DEF Copying
    <3>2. svc' = svc  BY <1>1 DEF source
    <3>3. Mirrored(n, p)'
      BY <3>1, <3>2 DEF Mirrored, ServiceMirrored, ServiceCopied, EndpointsCopied
    <3> QED  BY <2>1, <2>4, <3>3, PromsAssumption DEF UpToDate
  <2> QED  BY <2>2, <2>3, <2>4
<1>11. FreshOrPending'  BY <1>2, <1>10, FreshStep
<1> QED  BY <1>7, <1>9, <1>11
-----------------------------------------------------------------------------

\* At first every monitor is queued and no pass has read anything.
LEMMA InitFresh == ASSUME Init PROVE FreshInv
<1>1. IInv  BY InitOK
<1>2. UidsOK  BY DEF Init, UidsOK
<1>3. w.pc = "idle" /\ w.m = None  BY DEF Init, Idle
<1>4. LoopOK /\ DoneOK
  BY <1>3 DEF LoopOK, DoneOK, InLoop, InProm, Copying
<1>5. \A m \in Monitors : ~ Steady(m)
  BY DEF Init, Steady, Pending, Federated, Exists, Existing
<1>6. SnapshotOK /\ FreshOrPending
  BY <1>5 DEF SnapshotOK, FreshOrPending, Steady
<1> QED  BY <1>1, <1>2, <1>4, <1>6 DEF FreshInv

\* UIDs are never given back: ChangeProm alone issues them, upwards from 1.
LEMMA UidsStep == ASSUME FreshInv, [Next]_vars PROVE UidsOK'
<1>1. (\E p \in AllProms : ChangeProm(p)) \/ prom' = prom
  BY DEF Next, PassStep, Collect, Change, vars, source, Dequeue, ResyncMonitor,
         RequestFails, FetchMonitor, DiscoveryFails, ListServices, GetSecret, ListProms,
         NextProm, PatchLabels, ListNamespaces, CopyMonitor, CopyEndpoints, CopyService,
         CopySecret, NilTargetPanics, PortPanics, EndOfProm, FinishPass, Deliver, MapFails,
         Crash, Restart, SyncEndpoints, CollectMonitor, CollectService, CollectEndpoints,
         CollectSecret, ChangeMonitor, ChangeService, PodsNotReady, ChangeSecret,
         MoveNamespace, DeleteCopy
<1>2. ASSUME NEW p \in AllProms, ChangeProm(p) PROVE UidsOK'
  <2>1. prom \in [AllProms -> [up : BOOLEAN, uid : Nat]]
    BY DEF FreshInv, IInv, SourceInv, SourceOK
  <2>2. PICK next : next = IF prom[p].up THEN [prom[p] EXCEPT !.up = FALSE]
                           ELSE [up |-> TRUE, uid |-> prom[p].uid + 1]
    OBVIOUS
  <2>3. prom' = [prom EXCEPT ![p] = next]  BY <1>2, <2>2 DEF ChangeProm
  <2>4. next.uid # 0  BY <2>1, <2>2 DEF FreshInv, UidsOK
  <2> QED  BY <2>1, <2>3, <2>4 DEF FreshInv, UidsOK
<1>3. CASE prom' = prom  BY <1>3 DEF FreshInv, UidsOK
<1> QED  BY <1>1, <1>2, <1>3

\* Every step of a pass.
LEMMA PassStepFresh ==
  ASSUME FreshInv, PassStep PROVE LoopOK' /\ SnapshotOK' /\ DoneOK' /\ FreshOrPending'
  BY RequestFailsFresh, FetchMonitorFresh, DiscoveryFailsFresh, ListServicesFresh,
     GetSecretFresh, ListPromsFresh, NextPromFresh, PatchLabelsFresh,
     ListNamespacesFresh, CopyMonitorFresh, CopyEndpointsFresh, CopyServiceFresh,
     CopySecretFresh, DieFresh, EndOfPromFresh, FinishPassFresh
     DEF PassStep, NilTargetPanics, PortPanics

\* Every change that users make.
LEMMA ChangeFresh ==
  ASSUME FreshInv, Change PROVE LoopOK' /\ SnapshotOK' /\ DoneOK' /\ FreshOrPending'
<1>1. w' = w
  BY DEF Change, ChangeMonitor, ChangeService, PodsNotReady, ChangeSecret, ChangeProm,
         MoveNamespace, DeleteCopy
<1>2. ASSUME NEW m \in Monitors PROVE Undisturbed(m)
  <2>1. CASE \E n \in Monitors : \E new \in MonRec \cup {None} : ChangeMonitor(n, new)
    BY <2>1, ChangeMonitorUndisturbed DEF FreshInv
  <2>2. CASE \E s \in Services : \E new \in SvcRec \cup {None} : ChangeService(s, new)
    BY <2>2, ChangeServiceUndisturbed DEF FreshInv
  <2>3. CASE \/ \E s \in Services : PodsNotReady(s)
             \/ \E x \in Secrets : \E new \in Data \cup {None} : ChangeSecret(x, new)
             \/ \E n \in Namespaces : \E p \in ProjectProms \cup {None} : MoveNamespace(n, p)
    BY <2>3, OtherSourceUndisturbed DEF PodsNotReady, ChangeSecret, MoveNamespace
  <2>4. CASE \E p \in AllProms : ChangeProm(p)  BY <2>4, ChangePromUndisturbed
  <2>5. CASE \E p \in ProjectProms : \E n \in Monitors : DeleteCopy(p, n)
    BY <2>5, DeleteCopyUndisturbed
  <2> QED  BY <2>1, <2>2, <2>3, <2>4, <2>5 DEF Change
<1> QED  BY <1>1, <1>2, SameWorker

\* Every step of the system.
LEMMA StepFresh == ASSUME FreshInv, [Next]_vars PROVE FreshInv'
<1>1. IInv' /\ UidsOK'  BY StepOK, UidsStep DEF FreshInv
<1>2. CASE \E m \in Monitors : Dequeue(m)  BY <1>1, <1>2, DequeueFresh DEF FreshInv
<1>3. CASE PassStep  BY <1>1, <1>3, PassStepFresh DEF FreshInv
<1>4. CASE Crash \/ Restart  BY <1>1, <1>4, DieFresh, RestartFresh DEF Crash, FreshInv
<1>5. CASE Change  BY <1>1, <1>5, ChangeFresh DEF FreshInv
<1>6. CASE \E m \in Monitors : ResyncMonitor(m)
  BY <1>1, <1>6, ResyncUndisturbed, SameWorker DEF ResyncMonitor, FreshInv
<1>7. CASE \E e \in Services \cup AllProms : Deliver(e) \/ MapFails(e)
  <2>1. w' = w  BY <1>7 DEF Deliver, MapFails
  <2> QED  BY <1>1, <1>7, <2>1, NotifiedUndisturbed, SameWorker DEF FreshInv
<1>8. CASE \E s \in Services : SyncEndpoints(s)
  BY <1>1, <1>8, OtherSourceUndisturbed, SameWorker DEF SyncEndpoints, FreshInv
<1>9. CASE Collect
  <2>1. w' = w
    BY <1>9 DEF Collect, CollectMonitor, CollectService, CollectEndpoints, CollectSecret
  <2> QED  BY <1>1, <1>9, <2>1, CollectUndisturbed, SameWorker DEF FreshInv
<1>10. CASE UNCHANGED vars
  BY <1>1, <1>10, StutterUndisturbed, SameWorker DEF vars, FreshInv
<1> QED  BY <1>2, <1>3, <1>4, <1>5, <1>6, <1>7, <1>8, <1>9, <1>10 DEF Next

\* The strengthened invariant holds in every reachable state.
THEOREM FreshInvariance == Spec => []FreshInv
<1>1. Init => FreshInv  BY InitFresh
<1>2. FreshInv /\ [Next]_vars => FreshInv'  BY StepFresh
<1> QED  BY <1>1, <1>2, PTL DEF Spec

\* No work is lost: whatever users change, requests fail, the garbage collector

\* deletes or the process dies between two steps of a pass, the copies of every
\* federated monitor are up to date, or a pass of Reconcile that will write them
\* is pending or in progress.
THEOREM CopiesFreshOrPending == Spec => []FreshOrPending
<1>1. FreshInv => FreshOrPending  BY DEF FreshInv
<1> QED  BY <1>1, FreshInvariance, PTL
=============================================================================
