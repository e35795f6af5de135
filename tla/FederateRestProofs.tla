------------------------- MODULE FederateRestProofs -------------------------
(***************************************************************************)
(* Proofs about Federate: while users, failures and crashes leave it alone,  *)
(* every step brings the system closer to rest, along an order that has no   *)
(* infinite descent.                                                         *)
(***************************************************************************)
EXTENDS FederateProofs, FiniteSetTheorems, WellFoundedInduction

(* The order.                                                              *)

Smaller == {x \in Nat \X Nat : x[1] < x[2]}
Measures == [1 .. 12 -> Nat]

\* Natural numbers do not descend for ever.
LEMMA SmallerWellFounded == IsWellFoundedOn(Smaller, Nat)
<1>1. Smaller = OpToRel(<, Nat) BY DEF Smaller, OpToRel
<1> QED BY <1>1, NatLessThanWellFounded

\* The first place where two tuples differ decides.
LEMMA FirstDifference ==
  ASSUME NEW a \in Measures, NEW b \in Measures, NEW i \in 1 .. 12,
         a[i] < b[i], \A j \in 1 .. i - 1 : a[j] <= b[j]
  PROVE  Below(a, b)
<1> DEFINE T == {k \in 1 .. i : a[k] < b[k]}
<1>1. T \subseteq Nat /\ T # {} OBVIOUS
<1>2. PICK k \in T : \A j \in T : <<j, k>> \notin Smaller
  BY <1>1, SmallerWellFounded, WFMin
<1> QED BY <1>2 DEF Below, Smaller, Measures

Shrinks(T, S) == T \subseteq S /\ T # S

\* A finite set that loses elements becomes smaller.
LEMMA SmallerSet ==
  ASSUME NEW S, NEW T, IsFiniteSet(S), T \subseteq S
  PROVE  /\ Cardinality(T) \in Nat /\ Cardinality(S) \in Nat
         /\ Cardinality(T) <= Cardinality(S)
         /\ T # S => Cardinality(T) < Cardinality(S)
<1>1. /\ IsFiniteSet(T) /\ Cardinality(T) <= Cardinality(S)
      /\ Cardinality(S) = Cardinality(T) => S = T
  BY FS_Subset
<1>2. Cardinality(T) \in Nat /\ Cardinality(S) \in Nat
  BY <1>1, FS_CardinalityType
<1> QED BY <1>1, <1>2
-----------------------------------------------------------------------------
(* The distance is a measure.                                              *)

\* The sets that the distance counts.
Finite == /\ IsFiniteSet(Unsynced) /\ IsFiniteSet(Unlabelled) /\ IsFiniteSet(watch)
          /\ IsFiniteSet(queue) /\ IsFiniteSet(w.toGet) /\ IsFiniteSet(Unvisited)
          /\ IsFiniteSet(w.svcTodo) /\ IsFiniteSet(w.secTodo)
          /\ IsFiniteSet(Filled(cMon, Monitors)) /\ IsFiniteSet(Filled(cSvc, Services))
          /\ IsFiniteSet(Filled(cEp, Services)) /\ IsFiniteSet(Filled(cSec, Secrets))

\* What the distance counts is finite, whatever the pass has left to do.
LEMMA PartsFinite == IInv => Finite
<1> SUFFICES ASSUME IInv PROVE Finite OBVIOUS
<1>1. IsFiniteSet(AllProms)
  BY FinitenessAssumption, FS_AddElement DEF AllProms
<1>2. IsFiniteSet(Services \cup AllProms)
  BY <1>1, FinitenessAssumption, FS_Union
<1>3. /\ IsFiniteSet(ProjectProms \X Monitors) /\ IsFiniteSet(ProjectProms \X Services)
      /\ IsFiniteSet(ProjectProms \X Secrets)
  BY FinitenessAssumption, FS_Product
<1>4. /\ Unsynced \subseteq Services /\ Unlabelled \subseteq Monitors
      /\ watch \subseteq Services \cup AllProms /\ queue \subseteq Monitors
      /\ Unvisited \subseteq AllProms
      /\ w.toGet \subseteq Secrets /\ w.svcTodo \subseteq Services
      /\ w.secTodo \subseteq Secrets
  BY DEF Unsynced, Unlabelled, Existing, Unvisited, IInv, ControlOK, WorkerInv, WorkerRec
<1>5. /\ Filled(cMon, Monitors) \subseteq ProjectProms \X Monitors
      /\ Filled(cSvc, Services) \subseteq ProjectProms \X Services
      /\ Filled(cEp, Services) \subseteq ProjectProms \X Services
      /\ Filled(cSec, Secrets) \subseteq ProjectProms \X Secrets
  BY DEF Filled
<1> QED BY <1>1, <1>2, <1>3, <1>4, <1>5, FinitenessAssumption, FS_Subset DEF Finite


\* The parts of the distance.
Weighed ==
    /\ Distance \in Measures
    /\ Distance[1] = Cardinality(Unsynced) /\ Distance[2] = IF Doomed THEN 1 ELSE 0
    /\ Distance[3] = Cardinality(Unlabelled) /\ Distance[4] = Cardinality(watch)
    /\ Distance[5] = Cardinality(queue) /\ Distance[6] = Phase
    /\ Distance[7] = Cardinality(w.toGet) /\ Distance[8] = Cardinality(Unvisited)
    /\ Distance[9] = Stage /\ Distance[10] = ServiceWrites
    /\ Distance[11] = Cardinality(w.secTodo) /\ Distance[12] = CopiesHeld

\* Each part of the distance is a natural number, and what it counts.
LEMMA PartsWeighed == IInv => Weighed
<1> SUFFICES ASSUME IInv PROVE Weighed OBVIOUS
<1>1. /\ Cardinality(Unsynced) \in Nat /\ Cardinality(Unlabelled) \in Nat
      /\ Cardinality(watch) \in Nat /\ Cardinality(queue) \in Nat
      /\ Cardinality(w.toGet) \in Nat /\ Cardinality(Unvisited) \in Nat
      /\ Cardinality(w.svcTodo) \in Nat /\ Cardinality(w.secTodo) \in Nat
      /\ Cardinality(Filled(cMon, Monitors)) \in Nat
      /\ Cardinality(Filled(cSvc, Services)) \in Nat
      /\ Cardinality(Filled(cEp, Services)) \in Nat
      /\ Cardinality(Filled(cSec, Secrets)) \in Nat
  BY PartsFinite, FS_CardinalityType DEF Finite
<1>2. (IF Doomed THEN 1 ELSE 0) \in Nat OBVIOUS
<1>3. Phase \in Nat /\ Stage \in Nat
  <2>1. Phase \in Nat BY DEF Phase
  <2>2. Stage \in Nat BY DEF Stage
  <2> QED BY <2>1, <2>2
<1>4. ServiceWrites \in Nat BY <1>1 DEF ServiceWrites
<1>5. CopiesHeld \in Nat BY <1>1 DEF CopiesHeld
<1>6. PICK doom : doom = IF Doomed THEN 1 ELSE 0 OBVIOUS
<1>7. /\ Distance \in Measures
      /\ Distance[1] = Cardinality(Unsynced) /\ Distance[2] = doom
      /\ Distance[3] = Cardinality(Unlabelled) /\ Distance[4] = Cardinality(watch)
      /\ Distance[5] = Cardinality(queue) /\ Distance[6] = Phase
      /\ Distance[7] = Cardinality(w.toGet) /\ Distance[8] = Cardinality(Unvisited)
      /\ Distance[9] = Stage /\ Distance[10] = ServiceWrites
      /\ Distance[11] = Cardinality(w.secTodo) /\ Distance[12] = CopiesHeld
  <2>1. doom \in Nat /\ Distance =
          << Cardinality(Unsynced), doom, Cardinality(Unlabelled), Cardinality(watch),
             Cardinality(queue), Phase, Cardinality(w.toGet), Cardinality(Unvisited),
             Stage, ServiceWrites, Cardinality(w.secTodo), CopiesHeld >>
    BY <1>2, <1>6 DEF Distance
  <2> QED BY <1>1, <1>3, <1>4, <1>5, <2>1 DEF Measures
<1> QED BY <1>6, <1>7 DEF Weighed

\* So it is after a step.
LEMMA PartsWeighedNext == IInv' => Weighed'
  BY PartsWeighed, PTL
-----------------------------------------------------------------------------
(* What brings a part of the distance down, while no part before it grows.  *)

NearerCopies   == CopiesHeld' < CopiesHeld
NearerSecrets  == \/ Shrinks(w'.secTodo, w.secTodo)
                  \/ w'.secTodo \subseteq w.secTodo /\ NearerCopies
NearerServices == \/ ServiceWrites' < ServiceWrites
                  \/ ServiceWrites' <= ServiceWrites /\ NearerSecrets
NearerStage    == Stage' < Stage \/ (Stage' <= Stage /\ NearerServices)
NearerProms    == \/ Shrinks(Unvisited', Unvisited)
                  \/ Unvisited' \subseteq Unvisited /\ NearerStage
NearerGet      == \/ Shrinks(w'.toGet, w.toGet)
                  \/ w'.toGet \subseteq w.toGet /\ NearerProms
NearerPhase    == Phase' < Phase \/ (Phase' <= Phase /\ NearerGet)
NearerQueue    == Shrinks(queue', queue) \/ (queue' \subseteq queue /\ NearerPhase)
NearerWatch    == Shrinks(watch', watch) \/ (watch' \subseteq watch /\ NearerQueue)
NearerLabels   == \/ Shrinks(Unlabelled', Unlabelled)
                  \/ Unlabelled' \subseteq Unlabelled /\ NearerWatch
NearerDoom     == \/ Doomed /\ ~ Doomed'
                  \/ (Doomed' => Doomed) /\ NearerLabels
Nearer         == \/ Shrinks(Unsynced', Unsynced)
                  \/ Unsynced' \subseteq Unsynced /\ NearerDoom

\* The parts come in this order.
LEMMA NearerIsBelow ==
  ASSUME IInv, IInv', Nearer PROVE Below(Distance', Distance)
<1>1. Finite /\ Weighed /\ Weighed'
  BY PartsFinite, PartsWeighed, PartsWeighedNext
<1> DEFINE a == Distance'
           b == Distance
           AtMost(n) == \A j \in 1 .. n : a[j] <= b[j]
<1>2. a \in Measures /\ b \in Measures BY <1>1 DEF Weighed
<1> SUFFICES Below(a, b) OBVIOUS
<1>3. /\ AtMost(0) /\ a[1] < b[1] => Below(a, b)
      /\ AtMost(1) /\ a[2] < b[2] => Below(a, b)
      /\ AtMost(2) /\ a[3] < b[3] => Below(a, b)
      /\ AtMost(3) /\ a[4] < b[4] => Below(a, b)
      /\ AtMost(4) /\ a[5] < b[5] => Below(a, b)
      /\ AtMost(5) /\ a[6] < b[6] => Below(a, b)
      /\ AtMost(6) /\ a[7] < b[7] => Below(a, b)
      /\ AtMost(7) /\ a[8] < b[8] => Below(a, b)
      /\ AtMost(8) /\ a[9] < b[9] => Below(a, b)
      /\ AtMost(9) /\ a[10] < b[10] => Below(a, b)
      /\ AtMost(10) /\ a[11] < b[11] => Below(a, b)
      /\ AtMost(11) /\ a[12] < b[12] => Below(a, b)
  <2>1. \A i \in 1 .. 12 : AtMost(i - 1) /\ a[i] < b[i] => Below(a, b)
    BY <1>2, FirstDifference
  <2> HIDE DEF a, b
  <2> QED BY <2>1
<1>4. /\ AtMost(0) /\ a[1] <= b[1] => AtMost(1)
      /\ AtMost(1) /\ a[2] <= b[2] => AtMost(2)
      /\ AtMost(2) /\ a[3] <= b[3] => AtMost(3)
      /\ AtMost(3) /\ a[4] <= b[4] => AtMost(4)
      /\ AtMost(4) /\ a[5] <= b[5] => AtMost(5)
      /\ AtMost(5) /\ a[6] <= b[6] => AtMost(6)
      /\ AtMost(6) /\ a[7] <= b[7] => AtMost(7)
      /\ AtMost(7) /\ a[8] <= b[8] => AtMost(8)
      /\ AtMost(8) /\ a[9] <= b[9] => AtMost(9)
      /\ AtMost(9) /\ a[10] <= b[10] => AtMost(10)
      /\ AtMost(10) /\ a[11] <= b[11] => AtMost(11)
  <2> HIDE DEF a, b
  <2> QED OBVIOUS
<1>5. /\ Unsynced' \subseteq Unsynced => a[1] <= b[1]
      /\ Shrinks(Unsynced', Unsynced) => a[1] < b[1]
  BY <1>1, SmallerSet DEF Finite, Weighed, Shrinks
<1>6. /\ (Doomed' => Doomed) => a[2] <= b[2]
      /\ Doomed /\ ~ Doomed' => a[2] < b[2]
  BY <1>1 DEF Weighed
<1>7. /\ Unlabelled' \subseteq Unlabelled => a[3] <= b[3]
      /\ Shrinks(Unlabelled', Unlabelled) => a[3] < b[3]
  BY <1>1, SmallerSet DEF Finite, Weighed, Shrinks
<1>8. /\ watch' \subseteq watch => a[4] <= b[4]
      /\ Shrinks(watch', watch) => a[4] < b[4]
  BY <1>1, SmallerSet DEF Finite, Weighed, Shrinks
<1>9. /\ queue' \subseteq queue => a[5] <= b[5]
      /\ Shrinks(queue', queue) => a[5] < b[5]
  BY <1>1, SmallerSet DEF Finite, Weighed, Shrinks
<1>10. /\ Phase' <= Phase => a[6] <= b[6]
       /\ Phase' < Phase => a[6] < b[6]
  BY <1>1 DEF Weighed
<1>11. /\ w'.toGet \subseteq w.toGet => a[7] <= b[7]
       /\ Shrinks(w'.toGet, w.toGet) => a[7] < b[7]
  BY <1>1, SmallerSet DEF Finite, Weighed, Shrinks
<1>12. /\ Unvisited' \subseteq Unvisited => a[8] <= b[8]
       /\ Shrinks(Unvisited', Unvisited) => a[8] < b[8]
  BY <1>1, SmallerSet DEF Finite, Weighed, Shrinks
<1>13. /\ Stage' <= Stage => a[9] <= b[9]
       /\ Stage' < Stage => a[9] < b[9]
  BY <1>1 DEF Weighed
<1>14. /\ ServiceWrites' <= ServiceWrites => a[10] <= b[10]
       /\ ServiceWrites' < ServiceWrites => a[10] < b[10]
  BY <1>1 DEF Weighed
<1>15. /\ w'.secTodo \subseteq w.secTodo => a[11] <= b[11]
       /\ Shrinks(w'.secTodo, w.secTodo) => a[11] < b[11]
  BY <1>1, SmallerSet DEF Finite, Weighed, Shrinks
<1>16. NearerCopies => a[12] < b[12] BY <1>1 DEF Weighed, NearerCopies
<1> HIDE DEF a, b, AtMost
<1>17. AtMost(11) /\ NearerCopies => Below(a, b)
  BY <1>3, <1>4, <1>16 DEF NearerCopies
<1>18. AtMost(10) /\ NearerSecrets => Below(a, b)
  BY <1>3, <1>4, <1>15, <1>17 DEF NearerSecrets
<1>19. AtMost(9) /\ NearerServices => Below(a, b)
  BY <1>3, <1>4, <1>14, <1>18 DEF NearerServices
<1>20. AtMost(8) /\ NearerStage => Below(a, b)
  BY <1>3, <1>4, <1>13, <1>19 DEF NearerStage
<1>21. AtMost(7) /\ NearerProms => Below(a, b)
  BY <1>3, <1>4, <1>12, <1>20 DEF NearerProms
<1>22. AtMost(6) /\ NearerGet => Below(a, b)
  BY <1>3, <1>4, <1>11, <1>21 DEF NearerGet
<1>23. AtMost(5) /\ NearerPhase => Below(a, b)
  BY <1>3, <1>4, <1>10, <1>22 DEF NearerPhase
<1>24. AtMost(4) /\ NearerQueue => Below(a, b)
  BY <1>3, <1>4, <1>9, <1>23 DEF NearerQueue
<1>25. AtMost(3) /\ NearerWatch => Below(a, b)
  BY <1>3, <1>4, <1>8, <1>24 DEF NearerWatch
<1>26. AtMost(2) /\ NearerLabels => Below(a, b)
  BY <1>3, <1>4, <1>7, <1>25 DEF NearerLabels
<1>27. AtMost(1) /\ NearerDoom => Below(a, b)
  BY <1>3, <1>4, <1>6, <1>26 DEF NearerDoom
<1>28. AtMost(0) /\ Nearer => Below(a, b)
  BY <1>3, <1>4, <1>5, <1>27 DEF Nearer
<1>29. AtMost(0) BY DEF AtMost
<1> QED BY <1>28, <1>29
-----------------------------------------------------------------------------
(* Where the loop over the Prometheuses stands.                            *)

\* The Prometheus a pass is at is still on its list.
Visiting ==
    /\ w.pc = "labels" => w.p = DefaultProm
    /\ w.pc \in {"labels"} \cup InProm => Listed(w.p)

\* Only NextProm starts on a Prometheus; other steps go on with it or leave it.
LEMMA VisitingStep == ASSUME IInv, Visiting, [Next]_vars PROVE Visiting'
<1>1. CASE w' = w BY <1>1 DEF Visiting, Listed
<1>2. CASE w'.pc \notin {"labels"} \cup InProm BY <1>2 DEF Visiting, InProm
<1>3. CASE /\ w.pc \in InProm /\ w'.pc \in InProm
           /\ w'.p = w.p /\ w'.todo = w.todo
  BY <1>3 DEF Visiting, InProm, Listed
<1>4. w \in WorkerRec BY DEF IInv, WorkerInv
<1>5. ASSUME w' = Idle \/ w' = [Idle EXCEPT !.pc = "down"]
      PROVE  w'.pc \notin {"labels"} \cup InProm
  BY <1>5 DEF Idle, InProm
<1>6. ASSUME NEW p \in AllProms, NextProm(p) PROVE Visiting'
  <2>1. CASE p # DefaultProm /\ PromNs[p] = MonitorNs[w.m]
    BY <1>2, <1>5, <1>6, <2>1 DEF NextProm, ReturnNil
  <2>2. CASE ~ (p # DefaultProm /\ PromNs[p] = MonitorNs[w.m])
    <3> DEFINE stage == IF p = DefaultProm THEN "labels" ELSE "namespaces"
    <3>1. w' = [w EXCEPT !.p = p, !.pc = stage] BY <1>6, <2>2 DEF NextProm
    <3>2. stage = "labels" => p = DefaultProm OBVIOUS
    <3> HIDE DEF stage
    <3>3. w'.pc = stage /\ w'.p = p /\ w'.todo = w.todo BY <1>4, <3>1 DEF WorkerRec
    <3> QED BY <1>6, <3>2, <3>3 DEF Visiting, NextProm, Listed
  <2> QED BY <2>1, <2>2
<1>7. ASSUME PassStep PROVE \/ w'.pc \notin {"labels"} \cup InProm
                            \/ \E p \in AllProms : NextProm(p)
                            \/ /\ w.pc \in InProm /\ w'.pc \in InProm
                               /\ w'.p = w.p /\ w'.todo = w.todo
  <2>1. ASSUME RequestFails \/ DiscoveryFails \/ NilTargetPanics \/ PortPanics \/ FinishPass
        PROVE  w'.pc \notin {"labels"} \cup InProm
    BY <1>5, <2>1
       DEF RequestFails, DiscoveryFails, NilTargetPanics, PortPanics, FinishPass,
           ReturnErr, ReturnNil, Die
  <2>2. ASSUME FetchMonitor \/ \E x \in Secrets : GetSecret(x)
        PROVE  w'.pc \notin {"labels"} \cup InProm
    <3>1. w' = Idle \/ w'.pc \in {"services", "secrets"}
      BY <1>4, <2>2 DEF FetchMonitor, GetSecret, ReturnNil, ReturnErr, WorkerRec
    <3> QED BY <1>5, <3>1 DEF InProm
  <2>3. ASSUME ListServices \/ ListProms \/ EndOfProm
        PROVE  w'.pc \notin {"labels"} \cup InProm
    <3>1. w'.pc \in {"secrets", "next"}
      BY <1>4, <2>3 DEF ListServices, ListProms, EndOfProm, WorkerRec
    <3> QED BY <3>1 DEF InProm
  <2>4. ASSUME NEW out \in Outcomes, PatchLabels(out)
        PROVE  w'.pc \notin {"labels"} \cup InProm
    <3>1. w'.pc = "next" BY <1>4, <2>4 DEF PatchLabels, WorkerRec
    <3> QED BY <3>1 DEF InProm
  <2>5. ASSUME NEW out \in Outcomes,
               \/ ListNamespaces(out) \/ CopyMonitor(out) \/ CopyEndpoints(out)
               \/ \E s \in Services : CopyService(s, out)
               \/ \E x \in Secrets : CopySecret(x, out)
        PROVE  /\ w.pc \in InProm /\ w'.pc \in InProm
               /\ w'.p = w.p /\ w'.todo = w.todo
    BY <1>4, <2>5 DEF ListNamespaces, CopyMonitor, CopyEndpoints, CopyService, CopySecret,
                      InProm, WorkerRec
  <2> QED BY <1>7, <2>1, <2>2, <2>3, <2>4, <2>5 DEF PassStep
<1>8. ASSUME [Next]_vars, ~ PassStep
      PROVE  w' = w \/ w'.pc \notin {"labels"} \cup InProm
  <2>1. CASE \E m \in Monitors : Dequeue(m) \/ ResyncMonitor(m)
    <3>1. w' = w \/ w'.pc = "fetch" BY <2>1 DEF Dequeue, Pass, Idle, ResyncMonitor
    <3> QED BY <3>1 DEF InProm
  <2>2. CASE Crash \/ Restart BY <1>5, <2>2 DEF Crash, Restart, Die
  <2>3. CASE Collect
    BY <2>3 DEF Collect, CollectMonitor, CollectService, CollectEndpoints, CollectSecret
  <2>4. CASE Change
    BY <2>4 DEF Change, ChangeMonitor, ChangeService, PodsNotReady, ChangeSecret,
                ChangeProm, MoveNamespace, DeleteCopy
  <2>5. CASE \/ \E e \in Services \cup AllProms : Deliver(e) \/ MapFails(e)
             \/ \E s \in Services : SyncEndpoints(s)
             \/ UNCHANGED vars
    BY <2>5 DEF Deliver, MapFails, SyncEndpoints, vars
  <2> QED BY <1>8, <2>1, <2>2, <2>3, <2>4, <2>5 DEF Next
<1> QED BY <1>1, <1>2, <1>3, <1>6, <1>7, <1>8

RestInv == IInv /\ Visiting

\* The Prometheus a pass is at has a place on its list, in every reachable state.
THEOREM RestInvariance == Spec => []RestInv
<1>1. Init => RestInv
  <2>1. Init => w.pc = "idle" BY DEF Init, Idle
  <2> QED BY <2>1, InitOK DEF RestInv, Visiting, InProm
<1>2. RestInv /\ [Next]_vars => RestInv'
  BY StepOK, VisitingStep DEF RestInv
<1> QED BY <1>1, <1>2, PTL DEF Spec
-----------------------------------------------------------------------------
(* Steps of a pass.                                                        *)

\* A step that leaves source and queue alone, and does not doom the pass.
LEMMA InPassNearer ==
  ASSUME UNCHANGED <<mon, svc, ep, queue, watch>>, Doomed' => Doomed, NearerPhase
  PROVE  Nearer
<1>1. Unsynced' = Unsynced BY DEF Unsynced, Synced
<1>2. Unlabelled' = Unlabelled BY DEF Unlabelled, Existing, Exists
<1> QED BY <1>1, <1>2 DEF Nearer, NearerDoom, NearerLabels, NearerWatch, NearerQueue

\* A step that ends what doomed the pass.
LEMMA DoomEnds ==
  ASSUME UNCHANGED <<svc, ep>>, Doomed, ~ Doomed' PROVE Nearer
<1>1. Unsynced' = Unsynced BY DEF Unsynced, Synced
<1> QED BY <1>1 DEF Nearer, NearerDoom

\* An idle worker is not doomed, nor is one that has just started.
LEMMA IdleNotDoomed ==
  ASSUME w' = Idle \/ \E m \in Monitors : w' = Pass(m) PROVE ~ Doomed'
<1>1. /\ w'.pc \in {"idle", "fetch"} /\ w'.errs = FALSE /\ w'.toGet = {}
      /\ \A s \in Services : w'.svcs[s] = None
  <2>1. CASE w' = Idle BY <2>1 DEF Idle
  <2>2. ASSUME NEW m \in Monitors, w' = Pass(m)
        PROVE  /\ w'.pc = "fetch" /\ w'.errs = FALSE /\ w'.toGet = {}
               /\ \A s \in Services : w'.svcs[s] = None
    BY <2>2 DEF Idle, Pass
  <2> QED BY <2>1, <2>2
<1>2. /\ w'.pc # "down" /\ w'.pc # "copies" /\ w'.pc # "services"
      /\ w'.pc \in {"idle", "fetch", "down"}
  BY <1>1
<1> QED BY <1>1, <1>2, Zenon DEF Doomed

\* A pass that goes on is doomed by what doomed it before.
LEMMA DoomStays ==
  ASSUME UNCHANGED <<ep, secret>>, mon[w.m] # None => mon'[w.m] # None,
         w.pc \notin {"idle", "fetch", "down"},
         w'.pc \notin {"idle", "fetch", "down", "services"},
         w'.m = w.m, w'.errs => w.errs \/ Doomed,
         w'.toGet \subseteq w.toGet, w'.svcs = w.svcs,
         w'.pc = "copies" => w'.tgt # 0 \/ (w.pc = "copies" /\ w'.tgt = w.tgt),
         Doomed'
  PROVE  Doomed
<1>1. CASE w'.errs BY <1>1 DEF Doomed
<1>2. CASE w'.pc = "copies" /\ NilTarget' BY <1>2 DEF Doomed, NilTarget
<1>3. CASE ~ Exists(w.m)' BY <1>3 DEF Doomed, Exists
<1>4. CASE \E x \in w'.toGet : secret'[x] = None BY <1>4 DEF Doomed
<1>5. CASE \E s \in Services : w'.svcs[s] # None /\ ~ PortsKnown(s, w.svcs[s])
  BY <1>5 DEF Doomed
<1>6. \A s \in Services : PortsKnown(s, w.svcs[s])' <=> PortsKnown(s, w.svcs[s])
  BY DEF PortsKnown
<1> QED BY <1>1, <1>2, <1>3, <1>4, <1>5, <1>6 DEF Doomed, Exists

\* A pass that returns nil, or a process that dies, has nothing left to do.
LEMMA PassOver ==
  ASSUME IInv, w' = Idle \/ w' = [Idle EXCEPT !.pc = "down"]
  PROVE  /\ Phase' = 0 /\ w'.toGet = {} /\ Unvisited' = {} /\ Stage' = 0
         /\ w'.svcTodo = {} /\ w'.secTodo = {}
<1>1. /\ w'.pc \in {"idle", "down"} /\ w'.toGet = {} /\ w'.svcTodo = {}
      /\ w'.secTodo = {} /\ w'.todo = [p \in AllProms |-> 0]
  BY DEF Idle
<1>2. Phase' = 0 /\ Stage' = 0 BY <1>1 DEF Phase, Stage
<1>3. Unvisited' = {} BY <1>1 DEF Unvisited, Listed
<1> QED BY <1>1, <1>2, <1>3

\* A monitor leaves the queue; the pass over it is not doomed yet.
LEMMA DequeueNearer ==
  ASSUME IInv, NEW m \in Monitors, Dequeue(m) PROVE Nearer
<1>1. UNCHANGED <<mon, svc, ep, watch>> BY DEF Dequeue, source
<1>2. Unsynced' = Unsynced BY <1>1 DEF Unsynced, Synced
<1>3. Unlabelled' = Unlabelled BY <1>1 DEF Unlabelled, Existing, Exists
<1>4. ~ Doomed' BY IdleNotDoomed DEF Dequeue
<1>5. Shrinks(queue', queue) BY DEF Dequeue, Shrinks
<1> QED BY <1>1, <1>2, <1>3, <1>4, <1>5
        DEF Nearer, NearerDoom, NearerLabels, NearerWatch, NearerQueue

\* The monitor that is read is there, with every CA Secret it names.
LEMMA FetchMonitorNearer == ASSUME IInv, Calm, FetchMonitor PROVE Nearer
<1>1. UNCHANGED <<mon, svc, ep, secret, queue, watch>>
  BY DEF FetchMonitor, ReturnNil, source
<1>2. w \in WorkerRec /\ w.m \in Monitors
  BY DEF IInv, WorkerInv, LocalsOK, InPass, FetchMonitor
<1>3. Phase = 3 BY DEF Phase, FetchMonitor
<1>4. CASE ~ Federated(w.m)
  <2>1. w' = Idle BY <1>4 DEF FetchMonitor, ReturnNil
  <2>2. Phase' < Phase BY <1>3, <2>1, PassOver
  <2> QED BY <1>1, <2>1, <2>2, IdleNotDoomed, InPassNearer DEF NearerPhase
<1>5. CASE Federated(w.m)
  <2>1. w' = [w EXCEPT !.pc = "services", !.spec = mon[w.m].spec]
    BY <1>5 DEF FetchMonitor
  <2>2. /\ w'.pc = "services" /\ w'.spec = mon[w.m].spec /\ w'.m = w.m
        /\ w'.errs = w.errs /\ w'.toGet = w.toGet /\ w'.svcs = w.svcs
    BY <1>2, <2>1 DEF WorkerRec
  <2>3. Phase' < Phase BY <1>3, <2>2 DEF Phase
  <2>4. ASSUME Doomed' PROVE Doomed
    <3>1. Exists(w.m)' /\ \A x \in CARefs[w'.spec] : secret'[x] # None
      BY <1>1, <1>2, <1>5, <2>2 DEF Federated, Exists, Calm, SecretsPresent
    <3>2. \A s \in Services : PortsKnown(s, w.svcs[s])' <=> PortsKnown(s, w.svcs[s])
      BY <1>1, <2>2 DEF PortsKnown
    <3> QED BY <1>1, <2>2, <2>4, <3>1, <3>2 DEF Doomed
  <2> QED BY <1>1, <2>3, <2>4, InPassNearer DEF NearerPhase
<1> QED BY <1>4, <1>5

\* The Services that are listed have every port their Endpoints name.
LEMMA ListServicesNearer == ASSUME IInv, Calm, ListServices PROVE Nearer
<1>1. UNCHANGED <<mon, svc, ep, secret, queue, watch>> BY DEF ListServices, source
<1>2. w \in WorkerRec BY DEF IInv, WorkerInv
<1> DEFINE snapshot == [s \in Services |->
                          IF s \in Selects[w.spec] THEN svc[s] ELSE None]
<1>3. w' = [w EXCEPT !.pc = "secrets", !.svcs = snapshot, !.toGet = CARefs[w.spec]]
  BY DEF ListServices
<1>4. \A s \in Services : snapshot[s] # None => snapshot[s] = svc[s] OBVIOUS
<1> HIDE DEF snapshot
<1>5. /\ w'.pc = "secrets" /\ w'.m = w.m /\ w'.errs = w.errs
      /\ w'.toGet = CARefs[w.spec] /\ w'.svcs = snapshot
  BY <1>2, <1>3 DEF WorkerRec
<1>6. Phase' < Phase
  <2>1. Phase = 2 BY DEF Phase, ListServices
  <2>2. Phase' = 1 BY <1>5 DEF Phase
  <2> QED BY <2>1, <2>2
<1>7. ASSUME Doomed', ~ Doomed PROVE FALSE
  <2>1. Exists(w.m)' /\ \A x \in w'.toGet : secret'[x] # None
    BY <1>1, <1>5, <1>7 DEF Doomed, Exists, ListServices
  <2>2. \A s \in Services : w'.svcs[s] # None => PortsKnown(s, w.svcs[s])'
    BY <1>1, <1>4, <1>5 DEF Calm, PortsKnown
  <2>3. w'.errs = FALSE BY <1>2, <1>5, <1>7 DEF Doomed, WorkerRec
  <2> QED BY <1>5, <1>7, <2>1, <2>2, <2>3 DEF Doomed
<1> QED BY <1>1, <1>6, <1>7, InPassNearer DEF NearerPhase

\* A step that spends nothing neither fails nor changes what users own.
LEMMA NothingSpent ==
  ASSUME IInv, spent' = spent
  PROVE  /\ \A out \in Outcomes : Spend(out) => out = "ok"
         /\ ~ SpendChange
         /\ spent' # [spent EXCEPT !.crashes = @ + 1]
         /\ spent' # [spent EXCEPT !.tampers = @ + 1]
<1>1. spent \in [changes : Nat, failures : Nat, crashes : Nat, tampers : Nat]
  BY DEF IInv, ControlOK
<1>2. /\ spent # [spent EXCEPT !.changes = @ + 1]
      /\ spent # [spent EXCEPT !.failures = @ + 1]
      /\ spent # [spent EXCEPT !.crashes = @ + 1]
      /\ spent # [spent EXCEPT !.tampers = @ + 1]
  <2>1. spent.changes # spent.changes + 1 /\ spent.failures # spent.failures + 1
        /\ spent.crashes # spent.crashes + 1 /\ spent.tampers # spent.tampers + 1
    BY <1>1
  <2>2. /\ [spent EXCEPT !.changes = @ + 1].changes = spent.changes + 1
        /\ [spent EXCEPT !.failures = @ + 1].failures = spent.failures + 1
        /\ [spent EXCEPT !.crashes = @ + 1].crashes = spent.crashes + 1
        /\ [spent EXCEPT !.tampers = @ + 1].tampers = spent.tampers + 1
    BY <1>1
  <2> QED BY <2>1, <2>2
<1> QED BY <1>2 DEF Spend, SpendChange

\* A Secret less to read, or the pass ends that was doomed by the one missing.
LEMMA GetSecretNearer ==
  ASSUME IInv, NEW x \in Secrets, GetSecret(x) PROVE Nearer
<1>1. UNCHANGED <<mon, svc, ep, secret, watch>> BY DEF GetSecret, source
<1>2. w \in WorkerRec BY DEF IInv, WorkerInv
<1>3. CASE secret[x] = None
  <2>1. w' = Idle BY <1>3 DEF GetSecret, ReturnErr
  <2>2. Doomed BY <1>3 DEF Doomed, GetSecret
  <2> QED BY <1>1, <2>1, <2>2, IdleNotDoomed, DoomEnds
<1>4. CASE secret[x] # None
  <2>1. w' = [w EXCEPT !.secs[x] = secret[x], !.toGet = @ \ {x}] /\ queue' = queue
    BY <1>4 DEF GetSecret
  <2>2. /\ w'.pc = w.pc /\ w'.m = w.m /\ w'.errs = w.errs
        /\ w'.toGet = w.toGet \ {x} /\ w'.svcs = w.svcs
    BY <1>2, <2>1 DEF WorkerRec
  <2>3. Phase' = 1 /\ Phase = 1 BY <2>2 DEF Phase, GetSecret
  <2>4. Shrinks(w'.toGet, w.toGet) BY <2>2 DEF Shrinks, GetSecret
  <2>5. Doomed' => Doomed BY <1>1, <2>2, DoomStays DEF GetSecret
  <2> QED BY <1>1, <2>1, <2>3, <2>4, <2>5, InPassNearer DEF NearerPhase, NearerGet
<1> QED BY <1>3, <1>4

\* The loop starts.
LEMMA ListPromsNearer == ASSUME IInv, ListProms PROVE Nearer
<1>1. UNCHANGED <<mon, svc, ep, secret, queue, watch>> BY DEF ListProms, source
<1> DEFINE uids == [p \in AllProms |-> IF prom[p].up THEN prom[p].uid ELSE 0]
<1>2. w' = [w EXCEPT !.pc = "next", !.todo = uids] BY DEF ListProms
<1> HIDE DEF uids
<1>3. /\ w'.pc = "next" /\ w'.m = w.m /\ w'.errs = w.errs
      /\ w'.toGet = w.toGet /\ w'.svcs = w.svcs
  BY <1>2 DEF IInv, WorkerInv, WorkerRec
<1>4. Phase' < Phase
  <2>1. Phase = 1 BY DEF Phase, ListProms
  <2>2. Phase' = 0 BY <1>3 DEF Phase
  <2> QED BY <2>1, <2>2
<1>5. Doomed' => Doomed BY <1>1, <1>3, DoomStays DEF ListProms
<1> QED BY <1>1, <1>4, <1>5, InPassNearer DEF NearerPhase

\* In the loop, no Secret is read any more.
LEMMA LoopNearer ==
  ASSUME IInv, UNCHANGED <<mon, svc, ep, queue, watch>>, Doomed' => Doomed,
         w.pc \in {"next", "labels"} \cup InProm,
         w'.pc \in {"idle", "next", "labels", "down"} \cup InProm,
         w'.toGet \subseteq w.toGet, NearerProms
  PROVE  Nearer
<1>1. Phase = 0 BY DEF Phase, InProm
<1>2. Phase' = 0 BY DEF Phase, InProm
<1> QED BY <1>1, <1>2, InPassNearer DEF NearerPhase, NearerGet

\* A pass that ends early leaves its list behind; one that goes on takes a
\* Prometheus from it.
LEMMA NextPromNearer ==
  ASSUME IInv, NEW p \in AllProms, NextProm(p) PROVE Nearer
<1>1. UNCHANGED <<mon, svc, ep, secret, queue, watch>>
  BY DEF NextProm, ReturnNil, source
<1>2. CASE p # DefaultProm /\ PromNs[p] = MonitorNs[w.m]
  <2>1. w' = Idle BY <1>2 DEF NextProm, ReturnNil
  <2>2. w'.toGet = {} /\ Unvisited' = {} /\ w'.pc = "idle"
    BY <2>1, PassOver DEF Idle
  <2>3. Unvisited # {} BY DEF Unvisited, NextProm
  <2> QED BY <1>1, <2>1, <2>2, <2>3, IdleNotDoomed, LoopNearer
          DEF NearerProms, Shrinks, NextProm
<1>3. CASE ~ (p # DefaultProm /\ PromNs[p] = MonitorNs[w.m])
  <2> DEFINE stage == IF p = DefaultProm THEN "labels" ELSE "namespaces"
  <2>1. w' = [w EXCEPT !.p = p, !.pc = stage] BY <1>3 DEF NextProm
  <2>2. stage \in {"labels", "namespaces"} OBVIOUS
  <2> HIDE DEF stage
  <2>3. /\ w'.pc = stage /\ w'.m = w.m /\ w'.errs = w.errs
        /\ w'.toGet = w.toGet /\ w'.svcs = w.svcs /\ w'.todo = w.todo
    BY <2>1 DEF IInv, WorkerInv, WorkerRec
  <2>4. Unvisited' = Unvisited BY <2>3 DEF Unvisited, Listed
  <2>5. Stage' < Stage
    <3>1. Stage = 3 BY DEF Stage, NextProm
    <3>2. Stage' = 2 BY <2>2, <2>3 DEF Stage
    <3> QED BY <3>1, <3>2
  <2>6. Doomed' => Doomed BY <1>1, <2>2, <2>3, DoomStays DEF NextProm
  <2> QED BY <1>1, <2>2, <2>3, <2>4, <2>5, <2>6, LoopNearer
          DEF NearerProms, NearerStage, NextProm, InProm
<1> QED BY <1>2, <1>3

\* A Prometheus that is done with leaves the list.
LEMMA OneVisited ==
  ASSUME IInv, NEW p \in AllProms, Listed(p), w'.todo = [w.todo EXCEPT ![p] = 0]
  PROVE  Shrinks(Unvisited', Unvisited)
<1>1. w.todo \in [AllProms -> Nat] BY DEF IInv, WorkerInv, WorkerRec
<1>2. Unvisited' = Unvisited \ {p} BY <1>1 DEF Unvisited, Listed
<1> QED BY <1>2 DEF Unvisited, Shrinks

\* The patch labels a monitor that was not labelled, and only then notifies the
\* controller; else the default Prometheus leaves the list.
LEMMA PatchLabelsNearer ==
  ASSUME RestInv, spent' = spent, NEW out \in Outcomes, PatchLabels(out) PROVE Nearer
<1>1. UNCHANGED <<svc, ep, secret, watch>> BY DEF PatchLabels
<1>2. w \in WorkerRec /\ w.m \in Monitors
  BY DEF RestInv, IInv, WorkerInv, LocalsOK, InPass, PatchLabels
<1>3. Exists(w.m) => out = "ok"
  BY NothingSpent DEF RestInv, PatchLabels
<1>4. ~ Exists(w.m) => Doomed BY DEF Doomed, PatchLabels
<1> DEFINE spec == IF out = "ok" THEN mon[w.m].spec ELSE w.spec
<1>5. w' = [w EXCEPT !.pc = "next", !.p = None, !.todo[DefaultProm] = 0,
                     !.spec = spec, !.errs = @ \/ out # "ok"]
  BY DEF PatchLabels
<1> HIDE DEF spec
<1>6. /\ w'.pc = "next" /\ w'.m = w.m /\ (w'.errs => w.errs \/ Doomed)
      /\ w'.toGet = w.toGet /\ w'.svcs = w.svcs
      /\ w'.todo = [w.todo EXCEPT ![DefaultProm] = 0]
  BY <1>2, <1>3, <1>4, <1>5 DEF WorkerRec
<1>7. CASE mon' = mon
  <2>1. Doomed' => Doomed BY <1>1, <1>6, <1>7, DoomStays DEF PatchLabels
  <2>2. Shrinks(Unvisited', Unvisited)
    BY <1>6, OneVisited DEF RestInv, Visiting, AllProms, PatchLabels
  <2>3. queue' = queue BY <1>7 DEF PatchLabels
  <2> QED BY <1>1, <1>6, <1>7, <2>1, <2>2, <2>3, LoopNearer
          DEF NearerProms, RestInv, PatchLabels
<1>8. CASE mon' # mon
  <2>1. Exists(w.m) /\ mon' = [mon EXCEPT ![w.m] = Labelled]
    BY <1>8 DEF PatchLabels
  <2>2. /\ mon \in [Monitors -> MonRec \cup {None}] /\ mon[w.m] \in MonRec
    BY <1>2, <2>1 DEF RestInv, IInv, SourceInv, SourceOK, Exists
  <2>3. Labelled \in MonRec /\ Labelled.lab = TRUE BY <2>2 DEF Labelled, MonRec
  <2>4. ~ mon[w.m].lab
    <3>1. mon' # mon => Labelled # mon[w.m] BY <2>1, <2>2
    <3>2. mon[w.m].lab \in BOOLEAN /\ (mon[w.m].lab = TRUE => Labelled = mon[w.m])
      BY <2>2 DEF Labelled, MonRec
    <3> QED BY <1>8, <3>1, <3>2
  <2>5. \A m \in Monitors : mon'[m] = IF m = w.m THEN Labelled ELSE mon[m]
    BY <2>1, <2>2
  <2>6. Labelled # None BY <2>3, NoObjectAssumption
  <2> HIDE DEF Labelled
  <2>7. Unlabelled' = Unlabelled \ {w.m} /\ w.m \in Unlabelled
    BY <1>2, <2>1, <2>3, <2>4, <2>5, <2>6 DEF Unlabelled, Existing, Exists
  <2>8. Doomed' => Doomed BY <1>1, <1>2, <1>6, <2>5, <2>6, DoomStays DEF PatchLabels
  <2>9. Unsynced' = Unsynced BY <1>1 DEF Unsynced, Synced
  <2> QED BY <2>7, <2>8, <2>9 DEF Nearer, NearerDoom, NearerLabels, Shrinks
<1> QED BY <1>7, <1>8

\* The pass has the namespaces and turns to the copy of the monitor.
LEMMA ListNamespacesNearer ==
  ASSUME IInv, spent' = spent, NEW out \in Outcomes, ListNamespaces(out) PROVE Nearer
<1>1. UNCHANGED <<mon, svc, ep, secret, queue, watch>> BY DEF ListNamespaces, source
<1>2. out = "ok" BY NothingSpent DEF ListNamespaces
<1>3. w' = [w EXCEPT !.pc = "monitor", !.keep = KeptNamespaces(w.p)]
  BY <1>2 DEF ListNamespaces
<1>4. /\ w'.pc = "monitor" /\ w'.m = w.m /\ w'.errs = w.errs
      /\ w'.toGet = w.toGet /\ w'.svcs = w.svcs /\ w'.todo = w.todo
  BY <1>3 DEF IInv, WorkerInv, WorkerRec
<1>5. Stage' < Stage
  <2>1. Stage = 2 BY DEF Stage, ListNamespaces
  <2>2. Stage' = 1 BY <1>4 DEF Stage
  <2> QED BY <2>1, <2>2
<1>6. Unvisited' = Unvisited BY <1>4 DEF Unvisited, Listed
<1>7. Doomed' => Doomed BY <1>1, <1>4, DoomStays DEF ListNamespaces
<1> QED BY <1>1, <1>4, <1>5, <1>6, <1>7, LoopNearer
        DEF NearerProms, NearerStage, InProm, ListNamespaces

\* The copy of the monitor is written: a target that is not nil.
LEMMA CopyMonitorNearer ==
  ASSUME IInv, spent' = spent, NEW out \in Outcomes, CopyMonitor(out) PROVE Nearer
<1>1. UNCHANGED <<mon, svc, ep, secret, queue, watch>> BY DEF CopyMonitor, source
<1>2. out = "ok" BY NothingSpent DEF CopyMonitor
<1>3. w \in WorkerRec /\ w.m \in Monitors /\ w.p \in ProjectProms
  BY DEF IInv, WorkerInv, LocalsOK, InPass, InProm, CopyMonitor
<1> DEFINE uid == IF cMon[w.p][w.m] = None THEN made[w.p][w.m] + 1
                  ELSE cMon[w.p][w.m].uid
           svcTodo == {s \in Services : w.svcs[s] # None}
           secTodo == {x \in Secrets : w.secs[x] # None}
<1>4. uid # 0
  BY <1>3 DEF IInv, CopiesInv, CopiesOK, CMonRec, CopyUidsOK
<1>5. w' = [w EXCEPT !.pc = "copies", !.keep = {}, !.tgt = uid,
                     !.svcTodo = svcTodo, !.secTodo = secTodo,
                     !.errs = @ \/ FALSE]
  BY <1>2 DEF CopyMonitor
<1> HIDE DEF uid, svcTodo, secTodo
<1>6. /\ w'.pc = "copies" /\ w'.m = w.m /\ w'.errs = w.errs /\ w'.tgt = uid
      /\ w'.toGet = w.toGet /\ w'.svcs = w.svcs /\ w'.todo = w.todo
  BY <1>3, <1>5 DEF WorkerRec
<1>7. Stage' < Stage
  <2>1. Stage = 1 BY DEF Stage, CopyMonitor
  <2>2. Stage' = 0 BY <1>6 DEF Stage
  <2> QED BY <2>1, <2>2
<1>8. Unvisited' = Unvisited BY <1>6 DEF Unvisited, Listed
<1>9. Doomed' => Doomed BY <1>1, <1>4, <1>6, DoomStays DEF CopyMonitor
<1> QED BY <1>1, <1>6, <1>7, <1>8, <1>9, LoopNearer
        DEF NearerProms, NearerStage, InProm, CopyMonitor

\* Writes on behalf of one Prometheus.
LEMMA CopyingNearer ==
  ASSUME IInv, UNCHANGED <<mon, svc, ep, queue, watch>>, Doomed' => Doomed,
         w.pc \in {"copies", "endpoints"}, w'.pc \in {"copies", "endpoints"},
         w'.toGet = w.toGet, w'.todo = w.todo, NearerServices
  PROVE  Nearer
<1>1. Stage = 0 BY DEF Stage
<1>2. Stage' = 0 BY DEF Stage
<1>3. Unvisited' = Unvisited BY DEF Unvisited, Listed
<1> QED BY <1>1, <1>2, <1>3, LoopNearer DEF NearerProms, NearerStage, InProm

\* A Service less to copy, its Endpoints to come.
LEMMA CopyServiceNearer ==
  ASSUME IInv, spent' = spent, NEW s \in Services, NEW out \in Outcomes,
         CopyService(s, out)
  PROVE  Nearer
<1>1. UNCHANGED <<mon, svc, ep, secret, queue, watch>> BY DEF CopyService, source
<1>2. out = "ok" BY NothingSpent DEF CopyService
<1>3. w' = [w EXCEPT !.pc = "endpoints", !.s = s, !.svcTodo = @ \ {s},
                     !.errs = @ \/ FALSE]
  BY <1>2 DEF CopyService
<1>4. /\ w'.pc = "endpoints" /\ w'.m = w.m /\ w'.errs = w.errs
      /\ w'.svcTodo = w.svcTodo \ {s}
      /\ w'.toGet = w.toGet /\ w'.svcs = w.svcs /\ w'.todo = w.todo
  BY <1>3 DEF IInv, WorkerInv, WorkerRec
<1>5. ServiceWrites' < ServiceWrites
  <2>1. IsFiniteSet(w.svcTodo) BY PartsFinite DEF Finite
  <2>2. /\ Cardinality(w.svcTodo) \in Nat /\ Cardinality(w'.svcTodo) \in Nat
        /\ Cardinality(w'.svcTodo) = Cardinality(w.svcTodo) - 1
    BY <1>4, <2>1, FS_RemoveElement, FS_CardinalityType DEF CopyService
  <2>3. ServiceWrites = 2 * Cardinality(w.svcTodo) BY <2>2 DEF ServiceWrites, CopyService
  <2>4. ServiceWrites' = 2 * Cardinality(w'.svcTodo) + 1 BY <1>4 DEF ServiceWrites
  <2> QED BY <2>2, <2>3, <2>4
<1>6. Doomed' => Doomed BY <1>1, <1>4, DoomStays DEF CopyService
<1> QED BY <1>1, <1>4, <1>5, <1>6, CopyingNearer DEF NearerServices, CopyService

\* Endpoints less to copy; those that are missing doomed the pass already.
LEMMA CopyEndpointsNearer ==
  ASSUME IInv, spent' = spent, NEW out \in Outcomes, CopyEndpoints(out) PROVE Nearer
<1>1. UNCHANGED <<mon, svc, ep, secret, queue, watch>> BY DEF CopyEndpoints, source
<1>2. ep[w.s] # None => out = "ok" BY NothingSpent DEF CopyEndpoints
<1>3. w \in WorkerRec /\ w.s \in Services /\ w.svcs[w.s] # None /\ w.tgt # 0
  BY DEF IInv, WorkerInv, LocalsOK, CopyEndpoints
<1>4. ep[w.s] = None => Doomed BY <1>3 DEF Doomed, PortsKnown
<1>5. w' = [w EXCEPT !.pc = "copies", !.s = None, !.errs = @ \/ out # "ok"]
  BY DEF CopyEndpoints
<1>6. /\ w'.pc = "copies" /\ w'.m = w.m /\ (w'.errs => w.errs \/ Doomed)
      /\ w'.svcTodo = w.svcTodo /\ w'.tgt = w.tgt
      /\ w'.toGet = w.toGet /\ w'.svcs = w.svcs /\ w'.todo = w.todo
  BY <1>2, <1>3, <1>4, <1>5 DEF WorkerRec
<1>7. ServiceWrites' < ServiceWrites
  <2>1. Cardinality(w.svcTodo) \in Nat BY PartsFinite, FS_CardinalityType DEF Finite
  <2>2. ServiceWrites = 2 * Cardinality(w.svcTodo) + 1
    BY DEF ServiceWrites, CopyEndpoints
  <2>3. ServiceWrites' = 2 * Cardinality(w.svcTodo) BY <1>6, <2>1 DEF ServiceWrites
  <2> QED BY <2>1, <2>2, <2>3
<1>8. Doomed' => Doomed BY <1>1, <1>3, <1>6, DoomStays DEF CopyEndpoints
<1> QED BY <1>1, <1>6, <1>7, <1>8, CopyingNearer DEF NearerServices, CopyEndpoints

\* A Secret less to copy.
LEMMA CopySecretNearer ==
  ASSUME IInv, spent' = spent, NEW x \in Secrets, NEW out \in Outcomes,
         CopySecret(x, out)
  PROVE  Nearer
<1>1. UNCHANGED <<mon, svc, ep, secret, queue, watch>> BY DEF CopySecret, source
<1>2. out = "ok" BY NothingSpent DEF CopySecret
<1>3. w' = [w EXCEPT !.secTodo = @ \ {x}, !.errs = @ \/ FALSE] BY <1>2 DEF CopySecret
<1>4. /\ w'.pc = w.pc /\ w'.m = w.m /\ w'.errs = w.errs /\ w'.tgt = w.tgt
      /\ w'.svcTodo = w.svcTodo /\ w'.secTodo = w.secTodo \ {x}
      /\ w'.toGet = w.toGet /\ w'.svcs = w.svcs /\ w'.todo = w.todo
  BY <1>3 DEF IInv, WorkerInv, WorkerRec
<1>5. Cardinality(w.svcTodo) \in Nat BY PartsFinite, FS_CardinalityType DEF Finite
<1>6. ServiceWrites' <= ServiceWrites
  <2>1. ServiceWrites = 2 * Cardinality(w.svcTodo)
    BY <1>5 DEF ServiceWrites, CopySecret
  <2>2. ServiceWrites' = 2 * Cardinality(w.svcTodo)
    <3>1. w'.pc # "endpoints" BY <1>4 DEF CopySecret
    <3> QED BY <1>4, <1>5, <3>1 DEF ServiceWrites
  <2> QED BY <1>5, <2>1, <2>2
<1>7. Shrinks(w'.secTodo, w.secTodo) BY <1>4 DEF Shrinks, CopySecret
<1>8. Doomed' => Doomed BY <1>1, <1>4, DoomStays DEF CopySecret
<1> QED BY <1>1, <1>4, <1>6, <1>7, <1>8, CopyingNearer
        DEF NearerServices, NearerSecrets, CopySecret

\* A project's Prometheus leaves the list.
LEMMA EndOfPromNearer == ASSUME RestInv, EndOfProm PROVE Nearer
<1>1. UNCHANGED <<mon, svc, ep, secret, queue, watch>> BY DEF EndOfProm, source
<1>2. w \in WorkerRec /\ w.p \in AllProms
  BY DEF RestInv, IInv, WorkerInv, LocalsOK, InProm, EndOfProm, AllProms
<1>3. w' = [w EXCEPT !.pc = "next", !.todo[w.p] = 0, !.p = None, !.tgt = 0]
  BY DEF EndOfProm
<1>4. /\ w'.pc = "next" /\ w'.m = w.m /\ w'.errs = w.errs
      /\ w'.toGet = w.toGet /\ w'.svcs = w.svcs
      /\ w'.todo = [w.todo EXCEPT ![w.p] = 0]
  BY <1>2, <1>3 DEF WorkerRec
<1>5. Shrinks(Unvisited', Unvisited)
  BY <1>2, <1>4, OneVisited DEF RestInv, Visiting, InProm, EndOfProm
<1>6. Doomed' => Doomed BY <1>1, <1>4, DoomStays DEF EndOfProm
<1> QED BY <1>1, <1>4, <1>5, <1>6, LoopNearer DEF NearerProms, InProm, EndOfProm, RestInv

\* A pass without errors leaves nothing behind; one with errors comes back, but
\* is not doomed any more.
LEMMA FinishPassNearer == ASSUME IInv, FinishPass PROVE Nearer
<1>1. UNCHANGED <<mon, svc, ep, secret, watch>> BY DEF FinishPass, source
<1>2. w' = Idle BY DEF FinishPass, ReturnErr, ReturnNil
<1>3. CASE w.errs BY <1>1, <1>2, <1>3, IdleNotDoomed, DoomEnds DEF Doomed
<1>4. CASE ~ w.errs
  <2>1. queue' = queue BY <1>4 DEF FinishPass, ReturnNil
  <2>2. w'.toGet = {} /\ Unvisited' = {} /\ Stage' = 0 /\ w'.pc = "idle"
    BY <1>2, PassOver DEF Idle
  <2>3. Stage = 3 BY DEF Stage, FinishPass
  <2>4. Stage' < Stage BY <2>2, <2>3
  <2> QED BY <1>1, <1>2, <2>1, <2>2, <2>4, IdleNotDoomed, LoopNearer
          DEF NearerProms, NearerStage, FinishPass
<1> QED BY <1>3, <1>4

\* A panic was foreseeable; it takes the queue, the watches and the list along.
LEMMA PanicsNearer ==
  ASSUME RestInv, NilTargetPanics \/ PortPanics PROVE Nearer
<1>1. UNCHANGED <<mon, svc, ep>> BY DEF NilTargetPanics, PortPanics, source
<1>2. w.pc \in {"copies", "endpoints"}
  BY DEF NilTargetPanics, PortPanics, PortMissing
<1>3. Doomed
  <2>1. CASE NilTargetPanics BY <2>1 DEF NilTargetPanics, Doomed
  <2>2. CASE PortPanics
    <3>1. w.s \in Services /\ w.svcs[w.s] # None
      BY <2>2 DEF PortPanics, PortMissing, RestInv, IInv, WorkerInv, LocalsOK
    <3>2. ~ PortsKnown(w.s, w.svcs[w.s])
      BY <2>2 DEF PortPanics, PortMissing, PortsKnown
    <3> QED BY <3>1, <3>2 DEF Doomed
  <2> QED BY <2>1, <2>2
<1>4. w.p \in AllProms /\ Listed(w.p)
  BY <1>2 DEF RestInv, IInv, WorkerInv, LocalsOK, InProm, Visiting, AllProms
<1>5. w' = [Idle EXCEPT !.pc = "down"] /\ queue' = {} /\ watch' = {}
  BY DEF NilTargetPanics, PortPanics, Die
<1>6. Phase' = 0 /\ w'.toGet = {} /\ Unvisited' = {}
  BY <1>5, PassOver DEF RestInv
<1>7. Phase = 0 BY <1>2 DEF Phase
<1>8. Unvisited # {} BY <1>4 DEF Unvisited
<1>9. NearerPhase BY <1>6, <1>7, <1>8 DEF NearerPhase, NearerGet, NearerProms, Shrinks
<1>10. Unsynced' = Unsynced BY <1>1 DEF Unsynced, Synced
<1>11. Unlabelled' = Unlabelled BY <1>1 DEF Unlabelled, Existing, Exists
<1> QED BY <1>3, <1>5, <1>9, <1>10, <1>11
        DEF Nearer, NearerDoom, NearerLabels, NearerWatch, NearerQueue
-----------------------------------------------------------------------------
(* Steps beside the pass.                                                  *)

\* What a step that leaves the worker and the sources alone leaves of the distance.
LEMMA SameDoom == ASSUME UNCHANGED <<w, mon, secret, ep>> PROVE Doomed' = Doomed
<1>1. \A s \in Services : PortsKnown(s, w.svcs[s])' = PortsKnown(s, w.svcs[s])
  BY DEF PortsKnown
<1> QED BY <1>1 DEF Doomed, NilTarget, Exists

\* A notification less.
LEMMA DeliverNearer ==
  ASSUME NEW e \in Services \cup AllProms, Deliver(e) PROVE Nearer
<1>1. UNCHANGED <<mon, svc, ep, secret, w>> BY DEF Deliver, source
<1>2. Unsynced' = Unsynced BY <1>1 DEF Unsynced, Synced
<1>3. Unlabelled' = Unlabelled BY <1>1 DEF Unlabelled, Existing, Exists
<1>4. Shrinks(watch', watch) BY DEF Deliver, Shrinks
<1> QED BY <1>1, <1>2, <1>3, <1>4, SameDoom
        DEF Nearer, NearerDoom, NearerLabels, NearerWatch

\* The process is up again.
LEMMA RestartNearer == ASSUME Restart PROVE Nearer
<1>1. UNCHANGED <<svc, ep>> /\ w' = Idle BY DEF Restart, source
<1>2. Doomed BY DEF Restart, Doomed
<1> QED BY <1>1, <1>2, IdleNotDoomed, DoomEnds

\* Endpoints follow their Service.
LEMMA SyncEndpointsNearer ==
  ASSUME IInv, NEW s \in Services, SyncEndpoints(s) PROVE Nearer
<1>1. svc' = svc BY DEF SyncEndpoints
<1> DEFINE ready == IF svc[s] = None THEN None ELSE DOMAIN svc[s].ports
<1>2. ep[s] # ready /\ ep' = [ep EXCEPT ![s] = ready] BY DEF SyncEndpoints
<1>3. ep \in [Services -> (SUBSET PortNames) \cup {None}]
  BY DEF IInv, SourceInv, SourceOK
<1>4. ~ Synced(s) /\ Synced(s)' BY <1>1, <1>2, <1>3 DEF Synced
<1>5. \A t \in Services \ {s} : Synced(t)' = Synced(t)
  BY <1>1, <1>2, <1>3 DEF Synced
<1>6. Shrinks(Unsynced', Unsynced) BY <1>4, <1>5 DEF Unsynced, Shrinks
<1> QED BY <1>6 DEF Nearer

\* A table of copies with an entry less.
LEMMA OneFewer ==
  ASSUME NEW Names, NEW T, NEW f \in [ProjectProms -> [Names -> T]],
         NEW p \in ProjectProms, NEW n \in Names, f[p][n] # None,
         NEW g, g = [f EXCEPT ![p][n] = None], IsFiniteSet(Filled(f, Names))
  PROVE  /\ Cardinality(Filled(f, Names)) \in Nat
         /\ Cardinality(Filled(g, Names)) = Cardinality(Filled(f, Names)) - 1
<1>1. g[p][n] = None /\ \A q \in ProjectProms : \A k \in Names :
                           q # p \/ k # n => g[q][k] = f[q][k]
  OBVIOUS
<1>2. Filled(g, Names) = Filled(f, Names) \ {<<p, n>>} BY <1>1 DEF Filled
<1>3. <<p, n>> \in Filled(f, Names) BY DEF Filled
<1> QED BY <1>2, <1>3, FS_RemoveElement, FS_CardinalityType

\* A copy less.
LEMMA CollectNearer == ASSUME IInv, Collect PROVE Nearer
<1> DEFINE one == Cardinality(Filled(cMon, Monitors))
           two == Cardinality(Filled(cSvc, Services))
           three == Cardinality(Filled(cEp, Services))
           four == Cardinality(Filled(cSec, Secrets))
<1>1. Finite BY PartsFinite
<1>2. CopiesOK BY DEF IInv, CopiesInv
<1>3. one \in Nat /\ two \in Nat /\ three \in Nat /\ four \in Nat
  BY <1>1, FS_CardinalityType DEF Finite
<1>4. CopiesHeld = one + two + three + four /\ CopiesHeld' = one' + two' + three' + four'
  BY DEF CopiesHeld
<1>5. ASSUME NEW p \in ProjectProms, NEW m \in Monitors, CollectMonitor(p, m)
      PROVE  CopiesHeld' < CopiesHeld
  <2>1. one' = one - 1 BY <1>1, <1>2, <1>5, OneFewer DEF CollectMonitor, Finite, CopiesOK
  <2>2. two' = two /\ three' = three /\ four' = four BY <1>5 DEF CollectMonitor
  <2> HIDE DEF one, two, three, four
  <2> QED BY <1>3, <1>4, <2>1, <2>2
<1>6. ASSUME NEW p \in ProjectProms, NEW s \in Services, CollectService(p, s)
      PROVE  CopiesHeld' < CopiesHeld
  <2>1. two' = two - 1 BY <1>1, <1>2, <1>6, OneFewer DEF CollectService, Finite, CopiesOK
  <2>2. one' = one /\ three' = three /\ four' = four BY <1>6 DEF CollectService
  <2> HIDE DEF one, two, three, four
  <2> QED BY <1>3, <1>4, <2>1, <2>2
<1>7. ASSUME NEW p \in ProjectProms, NEW s \in Services, CollectEndpoints(p, s)
      PROVE  CopiesHeld' < CopiesHeld
  <2>1. three' = three - 1
    BY <1>1, <1>2, <1>7, OneFewer DEF CollectEndpoints, Finite, CopiesOK
  <2>2. one' = one /\ two' = two /\ four' = four BY <1>7 DEF CollectEndpoints
  <2> HIDE DEF one, two, three, four
  <2> QED BY <1>3, <1>4, <2>1, <2>2
<1>8. ASSUME NEW p \in ProjectProms, NEW x \in Secrets, CollectSecret(p, x)
      PROVE  CopiesHeld' < CopiesHeld
  <2>1. four' = four - 1 BY <1>1, <1>2, <1>8, OneFewer DEF CollectSecret, Finite, CopiesOK
  <2>2. one' = one /\ two' = two /\ three' = three BY <1>8 DEF CollectSecret
  <2> HIDE DEF one, two, three, four
  <2> QED BY <1>3, <1>4, <2>1, <2>2
<1>9. NearerCopies BY <1>5, <1>6, <1>7, <1>8 DEF Collect, NearerCopies
<1>10. UNCHANGED <<source, queue, watch, w>>
  BY DEF Collect, CollectMonitor, CollectService, CollectEndpoints, CollectSecret
<1>11. Phase' = Phase /\ Unvisited' = Unvisited /\ Stage' = Stage
       /\ ServiceWrites' = ServiceWrites
  BY <1>10 DEF Phase, Unvisited, Listed, Stage, ServiceWrites
<1>12. Phase \in Nat /\ Stage \in Nat /\ ServiceWrites \in Nat
  <2>1. Phase \in Nat BY DEF Phase
  <2>2. Stage \in Nat BY DEF Stage
  <2>3. Cardinality(w.svcTodo) \in Nat BY <1>1, FS_CardinalityType DEF Finite
  <2> QED BY <2>1, <2>2, <2>3 DEF ServiceWrites
<1>13. Phase' <= Phase /\ Stage' <= Stage /\ ServiceWrites' <= ServiceWrites
  BY <1>11, <1>12
<1>14. NearerPhase
  BY <1>9, <1>10, <1>11, <1>13
     DEF NearerPhase, NearerGet, NearerProms, NearerStage, NearerServices, NearerSecrets
<1> QED BY <1>10, <1>14, SameDoom, InPassNearer DEF source
-----------------------------------------------------------------------------
\* Every step that spends nothing, but for the informers' resync, is nearer to rest.
LEMMA StepNearer ==
  ASSUME RestInv, [Next]_vars, vars' # vars, Calm, spent' = spent,
         ~ \E m \in Monitors : ResyncMonitor(m)
  PROVE  Nearer
<1>1. IInv BY DEF RestInv
<1>2. /\ \A out \in Outcomes : Spend(out) => out = "ok"
      /\ ~ SpendChange
      /\ spent' # [spent EXCEPT !.crashes = @ + 1]
      /\ spent' # [spent EXCEPT !.tampers = @ + 1]
  BY <1>1, NothingSpent
<1>3. ~ Spend("rejected") BY <1>2 DEF Outcomes
<1>4. CASE \E m \in Monitors : Dequeue(m) \/ ResyncMonitor(m)
  BY <1>1, <1>4, DequeueNearer
<1>5. CASE PassStep
  <2>1. ~ RequestFails /\ ~ DiscoveryFails BY <1>3 DEF RequestFails, DiscoveryFails
  <2> QED BY <1>1, <1>5, <2>1, FetchMonitorNearer, ListServicesNearer, GetSecretNearer,
             ListPromsNearer, NextPromNearer, PatchLabelsNearer, ListNamespacesNearer,
             CopyMonitorNearer, CopyEndpointsNearer, CopyServiceNearer, CopySecretNearer,
             PanicsNearer, EndOfPromNearer, FinishPassNearer DEF PassStep
<1>6. CASE \E e \in Services \cup AllProms : Deliver(e) \/ MapFails(e)
  BY <1>3, <1>6, DeliverNearer DEF MapFails
<1>7. CASE Crash \/ Restart BY <1>2, <1>7, RestartNearer DEF Crash
<1>8. CASE \E s \in Services : SyncEndpoints(s) BY <1>1, <1>8, SyncEndpointsNearer
<1>9. CASE Collect BY <1>1, <1>9, CollectNearer
<1>10. ~ Change
  BY <1>2 DEF Change, ChangeMonitor, ChangeService, PodsNotReady, ChangeSecret, ChangeProm,
              MoveNamespace, DeleteCopy
<1>11. ~ UNCHANGED vars OBVIOUS
<1> QED BY <1>4, <1>5, <1>6, <1>7, <1>8, <1>9, <1>10, <1>11 DEF Next

MonitorsKept ==
    \A m \in Monitors : \/ mon'[m] = mon[m]
                        \/ /\ Exists(m) /\ mon'[m] # None
                           /\ mon'[m].fed = mon[m].fed /\ mon'[m].spec = mon[m].spec

\* Labels aside, the reconciler does not touch a monitor (updateServiceMonitorLabels).
LEMMA PassKeepsMonitors ==
  ASSUME IInv, PassStep
  PROVE  MonitorsKept
<1>1. CASE mon' = mon BY <1>1 DEF MonitorsKept
<1>2. ASSUME NEW out \in Outcomes, PatchLabels(out), mon' # mon
      PROVE  Exists(w.m) /\ mon' = [mon EXCEPT ![w.m] = Labelled]
  BY <1>2 DEF PatchLabels
<1>3. CASE Exists(w.m) /\ mon' = [mon EXCEPT ![w.m] = Labelled]
  <2>1. \A m \in Monitors : mon'[m] = IF m = w.m THEN Labelled ELSE mon[m]
    BY <1>3 DEF IInv, SourceInv, SourceOK
  <2> SUFFICES ASSUME NEW m \in Monitors, m = w.m
               PROVE  /\ Exists(m) /\ Labelled # None
                      /\ Labelled.fed = mon[m].fed /\ Labelled.spec = mon[m].spec
    BY <2>1 DEF MonitorsKept
  <2>2. mon[m] \in MonRec BY <1>3 DEF Exists, IInv, SourceInv, SourceOK
  <2>3. /\ Labelled \in MonRec
        /\ Labelled.fed = mon[m].fed /\ Labelled.spec = mon[m].spec
    BY <2>2 DEF Labelled, MonRec
  <2> QED BY <1>3, <2>3, NoObjectAssumption
<1>4. (\E out \in Outcomes : PatchLabels(out)) \/ mon' = mon
  BY DEF PassStep, RequestFails, FetchMonitor, DiscoveryFails, ListServices,
         GetSecret, ListProms, NextProm, ListNamespaces, CopyMonitor,
         CopyEndpoints, CopyService, CopySecret, NilTargetPanics, PortPanics,
         EndOfProm, FinishPass, source
<1> QED BY <1>1, <1>2, <1>3, <1>4

\* What a pass needs of the sources stays there as long as the sources do.
LEMMA CalmKept ==
  ASSUME Calm, UNCHANGED <<svc, secret>>,
         MonitorsKept,
         \A s \in Services : ep'[s] = ep[s] \/ svc[s] = None \/ ep'[s] = DOMAIN svc[s].ports,
         \A s \in Services : svc[s] # None => DOMAIN svc[s].ports # None
  PROVE  Calm'
<1>1. \A m \in Monitors : Federated(m)' => SecretsPresent(m)'
  BY DEF Calm, MonitorsKept, Federated, Exists, SecretsPresent
<1>2. \A s \in Services : svc'[s] # None => PortsKnown(s, svc[s])'
  BY DEF Calm, PortsKnown
<1> QED BY <1>1, <1>2 DEF Calm

\* A calm cluster that users, failures and crashes leave alone stays calm.
LEMMA CalmStep ==
  ASSUME IInv, [Next]_vars, Calm, spent' = spent PROVE Calm'
<1>1. /\ \A out \in Outcomes : Spend(out) => out = "ok"
      /\ ~ SpendChange
      /\ spent' # [spent EXCEPT !.crashes = @ + 1]
      /\ spent' # [spent EXCEPT !.tampers = @ + 1]
  BY NothingSpent
<1>2. \A s \in Services : svc[s] # None => DOMAIN svc[s].ports # None
  <2> TAKE s \in Services
  <2> HAVE svc[s] # None
  <2>1. DOMAIN svc[s].ports \in SUBSET PortNames
    <3>1. svc[s].ports \in SvcPorts BY DEF IInv, SourceInv, SourceOK, SvcRec
    <3> QED BY <3>1, PortsAssumption
  <2> QED BY <2>1, NoEndpointsAssumption
<1>3. CASE UNCHANGED <<mon, svc, secret, ep>> BY <1>2, <1>3, CalmKept DEF MonitorsKept
<1>4. CASE PassStep
  <2>1. UNCHANGED <<svc, secret, ep>>
    BY <1>4
       DEF PassStep, RequestFails, FetchMonitor, DiscoveryFails, ListServices,
           GetSecret, ListProms, NextProm, PatchLabels, ListNamespaces, CopyMonitor,
           CopyEndpoints, CopyService, CopySecret, NilTargetPanics, PortPanics,
           EndOfProm, FinishPass, source
  <2> QED BY <1>2, <1>4, <2>1, PassKeepsMonitors, CalmKept
<1>5. ASSUME NEW s \in Services, SyncEndpoints(s) PROVE Calm'
  <2>1. UNCHANGED <<mon, svc, secret>> BY <1>5 DEF SyncEndpoints
  <2>2. \A t \in Services :
          ep'[t] = ep[t] \/ svc[t] = None \/ ep'[t] = DOMAIN svc[t].ports
    BY <1>5 DEF SyncEndpoints, IInv, SourceInv, SourceOK
  <2> QED BY <1>2, <2>1, <2>2, CalmKept DEF MonitorsKept
<1>6. CASE \/ \E m \in Monitors : Dequeue(m) \/ ResyncMonitor(m)
           \/ \E e \in Services \cup AllProms : Deliver(e) \/ MapFails(e)
           \/ Crash \/ Restart \/ Collect \/ UNCHANGED vars
  <2>1. UNCHANGED <<mon, svc, secret, ep>>
    BY <1>6 DEF Dequeue, ResyncMonitor, Deliver, MapFails, Crash, Restart, Collect,
                CollectMonitor, CollectService, CollectEndpoints, CollectSecret, source, vars
  <2> QED BY <1>3, <2>1
<1>7. ~ Change
  BY <1>1 DEF Change, ChangeMonitor, ChangeService, PodsNotReady, ChangeSecret, ChangeProm,
              MoveNamespace, DeleteCopy
<1> QED BY <1>4, <1>5, <1>6, <1>7 DEF Next

\* The endpoints controller and the reconciler keep a cluster calm: a pass has what it
\* needs for as long as users, failures and crashes leave the cluster alone.
THEOREM CalmStays == Spec => [][Calm /\ spent' = spent => Calm']_vars
<1>1. IInv /\ [Next]_vars => [Calm /\ spent' = spent => Calm']_vars BY CalmStep
<1> QED BY <1>1, Invariance, PTL DEF Spec

\* No step of the reconciler, of a watch, of the endpoints controller or of the
\* garbage collector is in vain: each brings the system closer to rest, while users,
\* failures and crashes leave alone a cluster that has its Secrets and Endpoints.
THEOREM NoStepInVain == Spec => ComesCloser
<1> DEFINE Closer == Calm /\ spent' = spent /\ ~ (\E m \in Monitors : ResyncMonitor(m))
                       => Below(Distance', Distance)
<1>1. RestInv /\ RestInv' /\ [Next]_vars => [Closer]_vars
  <2> SUFFICES ASSUME RestInv, RestInv', [Next]_vars, vars' # vars, Calm,
                      spent' = spent, ~ (\E m \in Monitors : ResyncMonitor(m))
               PROVE  Below(Distance', Distance)
    OBVIOUS
  <2>1. Nearer BY StepNearer
  <2> QED BY <2>1, NearerIsBelow DEF RestInv
<1> HIDE DEF Closer
<1>2. Spec => [][Closer]_vars BY <1>1, RestInvariance, PTL DEF Spec
<1> QED BY <1>2 DEF ComesCloser, Closer

\* The distance is a measure in every reachable state.
THEOREM DistanceMeasured == Spec => [](Distance \in Measures)
<1>1. IInv => Distance \in Measures BY PartsWeighed DEF Weighed
<1> QED BY <1>1, Invariance, PTL

\* And measures do not descend for ever, so that a calm cluster takes finitely many
\* such steps: no notification of the reconciler's own patch, requeue, panic or
\* collected copy keeps it busy.
THEOREM NoEndlessDescent ==
  ~ \E f \in [Nat -> Measures] : \A n \in Nat : Below(f[n + 1], f[n])
<1>1. IsWellFoundedOn(LexProductOrdering(Smaller, Nat, 12), Measures)
  BY SmallerWellFounded, WFLexProductOrdering DEF Measures
<1>2. ASSUME NEW a \in Measures, NEW b \in Measures, Below(a, b)
      PROVE  <<a, b>> \in LexProductOrdering(Smaller, Nat, 12)
  <2>1. PICK i \in DOMAIN b : a[i] < b[i] /\ \A j \in 1 .. i - 1 : a[j] = b[j]
    BY <1>2 DEF Below
  <2>2. DOMAIN b = 1 .. 12 /\ a[i] \in Nat /\ b[i] \in Nat BY <2>1 DEF Measures
  <2>3. <<a[i], b[i]>> \in Smaller BY <2>1, <2>2 DEF Smaller
  <2> QED BY <2>1, <2>2, <2>3 DEF LexProductOrdering, Measures
<1>3. SUFFICES ASSUME NEW f \in [Nat -> Measures],
                      \A n \in Nat : Below(f[n + 1], f[n])
               PROVE  FALSE
  OBVIOUS
<1>4. \A n \in Nat : <<f[n + 1], f[n]>> \in LexProductOrdering(Smaller, Nat, 12)
  BY <1>2, <1>3
<1> QED BY <1>1, <1>4 DEF IsWellFoundedOn
=============================================================================
