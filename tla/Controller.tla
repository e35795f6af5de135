----------------------------- MODULE Controller -----------------------------
(***************************************************************************)
(* The controller under the reconcilers: the work queue of client-go with  *)
(* its dirty and processing sets, the delaying queue behind AddRateLimited, *)
(* the workers of controller-runtime, and the CreateOrPatch with which a   *)
(* pass writes.  A pass here is reduced to what these parts see: it reads  *)
(* its source and upserts one copy, in a Get and a Create or a Patch, each *)
(* of which may fail or, for a write, succeed with its answer lost.        *)
(*                                                                         *)
(* Abstractions.  An object is the one value that passes write; the delay  *)
(* of a retry is any time.  An orderly shutdown, in which workers finish   *)
(* what is queued and Add is ignored, is a Crash before which nothing is   *)
(* taken any more.                                                         *)
(***************************************************************************)
EXTENDS Naturals, Sequences, Functions

CONSTANTS
    Requests,      \* requests, one for each source object
    Workers,       \* MaxConcurrentReconciles of them; the reconcilers have one
    Live,          \* workers whose passes end; the others may hang in a request
    Values,        \* what sources may say
    Says,          \* of which, for each request, its source may say these
    None,          \* no object, no request, nothing read
    MaxFaults      \* bound of an instance, on crashes and deleted copies

ASSUME ValuesAssumption == None \notin Requests \cup Values
ASSUME SaysAssumption   == Says \in [Requests -> SUBSET Values]
ASSUME LiveAssumption   == Live \subseteq Workers
ASSUME BoundAssumption  == MaxFaults \in Nat

VARIABLES
    source, copy,  \* the objects: [Requests -> Values], copies may be None
    lost,          \* history: a user deleted the copy, nothing has written it since
    events,        \* requests whose source changed, not yet seen by the informer
    queue, dirty, processing,   \* workqueue.Type
    delayed,       \* the delaying queue
    work,          \* each worker: where it is, its request, what it read, and
                   \* whether it knows that it wrote the copy
    faults         \* so far

memory == <<events, queue, dirty, processing, delayed, work>>
vars   == <<source, copy, lost, memory, faults>>

WorkRec == [pc : {"idle", "read", "get", "write", "retry", "done"},
            item : Requests \cup {None}, read : Values \cup {None},
            got : Values \cup {None}, wrote : BOOLEAN]
Blank(pc, item, wrote) ==
    [pc |-> pc, item |-> item, read |-> None, got |-> None, wrote |-> wrote]
Idle    == Blank("idle", None, FALSE)

Workless == [k \in Workers |-> Idle]

Init ==
    /\ source \in [Requests -> Values] /\ \A i \in Requests : source[i] \in Says[i]
    /\ copy = [i \in Requests |-> None] /\ lost = {} /\ faults = 0
    /\ queue = <<>> /\ dirty = {} /\ processing = {} /\ delayed = {}
    /\ events = Requests /\ work = Workless

---------------------------------------------------------------------------
(* The work queue, under its lock.                                         *)

(* A mutant of Add: processing is not looked at.                           *)
AddAnyway(i) ==
    /\ dirty' = dirty \cup {i}
    /\ queue' = IF i \in dirty THEN queue ELSE Append(queue, i)
Add(i) ==
    /\ dirty' = dirty \cup {i}
    /\ queue' = IF i \in dirty \cup processing THEN queue ELSE Append(queue, i)

(* A request marked dirty while it was processed is queued again.          *)
DirtyForgotten(i) == processing' = processing \ {i} /\ queue' = queue   \* a mutant of Done
Done(i) ==
    /\ processing' = processing \ {i}
    /\ queue' = IF i \in dirty THEN Append(queue, i) ELSE queue

(* An event of the source reaches the handler.                             *)
Notify(i) ==
    /\ i \in events /\ events' = events \ {i}
    /\ Add(i)
    /\ UNCHANGED <<source, copy, lost, processing, delayed, work, faults>>

(* waitingLoop: the delay of a retry is over.                              *)
Ready(i) ==
    /\ i \in delayed /\ delayed' = delayed \ {i}
    /\ Add(i)
    /\ UNCHANGED <<source, copy, lost, events, processing, work, faults>>

---------------------------------------------------------------------------
(* A worker: processNextWorkItem, reconcileHandler and a pass.             *)

At(k, pc)     == work[k].pc = pc
Leave(k, pc, wrote) ==
    work' = [work EXCEPT ![k] = Blank(pc, work[k].item, wrote)]
QueueStands   == UNCHANGED <<events, queue, dirty, processing, delayed, faults>>
ObjectsStand  == UNCHANGED <<source, copy, lost>>

LastFirst == <<queue[Len(queue)], SubSeq(queue, 1, Len(queue) - 1)>>   \* a mutant of Split
Split     == <<Head(queue), Tail(queue)>>

Get(k) ==
    /\ At(k, "idle") /\ queue # <<>>
    /\ LET i == Split[1] IN
         /\ queue' = Split[2]
         /\ processing' = processing \cup {i} /\ dirty' = dirty \ {i}
         /\ work' = [work EXCEPT ![k] = Blank("read", i, FALSE)]
    /\ ObjectsStand /\ UNCHANGED <<events, delayed, faults>>

ReadSource(k) ==
    /\ At(k, "read")
    /\ work' = [work EXCEPT ![k].pc = "get", ![k].read = source[work[k].item]]
    /\ ObjectsStand /\ QueueStands

(* CreateOrPatch: the object as it is now.                                 *)
GetCopy(k) ==
    /\ At(k, "get")
    /\ work' = [work EXCEPT ![k].pc = "write", ![k].got = copy[work[k].item]]
    /\ ObjectsStand /\ QueueStands

(* A Create of what exists and a Patch of what is gone are refused; the    *)
(* patch is the difference to what was got, and may be empty.              *)
Refused(k) == (work[k].got = None) # (copy[work[k].item] = None)
Result(k)  == IF work[k].got = work[k].read THEN copy[work[k].item] ELSE work[k].read

WriteCopy(k, answered) ==
    /\ At(k, "write") /\ ~ Refused(k)
    /\ copy' = [copy EXCEPT ![work[k].item] = Result(k)]
    /\ lost' = lost \ {work[k].item}
    /\ Leave(k, IF answered THEN "done" ELSE "retry", answered)
    /\ UNCHANGED source /\ QueueStands

WriteRefused(k) == At(k, "write") /\ Refused(k) /\ Leave(k, "retry", FALSE) /\ ObjectsStand /\ QueueStands

RequestFails(k) ==
    work[k].pc \in {"read", "get", "write"} /\ Leave(k, "retry", FALSE) /\ ObjectsStand /\ QueueStands

(* An error: the request is added before Done is deferred to.              *)
ErrorForgotten(k) ==     \* a mutant of AddRateLimited
    /\ At(k, "retry") /\ Leave(k, "done", FALSE)
    /\ ObjectsStand /\ QueueStands
AddRateLimited(k) ==
    /\ At(k, "retry") /\ Leave(k, "done", FALSE)
    /\ delayed' = delayed \cup {work[k].item}
    /\ ObjectsStand /\ UNCHANGED <<events, queue, dirty, processing, faults>>

RequestKept(k) ==        \* a mutant of Finish
    /\ At(k, "done") /\ Done(work[k].item)
    /\ work' = [work EXCEPT ![k].pc = "idle", ![k].wrote = FALSE]
    /\ ObjectsStand /\ UNCHANGED <<events, dirty, delayed, faults>>
Finish(k) ==
    /\ At(k, "done") /\ Done(work[k].item)
    /\ work' = [work EXCEPT ![k] = Idle]
    /\ ObjectsStand /\ UNCHANGED <<events, dirty, delayed, faults>>

---------------------------------------------------------------------------
(* Users, and the process.                                                 *)

Fault == faults < MaxFaults /\ faults' = faults + 1

EditSource(i, v) ==
    /\ v \in Says[i] \ {source[i]} /\ source' = [source EXCEPT ![i] = v]
    /\ events' = events \cup {i}
    /\ UNCHANGED <<copy, lost, queue, dirty, processing, delayed, work, faults>>

DeleteCopy(i) ==
    /\ copy[i] # None /\ copy' = [copy EXCEPT ![i] = None]
    /\ lost' = lost \cup {i}
    /\ Fault /\ UNCHANGED <<source, memory>>

(* A panic, or the end of the process: what it knew is lost, and when it   *)
(* starts again the informers list every source.                           *)
Crash ==
    /\ Fault
    /\ queue' = <<>> /\ dirty' = {} /\ processing' = {} /\ delayed' = {}
    /\ events' = Requests /\ work' = Workless
    /\ ObjectsStand

WorkerStep(k) ==
    \/ Get(k) \/ ReadSource(k) \/ GetCopy(k) \/ WriteRefused(k) \/ RequestFails(k)
    \/ AddRateLimited(k) \/ Finish(k)
    \/ \E answered \in BOOLEAN : WriteCopy(k, answered)

Next ==
    \/ Crash
    \/ \E k \in Workers : WorkerStep(k)
    \/ \E i \in Requests : Notify(i) \/ Ready(i) \/ DeleteCopy(i)
                           \/ \E v \in Values : EditSource(i, v)

Spec == Init /\ [][Next]_vars

(* Goroutines run, watches deliver and delays end; but a request to the    *)
(* API server has no deadline, and not every worker need come back.        *)
Fairness ==
    /\ \A k \in Live : WF_vars(WorkerStep(k))
    /\ \A i \in Requests : WF_vars(Notify(i)) /\ WF_vars(Ready(i))
FairSpec == Spec /\ Fairness

---------------------------------------------------------------------------
(* Properties                                                              *)

(* Types of the objects, the queue and the workers.                        *)
TypeOK ==
    /\ source \in [Requests -> Values] /\ copy \in [Requests -> Values \cup {None}]
    /\ {lost, events, dirty, processing, delayed} \subseteq SUBSET Requests
    /\ queue \in Seq(Requests) /\ work \in [Workers -> WorkRec] /\ faults \in 0 .. MaxFaults
    /\ \A k \in Workers : At(k, "idle") <=> work[k].item = None

QueueHolds == Range(queue) = dirty \ processing /\ IsInjective(queue)
Exclusive ==
    /\ processing = {work[k].item : k \in Workers} \ {None}
    /\ \A k, l \in Workers : work[k].item = work[l].item => k = l \/ At(k, "idle")

(* The queue holds what is dirty and not being processed, each request     *)
(* once, and processing is what the workers have, no two of them the same  *)
(* (queue.go 120-193).                                                     *)
QueueConsistent == QueueHolds /\ Exclusive

Pending == events \cup dirty \cup delayed

(* What a worker has not done yet makes up for what is out of date: it has *)
(* not read the source, or has read it as it is, or will come back.        *)
Underway(k, i) ==
    work[k].item = i /\ \/ work[k].pc \in {"read", "retry"}
                        \/ work[k].pc \in {"get", "write"} /\ work[k].read = source[i]

(* A copy says what its source says, or a request is pending or underway   *)
(* that will see to it, whatever fails and however workers, edits and      *)
(* retries interleave (queue.go 120-190, controller.go 253-343).           *)
FreshOrPending ==
    \A i \in Requests \ lost :
        copy[i] = source[i] \/ i \in Pending \/ \E k \in Workers : Underway(k, i)

Processes(i) == \E k \in Workers : work[k].item = i

(* The controller implements RequestSet: a request has one worker at a     *)
(* time, no request is dropped, and the two requests of CreateOrPatch have *)
(* the effect of one.                                                      *)
Passes == [k \in Workers |-> [item |-> work[k].item, read |-> work[k].read,
                              wrote |-> work[k].wrote]]
RS == INSTANCE RequestSet WITH pending <- Pending, work <- Passes
Implements == RS!Spec

(* A request that is pending is processed, however many others come and    *)
(* fail, and though other workers hang: as long as one comes back, the     *)
(* queue, first in first out, reaches it (queue.go 153-190).               *)
Served == \A i \in Requests : i \in Pending ~> Processes(i)
=============================================================================
