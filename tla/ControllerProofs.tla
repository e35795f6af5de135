--------------------------- MODULE ControllerProofs ---------------------------
(***************************************************************************)
(* Proofs about Controller, for any number of requests and workers: its    *)
(* types, the consistency of the work queue, that no work is lost, and     *)
(* that it implements RequestSet.                                          *)
(***************************************************************************)
EXTENDS Controller, TLAPS

\* What a worker holds at each stage of a pass.
LocalsOK(k) ==
    /\ work[k].read # None <=> work[k].pc \in {"get", "write"}
    /\ work[k].got # None => At(k, "write")
    /\ work[k].wrote => At(k, "done")

\* Only users, who delete it, write a copy between a pass's Get and its write.
GotOK(k) ==
    At(k, "write") /\ work[k].got # None => copy[work[k].item] \in {work[k].got, None}

\* A source that changed after a pass read it is pending, as is the request of
\* a pass that ends without having written.
StalePending(k) ==
    /\ At(k, "get") \/ At(k, "write") =>
         work[k].read = source[work[k].item] \/ work[k].item \in Pending
    /\ At(k, "done") /\ ~ work[k].wrote => work[k].item \in Pending

WorkersOK == \A k \in Workers : LocalsOK(k) /\ GotOK(k) /\ StalePending(k)

IInv == TypeOK /\ QueueConsistent /\ WorkersOK /\ FreshOrPending

---------------------------------------------------------------------------
(* Sequences without duplicates.                                           *)

(* Append adds its element, and no duplicate if it is new.                 *)
LEMMA RangeAppend ==
    ASSUME NEW S, NEW q \in Seq(S), NEW x \in S
    PROVE  /\ Append(q, x) \in Seq(S)
           /\ Range(Append(q, x)) = Range(q) \cup {x}
           /\ IsInjective(q) /\ x \notin Range(q) => IsInjective(Append(q, x))
<1> DEFINE r == Append(q, x)
<1>1. /\ r \in Seq(S) /\ Len(q) \in Nat /\ DOMAIN q = 1 .. Len(q)
      /\ DOMAIN r = 1 .. (Len(q) + 1)
      /\ \A j \in 1 .. Len(q) : r[j] = q[j]
      /\ r[Len(q) + 1] = x
  OBVIOUS
<1> HIDE DEF r
<1>2. Range(r) = Range(q) \cup {x}
  <2>1. \A y \in Range(r) : y \in Range(q) \cup {x}  BY <1>1 DEF Range
  <2>2. \A y \in Range(q) \cup {x} : y \in Range(r)
    <3>1. \A j \in 1 .. Len(q) : j \in DOMAIN r /\ q[j] = r[j]  BY <1>1
    <3>2. Len(q) + 1 \in DOMAIN r  BY <1>1
    <3> QED  BY <1>1, <3>1, <3>2 DEF Range
  <2> QED  BY <2>1, <2>2
<1>3. IsInjective(q) /\ x \notin Range(q) => IsInjective(r)
  <2> SUFFICES ASSUME IsInjective(q), x \notin Range(q),
                      NEW a \in DOMAIN r, NEW b \in DOMAIN r, r[a] = r[b]
               PROVE  a = b
    BY DEF IsInjective
  <2>1. \A j \in 1 .. Len(q) : r[j] # x  BY <1>1 DEF Range
  <2>2. CASE a = Len(q) + 1 \/ b = Len(q) + 1  BY <1>1, <2>1, <2>2
  <2>3. CASE a \in 1 .. Len(q) /\ b \in 1 .. Len(q)  BY <1>1, <2>3 DEF IsInjective
  <2> QED  BY <1>1, <2>2, <2>3
<1> QED  BY <1>1, <1>2, <1>3 DEF r

(* Head and Tail share out the elements of a queue without duplicates.     *)
LEMMA RangeTail ==
    ASSUME NEW S, NEW q \in Seq(S), q # <<>>, IsInjective(q)
    PROVE  /\ Head(q) \in S /\ Tail(q) \in Seq(S)
           /\ Head(q) \in Range(q)
           /\ Range(Tail(q)) = Range(q) \ {Head(q)}
           /\ IsInjective(Tail(q))
<1> DEFINE r == Tail(q)
<1>1. /\ r \in Seq(S) /\ Len(q) \in Nat /\ Len(q) >= 1 /\ DOMAIN q = 1 .. Len(q)
      /\ DOMAIN r = 1 .. (Len(q) - 1)
      /\ \A j \in 1 .. (Len(q) - 1) : r[j] = q[j + 1]
      /\ Head(q) = q[1] /\ Head(q) \in S
  OBVIOUS
<1> HIDE DEF r
<1>2. Head(q) \in Range(q)
  <2>1. 1 \in DOMAIN q  BY <1>1
  <2> QED  BY <1>1, <2>1 DEF Range
<1>3. \A j \in 2 .. Len(q) : j \in DOMAIN q /\ q[j] # q[1]  BY <1>1 DEF IsInjective
<1>4. Range(r) = Range(q) \ {Head(q)}
  <2>1. \A y \in Range(r) : y \in Range(q) \ {Head(q)}
    <3> TAKE y \in Range(r)
    <3>1. PICK j \in 1 .. (Len(q) - 1) : y = q[j + 1]  BY <1>1 DEF Range
    <3>2. j + 1 \in 2 .. Len(q)  BY <1>1
    <3> QED  BY <1>1, <1>3, <3>1, <3>2 DEF Range
  <2>2. \A y \in Range(q) \ {Head(q)} : y \in Range(r)
    <3> TAKE y \in Range(q) \ {Head(q)}
    <3>1. PICK j \in 1 .. Len(q) : y = q[j]  BY <1>1 DEF Range
    <3>2. j # 1  BY <1>1, <3>1
    <3>3. j - 1 \in DOMAIN r /\ r[j - 1] = q[j]  BY <1>1, <3>2
    <3> QED  BY <3>1, <3>3 DEF Range
  <2> QED  BY <2>1, <2>2
<1>5. IsInjective(r)
  <2> SUFFICES ASSUME NEW a \in DOMAIN r, NEW b \in DOMAIN r, r[a] = r[b]
               PROVE  a = b
    BY DEF IsInjective
  <2>1. a + 1 \in DOMAIN q /\ b + 1 \in DOMAIN q /\ q[a + 1] = q[b + 1]  BY <1>1
  <2>2. a + 1 = b + 1  BY <2>1 DEF IsInjective
  <2> QED  BY <1>1, <2>2
<1> QED  BY <1>1, <1>2, <1>4, <1>5 DEF r
---------------------------------------------------------------------------
(* The work queue.                                                         *)

(* Add keeps the queue what it is to be.                                   *)
LEMMA AddKeepsQueue ==
    ASSUME TypeOK, QueueHolds, NEW i \in Requests, Add(i), processing' = processing
    PROVE  queue' \in Seq(Requests) /\ QueueHolds'
<1> USE DEF TypeOK, QueueHolds
<1>1. CASE i \in dirty \cup processing  BY <1>1 DEF Add
<1>2. CASE i \notin dirty \cup processing
  <2>1. i \notin Range(queue)  BY <1>2
  <2>2. queue' = Append(queue, i) /\ dirty' = dirty \cup {i}  BY <1>2 DEF Add
  <2>3. /\ queue' \in Seq(Requests) /\ IsInjective(queue')
        /\ Range(queue') = Range(queue) \cup {i}
    BY <2>1, <2>2, RangeAppend
  <2> QED  BY <1>2, <2>2, <2>3
<1> QED  BY <1>1, <1>2

(* Done hands a request that became dirty back to the queue.               *)
LEMMA DoneKeepsQueue ==
    ASSUME TypeOK, QueueHolds, NEW i \in processing, Done(i), dirty' = dirty
    PROVE  queue' \in Seq(Requests) /\ QueueHolds'
<1> USE DEF TypeOK, QueueHolds
<1>1. i \in Requests /\ i \notin Range(queue)  OBVIOUS
<1>2. CASE i \notin dirty  BY <1>2 DEF Done
<1>3. CASE i \in dirty
  <2>1. queue' = Append(queue, i) /\ processing' = processing \ {i}  BY <1>3 DEF Done
  <2>2. /\ queue' \in Seq(Requests) /\ IsInjective(queue')
        /\ Range(queue') = Range(queue) \cup {i}
    BY <1>1, <2>1, RangeAppend
  <2> QED  BY <1>3, <2>1, <2>2
<1> QED  BY <1>2, <1>3

(* What Get takes was waiting, and no worker has it.                       *)
LEMMA GetTakes ==
    ASSUME TypeOK, QueueConsistent, NEW k \in Workers, Get(k)
    PROVE  \E i \in dirty \ processing :
             /\ i \in Requests
             /\ \A l \in Workers : work[l].item # i
             /\ queue' \in Seq(Requests) /\ QueueHolds'
             /\ processing' = processing \cup {i} /\ dirty' = dirty \ {i}
             /\ work' = [work EXCEPT ![k] = Blank("read", i, FALSE)]
<1> USE DEF TypeOK, QueueConsistent, QueueHolds
<1> DEFINE i == Head(queue)
<1>1. /\ queue # <<>> /\ queue' = Tail(queue)
      /\ processing' = processing \cup {i} /\ dirty' = dirty \ {i}
      /\ work' = [work EXCEPT ![k] = Blank("read", i, FALSE)]
  BY DEF Get, Split
<1>2. /\ i \in Requests /\ queue' \in Seq(Requests)
      /\ i \in Range(queue) /\ Range(queue') = Range(queue) \ {i} /\ IsInjective(queue')
  BY <1>1, RangeTail
<1>3. \A l \in Workers : work[l].item # i
  BY <1>2, ValuesAssumption DEF Exclusive
<1> QED  BY <1>1, <1>2, <1>3
---------------------------------------------------------------------------
(* Types.                                                                  *)

WorkOK == /\ work \in [Workers -> WorkRec]
          /\ \A k \in Workers : At(k, "idle") <=> work[k].item = None

(* A worker that leaves a pass for retry or done keeps its request.        *)
LEMMA LeaveOK ==
    ASSUME WorkOK, NEW k \in Workers, ~ At(k, "idle"),
           NEW pc \in {"retry", "done"}, NEW wrote \in BOOLEAN, Leave(k, pc, wrote)
    PROVE  /\ WorkOK'
           /\ work'[k] = Blank(pc, work[k].item, wrote)
           /\ \A l \in Workers \ {k} : work'[l] = work[l]
           /\ \A l \in Workers : work'[l].item = work[l].item
<1> DEFINE new == Blank(pc, work[k].item, wrote)
<1>1. work' = [work EXCEPT ![k] = new]  BY DEF Leave
<1>2. new \in WorkRec  BY DEF WorkOK, WorkRec, Blank
<1>3. work[k].item # None /\ new.item = work[k].item /\ new.pc = pc
  BY DEF WorkOK, At, Blank
<1> HIDE DEF new
<1>4. work' \in [Workers -> WorkRec] /\ work'[k] = new
      /\ \A l \in Workers \ {k} : work'[l] = work[l]
  BY <1>1, <1>2 DEF WorkOK
<1>5. \A l \in Workers : (work'[l].pc = "idle") <=> (work'[l].item = None)
  BY <1>3, <1>4 DEF WorkOK, At
<1>6. \A l \in Workers : work'[l].item = work[l].item  BY <1>3, <1>4
<1> QED  BY <1>4, <1>5, <1>6 DEF WorkOK, At, new

LEMMA InitTypes == Init => TypeOK
BY BoundAssumption DEF Init, TypeOK, Workless, Idle, Blank, WorkRec, At

LEMMA TypeStep == TypeOK /\ QueueConsistent /\ WorkersOK /\ [Next]_vars => TypeOK'
<1> SUFFICES ASSUME TypeOK, QueueConsistent, WorkersOK, [Next]_vars PROVE TypeOK'  OBVIOUS
<1>a. WorkOK  BY DEF TypeOK, WorkOK
<1>1. CASE Crash
  <2>1. WorkOK'  BY <1>1 DEF Crash, Workless, Idle, Blank, WorkOK, WorkRec, At
  <2>2. faults' \in 0 .. MaxFaults  BY <1>1, BoundAssumption DEF Crash, Fault, TypeOK
  <2> QED  BY <1>1, <2>1, <2>2 DEF Crash, ObjectsStand, TypeOK, WorkOK
<1>2. ASSUME NEW k \in Workers, WorkerStep(k) PROVE TypeOK'
  <2>1. CASE Get(k)
    <3>1. PICK i \in dirty \ processing :
             /\ i \in Requests
             /\ queue' \in Seq(Requests)
             /\ processing' = processing \cup {i} /\ dirty' = dirty \ {i}
             /\ work' = [work EXCEPT ![k] = Blank("read", i, FALSE)]
      BY <2>1, GetTakes
    <3>2. WorkOK'  BY <1>a, <3>1, ValuesAssumption DEF WorkOK, WorkRec, Blank, At
    <3>3. UNCHANGED <<source, copy, lost, events, delayed, faults>>
      BY <2>1 DEF Get, ObjectsStand
    <3>4. dirty' \in SUBSET Requests /\ processing' \in SUBSET Requests
      BY <3>1 DEF TypeOK
    <3> QED  BY <3>1, <3>2, <3>3, <3>4 DEF TypeOK, WorkOK
  <2>2. CASE ReadSource(k)
    <3>1. work[k].item \in Requests  BY <2>2, <1>a DEF ReadSource, WorkOK, WorkRec, At
    <3>2. WorkOK'  BY <1>a, <2>2, <3>1 DEF TypeOK, ReadSource, WorkOK, WorkRec, At
    <3> QED  BY <2>2, <3>2 DEF ReadSource, ObjectsStand, QueueStands, TypeOK, WorkOK
  <2>3. CASE GetCopy(k)
    <3>1. work[k].item \in Requests  BY <2>3, <1>a DEF GetCopy, WorkOK, WorkRec, At
    <3>2. WorkOK'  BY <1>a, <2>3, <3>1 DEF TypeOK, GetCopy, WorkOK, WorkRec, At
    <3> QED  BY <2>3, <3>2 DEF GetCopy, ObjectsStand, QueueStands, TypeOK, WorkOK
  <2>4. CASE WriteRefused(k) \/ RequestFails(k)
    <3>1. WorkOK'  BY <1>a, <2>4, LeaveOK DEF WriteRefused, RequestFails, At
    <3> QED  BY <2>4, <3>1 DEF WriteRefused, RequestFails, ObjectsStand, QueueStands, TypeOK, WorkOK
  <2>5. CASE AddRateLimited(k)
    <3>1. WorkOK'  BY <1>a, <2>5, LeaveOK DEF AddRateLimited, At
    <3>2. work[k].item \in Requests  BY <2>5, <1>a DEF AddRateLimited, WorkOK, WorkRec, At
    <3> QED  BY <2>5, <3>1, <3>2 DEF AddRateLimited, ObjectsStand, TypeOK, WorkOK
  <2>6. CASE Finish(k)
    <3>1. work[k].item \in processing
      BY <2>6, <1>a DEF Finish, QueueConsistent, Exclusive, WorkOK, At
    <3>2. queue' \in Seq(Requests)
      BY <2>6, <3>1, DoneKeepsQueue DEF Finish, QueueConsistent
    <3>3. WorkOK'  BY <1>a, <2>6 DEF Finish, Idle, Blank, WorkOK, WorkRec, At
    <3> QED  BY <2>6, <3>2, <3>3 DEF Finish, Done, ObjectsStand, TypeOK, WorkOK
  <2>7. ASSUME NEW answered \in BOOLEAN, WriteCopy(k, answered) PROVE TypeOK'
    <3>1. WorkOK'  BY <1>a, <2>7, LeaveOK DEF WriteCopy, At
    <3>2. work[k].item \in Requests  BY <2>7, <1>a DEF WriteCopy, WorkOK, WorkRec, At
    <3>3. Result(k) \in Values \cup {None}
      BY <3>2 DEF Result, TypeOK, WorkRec
    <3> QED  BY <2>7, <3>1, <3>2, <3>3 DEF WriteCopy, QueueStands, TypeOK, WorkOK
  <2> QED  BY <1>2, <2>1, <2>2, <2>3, <2>4, <2>5, <2>6, <2>7 DEF WorkerStep
<1>3. ASSUME NEW i \in Requests, Notify(i) \/ Ready(i) PROVE TypeOK'
  <2>1. queue' \in Seq(Requests)
    BY <1>3, AddKeepsQueue DEF Notify, Ready, QueueConsistent
  <2>2. UNCHANGED work  BY <1>3 DEF Notify, Ready
  <2> QED  BY <1>3, <2>1, <2>2 DEF Notify, Ready, Add, TypeOK, At
<1>4. ASSUME NEW i \in Requests, DeleteCopy(i) PROVE TypeOK'
  BY <1>4, BoundAssumption DEF DeleteCopy, Fault, memory, TypeOK, At
<1>5. ASSUME NEW i \in Requests, NEW v \in Values, EditSource(i, v) PROVE TypeOK'
  BY <1>5 DEF EditSource, TypeOK, At
<1>6. CASE UNCHANGED vars  BY <1>6 DEF vars, memory, TypeOK, At
<1> QED  BY <1>1, <1>2, <1>3, <1>4, <1>5, <1>6 DEF Next
---------------------------------------------------------------------------
(* The consistency of the queue.                                           *)

LEMMA SameItems ==
    ASSUME WorkOK, WorkOK', Exclusive, processing' = processing,
           \A l \in Workers : work'[l].item = work[l].item
    PROVE  Exclusive'
<1>1. {work'[k].item : k \in Workers} = {work[k].item : k \in Workers}  OBVIOUS
<1>2. \A k \in Workers : At(k, "idle")' <=> At(k, "idle")  BY DEF WorkOK
<1> QED  BY <1>1, <1>2 DEF Exclusive

(* The steps within a pass leave the queue and the requests alone.         *)
WithinPass(k) ==
    \/ ReadSource(k) \/ GetCopy(k) \/ WriteRefused(k) \/ RequestFails(k)
    \/ \E answered \in BOOLEAN : WriteCopy(k, answered)

LEMMA WithinPassKeeps ==
    ASSUME WorkOK, NEW k \in Workers, WithinPass(k) \/ AddRateLimited(k)
    PROVE  /\ \A l \in Workers : work'[l].item = work[l].item
           /\ UNCHANGED <<queue, dirty, processing>>
<1>1. CASE ReadSource(k) \/ GetCopy(k)
  <2>1. \A l \in Workers : work'[l].item = work[l].item
    BY <1>1 DEF ReadSource, GetCopy, WorkOK, WorkRec
  <2> QED  BY <1>1, <2>1 DEF ReadSource, GetCopy, QueueStands
<1>2. CASE WriteRefused(k) \/ RequestFails(k) \/ AddRateLimited(k)
  <2>1. \A l \in Workers : work'[l].item = work[l].item
    BY <1>2, LeaveOK DEF WriteRefused, RequestFails, AddRateLimited, At
  <2> QED  BY <1>2, <2>1 DEF WriteRefused, RequestFails, AddRateLimited, QueueStands
<1>3. ASSUME NEW answered \in BOOLEAN, WriteCopy(k, answered)
      PROVE  /\ \A l \in Workers : work'[l].item = work[l].item
             /\ UNCHANGED <<queue, dirty, processing>>
  <2>1. \A l \in Workers : work'[l].item = work[l].item
    BY <1>3, LeaveOK DEF WriteCopy, At
  <2> QED  BY <1>3, <2>1 DEF WriteCopy, QueueStands
<1> QED  BY <1>1, <1>2, <1>3 DEF WithinPass

LEMMA InitQueue == Init => QueueConsistent
<1> SUFFICES ASSUME Init PROVE QueueConsistent  OBVIOUS
<1>1. Range(queue) = {} /\ IsInjective(queue)  BY DEF Init, Range, IsInjective
<1>2. Exclusive  BY DEF Init, Workless, Idle, Blank, Exclusive, At
<1> QED  BY <1>1, <1>2 DEF Init, QueueConsistent, QueueHolds

LEMMA QueueStep ==
    TypeOK /\ TypeOK' /\ QueueConsistent /\ [Next]_vars => QueueConsistent'
<1> SUFFICES ASSUME TypeOK, TypeOK', QueueConsistent, [Next]_vars
             PROVE  QueueConsistent'
  OBVIOUS
<1>a. WorkOK /\ WorkOK'  BY DEF TypeOK, WorkOK
<1>b. QueueHolds /\ Exclusive  BY DEF QueueConsistent
<1>1. CASE Crash
  <2>1. Range(queue') = {} /\ IsInjective(queue')  BY <1>1 DEF Crash, Range, IsInjective
  <2>2. Exclusive'  BY <1>1 DEF Crash, Workless, Idle, Blank, Exclusive, At
  <2> QED  BY <1>1, <2>1, <2>2 DEF Crash, QueueConsistent, QueueHolds
<1>2. ASSUME NEW k \in Workers, WorkerStep(k) PROVE QueueConsistent'
  <2>1. CASE Get(k)
    <3>1. PICK i \in dirty \ processing :
             /\ i \in Requests
             /\ \A l \in Workers : work[l].item # i
             /\ QueueHolds'
             /\ processing' = processing \cup {i}
             /\ work' = [work EXCEPT ![k] = Blank("read", i, FALSE)]
      BY <2>1, GetTakes
    <3>2. work'[k].item = i /\ i # None /\ work[k].item = None
      BY <2>1, <3>1, <1>a, ValuesAssumption DEF Get, WorkOK, Blank
    <3>3. \A l \in Workers \ {k} : work'[l] = work[l]  BY <3>1, <1>a DEF WorkOK
    <3>4. processing' = {work'[l].item : l \in Workers} \ {None}
      <4>1. \A x \in processing' : \E l \in Workers : x = work'[l].item /\ x # None
        <5> TAKE x \in processing'
        <5>1. CASE x = i  BY <5>1, <3>2
        <5>2. CASE x # i
          <6>1. PICK l \in Workers : x = work[l].item /\ x # None
            BY <5>2, <3>1, <1>b DEF Exclusive
          <6> QED  BY <6>1, <3>2, <3>3
        <5> QED  BY <5>1, <5>2
      <4>2. \A l \in Workers : work'[l].item # None => work'[l].item \in processing'
        <5>1. \A l \in Workers : work[l].item # None => work[l].item \in processing
          BY <1>b DEF Exclusive
        <5>2. processing \subseteq processing' /\ i \in processing'  BY <3>1
        <5> QED  BY <5>1, <5>2, <3>2, <3>3
      <4> QED  BY <4>1, <4>2
    <3>5. \A l, m \in Workers : work'[l].item = work'[m].item => l = m \/ work'[l].item = None
      BY <3>1, <3>2, <3>3, <1>a, <1>b DEF Exclusive, WorkOK
    <3> QED  BY <3>1, <3>4, <3>5, <1>a DEF QueueConsistent, Exclusive, WorkOK
  <2>2. CASE WithinPass(k) \/ AddRateLimited(k)
    <3>1. UNCHANGED <<queue, dirty, processing>>  BY <2>2, <1>a, WithinPassKeeps
    <3>2. Exclusive'  BY <2>2, <1>a, <1>b, <3>1, WithinPassKeeps, SameItems
    <3> QED  BY <1>b, <3>1, <3>2 DEF QueueConsistent, QueueHolds
  <2>3. CASE Finish(k)
    <3> DEFINE i == work[k].item
    <3>1. i \in processing /\ i # None
      BY <2>3, <1>a, <1>b DEF Finish, Exclusive, WorkOK, At
    <3>2. QueueHolds'  BY <2>3, <1>b, <3>1, DoneKeepsQueue DEF Finish
    <3>3. /\ processing' = processing \ {i} /\ work'[k].item = None
          /\ \A l \in Workers \ {k} : work'[l] = work[l]
      BY <2>3, <1>a DEF Finish, Done, Idle, Blank, WorkOK
    <3>4. \A l \in Workers \ {k} : work[l].item # i
      BY <1>a, <1>b, <3>1 DEF Exclusive, WorkOK
    <3>5. processing' = {work'[l].item : l \in Workers} \ {None}
      <4>1. \A x \in processing' : \E l \in Workers \ {k} : x = work'[l].item /\ x # None
        BY <3>1, <3>3, <1>b DEF Exclusive
      <4>2. \A l \in Workers : work'[l].item # None => work'[l].item \in processing'
        BY <3>3, <3>4, <1>b DEF Exclusive
      <4> QED  BY <4>1, <4>2
    <3>6. \A l, m \in Workers : work'[l].item = work'[m].item => l = m \/ work'[l].item = None
      BY <3>3, <1>a, <1>b DEF Exclusive, WorkOK
    <3> QED  BY <3>2, <3>5, <3>6, <1>a DEF QueueConsistent, Exclusive, WorkOK
  <2> QED  BY <1>2, <2>1, <2>2, <2>3 DEF WorkerStep, WithinPass
<1>3. ASSUME NEW i \in Requests, Notify(i) \/ Ready(i) PROVE QueueConsistent'
  <2>1. QueueHolds'  BY <1>3, <1>b, AddKeepsQueue DEF Notify, Ready
  <2> QED  BY <1>3, <1>b, <2>1 DEF Notify, Ready, QueueConsistent, Exclusive, At
<1>4. ASSUME NEW i \in Requests, DeleteCopy(i) PROVE QueueConsistent'
  BY <1>4, <1>b DEF DeleteCopy, memory, QueueConsistent, QueueHolds, Exclusive, At
<1>5. ASSUME NEW i \in Requests, NEW v \in Values, EditSource(i, v) PROVE QueueConsistent'
  BY <1>5, <1>b DEF EditSource, QueueConsistent, QueueHolds, Exclusive, At
<1>6. CASE UNCHANGED vars
  BY <1>6, <1>b DEF vars, memory, QueueConsistent, QueueHolds, Exclusive, At
<1> QED  BY <1>1, <1>2, <1>3, <1>4, <1>5, <1>6 DEF Next
---------------------------------------------------------------------------
(* The workers.                                                            *)

(* A step of one worker leaves the others' records alone.                  *)
LEMMA OthersStand ==
    ASSUME WorkOK, NEW k \in Workers, WorkerStep(k)
    PROVE  \A l \in Workers \ {k} : work'[l] = work[l]
<1>1. CASE Get(k) \/ ReadSource(k) \/ GetCopy(k) \/ Finish(k)
  BY <1>1 DEF Get, ReadSource, GetCopy, Finish, WorkOK
<1>2. CASE WriteRefused(k) \/ RequestFails(k) \/ AddRateLimited(k)
  BY <1>2 DEF WriteRefused, RequestFails, AddRateLimited, Leave, WorkOK
<1>3. ASSUME NEW answered \in BOOLEAN, WriteCopy(k, answered)
      PROVE  \A l \in Workers \ {k} : work'[l] = work[l]
  BY <1>3 DEF WriteCopy, Leave, WorkOK
<1> QED  BY <1>1, <1>2, <1>3 DEF WorkerStep

(* A request is pending until a worker takes it, which none does while     *)
(* another one has it.                                                     *)
LEMMA PendingStep ==
    ASSUME TypeOK, QueueConsistent, [Next]_vars
    PROVE  /\ \A i \in Pending : \/ i \in Pending'
                                 \/ \E k \in Workers : work'[k] = Blank("read", i, FALSE)
           /\ \A l \in Workers : work[l].item \in Pending => work[l].item \in Pending'
<1> USE DEF Pending
<1>0. Pending \subseteq Requests  BY DEF TypeOK
<1>1. CASE Crash  BY <1>0, <1>1 DEF Crash
<1>2. ASSUME NEW k \in Workers, Get(k)
      PROVE  /\ \A i \in Pending : i \in Pending' \/ work'[k] = Blank("read", i, FALSE)
             /\ \A l \in Workers : work[l].item \in Pending => work[l].item \in Pending'
  <2>1. PICK i \in dirty \ processing :
           /\ \A l \in Workers : work[l].item # i
           /\ dirty' = dirty \ {i}
           /\ work' = [work EXCEPT ![k] = Blank("read", i, FALSE)]
    BY <1>2, GetTakes
  <2>2. UNCHANGED <<events, delayed>>  BY <1>2 DEF Get
  <2>3. work'[k] = Blank("read", i, FALSE)  BY <2>1 DEF TypeOK
  <2> QED  BY <2>1, <2>2, <2>3
<1>3. ASSUME NEW k \in Workers, WithinPass(k) \/ AddRateLimited(k) \/ Finish(k)
      PROVE  Pending \subseteq Pending'
  BY <1>3 DEF WithinPass, ReadSource, GetCopy, WriteRefused, RequestFails, WriteCopy,
              AddRateLimited, Finish, QueueStands
<1>4. ASSUME NEW i \in Requests, Notify(i) \/ Ready(i) PROVE Pending \subseteq Pending'
  BY <1>4 DEF Notify, Ready, Add
<1>5. ASSUME NEW i \in Requests, DeleteCopy(i) PROVE Pending \subseteq Pending'
  BY <1>5 DEF DeleteCopy, memory
<1>6. ASSUME NEW i \in Requests, NEW v \in Values, EditSource(i, v)
      PROVE  Pending \subseteq Pending'
  BY <1>6 DEF EditSource
<1>7. CASE UNCHANGED vars  BY <1>7 DEF vars, memory
<1> QED
  <2>1. CASE \E k \in Workers : Get(k)  BY <1>2, <2>1
  <2>2. CASE Pending \subseteq Pending'  BY <2>2
  <2> QED
    BY <1>1, <1>3, <1>4, <1>5, <1>6, <1>7, <2>1, <2>2 DEF Next, WorkerStep, WithinPass

WorkerOK(l) == LocalsOK(l) /\ GotOK(l) /\ StalePending(l)

(* What a worker relies on while others move.                              *)
LEMMA WorkerStands ==
    ASSUME NEW l \in Workers, WorkerOK(l), work'[l] = work[l],
           work[l].item \in Pending => work[l].item \in Pending',
           At(l, "write") => copy'[work[l].item] \in {copy[work[l].item], None},
           \/ source'[work[l].item] = source[work[l].item]
           \/ work[l].item \in Pending'
    PROVE  WorkerOK(l)'
<1>1. LocalsOK(l)'  BY DEF WorkerOK, LocalsOK, At
<1>2. GotOK(l)'  BY DEF WorkerOK, GotOK, At
<1>3. StalePending(l)'  BY DEF WorkerOK, StalePending, At
<1> QED  BY <1>1, <1>2, <1>3 DEF WorkerOK

(* What a step of its own leaves a worker with.                            *)
LEMMA OwnStep ==
    ASSUME TypeOK, NEW k \in Workers, WorkerOK(k), WorkerStep(k)
    PROVE  WorkerOK(k)'
<1>a. WorkOK  BY DEF TypeOK, WorkOK
<1> USE DEF WorkerOK, LocalsOK, GotOK, StalePending, At
<1>1. CASE Get(k)
  <2>1. \E i : work'[k] = Blank("read", i, FALSE)  BY <1>1, <1>a DEF Get, WorkOK
  <2> QED  BY <2>1 DEF Blank
<1>2. CASE ReadSource(k)
  <2> DEFINE i == work[k].item
  <2>1. i \in Requests /\ source[i] \in Values /\ source[i] # None
    BY <1>2, <1>a, ValuesAssumption DEF ReadSource, TypeOK, WorkOK, WorkRec
  <2>2. /\ work'[k].pc = "get" /\ work'[k].read = source[i] /\ work'[k].item = i
        /\ work'[k].got = work[k].got /\ work'[k].wrote = work[k].wrote
        /\ source' = source
    BY <1>2, <1>a DEF ReadSource, ObjectsStand, WorkOK, WorkRec
  <2> QED  BY <1>2, <2>1, <2>2 DEF ReadSource
<1>3. CASE GetCopy(k)
  <2> DEFINE i == work[k].item
  <2>2. /\ work'[k].pc = "write" /\ work'[k].got = copy[i] /\ work'[k].item = i
        /\ work'[k].read = work[k].read /\ work'[k].wrote = work[k].wrote
        /\ source' = source /\ copy' = copy /\ Pending' = Pending
    BY <1>3, <1>a DEF GetCopy, ObjectsStand, QueueStands, Pending, WorkOK, WorkRec
  <2> QED  BY <1>3, <2>2 DEF GetCopy
<1>4. CASE WriteRefused(k) \/ RequestFails(k)
  <2>1. work'[k] = Blank("retry", work[k].item, FALSE)
    BY <1>4, <1>a, LeaveOK DEF WriteRefused, RequestFails
  <2> QED  BY <2>1 DEF Blank
<1>5. CASE AddRateLimited(k)
  <2>1. work'[k] = Blank("done", work[k].item, FALSE)
    BY <1>5, <1>a, LeaveOK DEF AddRateLimited
  <2>2. work[k].item \in Pending'  BY <1>5 DEF AddRateLimited, Pending
  <2> QED  BY <2>1, <2>2 DEF Blank
<1>6. CASE Finish(k)
  <2>1. work'[k] = Idle  BY <1>6, <1>a DEF Finish, WorkOK
  <2> QED  BY <2>1 DEF Idle, Blank
<1>7. ASSUME NEW answered \in BOOLEAN, WriteCopy(k, answered) PROVE WorkerOK(k)'
  <2>1. work'[k] = Blank(IF answered THEN "done" ELSE "retry", work[k].item, answered)
    BY <1>7, <1>a, LeaveOK DEF WriteCopy
  <2> QED  BY <2>1 DEF Blank
<1> QED  BY <1>1, <1>2, <1>3, <1>4, <1>5, <1>6, <1>7 DEF WorkerStep

LEMMA InitWorkers == Init => WorkersOK
BY DEF Init, Workless, Idle, Blank, WorkersOK, LocalsOK, GotOK, StalePending, At

LEMMA WorkersStep ==
    TypeOK /\ TypeOK' /\ QueueConsistent /\ WorkersOK /\ [Next]_vars => WorkersOK'
<1> SUFFICES ASSUME TypeOK, TypeOK', QueueConsistent, WorkersOK, [Next]_vars,
                    NEW l \in Workers
             PROVE  WorkerOK(l)'
  BY DEF WorkersOK, WorkerOK
<1>a. WorkOK /\ WorkOK'  BY DEF TypeOK, WorkOK
<1>b. WorkerOK(l)  BY DEF WorkersOK, WorkerOK
<1>c. work[l].item \in Pending => work[l].item \in Pending'  BY PendingStep
<1>1. CASE Crash
  <2>1. work'[l] = Idle  BY <1>1 DEF Crash, Workless
  <2> QED  BY <2>1 DEF Idle, Blank, WorkerOK, LocalsOK, GotOK, StalePending, At
<1>2. ASSUME NEW k \in Workers, WorkerStep(k) PROVE WorkerOK(l)'
  <2>1. CASE l = k  BY <1>2, <1>b, <2>1, OwnStep
  <2>2. CASE l # k
    <3>1. work'[l] = work[l]  BY <1>2, <1>a, <2>2, OthersStand
    <3>2. UNCHANGED source
      BY <1>2 DEF WorkerStep, Get, ReadSource, GetCopy, WriteRefused, RequestFails,
                  AddRateLimited, Finish, WriteCopy, ObjectsStand
    <3>3. At(l, "write") => copy'[work[l].item] = copy[work[l].item]
      <4>1. CASE UNCHANGED copy  BY <4>1
      <4>2. ASSUME NEW answered \in BOOLEAN, WriteCopy(k, answered), At(l, "write")
            PROVE  copy'[work[l].item] = copy[work[l].item]
        <5>1. work[l].item # work[k].item
          BY <2>2, <4>2 DEF QueueConsistent, Exclusive, At
        <5>2. work[l].item \in Requests  BY <1>a, <4>2 DEF WorkOK, WorkRec, At
        <5> QED  BY <4>2, <5>1, <5>2 DEF WriteCopy, TypeOK
      <4> QED
        BY <1>2, <4>1, <4>2 DEF WorkerStep, Get, ReadSource, GetCopy, WriteRefused,
                                RequestFails, AddRateLimited, Finish, ObjectsStand
    <3> QED  BY <1>b, <1>c, <3>1, <3>2, <3>3, WorkerStands
  <2> QED  BY <2>1, <2>2
<1>3. ASSUME NEW i \in Requests, Notify(i) \/ Ready(i) PROVE WorkerOK(l)'
  BY <1>3, <1>b, <1>c, WorkerStands DEF Notify, Ready
<1>4. ASSUME NEW i \in Requests, DeleteCopy(i) PROVE WorkerOK(l)'
  <2>1. work'[l] = work[l] /\ UNCHANGED source  BY <1>4 DEF DeleteCopy, memory
  <2>2. At(l, "write") => copy'[work[l].item] \in {copy[work[l].item], None}
    <3>1. At(l, "write") => work[l].item \in Requests  BY <1>a DEF WorkOK, WorkRec, At
    <3> QED  BY <1>4, <3>1 DEF DeleteCopy, TypeOK
  <2> QED  BY <1>b, <1>c, <2>1, <2>2, WorkerStands
<1>5. ASSUME NEW i \in Requests, NEW v \in Values, EditSource(i, v) PROVE WorkerOK(l)'
  <2>1. work'[l] = work[l] /\ UNCHANGED copy  BY <1>5 DEF EditSource
  <2>2. source'[work[l].item] = source[work[l].item] \/ work[l].item \in Pending'
    <3>1. CASE work[l].item = i  BY <1>5, <3>1 DEF EditSource, Pending
    <3>2. CASE work[l].item # i  BY <1>5, <3>2 DEF EditSource, TypeOK
    <3> QED  BY <3>1, <3>2
  <2> QED  BY <1>b, <1>c, <2>1, <2>2, WorkerStands
<1>6. CASE UNCHANGED vars
  BY <1>6, <1>b, <1>c, WorkerStands DEF vars, memory
<1> QED  BY <1>1, <1>2, <1>3, <1>4, <1>5, <1>6 DEF Next
---------------------------------------------------------------------------
(* No work is lost.                                                        *)

(* What a write leaves is what the pass read.                              *)
LEMMA WritesWhatItRead ==
    ASSUME TypeOK, WorkersOK, NEW k \in Workers, NEW answered \in BOOLEAN,
           WriteCopy(k, answered)
    PROVE  /\ work[k].item \in Requests /\ work[k].read \in Values
           /\ copy' = [copy EXCEPT ![work[k].item] = work[k].read]
<1>a. WorkOK  BY DEF TypeOK, WorkOK
<1>1. work[k].item \in Requests /\ work[k].read \in Values
  BY <1>a DEF WriteCopy, WorkersOK, LocalsOK, WorkOK, WorkRec, At
<1>2. Result(k) = work[k].read
  BY <1>1, ValuesAssumption DEF WriteCopy, WorkersOK, GotOK, Refused, Result
<1> QED  BY <1>1, <1>2 DEF WriteCopy

Fresh(i) == copy[i] = source[i] \/ i \in Pending \/ \E k \in Workers : Underway(k, i)

LEMMA FreshStands ==
    ASSUME NEW i \in Requests, Fresh(i),
           copy'[i] = copy[i] /\ source'[i] = source[i],
           i \in Pending => i \in Pending',
           \A k \in Workers : Underway(k, i) => Underway(k, i)' \/ Fresh(i)'
    PROVE  Fresh(i)'
BY DEF Fresh

LEMMA FreshStep ==
    IInv /\ TypeOK' /\ [Next]_vars => FreshOrPending'
<1> SUFFICES ASSUME IInv, TypeOK', [Next]_vars, NEW i \in Requests, i \notin lost'
             PROVE  Fresh(i)'
  BY DEF FreshOrPending, Fresh
<1>a. TypeOK /\ QueueConsistent /\ WorkersOK /\ WorkOK /\ WorkOK'
  BY DEF IInv, TypeOK, WorkOK
<1>b. i \notin lost => Fresh(i)  BY DEF IInv, FreshOrPending, Fresh
<1>c. \/ i \in Pending => i \in Pending'
      \/ \E k \in Workers : work'[k] = Blank("read", i, FALSE)
  BY <1>a, PendingStep
<1>d. (\E k \in Workers : work'[k] = Blank("read", i, FALSE)) => Fresh(i)'
  BY DEF Fresh, Underway, Blank
<1>e. SUFFICES ASSUME i \in Pending => i \in Pending' PROVE Fresh(i)'
  BY <1>c, <1>d
<1>1. CASE Crash  BY <1>1 DEF Crash, Pending, Fresh
<1>2. ASSUME NEW k \in Workers, WorkerStep(k) PROVE Fresh(i)'
  <2>a. \A l \in Workers \ {k} : work'[l] = work[l]  BY <1>2, <1>a, OthersStand
  <2>1. CASE Get(k) \/ ReadSource(k) \/ GetCopy(k) \/ WriteRefused(k) \/ RequestFails(k)
             \/ AddRateLimited(k) \/ Finish(k)
    <3>1. UNCHANGED <<source, copy, lost>>
      BY <2>1 DEF Get, ReadSource, GetCopy, WriteRefused, RequestFails, AddRateLimited,
                  Finish, ObjectsStand
    <3>2. \A l \in Workers \ {k} : Underway(l, i) => Underway(l, i)'
      BY <2>a, <3>1 DEF Underway
    <3>3. Underway(k, i) => Underway(k, i)' \/ i \in Pending'
      <4>1. CASE Get(k)  BY <4>1, <1>a, ValuesAssumption DEF Get, Underway, WorkOK, At
      <4>2. CASE ReadSource(k)
        BY <4>2, <1>a, <3>1 DEF ReadSource, Underway, WorkOK, WorkRec, At
      <4>3. CASE GetCopy(k)
        BY <4>3, <1>a, <3>1 DEF GetCopy, Underway, WorkOK, WorkRec, At
      <4>4. CASE WriteRefused(k) \/ RequestFails(k)
        <5>1. work'[k] = Blank("retry", work[k].item, FALSE)
          BY <4>4, <1>a, LeaveOK DEF WriteRefused, RequestFails, At
        <5> QED  BY <5>1 DEF Underway, Blank
      <4>5. CASE AddRateLimited(k)  BY <4>5 DEF AddRateLimited, Underway, Pending
      <4>6. CASE Finish(k)  BY <4>6 DEF Finish, Underway, At
      <4> QED  BY <2>1, <4>1, <4>2, <4>3, <4>4, <4>5, <4>6
    <3>4. Fresh(i)  BY <1>b, <3>1
    <3> QED  BY <1>e, <3>1, <3>2, <3>3, <3>4, FreshStands DEF Fresh
  <2>2. ASSUME NEW answered \in BOOLEAN, WriteCopy(k, answered) PROVE Fresh(i)'
    <3>1. /\ work[k].item \in Requests
          /\ copy' = [copy EXCEPT ![work[k].item] = work[k].read]
      BY <2>2, <1>a, WritesWhatItRead
    <3>2. UNCHANGED source /\ lost' = lost \ {work[k].item}  BY <2>2 DEF WriteCopy
    <3>3. CASE work[k].item = i
      <4>1. copy'[i] = work[k].read  BY <3>1, <3>3, <1>a DEF TypeOK
      <4>2. work[k].read = source[i] \/ i \in Pending
        BY <2>2, <3>3, <1>a DEF WriteCopy, WorkersOK, StalePending
      <4> QED  BY <1>e, <3>2, <4>1, <4>2 DEF Fresh
    <3>4. CASE work[k].item # i
      <4>1. copy'[i] = copy[i]  BY <3>1, <3>4, <1>a DEF TypeOK
      <4>2. Fresh(i)  BY <1>b, <3>2, <3>4
      <4>3. \A l \in Workers : Underway(l, i) => Underway(l, i)'
        BY <2>a, <3>2, <3>4 DEF Underway
      <4> QED  BY <1>e, <3>2, <4>1, <4>2, <4>3, FreshStands
    <3> QED  BY <3>3, <3>4
  <2> QED  BY <1>2, <2>1, <2>2 DEF WorkerStep
<1>3. ASSUME NEW j \in Requests, Notify(j) \/ Ready(j) PROVE Fresh(i)'
  <2>1. UNCHANGED <<source, copy, lost, work>>  BY <1>3 DEF Notify, Ready
  <2> QED  BY <1>b, <1>e, <2>1, FreshStands DEF Underway
<1>4. ASSUME NEW j \in Requests, DeleteCopy(j) PROVE Fresh(i)'
  <2>1. UNCHANGED <<source, work>> /\ i # j /\ i \notin lost  BY <1>4 DEF DeleteCopy, memory
  <2>2. copy'[i] = copy[i]  BY <1>4, <2>1, <1>a DEF DeleteCopy, TypeOK
  <2> QED  BY <1>b, <1>e, <2>1, <2>2, FreshStands DEF Underway
<1>5. ASSUME NEW j \in Requests, NEW v \in Values, EditSource(j, v) PROVE Fresh(i)'
  <2>1. CASE i = j  BY <1>5, <2>1 DEF EditSource, Pending, Fresh
  <2>2. CASE i # j
    <3>1. UNCHANGED <<copy, lost, work>> /\ source'[i] = source[i]
      BY <1>5, <2>2, <1>a DEF EditSource, TypeOK
    <3> QED  BY <1>b, <1>e, <3>1, FreshStands DEF Underway
  <2> QED  BY <2>1, <2>2
<1>6. CASE UNCHANGED vars
  BY <1>6, <1>b, <1>e, FreshStands DEF vars, memory, Underway
<1> QED  BY <1>1, <1>2, <1>3, <1>4, <1>5, <1>6 DEF Next
---------------------------------------------------------------------------
(* The inductive invariant, and what follows from it.                      *)

LEMMA InitIInv == Init => IInv
<1> SUFFICES ASSUME Init PROVE IInv  OBVIOUS
<1>1. FreshOrPending  BY DEF Init, FreshOrPending, Pending
<1> QED  BY <1>1, InitTypes, InitQueue, InitWorkers DEF IInv

LEMMA IInvStep == IInv /\ [Next]_vars => IInv'
<1> SUFFICES ASSUME IInv, [Next]_vars PROVE IInv'  OBVIOUS
<1>1. TypeOK'  BY TypeStep DEF IInv
<1> QED  BY <1>1, QueueStep, WorkersStep, FreshStep DEF IInv

(* The inductive invariant holds in every reachable state.                 *)
THEOREM Inductive == Spec => []IInv
BY InitIInv, IInvStep, PTL DEF Spec

(* Every reachable state is well typed.                                    *)
THEOREM TypeCorrect == Spec => []TypeOK
<1>1. IInv => TypeOK  BY DEF IInv
<1> QED  BY <1>1, Inductive, PTL

(* The queue holds what is dirty and not processed, each request once, and *)
(* no two workers process the same request (queue.go 120-193).             *)
THEOREM QueueCorrect == Spec => []QueueConsistent
<1>1. IInv => QueueConsistent  BY DEF IInv
<1> QED  BY <1>1, Inductive, PTL

(* A copy is up to date, or a request is pending or underway that will see *)
(* to it, for any number of workers (queue.go 120-193, controller.go       *)
(* 253-343).                                                               *)
THEOREM NoWorkLost == Spec => []FreshOrPending
<1>1. IInv => FreshOrPending  BY DEF IInv
<1> QED  BY <1>1, Inductive, PTL

---------------------------------------------------------------------------
(* Controller implements RequestSet.                                       *)

LEMMA RefinedInit == Init => RS!Init
<1> SUFFICES ASSUME Init PROVE RS!Init  OBVIOUS
<1>1. Pending = Requests  BY DEF Init, Pending
<1>2. Passes = [k \in Workers |-> RS!Idle]
  BY DEF Init, Workless, Idle, Blank, Passes, RS!Idle, RS!Rec
<1> QED  BY <1>1, <1>2 DEF Init, RS!Init

(* A worker's record, seen from above.                                     *)
LEMMA PassesStep ==
    ASSUME WorkOK, NEW k \in Workers, NEW r,
           r = RS!Rec(work'[k].item, work'[k].read, work'[k].wrote),
           \A l \in Workers \ {k} : work'[l] = work[l]
    PROVE  Passes' = [Passes EXCEPT ![k] = r]
BY DEF Passes, RS!Rec

LEMMA PassesOf ==
    ASSUME NEW k \in Workers
    PROVE  /\ Passes[k] = RS!Rec(work[k].item, work[k].read, work[k].wrote)
           /\ Passes[k].item = work[k].item /\ Passes[k].read = work[k].read
           /\ Passes[k].wrote = work[k].wrote
BY DEF Passes, RS!Rec

LEMMA RefinedStep == IInv /\ IInv' /\ [Next]_vars => [RS!Next]_(RS!vars)
<1> SUFFICES ASSUME IInv, IInv', [Next]_vars PROVE [RS!Next]_(RS!vars)  OBVIOUS
<1>a. TypeOK /\ QueueConsistent /\ WorkersOK /\ WorkOK /\ WorkOK'
  BY DEF IInv, TypeOK, WorkOK
<1>1. CASE Crash
  <2>1. Pending' = Requests  BY <1>1, <1>a DEF Crash, Pending
  <2>2. Passes' = [k \in Workers |-> RS!Idle]
    BY <1>1 DEF Crash, Workless, Idle, Blank, Passes, RS!Idle, RS!Rec
  <2>3. RS!Crash  BY <1>1, <2>1, <2>2 DEF Crash, ObjectsStand, RS!Crash
  <2> QED  BY <2>3 DEF RS!Next
<1>2. ASSUME NEW k \in Workers, WorkerStep(k) PROVE [RS!Next]_(RS!vars)
  <2>a. \A l \in Workers \ {k} : work'[l] = work[l]  BY <1>2, <1>a, OthersStand
  <2>b. /\ Passes' = [Passes EXCEPT ![k] =
                         RS!Rec(work'[k].item, work'[k].read, work'[k].wrote)]
        /\ Passes[k].item = work[k].item /\ Passes[k].read = work[k].read
        /\ Passes[k].wrote = work[k].wrote
    BY <1>a, <2>a, PassesStep, PassesOf
  <2>1. CASE Get(k)
    <3>1. PICK i \in dirty \ processing :
             /\ i \in Requests
             /\ \A l \in Workers : work[l].item # i
             /\ dirty' = dirty \ {i}
             /\ work' = [work EXCEPT ![k] = Blank("read", i, FALSE)]
      BY <2>1, GetTakes, <1>a
    <3>2. work'[k] = Blank("read", i, FALSE)  BY <3>1, <1>a DEF WorkOK
    <3>3. Passes' = [Passes EXCEPT ![k] = RS!Rec(i, None, FALSE)]
      BY <2>b, <3>2 DEF Blank
    <3>4. Passes[k] = RS!Idle
      <4>1. At(k, "idle")  BY <2>1 DEF Get
      <4>2. work[k].item = None /\ work[k].read = None /\ ~ work[k].wrote
        BY <4>1, <1>a DEF WorkOK, WorkersOK, LocalsOK, At
      <4>3. work[k].wrote = FALSE  BY <4>2, <1>a DEF WorkOK, WorkRec
      <4> QED  BY <4>2, <4>3, PassesOf DEF RS!Idle
    <3>5. i \in Pending \ RS!Busy  BY <3>1, PassesOf DEF Pending, RS!Busy
    <3>6. Pending' \in {Pending, Pending \ {i}}  BY <2>1, <3>1 DEF Get, Pending
    <3>7. UNCHANGED <<source, copy, lost>>  BY <2>1 DEF Get, ObjectsStand
    <3>8. RS!Take(k, i)  BY <3>3, <3>4, <3>5, <3>6, <3>7 DEF RS!Take
    <3> QED  BY <3>1, <3>8 DEF RS!Next
  <2>2. CASE ReadSource(k)
    <3>1. /\ work'[k].item = work[k].item /\ work'[k].read = source[work[k].item]
          /\ work'[k].wrote = FALSE
          /\ work[k].item # None /\ work[k].read = None /\ work[k].wrote = FALSE
      BY <2>2, <1>a DEF ReadSource, WorkOK, WorkRec, WorkersOK, LocalsOK, At
    <3>2. UNCHANGED <<source, copy, lost, Pending>>
      BY <2>2 DEF ReadSource, ObjectsStand, QueueStands, Pending
    <3>3. RS!Read(k)  BY <2>b, <3>1, <3>2 DEF RS!Read
    <3> QED  BY <3>3 DEF RS!Next
  <2>3. CASE GetCopy(k)
    <3>1. UNCHANGED <<source, copy, lost, Pending>>
      BY <2>3 DEF GetCopy, ObjectsStand, QueueStands, Pending
    <3>2. Passes' = Passes
      BY <2>3, <1>a, <2>a DEF GetCopy, WorkOK, WorkRec, Passes
    <3> QED  BY <3>1, <3>2 DEF RS!vars
  <2>4. CASE WriteRefused(k) \/ RequestFails(k)
    <3>1. work'[k] = Blank("retry", work[k].item, FALSE)
      BY <2>4, <1>a, LeaveOK DEF WriteRefused, RequestFails, At
    <3>2. work[k].wrote = FALSE
      BY <2>4, <1>a DEF WriteRefused, RequestFails, WorkOK, WorkRec, WorkersOK, LocalsOK, At
    <3>3. UNCHANGED <<source, copy, lost, Pending>>
      BY <2>4 DEF WriteRefused, RequestFails, ObjectsStand, QueueStands, Pending
    <3>4. RS!Fail(k)  BY <2>b, <3>1, <3>2, <3>3 DEF Blank, RS!Fail
    <3> QED  BY <3>4 DEF RS!Next
  <2>5. CASE AddRateLimited(k)
    <3>1. work'[k] = Blank("done", work[k].item, FALSE)
      BY <2>5, <1>a, LeaveOK DEF AddRateLimited, At
    <3>2. work[k].read = None /\ work[k].wrote = FALSE /\ work[k].item \in Requests
      BY <2>5, <1>a DEF AddRateLimited, WorkOK, WorkRec, WorkersOK, LocalsOK, At
    <3>3. Passes' = Passes
      <4>1. \A l \in Workers : /\ work'[l].item = work[l].item
                              /\ work'[l].read = work[l].read
                              /\ work'[l].wrote = work[l].wrote
        <5>1. /\ work'[k].item = work[k].item /\ work'[k].read = work[k].read
              /\ work'[k].wrote = work[k].wrote
          <6>1. work'[k].item = work[k].item /\ work'[k].read = None
            BY <3>1 DEF Blank
          <6>a. ~ work'[k].wrote  BY <3>1 DEF Blank
          <6>2. work'[k].wrote = FALSE  BY <6>a, <1>a DEF WorkOK, WorkRec
          <6>3. work'[k].wrote = work[k].wrote  BY <6>2, <3>2, Zenon
          <6> QED  BY <6>1, <6>3, <3>2, Zenon
        <5>2. ASSUME NEW l \in Workers \ {k}
              PROVE  /\ work'[l].item = work[l].item /\ work'[l].read = work[l].read
                     /\ work'[l].wrote = work[l].wrote
          <6>1. work'[l] = work[l]  BY <2>a
          <6> QED  BY ONLY <6>1, Zenon
        <5> QED  BY <5>1, <5>2
      <4> QED  BY <4>1 DEF Passes
    <3>4. Pending' = Pending \cup {work[k].item} /\ UNCHANGED <<source, copy, lost>>
      BY <2>5 DEF AddRateLimited, ObjectsStand, Pending
    <3>5. RS!Add(work[k].item)  BY <3>3, <3>4 DEF RS!Add
    <3> QED  BY <3>2, <3>5 DEF RS!Next
  <2>6. CASE Finish(k)
    <3>1. work'[k] = Idle  BY <2>6, <1>a DEF Finish, WorkOK
    <3>2. work[k].wrote \/ work[k].item \in Pending
      BY <2>6, <1>a DEF Finish, WorkersOK, StalePending
    <3>3. UNCHANGED <<source, copy, lost, Pending>>
      BY <2>6 DEF Finish, ObjectsStand, Pending
    <3>4. RS!End(k)  BY <2>b, <3>1, <3>2, <3>3 DEF Idle, Blank, RS!Idle, RS!End
    <3> QED  BY <3>4 DEF RS!Next
  <2>7. ASSUME NEW answered \in BOOLEAN, WriteCopy(k, answered)
        PROVE  [RS!Next]_(RS!vars)
    <3>1. work'[k] = Blank(IF answered THEN "done" ELSE "retry", work[k].item, answered)
      BY <2>7, <1>a, LeaveOK DEF WriteCopy, At
    <3>2. /\ work[k].read # None
          /\ copy' = [copy EXCEPT ![work[k].item] = work[k].read]
      BY <2>7, <1>a, WritesWhatItRead, ValuesAssumption
    <3>3. UNCHANGED <<source, Pending>> /\ lost' = lost \ {work[k].item}
      BY <2>7 DEF WriteCopy, QueueStands, Pending
    <3>4. Passes' = [Passes EXCEPT ![k] = RS!Rec(work[k].item, None, answered)]
      BY <2>b, <3>1 DEF Blank
    <3>5. \E known \in BOOLEAN :
             Passes' = [Passes EXCEPT ![k] = RS!Rec(Passes[k].item, None, known)]
      BY <2>b, <3>4
    <3>6. RS!Write(k)  BY <2>b, <3>2, <3>3, <3>5 DEF RS!Write
    <3> QED  BY <3>6 DEF RS!Next
  <2> QED  BY <1>2, <2>1, <2>2, <2>3, <2>4, <2>5, <2>6, <2>7 DEF WorkerStep
<1>3. ASSUME NEW i \in Requests, Notify(i) \/ Ready(i) PROVE [RS!Next]_(RS!vars)
  <2>1. Pending' = Pending  BY <1>3 DEF Notify, Ready, Add, Pending
  <2> QED  BY <1>3, <2>1 DEF Notify, Ready, Passes, RS!vars
<1>4. ASSUME NEW i \in Requests, DeleteCopy(i) PROVE [RS!Next]_(RS!vars)
  <2>1. RS!Remove(i)  BY <1>4 DEF DeleteCopy, memory, Pending, Passes, RS!Remove
  <2> QED  BY <2>1 DEF RS!Next
<1>5. ASSUME NEW i \in Requests, NEW v \in Values, EditSource(i, v)
      PROVE  [RS!Next]_(RS!vars)
  <2>1. Pending' = Pending \cup {i}  BY <1>5 DEF EditSource, Pending
  <2>2. RS!Edit(i, v)  BY <1>5, <2>1 DEF EditSource, Passes, RS!Edit
  <2> QED  BY <2>2 DEF RS!Next
<1>6. CASE UNCHANGED vars  BY <1>6 DEF vars, memory, Pending, Passes, RS!vars
<1> QED  BY <1>1, <1>2, <1>3, <1>4, <1>5, <1>6 DEF Next

(* Whatever the queue, the delays, the informers and the two requests of   *)
(* CreateOrPatch do, the controller is a set of requests with one pass for *)
(* each and atomic upserts (queue.go 120-193, client.go 67-116).           *)
THEOREM Refinement == Spec => Implements
<1>1. Init => RS!Init  BY RefinedInit
<1>2. IInv /\ IInv' /\ [Next]_vars => [RS!Next]_(RS!vars)  BY RefinedStep
<1> QED  BY <1>1, <1>2, Inductive, PTL DEF Spec, Implements, RS!Spec
=============================================================================
