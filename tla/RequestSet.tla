----------------------------- MODULE RequestSet -----------------------------
(***************************************************************************)
(* What a controller promises, without its queue: a set of pending         *)
(* requests, workers that each process one of them, never two the same,    *)
(* and passes that read the source once and write the copy in one step.    *)
(* An edit makes a request pending at once, and a pass that has not        *)
(* written its copy ends only with its request pending again.  Federate    *)
(* is written at this level; Controller implements it.                     *)
(***************************************************************************)
CONSTANTS Requests, Workers, Values, None   \* None is no request and no value

VARIABLES
    source,    \* [Requests -> Values], what users edit
    copy,      \* [Requests -> Values \cup {None}], what passes write
    lost,      \* requests whose copy a user deleted, which nothing announces
    pending,   \* the requests to be processed
    work       \* each worker: the request, what it is about to write, and
               \* whether it knows that it has

vars == <<source, copy, lost, pending, work>>

WorkRec == [item : Requests \cup {None}, read : Values \cup {None}, wrote : BOOLEAN]
Rec(item, read, wrote) == [item |-> item, read |-> read, wrote |-> wrote]
Idle    == Rec(None, None, FALSE)
Busy    == {work[k].item : k \in Workers} \ {None}

Init ==
    /\ source \in [Requests -> Values]
    /\ copy = [i \in Requests |-> None] /\ lost = {}
    /\ pending = Requests /\ work = [k \in Workers |-> Idle]

Edit(i, v) ==
    /\ source' = [source EXCEPT ![i] = v]
    /\ pending' = pending \cup {i}
    /\ UNCHANGED <<copy, lost, work>>

Remove(i) ==
    /\ copy' = [copy EXCEPT ![i] = None] /\ lost' = lost \cup {i}
    /\ UNCHANGED <<source, pending, work>>

Add(i) == pending' = pending \cup {i} /\ UNCHANGED <<source, copy, lost, work>>

(* The request may stay pending, for the next pass.                        *)
Take(k, i) ==
    /\ work[k] = Idle /\ i \in pending \ Busy
    /\ work' = [work EXCEPT ![k] = Rec(i, None, FALSE)]
    /\ pending' \in {pending, pending \ {i}}
    /\ UNCHANGED <<source, copy, lost>>

Read(k) ==
    /\ work[k].item # None /\ work[k].read = None /\ ~ work[k].wrote
    /\ work' = [work EXCEPT ![k] = Rec(@.item, source[@.item], FALSE)]
    /\ UNCHANGED <<source, copy, lost, pending>>

(* Its answer may be lost.                                                 *)
Write(k) ==
    /\ work[k].read # None
    /\ copy' = [copy EXCEPT ![work[k].item] = work[k].read]
    /\ lost' = lost \ {work[k].item}
    /\ \E known \in BOOLEAN :
           work' = [work EXCEPT ![k] = Rec(@.item, None, known)]
    /\ UNCHANGED <<source, pending>>

Fail(k) ==
    /\ ~ work[k].wrote
    /\ work' = [work EXCEPT ![k] = Rec(@.item, None, FALSE)]
    /\ UNCHANGED <<source, copy, lost, pending>>

End(k) ==
    /\ work[k].wrote \/ work[k].item \in pending
    /\ work' = [work EXCEPT ![k] = Idle]
    /\ UNCHANGED <<source, copy, lost, pending>>

(* A process that starts lists every object.                               *)
Crash ==
    /\ work' = [k \in Workers |-> Idle] /\ pending' = Requests
    /\ UNCHANGED <<source, copy, lost>>

Next ==
    \/ Crash
    \/ \E i \in Requests : Remove(i) \/ Add(i) \/ \E v \in Values : Edit(i, v)
    \/ \E k \in Workers : Read(k) \/ Write(k) \/ Fail(k) \/ End(k) \/ \E i \in Requests : Take(k, i)

Spec == Init /\ [][Next]_vars
=============================================================================
