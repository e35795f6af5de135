---------------------------- MODULE MCController ----------------------------
(* Controller with two workers, one more than the reconcilers have.  The   *)
(* passes of one of them may hang, which leaves two requests to the other. *)
(* The source of one request is edited for ever.                           *)
EXTENDS Controller

CONSTANTS r1, v1

MCSays == [i \in Requests |-> IF i = r1 THEN Values ELSE {v1}]
=============================================================================
