------------------------------- MODULE Outbox -------------------------------
(***************************************************************************)
(* What the hub promises about the outgoing stream of ONE connection,      *)
(* seen from the peer: whatever the server accepted for the connection is  *)
(* received in the order of acceptance, without a gap and without an       *)
(* insertion, for as long as the transport is healthy.  Once the transport *)
(* broke, queued messages may be lost, and nothing is ever received again. *)
(* A closed outbox accepts nothing more; what it holds may still be        *)
(* flushed.  After a crash of the process nothing happens any more.        *)
(*                                                                         *)
(* Hub implements this specification for every connection (Hub!Stream).    *)
(***************************************************************************)
EXTENDS Naturals, Sequences

CONSTANT Payload     \* what a stream carries

VARIABLES pending,   \* accepted, not yet received
          received,  \* received by the peer
          closed,    \* nothing is accepted any more
          broken,    \* the transport failed or was shut
          alive      \* the process runs

vars == <<pending, received, closed, broken, alive>>

Init == /\ pending = <<>>
        /\ received = <<>>
        /\ closed = FALSE
        /\ broken = FALSE
        /\ alive = TRUE

Accept == /\ alive /\ ~closed
          /\ \E m \in Payload : pending' = Append(pending, m)
          /\ UNCHANGED <<received, closed, broken, alive>>

(* Some of the oldest pending messages reach the peer, oldest first. *)
Receive == /\ alive /\ ~broken
           /\ \E k \in 1..Len(pending) :
                /\ received' = received \o SubSeq(pending, 1, k)
                /\ pending' = SubSeq(pending, k + 1, Len(pending))
           /\ UNCHANGED <<closed, broken, alive>>

(* Pending messages are lost only on a broken transport. *)
Lose == /\ alive /\ broken
        /\ \E k \in 1..Len(pending) :
             pending' = SubSeq(pending, k + 1, Len(pending))
        /\ UNCHANGED <<received, closed, broken, alive>>

Close == /\ alive /\ ~closed
         /\ closed' = TRUE
         /\ UNCHANGED <<pending, received, broken, alive>>

(* The peer goes away or the server shuts the transport; what was in the   *)
(* writer's hands at that moment may be lost with it.                      *)
Break == /\ alive /\ ~broken
         /\ broken' = TRUE
         /\ \E k \in 0..Len(pending) :
              pending' = SubSeq(pending, k + 1, Len(pending))
         /\ UNCHANGED <<received, closed, alive>>

Crash == /\ alive
         /\ alive' = FALSE
         /\ UNCHANGED <<pending, received, closed, broken>>

Next == Accept \/ Receive \/ Lose \/ Close \/ Break \/ Crash

Spec == Init /\ [][Next]_vars
=============================================================================
