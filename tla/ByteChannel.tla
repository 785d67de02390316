---------------------------- MODULE ByteChannel ----------------------------
(***************************************************************************)
(* What a stream promises to the application that reads it, without any    *)
(* buffer, request or socket: the peer sends bytes, the application takes  *)
(* them one after the other, and it never takes a byte that was not sent,  *)
(* nor one out of order, nor one twice.  The k-th byte sent is written k.  *)
(***************************************************************************)
EXTENDS Integers, Sequences

VARIABLES sent,      \* how many bytes the peer has put on the connection
          delivered  \* the bytes the application has taken, oldest first

vars == <<sent, delivered>>

TypeOK == sent \in Nat /\ delivered \in Seq(Nat)

Init == sent = 0 /\ delivered = <<>>

\* The n bytes that follow the k-th.
Following(k, n) == [i \in 1..n |-> k + i]

Send == sent' \in Nat /\ sent' >= sent /\ UNCHANGED delivered

Deliver == \E n \in 0..(sent - Len(delivered)) :
              /\ delivered' = delivered \o Following(Len(delivered), n)
              /\ UNCHANGED sent

Next == Send \/ Deliver

Spec == Init /\ [][Next]_vars
=============================================================================
