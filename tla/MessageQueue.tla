---------------------------- MODULE MessageQueue ----------------------------
(***************************************************************************)
(* What the encrypted connection promises to its two ends: each hands      *)
(* messages to the other, which gets them complete, once and in order, or  *)
(* not at all once the connection has gone.                                *)
(*                                                                         *)
(* A message is known by its number: received[e] lists the numbers of the  *)
(* messages of e's peer that have arrived at e.                            *)
(***************************************************************************)
EXTENDS Naturals, Sequences

CONSTANT Sizes                  \* the lengths a message can have
VARIABLES sent, received, link

qvars == <<sent, received, link>>

End == {"host", "client"}
Peer(e) == IF e = "host" THEN "client" ELSE "host"

Init == /\ sent = [e \in End |-> <<>>]
        /\ received = [e \in End |-> <<>>]
        /\ link = "open"

Send(e, n) == /\ link = "open"
              /\ sent' = [sent EXCEPT ![e] = Append(@, n)]
              /\ UNCHANGED <<received, link>>

\* The next message of the peer arrives.
Deliver(e) == /\ Len(received[e]) < Len(sent[Peer(e)])
              /\ received' = [received EXCEPT ![e] = Append(@, Len(@) + 1)]
              /\ UNCHANGED <<sent, link>>

Close == /\ link = "open"
         /\ link' = "closed"
         /\ UNCHANGED <<sent, received>>

Next == \/ \E e \in End : Deliver(e) \/ \E n \in Sizes : Send(e, n)
        \/ Close

Spec == Init /\ [][Next]_qvars
=============================================================================
