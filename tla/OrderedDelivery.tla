-------------------------- MODULE OrderedDelivery --------------------------
(* What a one-way relay promises: the receiver has a prefix of what was sent.  *)
EXTENDS Naturals, Sequences

CONSTANT Messages
VARIABLES sent, received

Init == sent = <<>> /\ received = <<>>

\* A message is sent once.
Send ==
    /\ \E m \in Messages :
          /\ \A n \in DOMAIN sent : sent[n] # m
          /\ sent' = Append(sent, m)
    /\ UNCHANGED received

\* The next message arrives, never one twice, never one before its turn.
Receive ==
    /\ Len(received) < Len(sent)
    /\ received' = Append(received, sent[Len(received) + 1])
    /\ UNCHANGED sent

Next == Send \/ Receive

Spec == Init /\ [][Next]_<<sent, received>>

=============================================================================
