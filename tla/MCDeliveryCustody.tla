------------------------- MODULE MCDeliveryCustody -------------------------
(* Instances of DeliveryCustody for TLC.                                   *)
EXTENDS DeliveryCustody, TLC

CONSTANTS m1, m2, r1

\* Both messages share one recipient, so they share one lane.
SameRecipient == [m \in Msg |-> r1]

\* How often a message is submitted: a reply may be submitted again.
Once == [m \in Msg |-> 1]
ReplyTwice == [m \in Msg |-> IF m \in Reply THEN 2 ELSE 1]

\* Outcomes: what is not a reply may be sent and not acknowledged.
Deliverable == [m \in Msg |-> IF m \in Reply THEN {"delivered"}
                              ELSE {"delivered", "noack"}]
Linked == [m \in Msg |-> {"delivered", "custody", "offline", "failed"}]
Leaky == [m \in Msg |-> {"delivered"}]

Symmetric == Permutations(SubmitReq) \cup Permutations(RetryReq)
=============================================================================
