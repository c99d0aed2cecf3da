-------------------------- MODULE MCRecipientInbox --------------------------
(* Instances of RecipientInbox for TLC.                                    *)
EXTENDS RecipientInbox

CONSTANTS note, order, key

\* The two are twins: the second to arrive is a duplicate of the first.
Keys == [m \in Message |-> key]

\* The deadline of a work order is past the dedup window.
Lives == [m \in Message |-> IF m = order THEN 3 ELSE 1]
=============================================================================
