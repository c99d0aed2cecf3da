-------------------------- MODULE DurableDelivery --------------------------
(***************************************************************************)
(* What the durable inbox of a daemon promises of a message addressed to   *)
(* it: the sender is told it arrived only when it, or a message with the   *)
(* same idempotency key, was committed; and a committed message ends once, *)
(* in one way, for good.                                                   *)
(***************************************************************************)
CONSTANTS Message,  \* message ids
          KeyOf     \* [Message -> idempotency key]

VARIABLES committed,  \* messages with an inbox row, now or before
          confirmed,  \* messages whose sender has its receipt
          outcome     \* how a message ended, "open" before

delivery == <<committed, confirmed, outcome>>

Outcomes == {"consumed", "failed", "expired"}

Init == /\ committed = {} /\ confirmed = {}
        /\ outcome = [m \in Message |-> "open"]

Commit(m) == /\ m \notin committed
             /\ committed' = committed \cup {m}
             /\ UNCHANGED <<confirmed, outcome>>

Confirm(m) == /\ \E twin \in committed : KeyOf[twin] = KeyOf[m]
              /\ confirmed' = confirmed \cup {m}
              /\ UNCHANGED <<committed, outcome>>

End(m) == /\ m \in committed /\ outcome[m] = "open"
          /\ \E how \in Outcomes : outcome' = [outcome EXCEPT ![m] = how]
          /\ UNCHANGED <<committed, confirmed>>

\* One sweep may end several messages at once.
Expire(S) == /\ S \subseteq {m \in committed : outcome[m] = "open"}
             /\ outcome' = [m \in Message |-> IF m \in S THEN "expired"
                                                         ELSE outcome[m]]
             /\ UNCHANGED <<committed, confirmed>>

Next == \/ \E m \in Message : Commit(m) \/ Confirm(m) \/ End(m)
        \/ \E S \in SUBSET Message : Expire(S)

Spec == Init /\ [][Next]_delivery
=============================================================================
