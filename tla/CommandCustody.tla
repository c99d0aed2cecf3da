--------------------------- MODULE CommandCustody ---------------------------
(***************************************************************************)
(* What the actor runtime promises of a command it admitted: the handler   *)
(* begins it once, or its sender gets it back as undelivered once, and     *)
(* never both.  Nothing is said of a command that was begun and failed:    *)
(* the handler may have acted.                                             *)
(***************************************************************************)
CONSTANT Cmd

VARIABLES accepted, begun, returned

custody == <<accepted, begun, returned>>

Open == accepted \ (begun \cup returned)

Init == accepted = {} /\ begun = {} /\ returned = {}

Accept(c) == /\ c \notin accepted
             /\ accepted' = accepted \cup {c}
             /\ UNCHANGED <<begun, returned>>

Begin(c) == /\ c \in Open
            /\ begun' = begun \cup {c}
            /\ UNCHANGED <<accepted, returned>>

Return(c) == /\ c \in Open
             /\ returned' = returned \cup {c}
             /\ UNCHANGED <<accepted, begun>>

Next == \E c \in Cmd : Accept(c) \/ Begin(c) \/ Return(c)

Spec == Init /\ [][Next]_custody
=============================================================================
