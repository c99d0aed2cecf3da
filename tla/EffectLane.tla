------------------------------ MODULE EffectLane ------------------------------
(***************************************************************************)
(* The effect lane between an actor and its blocking I/O: the owner        *)
(* reserves a credit, submits a request under it, a worker executes it and *)
(* posts the completion to the owner until the owner acknowledges it.      *)
(*                                                                         *)
(* The owner is an actor of the runtime: its mailbox may refuse a          *)
(* completion, its failure loses what is posted and what it handles, and a *)
(* completion may be posted again before the first one is acknowledged.    *)
(* An operation is submitted under a fresh token (operation_id and         *)
(* generation), as the owners do.                                          *)
(***************************************************************************)
EXTENDS Naturals, Sequences, FiniteSets

CONSTANTS
    Token,        \* operations, each used for one request
    Worker,       \* the lane's threads
    Capacity,     \* credits
    MailboxSize,  \* completions the owner's mailbox takes
    MaxFailures   \* bound: failures of the owner

ASSUME LaneAssumption ==
    Capacity \in Nat \ {0} /\ MailboxSize \in Nat \ {0} /\ MaxFailures \in Nat

VARIABLES
    closed,       \* _closed
    pending,      \* tokens that hold a credit; their receipt is not set
    submitted,    \* _submitted
    requests,     \* the queue
    phase, work,  \* of each worker: where it is, and the token it works on
    used,         \* tokens the owner has reserved
    posted,       \* the owner's mailbox: a queue of completions
    handling,     \* the completion the owner is handling
    failures,     \* of the owner
    ran, settled, acknowledged   \* executions, tokens handled and acknowledged

lane    == <<closed, pending, submitted, requests>>
workers == <<phase, work>>
owner   == <<used, posted, handling, failures>>
history == <<ran, settled, acknowledged>>
vars == <<lane, workers, owner, history>>

\* notify_all: the parked workers look again.
NotWoken == phase    \* mutant: nobody is notified
Woken == [w \in Worker |-> IF phase[w] = "parked" THEN "idle" ELSE phase[w]]

-----------------------------------------------------------------------------
(* The owner's calls                                                       *)

\* reserve: a free credit is taken; closed and overloaded lanes refuse.
RefusedLate == closed \/ Cardinality(pending) > Capacity    \* mutant: off by one
Refused == closed \/ Cardinality(pending) >= Capacity

Reserve(t) ==
    /\ t \notin used /\ ~ Refused
    /\ used' = used \cup {t}
    /\ pending' = pending \cup {t}
    /\ UNCHANGED <<closed, submitted, requests, workers, posted, handling, failures, history>>

\* submit_reserved: also after close, and only once.
NeverSubmitted(t) == FALSE    \* mutant: a second submit is queued again
Submitted(t) == t \in submitted

Submit(t) ==
    /\ t \in pending /\ ~ Submitted(t)
    /\ submitted' = submitted \cup {t}
    /\ requests' = Append(requests, t)
    /\ phase' = Woken
    /\ UNCHANGED <<closed, pending, work, owner, history>>

\* cancel_reservation: the owner's durable commit failed.
CancelReservation(t) ==
    /\ t \in pending /\ ~ Submitted(t)
    /\ pending' = pending \ {t}
    /\ phase' = Woken
    /\ UNCHANGED <<closed, submitted, requests, work, owner, history>>

\* close: no credit is given any more.
Close ==
    /\ ~ closed
    /\ closed' = TRUE
    /\ phase' = Woken
    /\ UNCHANGED <<pending, submitted, requests, work, owner, history>>

-----------------------------------------------------------------------------
(* A worker                                                                *)

\* _take_request: the lane has ended, ...
OverWhenIdle == closed    \* mutant: reservations are not waited for
Over == closed /\ pending = {}

Exit(w) ==
    /\ phase[w] = "idle" /\ requests = <<>> /\ Over
    /\ phase' = [phase EXCEPT ![w] = "gone"]
    /\ UNCHANGED <<lane, work, owner, history>>

\* ... there is nothing to do, ...
Park(w) ==
    /\ phase[w] = "idle" /\ requests = <<>> /\ ~ Over
    /\ phase' = [phase EXCEPT ![w] = "parked"]
    /\ UNCHANGED <<lane, work, owner, history>>

\* ... or the oldest request is taken.
Take(w) ==
    /\ phase[w] = "idle" /\ requests # <<>>
    /\ requests' = Tail(requests)
    /\ phase' = [phase EXCEPT ![w] = "taken"]
    /\ work' = [work EXCEPT ![w] = {Head(requests)}]
    /\ UNCHANGED <<closed, pending, submitted, owner, history>>

\* The receipt is looked up: without it the thread dies of a KeyError.
Found(w) == IF work[w] \subseteq pending THEN "executing" ELSE "dead"
LookUp(w) ==
    /\ phase[w] = "taken"
    /\ phase' = [phase EXCEPT ![w] = Found(w)]
    /\ UNCHANGED <<lane, work, owner, history>>

\* The handler returns or raises: both are a completion.
Execute(w) ==
    /\ phase[w] = "executing"
    /\ ran' = [t \in Token |-> IF t \in work[w] THEN ran[t] + 1 ELSE ran[t]]
    /\ phase' = [phase EXCEPT ![w] = "completing"]
    /\ UNCHANGED <<lane, work, owner, settled, acknowledged>>

\* The completion is posted; a refusal is ignored, the next round posts again.
Post(w) ==
    /\ phase[w] = "completing" /\ work[w] \subseteq pending
    /\ Len(posted) < MailboxSize
    /\ \E t \in work[w] : posted' = Append(posted, t)
    /\ UNCHANGED <<lane, workers, used, handling, failures, history>>

\* The receipt is set: the worker is free.
Released(w) ==
    /\ phase[w] = "completing" /\ work[w] \cap pending = {}
    /\ phase' = [phase EXCEPT ![w] = "idle"]
    /\ work' = [work EXCEPT ![w] = {}]
    /\ UNCHANGED <<lane, owner, history>>

-----------------------------------------------------------------------------
(* The owner's handler                                                     *)

\* The oldest completion is handled; another of the same token may be behind it.
Handle ==
    /\ handling = {} /\ posted # <<>>
    /\ handling' = {Head(posted)}
    /\ posted' = Tail(posted)
    /\ settled' = settled \cup handling'
    /\ UNCHANGED <<lane, workers, used, failures, ran, acknowledged>>

\* acknowledge: the credit and the token are given back together.
KeepToken(t) == submitted    \* mutant: the token stays submitted
Settle(t) == submitted \ {t}

Acknowledge(t) ==
    /\ t \in handling
    /\ handling' = {}
    /\ IF t \in submitted
       THEN /\ pending' = pending \ {t}
            /\ submitted' = Settle(t)
            /\ acknowledged' = acknowledged \cup {t}
            /\ phase' = Woken
       ELSE UNCHANGED <<pending, submitted, acknowledged, phase>>
    /\ UNCHANGED <<closed, requests, work, used, posted, failures, ran, settled>>

\* The owner fails, between two messages or with one handled and not yet
\* acknowledged; its mailbox is dropped.
OwnerFails ==
    /\ failures < MaxFailures
    /\ failures' = failures + 1
    /\ handling' = {} /\ posted' = <<>>
    /\ UNCHANGED <<lane, workers, used, history>>

-----------------------------------------------------------------------------

Init ==
    /\ closed = FALSE /\ pending = {} /\ submitted = {} /\ requests = <<>>
    /\ phase = [w \in Worker |-> "idle"] /\ work = [w \in Worker |-> {}]
    /\ used = {} /\ posted = <<>> /\ handling = {} /\ failures = 0
    /\ ran = [t \in Token |-> 0] /\ settled = {} /\ acknowledged = {}

Round(w) ==
    Exit(w) \/ Park(w) \/ Take(w) \/ LookUp(w) \/ Execute(w) \/ Released(w)

Next ==
    \/ \E t \in Token : \/ Reserve(t) \/ Submit(t) \/ CancelReservation(t)
                        \/ Acknowledge(t)
    \/ \E w \in Worker : Round(w) \/ Post(w)
    \/ Handle \/ Close \/ OwnerFails

Spec == Init /\ [][Next]_vars

-----------------------------------------------------------------------------
(* Properties *)

\* Type correctness: a submitted token holds a credit (effects.py: _submitted is
\* a subset of _pending), and a credit is of a token the owner reserved.
TypeOK ==
    /\ closed \in BOOLEAN /\ failures \in 0..MaxFailures
    /\ submitted \subseteq pending /\ pending \subseteq used /\ used \subseteq Token
    /\ requests \in Seq(Token)
    /\ phase \in [Worker -> {"idle", "parked", "taken", "executing", "completing", "gone",
                             "dead"}]
    /\ work \in [Worker -> SUBSET Token]
    /\ posted \in Seq(Token) /\ handling \subseteq Token
    /\ ran \in [Token -> Nat] /\ settled \subseteq Token /\ acknowledged \subseteq Token

\* Whatever is posted again, lost with the owner or acknowledged late, a
\* request is executed at most once, and no worker dies of a missing receipt.
RunsOnce ==
    /\ \A t \in Token : ran[t] <= 1
    /\ \A w \in Worker : phase[w] # "dead"

\* Admission is not settlement: a request keeps its credit until the owner has
\* acknowledged it, so at most Capacity requests are ever unsettled.
CreditsKept ==
    /\ Cardinality(pending) <= Capacity
    /\ \A t \in Token : ran[t] > 0 /\ t \notin acknowledged => t \in pending
    /\ acknowledged \subseteq settled

-----------------------------------------------------------------------------
(* Liveness *)

\* The threads run and effects end; a worker that posts every few milliseconds
\* meets a mailbox with room again and again; the owner handles its mailbox,
\* fails a bounded number of times, and submits or cancels what it reserved.
Fairness ==
    /\ \A w \in Worker : WF_vars(Round(w)) /\ SF_vars(Post(w))
    /\ WF_vars(Handle)
    /\ \A t \in Token : WF_vars(Acknowledge(t)) /\ WF_vars(Submit(t) \/ CancelReservation(t))

FairSpec == Spec /\ Fairness

\* Every submitted request is executed and acknowledged, also when the lane is
\* closed right after it, or the owner has failed in between.
RequestsSettle == \A t \in Token : t \in submitted ~> t \in acknowledged

\* A closed lane ends: every worker leaves once nothing holds a credit.
WorkersLeave == closed ~> \A w \in Worker : phase[w] = "gone"
===============================================================================
