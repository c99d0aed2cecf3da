------------------------ MODULE ReplyLedgerProofs ------------------------
(***************************************************************************)
(* Proofs about ReplyLedger, for every set of requests and any number of   *)
(* restarts.                                                               *)
(***************************************************************************)
EXTENDS ReplyLedger, TLAPS

USE BoundsAssumption

-----------------------------------------------------------------------------
(* Building blocks                                                         *)

\* Settling live rows, and acknowledging pending ones, keep the types.
LEMMA MovedType ==
  ASSUME InboxOK, NEW S, NEW state \in Settled
  PROVE  Moved(S, state) \in [Request -> Ledger]
  BY DEF InboxOK, Moved, Ledger, Settled

LEMMA AckType ==
  ASSUME InboxOK, NEW S, Ack(S), UNCHANGED <<aged, reply, receipt, pulling>>
  PROVE  InboxOK'
<1>1. ledger' \in [Request -> Ledger]
  BY MovedType DEF Ack, Settled
<1>2. original' \in [Request ->
           {"absent", "pending", "terminal", "consumed", "gone"}]
  BY DEF InboxOK, Ack
<1> QED BY <1>1, <1>2 DEF InboxOK

LEMMA ExecuteType ==
  ASSUME InboxOK, NEW u, Execute(u), UNCHANGED <<receipt, pulling>>
  PROVE  InboxOK'
<1>1. ledger' \in [Request -> Ledger]
  BY DEF InboxOK, Execute, Ledger, Live, Settled
<1>2. original' \in [Request ->
           {"absent", "pending", "terminal", "consumed", "gone"}]
  BY DEF InboxOK, Execute
<1>3. reply' \in [Request ->
           {"none", "held", "queued", "sent", "expired", "refused"}]
  BY DEF InboxOK, Execute
<1>4. aged' \subseteq Request
  BY DEF InboxOK, Execute
<1> QED BY <1>1, <1>2, <1>3, <1>4 DEF InboxOK

-----------------------------------------------------------------------------
(* Type correctness                                                        *)

LEMMA InboxType ==
  ASSUME TypeOK, NEW m \in Request, Inbox(m)
  PROVE  TypeOK'
<1> USE DEF TypeOK
<1>1. CASE Arrive(m)
  BY <1>1 DEF Arrive, InboxOK, GateOK, CallOK, ThreadOK, gate, seats, caller, thread
<1>2. CASE PullAdmit(m)
  BY <1>2 DEF PullAdmit, InboxOK, GateOK, CallOK, ThreadOK, caller, thread
<1>3. CASE PullStamp(m)
  BY <1>3 DEF PullStamp, InboxOK, GateOK, CallOK, ThreadOK, Ledger, Live, caller, thread
<1>4. CASE AckOnly(m)
  BY <1>4, AckType DEF AckOnly, GateOK, CallOK, ThreadOK, gate, seats, caller, thread
<1>5. CASE GiveUp(m)
  BY <1>5 DEF GiveUp, InboxOK, GateOK, CallOK, ThreadOK, gate, seats, caller, thread
<1>6. CASE Expire(m)
  <2>1. ledger' \in [Request -> Ledger]
    BY <1>6, MovedType DEF Expire, Settled
  <2> QED
    BY <1>6, <2>1 DEF Expire, InboxOK, GateOK, CallOK, ThreadOK, gate, seats, caller, thread
<1>7. CASE SendQueued(m)
  <2>1. ledger' \in [Request -> Ledger]
    BY <1>7, MovedType DEF SendQueued, Ack, Settled
  <2>2. InboxOK'
    BY <1>7, <2>1 DEF SendQueued, Ack, InboxOK
  <2> QED
    BY <1>7, <2>2 DEF SendQueued, GateOK, CallOK, ThreadOK, gate, seats, caller, thread
<1>8. CASE ExpireReply(m)
  BY <1>8 DEF ExpireReply, InboxOK, GateOK, CallOK, ThreadOK, gate, seats, caller, thread
<1>9. CASE Age(m)
  BY <1>9 DEF Age, InboxOK, GateOK, CallOK, ThreadOK, gate, seats, caller, thread
<1> QED BY <1>1, <1>2, <1>3, <1>4, <1>5, <1>6, <1>7, <1>8, <1>9 DEF Inbox

LEMMA ReplyType ==
  ASSUME TypeOK, NEW m \in Request, Reply(m)
  PROVE  TypeOK'
<1> USE DEF TypeOK, ThreadOK, thread
<1>1. CASE Read(m)
  BY <1>1 DEF Read, InboxOK, GateOK, CallOK, inbox, gate, seats
<1>2. CASE Decide(m)
  BY <1>2 DEF Decide, Return, InboxOK, GateOK, CallOK, inbox, gate, seats
<1>3. CASE Join(m)
  BY <1>3 DEF Join, Return, InboxOK, GateOK, CallOK, inbox, gate, seats
<1>4. CASE Conflict(m)
  BY <1>4, AckType DEF Conflict, Return, GateOK, CallOK, gate, seats
<1>5. CASE SubmitHeld(m)
  BY <1>5 DEF SubmitHeld, Return, Inserted, InboxOK, GateOK, CallOK, gate, seats
<1>6. CASE SubmitAllowed(m)
  <2>1. ledger' \in [Request -> Ledger]
    BY <1>6, MovedType DEF SubmitAllowed, Settled
  <2>2. PICK result \in {"queued", "sent"} :
            /\ reply' = IF result = "sent" THEN [reply EXCEPT ![m] = "sent"]
                                           ELSE Inserted(m, "queued")
            /\ receipt' = [receipt EXCEPT ![m] = result]
    BY <1>6 DEF SubmitAllowed
  <2>3. reply' \in [Request ->
            {"none", "held", "queued", "sent", "expired", "refused"}]
    BY <2>2 DEF Inserted, InboxOK
  <2>4. receipt' \in [Request -> {"none", "queued", "sent"}]
    BY <2>2 DEF InboxOK
  <2>5. InboxOK'
    BY <1>6, <2>1, <2>3, <2>4 DEF SubmitAllowed, InboxOK
  <2> QED
    BY <1>6, <2>5 DEF SubmitAllowed, GateOK, CallOK, gate, seats
<1>7. CASE Note(m)
  BY <1>7 DEF Note, InboxOK, GateOK, CallOK, inbox
<1>8. CASE Finish(m)
  BY <1>8, AckType DEF Finish, GateOK, CallOK, gate, seats
<1>9. CASE TimeOut(m)
  BY <1>9 DEF TimeOut, Return, InboxOK, GateOK, CallOK, inbox, gate, seats
<1> QED
  BY <1>1, <1>2, <1>3, <1>4, <1>5, <1>6, <1>7, <1>8, <1>9 DEF Reply

LEMMA PassType ==
  ASSUME TypeOK, Pass
  PROVE  TypeOK'
<1> USE DEF TypeOK, CallOK, caller
<1>1. CASE Snapshot
  BY <1>1 DEF Snapshot, Ledger, InboxOK, GateOK, ThreadOK, inbox, gate, seats
<1>2. CASE Merge
  BY <1>2 DEF Merge, Known, NoSnap, Ledger, InboxOK, GateOK, ThreadOK, inbox
<1>3. CASE ReclaimRead
  BY <1>3 DEF ReclaimRead, InboxOK, GateOK, ThreadOK, inbox, gate, seats
<1>4. CASE ReclaimMark
  BY <1>4 DEF ReclaimMark, InboxOK, GateOK, ThreadOK, inbox
<1>5. ASSUME NEW outcome \in Outcome, ReclaimDrain(outcome)
      PROVE  TypeOK'
  <2>1. InboxOK'
    BY <1>5, ExecuteType DEF ReclaimDrain, InboxOK
  <2> QED
    BY <1>5, <2>1 DEF ReclaimDrain, NoUpdate, GateOK, ThreadOK, seats
<1>6. ASSUME NEW outcome \in Outcome, Apply(outcome)
      PROVE  TypeOK'
  <2>1. InboxOK'
    BY <1>6, ExecuteType DEF Apply, InboxOK
  <2>2. update' \in [release : SUBSET Request, fail : SUBSET Request,
                     drain : SUBSET Request, censor : SUBSET Request]
    BY <1>6 DEF Apply, NoUpdate, ThreadOK, Drainable
  <2> QED
    BY <1>6, <2>1, <2>2 DEF Apply, GateOK, ThreadOK, gate, seats
<1>7. CASE Control
  BY <1>7 DEF Control, InboxOK, GateOK, ThreadOK, inbox
<1>8. CASE EvaluateHolds
  BY <1>8 DEF EvaluateHolds, InboxOK, GateOK, ThreadOK, inbox, gate, seats
<1>9. CASE Learn
  BY <1>9 DEF Learn, NoUpdate, InboxOK, GateOK, ThreadOK, inbox
<1> QED
  BY <1>1, <1>2, <1>3, <1>4, <1>5, <1>6, <1>7, <1>8, <1>9 DEF Pass

\* The memory is rebuilt from a well-typed database.
LEMMA RebuildType ==
  ASSUME TypeOK, InboxOK', Rebuild
  PROVE  TypeOK'
  BY DEF TypeOK, Rebuild, In, Settled, GateOK, CallOK, ThreadOK, NoSnap,
         NoUpdate, Ledger

LEMMA TypeStep == TypeOK /\ [Next]_vars => TypeOK'
<1> SUFFICES ASSUME TypeOK, [Next]_vars PROVE TypeOK'
  OBVIOUS
<1>1. ASSUME NEW m \in Request, RestartInSubmit(m)
      PROVE  TypeOK'
  <2>1. ledger' \in [Request -> Ledger]
    BY <1>1, MovedType DEF TypeOK, InboxOK, RestartInSubmit, Settled
  <2>2. InboxOK'
    BY <1>1, <2>1 DEF TypeOK, RestartInSubmit, Rebuild, Inserted, InboxOK
  <2> QED BY <1>1, <2>2, RebuildType DEF RestartInSubmit
<1>2. CASE Restart
  <2>1. InboxOK'
    BY <1>2 DEF TypeOK, InboxOK, Restart, Rebuild
  <2> QED BY <1>2, <2>1, RebuildType DEF Restart
<1>3. CASE LinkMoves
  BY <1>3 DEF LinkMoves, TypeOK, InboxOK, GateOK, CallOK, ThreadOK, inbox, gate,
              seats, caller, thread
<1>4. CASE UNCHANGED vars
  BY <1>4 DEF vars, TypeOK, InboxOK, GateOK, CallOK, ThreadOK, inbox, gate,
              seats, caller, thread
<1> QED BY <1>1, <1>2, <1>3, <1>4, InboxType, ReplyType, PassType DEF Next

\* The inbox, the gate's memory, the calls and the pass of the link service
\* keep their types, and the gate only repeats drains it has marked.
THEOREM TypeCorrect == Spec => []TypeOK
<1>1. Init => TypeOK
  BY DEF Init, TypeOK, InboxOK, GateOK, CallOK, ThreadOK, Ledger, NoSnap, NoUpdate
<1> QED BY <1>1, TypeStep, PTL DEF Spec

-----------------------------------------------------------------------------
(* The ledger and the inbox                                                *)

\* What is being stamped is pending, since nothing else of the inbox actor
\* runs meanwhile.
StampedPending == \A m \in pulling : original[m] = "pending"

\* A drained request is not pending any more.
DrainedOver ==
    \A m \in Request : ledger[m] = "drained" => original[m] \in {"consumed", "gone"}

IInv == TypeOK /\ StampedPending /\ LedgerBacked /\ DrainedOver

\* An acknowledgement settles the ledger row of what it consumes.
LEMMA AckKeeps ==
  ASSUME IInv, NEW S \in SUBSET Request, Ack(S), pulling' = {}
  PROVE  StampedPending' /\ LedgerBacked' /\ DrainedOver'
  BY DEF IInv, StampedPending, LedgerBacked, DrainedOver, Ack, Moved, Live,
         Unconsumed, TypeOK, InboxOK

\* So does an update of the link service, for what it releases and drains.
LEMMA ExecuteKeeps ==
  ASSUME IInv, NEW u, Execute(u), pulling' = {}
  PROVE  StampedPending' /\ LedgerBacked' /\ DrainedOver'
<1> USE DEF IInv, TypeOK, InboxOK, Execute, Unconsumed
<1>1. StampedPending'
  BY DEF StampedPending
<1>2. ASSUME NEW m \in Request, ledger'[m] \in Live
      PROVE  Unconsumed(m)'
  <2>1. ledger[m] \in Live
    BY <1>2 DEF Live
  <2>2. m \notin u.release \/ reply[m] # "held"
    BY <1>2, <2>1 DEF Live, LedgerBacked
  <2>3. m \notin Drainable(u.drain)
    BY <1>2, <2>1, <2>2 DEF Live
  <2> QED BY <2>1, <2>2, <2>3 DEF LedgerBacked
<1>3. ASSUME NEW m \in Request, ledger'[m] = "drained"
      PROVE  original'[m] \in {"consumed", "gone"}
  <2>1. CASE m \in Drainable(u.drain)
    BY <2>1
  <2>2. CASE m \notin Drainable(u.drain)
    <3>1. ledger[m] = "drained"
      BY <1>3, <2>2
    <3> QED BY <3>1 DEF DrainedOver
  <2> QED BY <2>1, <2>2
<1> QED BY <1>1, <1>2, <1>3 DEF LedgerBacked, DrainedOver

LEMMA InboxKeeps ==
  ASSUME IInv, NEW m \in Request, Inbox(m)
  PROVE  StampedPending' /\ LedgerBacked' /\ DrainedOver'
<1> USE DEF IInv, TypeOK, InboxOK
<1>1. CASE Arrive(m)
  BY <1>1 DEF Arrive, StampedPending, LedgerBacked, DrainedOver, Unconsumed, Live
<1>2. CASE PullAdmit(m)
  BY <1>2 DEF PullAdmit, StampedPending, LedgerBacked, DrainedOver, Unconsumed
<1>3. CASE PullStamp(m)
  BY <1>3 DEF PullStamp, StampedPending, LedgerBacked, DrainedOver, Unconsumed, Live
<1>4. CASE AckOnly(m)
  BY <1>4, AckKeeps DEF AckOnly
<1>5. CASE GiveUp(m)
  BY <1>5 DEF GiveUp, StampedPending, LedgerBacked, DrainedOver, Unconsumed
<1>6. CASE Expire(m)
  BY <1>6 DEF Expire, Moved, StampedPending, LedgerBacked, DrainedOver, Unconsumed, Live
<1>7. CASE SendQueued(m)
  BY <1>7, AckKeeps DEF SendQueued
<1>8. CASE ExpireReply(m)
  BY <1>8 DEF ExpireReply, StampedPending, LedgerBacked, DrainedOver, Unconsumed
<1>9. CASE Age(m)
  BY <1>9 DEF Age, StampedPending, LedgerBacked, DrainedOver, Unconsumed
<1> QED BY <1>1, <1>2, <1>3, <1>4, <1>5, <1>6, <1>7, <1>8, <1>9 DEF Inbox

LEMMA ReplyKeeps ==
  ASSUME IInv, NEW m \in Request, Reply(m)
  PROVE  StampedPending' /\ LedgerBacked' /\ DrainedOver'
<1> USE DEF IInv, StampedPending, LedgerBacked, DrainedOver, Unconsumed
<1>1. CASE Conflict(m)
  BY <1>1, AckKeeps DEF Conflict
<1>2. CASE SubmitAllowed(m)
  BY <1>2 DEF SubmitAllowed, Moved, Live, TypeOK, InboxOK
<1>3. CASE Finish(m)
  BY <1>3, AckKeeps DEF Finish
<1>4. CASE SubmitHeld(m)
  BY <1>4 DEF SubmitHeld
<1>5. CASE Read(m) \/ Decide(m) \/ Join(m) \/ Note(m) \/ TimeOut(m)
  <2>1. UNCHANGED inbox
    BY <1>5 DEF Read, Decide, Join, Note, TimeOut
  <2> QED BY <2>1 DEF inbox
<1> QED BY <1>1, <1>2, <1>3, <1>4, <1>5 DEF Reply

LEMMA PassKeeps ==
  ASSUME IInv, Pass
  PROVE  StampedPending' /\ LedgerBacked' /\ DrainedOver'
<1>1. ASSUME NEW outcome \in Outcome, ReclaimDrain(outcome) \/ Apply(outcome)
      PROVE  StampedPending' /\ LedgerBacked' /\ DrainedOver'
  <2>1. pulling' = {} /\ (Execute(update) \/ UNCHANGED <<original, ledger>>)
    BY <1>1 DEF ReclaimDrain, Apply
  <2>2. CASE UNCHANGED <<original, ledger>>
    BY <2>1, <2>2 DEF IInv, StampedPending, LedgerBacked, DrainedOver, Unconsumed
  <2> QED BY <2>1, <2>2, ExecuteKeeps
<1>2. CASE UNCHANGED inbox
  BY <1>2 DEF inbox, IInv, StampedPending, LedgerBacked, DrainedOver, Unconsumed
<1>3. ASSUME Snapshot \/ Merge \/ ReclaimRead \/ ReclaimMark \/ Control
              \/ EvaluateHolds \/ Learn
      PROVE  UNCHANGED inbox
  BY <1>3 DEF Snapshot, Merge, ReclaimRead, ReclaimMark, Control, EvaluateHolds, Learn
<1> QED BY <1>1, <1>2, <1>3 DEF Pass

LEMMA InvStep == IInv /\ [Next]_vars => IInv'
<1> SUFFICES ASSUME IInv, [Next]_vars PROVE IInv'
  OBVIOUS
<1>1. TypeOK'
  BY TypeStep DEF IInv
<1>2. ASSUME NEW m \in Request, RestartInSubmit(m)
      PROVE  StampedPending' /\ LedgerBacked' /\ DrainedOver'
  <2>1. original' = original /\ pulling' = {}
    BY <1>2 DEF RestartInSubmit, Rebuild
  <2>2. ledger' = ledger \/ ledger' = Moved({m}, "closed")
    BY <1>2 DEF RestartInSubmit
  <2>3. \A n \in Request : ledger'[n] = ledger[n] \/ ledger'[n] = "closed"
    BY <2>2 DEF Moved
  <2> QED
    BY <2>1, <2>3 DEF IInv, StampedPending, LedgerBacked, DrainedOver, Unconsumed, Live
<1>3. CASE Restart
  <2>1. UNCHANGED <<original, ledger>> /\ pulling' = {}
    BY <1>3 DEF Restart, Rebuild
  <2> QED
    BY <1>1, <2>1 DEF IInv, StampedPending, LedgerBacked, DrainedOver, Unconsumed
<1>4. CASE LinkMoves \/ UNCHANGED vars
  <2>1. UNCHANGED inbox
    BY <1>4 DEF LinkMoves, vars
  <2> QED
    BY <1>1, <2>1 DEF inbox, IInv, StampedPending, LedgerBacked, DrainedOver,
                      Unconsumed
<1> QED
  BY <1>1, <1>2, <1>3, <1>4, InboxKeeps, ReplyKeeps, PassKeeps DEF Next, IInv

THEOREM Invariance == Spec => []IInv
<1>1. Init => IInv
  <2>1. Init => TypeOK
    BY DEF Init, TypeOK, InboxOK, GateOK, CallOK, ThreadOK, Ledger, NoSnap, NoUpdate
  <2> QED BY <2>1 DEF Init, IInv, StampedPending, LedgerBacked, DrainedOver, Live
<1> QED BY <1>1, InvStep, PTL DEF Spec

\* A live ledger row always stands for a request that is still in the inbox.
THEOREM LedgerIsBacked == Spec => []LedgerBacked
<1>1. IInv => LedgerBacked
  BY DEF IInv
<1> QED BY <1>1, Invariance, PTL

-----------------------------------------------------------------------------
(* Held replies of drained requests                                        *)

NotReleased ==
    \A m \in Request :
         ledger[m] = "drained" /\ reply[m] = "held" /\ receipt[m] # "none"
            => reply'[m] \in {"held", "refused", "expired"}

\* An update releases only what answers a request that is in the inbox.
LEMMA ExecuteNotReleased ==
  ASSUME IInv, NEW u, Execute(u)
  PROVE  NotReleased
  BY DEF IInv, TypeOK, InboxOK, DrainedOver, NotReleased, Execute, Unconsumed

LEMMA StepNotReleased ==
  ASSUME IInv, [Next]_vars
  PROVE  NotReleased
<1> USE DEF NotReleased
<1>1. ASSUME NEW m \in Request, SendQueued(m) \/ ExpireReply(m) \/ SubmitHeld(m)
                                  \/ SubmitAllowed(m) \/ RestartInSubmit(m)
      PROVE  NotReleased
  BY <1>1 DEF SendQueued, ExpireReply, SubmitHeld, SubmitAllowed,
              RestartInSubmit, Inserted, IInv, TypeOK, InboxOK
<1>2. ASSUME NEW outcome \in Outcome, ReclaimDrain(outcome) \/ Apply(outcome)
      PROVE  NotReleased
  <2>1. Execute(update) \/ UNCHANGED reply
    BY <1>2 DEF ReclaimDrain, Apply
  <2> QED BY <2>1, ExecuteNotReleased
<1>3. CASE UNCHANGED reply
  BY <1>3
<1>4. ASSUME NEW m \in Request,
             \/ Arrive(m) \/ PullAdmit(m) \/ PullStamp(m) \/ AckOnly(m)
             \/ GiveUp(m) \/ Expire(m) \/ Age(m) \/ Read(m) \/ Decide(m) \/ Join(m)
             \/ Conflict(m) \/ Note(m) \/ Finish(m) \/ TimeOut(m)
      PROVE  UNCHANGED reply
  BY <1>4 DEF Arrive, PullAdmit, PullStamp, AckOnly, GiveUp, Expire, Age, Read,
              Decide, Join, Conflict, Note, Finish, TimeOut, inbox
<1>5. ASSUME \/ Snapshot \/ Merge \/ ReclaimRead \/ ReclaimMark \/ Control
             \/ EvaluateHolds \/ Learn \/ LinkMoves \/ Restart \/ UNCHANGED vars
      PROVE  UNCHANGED reply
  BY <1>5 DEF Snapshot, Merge, ReclaimRead, ReclaimMark, Control,
              EvaluateHolds, Learn, LinkMoves, Restart, vars, inbox
<1> QED
  BY <1>1, <1>2, <1>3, <1>4, <1>5 DEF Next, Inbox, Reply, Pass

\* The held reply to a drained request is never released.
THEOREM DrainedStaysUnanswered == Spec => DrainedNotReleased
<1>1. IInv /\ [Next]_vars => [NotReleased]_vars
  BY StepNotReleased
<1>2. Spec => [][NotReleased]_vars
  BY <1>1, Invariance, PTL DEF Spec
<1> QED BY <1>2 DEF DrainedNotReleased, NotReleased
=============================================================================
