----------------------- MODULE DeliveryCustodyProofs -----------------------
(***************************************************************************)
(* Proofs about DeliveryCustody, for every set of messages and requests,   *)
(* every bound and every number of incarnations of the actor.              *)
(***************************************************************************)
EXTENDS DeliveryCustody, TLAPS

USE KindsAssumption, MessagesAssumption, BoundsAssumption DEF Req, Gen

Verdicts == {"none", "expired", "fetched"}

-----------------------------------------------------------------------------
(* Types of the building blocks                                            *)

LEMMA RecordType ==
  ASSUME NEW S, NEW verdict \in {"expired", "fetched"}, LedgerOK
  PROVE  Record(S, verdict) \in [Msg -> Verdicts]
  BY DEF Record, LedgerOK, Verdicts

\* The actor's memory after a command that claims nothing.
LEMMA ReconcileType ==
  ASSUME TypeOK, Reconcile
  PROVE  ActorOK' /\ CoordOK' /\ WorkerOK' /\ PostOK'
  BY DEF TypeOK, ActorOK, CoordOK, WorkerOK, PostOK, Reconcile, Memory, Live,
         ActorOnly

\* ... and after one that issues a request.
LEMMA RequestType ==
  ASSUME TypeOK, NEW r \in Req, NEW S \in SUBSET Msg, Request(r, S)
  PROVE  ActorOK' /\ CoordOK' /\ WorkerOK' /\ PostOK'
<1> USE DEF TypeOK, Request
<1>1. ActorOK'
  BY DEF ActorOK, Live
<1>2. CoordOK'
  BY DEF CoordOK
<1>3. WorkerOK'
  BY DEF WorkerOK, ActorOK
<1>4. PostOK'
  BY DEF PostOK, WorkerOK
<1> QED BY <1>1, <1>2, <1>3, <1>4

LEMMA InsertType ==
  ASSUME TypeOK, NEW m \in Msg, NEW hold \in BOOLEAN, NEW refused \in BOOLEAN,
         Insert(m, hold, refused)
  PROVE  RowsOK' /\ WorldOK' /\ status' \in [Msg -> Verdicts]
<1> USE DEF TypeOK, Insert
<1>1. RowsOK'
  BY DEF RowsOK, Table, Evictions, StillDue
<1>2. WorldOK'
  BY DEF WorldOK, RowsOK, Table
<1>3. status' \in [Msg -> Verdicts]
  BY RecordType
<1> QED BY <1>1, <1>2, <1>3

LEMMA ToDlqType ==
  ASSUME TypeOK, NEW S, ToDlq(S)
  PROVE  RowsOK' /\ awake' \subseteq outbox' /\ status' \in [Msg -> Verdicts]
<1>1. RowsOK' /\ awake' \subseteq outbox'
  BY DEF TypeOK, ToDlq, RowsOK, Table
<1>2. status' \in [Msg -> Verdicts]
  BY RecordType DEF TypeOK, ToDlq
<1> QED BY <1>1, <1>2

LEMMA ApplyType ==
  ASSUME TypeOK, NEW r \in Req, NEW S, NEW W, Apply(r, S, W)
  PROVE  RowsOK' /\ awake' \subseteq outbox' /\ LedgerOK'
<1>1. RowsOK' /\ awake' \subseteq outbox'
  BY DEF TypeOK, Apply, RowsOK, Table, StillDue, Rousable
<1>2. status' \in [Msg -> Verdicts]
  BY RecordType DEF TypeOK, Apply
<1>3. receipt' \in [Reply -> {"none", "queued", "ok", "failed"}]
  BY DEF TypeOK, LedgerOK, Apply, Verdict
<1> QED BY <1>1, <1>2, <1>3 DEF LedgerOK, Verdicts

\* A failing command leaves a well-typed, empty memory.
LEMMA FailType ==
  ASSUME TypeOK, Fail
  PROVE  ActorOK' /\ CoordOK' /\ WorkerOK' /\ PostOK'
<1> USE DEF TypeOK, Fail, Memory
<1>1. ActorOK'
  <2>1. gen' \in Gen
    BY DEF ActorOK
  <2>2. wakes' \in [Req -> SUBSET Msg]
    OBVIOUS
  <2> QED BY <2>1, <2>2 DEF ActorOK
<1>2. CoordOK'
  BY DEF CoordOK, WorkerOK
<1>3. WorkerOK' /\ PostOK'
  BY DEF WorkerOK, PostOK
<1> QED BY <1>1, <1>2, <1>3

-----------------------------------------------------------------------------
(* Type correctness                                                        *)

LEMMA CommandType == ASSUME TypeOK, CommandStep PROVE TypeOK'
<1>1. ASSUME NEW m \in Msg, NEW mode \in Modes, SubmitQueued(m, mode)
      PROVE  TypeOK'
  <2>1. RowsOK' /\ WorldOK' /\ status' \in [Msg -> Verdicts]
    BY <1>1, InsertType DEF SubmitQueued
  <2>2. LedgerOK'
    BY <1>1, <2>1 DEF TypeOK, LedgerOK, Verdicts, SubmitQueued, QueuedReceipt
  <2> QED BY <1>1, <2>1, <2>2, ReconcileType DEF TypeOK, SubmitQueued
<1>2. ASSUME NEW m \in Msg, NEW r \in SubmitReq, SubmitDirect(m, r)
      PROVE  TypeOK'
  <2>1. RowsOK' /\ WorldOK' /\ LedgerOK'
    BY <1>2, InsertType DEF TypeOK, LedgerOK, Verdicts, SubmitDirect
  <2> QED BY <1>2, <2>1, RequestType DEF TypeOK, SubmitDirect
<1>3. ASSUME NEW m \in Msg, SubmitRefused(m) PROVE TypeOK'
  <2>1. RowsOK' /\ WorldOK' /\ status' \in [Msg -> Verdicts]
    BY <1>3, InsertType DEF SubmitRefused
  <2>2. LedgerOK'
    BY <1>3, <2>1 DEF TypeOK, LedgerOK, Verdicts, SubmitRefused, QueuedReceipt
  <2> QED BY <1>3, <2>1, <2>2, ReconcileType DEF TypeOK, SubmitRefused
<1>4. ASSUME NEW m \in Msg, Retire(m) PROVE TypeOK'
  <2>1. RowsOK' /\ WorldOK'
    BY <1>4 DEF TypeOK, RowsOK, WorldOK, Retire, Table
  <2>2. LedgerOK'
    BY <1>4, RecordType DEF TypeOK, LedgerOK, Verdicts, Retire
  <2> QED BY <1>4, <2>1, <2>2, ReconcileType DEF TypeOK, Retire
<1>5. ASSUME NEW m \in Msg, Release(m) PROVE TypeOK'
  <2>1. RowsOK' /\ WorldOK' /\ LedgerOK'
    BY <1>5 DEF TypeOK, RowsOK, WorldOK, LedgerOK, Release, Table, ledger
  <2> QED BY <1>5, <2>1, ReconcileType DEF TypeOK, Release
<1>6. ASSUME NEW S, ToDlq(S), Reconcile,
             UNCHANGED <<receipt, delivered, inMailbox, submitted>>
      PROVE  TypeOK'
  <2>1. RowsOK' /\ WorldOK' /\ LedgerOK'
    BY <1>6, ToDlqType DEF TypeOK, WorldOK, LedgerOK, Verdicts
  <2> QED BY <1>6, <2>1, ReconcileType DEF TypeOK
<1>7. ASSUME NEW recipient, Wake(recipient) PROVE TypeOK'
  <2>1. RowsOK' /\ WorldOK' /\ LedgerOK'
    BY <1>7 DEF TypeOK, RowsOK, WorldOK, LedgerOK, Wake, Table, ledger, Rousable
  <2>2. ActorOK'
    BY <1>7 DEF TypeOK, ActorOK, WorkerOK, Wake, Memory, ActorOnly, Live
  <2>3. CoordOK' /\ PostOK'
    BY <1>7 DEF TypeOK, CoordOK, PostOK, Wake, Memory, ActorOnly
  <2>4. WorkerOK'
    BY <1>7 DEF TypeOK, WorkerOK, Wake, Memory, ActorOnly
  <2> QED BY <2>1, <2>2, <2>3, <2>4 DEF TypeOK
<1>8. ASSUME NEW r \in RetryReq, ClaimRetry(r) PROVE TypeOK'
  <2>1. RowsOK' /\ WorldOK'
    BY <1>8 DEF TypeOK, RowsOK, WorldOK, ClaimRetry, Table, Ready
  <2>2. LedgerOK'
    BY <1>8, RecordType DEF TypeOK, LedgerOK, Verdicts, ClaimRetry, Expire
  <2>3. Ready \ expired \in SUBSET Msg
    BY DEF TypeOK, RowsOK, Ready
  <2> QED BY <1>8, <2>1, <2>2, <2>3, RequestType DEF TypeOK, ClaimRetry
<1>9. ASSUME TickOnly PROVE TypeOK'
  <2>1. RowsOK' /\ WorldOK'
    BY <1>9 DEF TypeOK, RowsOK, WorldOK, TickOnly, Table, Ready
  <2>2. LedgerOK'
    BY <1>9, RecordType DEF TypeOK, LedgerOK, Verdicts, TickOnly, Expire
  <2> QED BY <1>9, <2>1, <2>2, ReconcileType DEF TypeOK, TickOnly
<1>10. ASSUME OtherCommand PROVE TypeOK'
  <2>1. RowsOK' /\ WorldOK' /\ LedgerOK'
    BY <1>10 DEF TypeOK, RowsOK, WorldOK, LedgerOK, OtherCommand, rows, world, ledger
  <2> QED BY <1>10, <2>1, ReconcileType DEF TypeOK, OtherCommand
<1>11. ASSUME NEW c \in mail, HandleCompletion(c) PROVE TypeOK'
  <2>1. c[1] \in Req
    BY DEF TypeOK, CoordOK
  <2>2. RowsOK' /\ awake' \subseteq outbox' /\ LedgerOK'
    BY <1>11, <2>1, ApplyType DEF HandleCompletion
  <2>3. WorldOK'
    BY <1>11, <2>2 DEF TypeOK, WorldOK, HandleCompletion
  <2>4. ActorOK'
    BY <1>11 DEF TypeOK, ActorOK, HandleCompletion, Memory, ClaimsAfter, Live
  <2>5. CoordOK' /\ WorkerOK' /\ PostOK'
    BY <1>11 DEF TypeOK, CoordOK, WorkerOK, PostOK, HandleCompletion, Memory
  <2> QED BY <2>2, <2>3, <2>4, <2>5 DEF TypeOK
<1>12. ASSUME NEW c \in mail, DropCompletion(c) PROVE TypeOK'
  <2>1. RowsOK' /\ WorldOK' /\ LedgerOK'
    BY <1>12 DEF TypeOK, RowsOK, WorldOK, LedgerOK, DropCompletion, rows, world, ledger
  <2>2. ActorOK'
    BY <1>12 DEF TypeOK, ActorOK, DropCompletion, Memory, Live
  <2>3. CoordOK' /\ WorkerOK' /\ PostOK'
    BY <1>12 DEF TypeOK, CoordOK, WorkerOK, PostOK, DropCompletion, Memory,
                 SettledToken
  <2> QED BY <2>1, <2>2, <2>3 DEF TypeOK
<1> QED
  BY <1>1, <1>2, <1>3, <1>4, <1>5, <1>6, <1>7, <1>8, <1>9, <1>10, <1>11, <1>12
     DEF CommandStep, Tick, Prune, Discard

\* What a request may still become when its completion was not accepted.
LEMMA NotAcceptedType ==
  ASSUME TypeOK, NEW r \in Req, NEW closed \in BOOLEAN, NotAccepted(r, closed)
  PROVE  WorkerOK' /\ PostOK'
<1>1. PICK next \in {"settling", "handing"} : stage' = [stage EXCEPT ![r] = next]
  BY DEF NotAccepted
<1> QED BY <1>1 DEF TypeOK, WorkerOK, PostOK, NotAccepted

LEMMA FinishType ==
  ASSUME TypeOK, NEW r \in Req, Finish(r), UNCHANGED mail,
         handoffs' \subseteq SUBSET (Req \cup Msg)
  PROVE  CoordOK' /\ WorkerOK' /\ PostOK'
<1>1. CoordOK'
  BY DEF TypeOK, CoordOK, Finish, SettledToken
<1>2. WorkerOK'
  BY DEF TypeOK, WorkerOK, Finish
<1>3. PostOK'
  BY DEF TypeOK, PostOK, WorkerOK, Finish
<1> QED BY <1>1, <1>2, <1>3

\* A step of the worker leaves the database and the actor alone.
LEMMA WorkerOnlyType ==
  ASSUME TypeOK, WorkerOnly
  PROVE  RowsOK' /\ LedgerOK' /\ ActorOK'
  BY DEF TypeOK, RowsOK, LedgerOK, ActorOK, WorkerOnly, rows, ledger

LEMMA WorldType ==
  ASSUME TypeOK, UNCHANGED <<rows, world>>
  PROVE  WorldOK'
  BY DEF TypeOK, WorldOK, world, rows

LEMMA ExecuteType ==
  ASSUME TypeOK, NEW r \in Req, Execute(r)
  PROVE  TypeOK'
<1>1. PICK o \in [items[r] -> Answers], reached \in SUBSET items[r],
           taken \in SUBSET items[r] :
         /\ delivered' = delivered \cup reached
         /\ inMailbox' = inMailbox \cup taken
         /\ outcome' = [outcome EXCEPT ![r] =
               [m \in Msg |-> IF m \in items[r] THEN o[m] ELSE "none"]]
  BY DEF Execute
<1>2. [m \in Msg |-> IF m \in items[r] THEN o[m] ELSE "none"]
        \in [Msg -> {"none", "delivered", "custody", "offline", "noack", "failed"}]
  BY <1>1 DEF Answers
<1>3. WorkerOK' /\ PostOK' /\ CoordOK'
  BY <1>1, <1>2 DEF TypeOK, WorkerOK, PostOK, CoordOK, coord, Execute
<1>4. WorldOK'
  BY <1>1 DEF TypeOK, WorkerOK, WorldOK, Execute, WorkerOnly, rows
<1> QED BY <1>3, <1>4, WorkerOnlyType DEF Execute, TypeOK

LEMMA WorkerType ==
  ASSUME TypeOK, NEW r \in Req, WorkerStep(r)
  PROVE  TypeOK'
<1>1. CASE Take(r)
  <2>1. WorkerOK' /\ PostOK' /\ CoordOK'
    BY <1>1 DEF TypeOK, WorkerOK, PostOK, CoordOK, coord, Take
  <2> QED BY <1>1, <2>1, WorkerOnlyType, WorldType DEF Take, WorkerOnly, TypeOK
<1>2. CASE Execute(r)
  BY <1>2, ExecuteType
<1>3. CASE Snapshot(r)
  <2>1. CoordOK'
    BY <1>3 DEF TypeOK, CoordOK, coord, Snapshot
  <2>2. WorkerOK' /\ PostOK'
    <3>1. CASE NotAccepted(r, TRUE)
      BY <3>1, NotAcceptedType
    <3>2. CASE ~ NotAccepted(r, TRUE)
      <4>1. /\ stage' = [stage EXCEPT ![r] = "posting"]
            /\ seen' = [seen EXCEPT ![r] = gen]
            /\ UNCHANGED <<items, reqGen, ahead, outcome, stranded>>
        BY <1>3, <3>2 DEF Snapshot
      <4> QED BY <4>1 DEF TypeOK, WorkerOK, PostOK, ActorOK
    <3> QED BY <3>1, <3>2
  <2> QED BY <1>3, <2>1, <2>2, WorkerOnlyType, WorldType
             DEF Snapshot, WorkerOnly, TypeOK
<1>4. CASE TellAccepted(r)
  <2>1. seen[r] \in Gen
    BY <1>4 DEF TypeOK, PostOK, TellAccepted
  <2>2. WorkerOK' /\ PostOK'
    BY <1>4, <2>1 DEF TypeOK, WorkerOK, PostOK, TellAccepted
  <2>3. CoordOK'
    BY <1>4, <2>1 DEF TypeOK, CoordOK, TellAccepted
  <2> QED BY <1>4, <2>2, <2>3, WorkerOnlyType, WorldType
             DEF TellAccepted, WorkerOnly, TypeOK
<1>5. CASE TellRefused(r)
  <2>1. WorkerOK' /\ PostOK'
    BY <1>5, NotAcceptedType DEF TellRefused, TypeOK, ActorOK
  <2>2. CoordOK'
    BY <1>5 DEF TypeOK, CoordOK, PostOK, TellRefused
  <2> QED BY <1>5, <2>1, <2>2, WorkerOnlyType, WorldType
             DEF TellRefused, WorkerOnly, TypeOK
<1>6. CASE Rejoin(r)
  <2>1. WorkerOK' /\ PostOK' /\ CoordOK'
    BY <1>6 DEF TypeOK, WorkerOK, PostOK, CoordOK, coord, Rejoin
  <2> QED BY <1>6, <2>1, WorkerOnlyType, WorldType DEF Rejoin, WorkerOnly, TypeOK
<1>7. CASE Accepted(r)
  BY <1>7, FinishType, WorkerOnlyType, WorldType
     DEF Accepted, WorkerOnly, TypeOK, CoordOK
<1>8. CASE Unanswered(r)
  <2>1. WorkerOK' /\ PostOK'
    BY <1>8, NotAcceptedType DEF Unanswered
  <2>2. CoordOK'
    BY <1>8 DEF TypeOK, CoordOK, coord, Unanswered
  <2> QED BY <1>8, <2>1, <2>2, WorkerOnlyType, WorldType
             DEF Unanswered, WorkerOnly, TypeOK
<1>9. CASE Handoff(r)
  <2>1. handoffs' \subseteq SUBSET (Req \cup Msg)
    BY <1>9 DEF TypeOK, CoordOK, WorkerOK, Handoff, Correlation
  <2> QED BY <1>9, <2>1, FinishType, WorkerOnlyType, WorldType
             DEF Handoff, WorkerOnly, TypeOK
<1>10. CASE Strand(r)
  <2>1. WorkerOK' /\ PostOK' /\ CoordOK'
    BY <1>10 DEF TypeOK, WorkerOK, PostOK, CoordOK, coord, Strand
  <2> QED BY <1>10, <2>1, WorkerOnlyType, WorldType DEF Strand, WorkerOnly, TypeOK
<1> QED
  BY <1>1, <1>2, <1>3, <1>4, <1>5, <1>6, <1>7, <1>8, <1>9, <1>10 DEF WorkerStep

LEMMA FailureType == ASSUME TypeOK, FailureStep PROVE TypeOK'
<1>1. CASE Crash
  BY <1>1, FailType
     DEF Crash, TypeOK, RowsOK, LedgerOK, WorldOK, rows, ledger, world
<1>2. CASE Restart
  BY <1>2 DEF Restart, TypeOK, RowsOK, LedgerOK, WorldOK, ActorOK, CoordOK,
              WorkerOK, PostOK, rows, ledger, world, coord, worker
<1>3. CASE DaemonRestart
  <2>1. RowsOK' /\ LedgerOK' /\ WorldOK'
    BY <1>3 DEF DaemonRestart, TypeOK, RowsOK, LedgerOK, WorldOK, rows, ledger, world
  <2>2. ActorOK' /\ CoordOK'
    BY <1>3 DEF DaemonRestart, TypeOK, ActorOK, CoordOK
  <2>3. WorkerOK' /\ PostOK'
    BY <1>3 DEF DaemonRestart, TypeOK, WorkerOK, PostOK
  <2> QED BY <2>1, <2>2, <2>3 DEF TypeOK
<1>4. ASSUME NEW m \in Msg, NEW mode \in Modes, CrashInSubmit(m, mode)
      PROVE  TypeOK'
  <2>1. RowsOK' /\ WorldOK' /\ LedgerOK'
    BY <1>4, InsertType DEF TypeOK, LedgerOK, Verdicts, CrashInSubmit
  <2> QED BY <1>4, <2>1, FailType DEF CrashInSubmit, TypeOK
<1>5. ASSUME NEW c \in mail, CrashInCompletion(c) PROVE TypeOK'
  <2>1. c[1] \in Req
    BY DEF TypeOK, CoordOK
  <2>2. RowsOK' /\ awake' \subseteq outbox' /\ LedgerOK'
    BY <1>5, <2>1, ApplyType DEF CrashInCompletion
  <2>3. WorldOK'
    BY <1>5, <2>2 DEF TypeOK, WorldOK, CrashInCompletion
  <2> QED BY <1>5, <2>2, <2>3, FailType DEF CrashInCompletion, TypeOK
<1> QED BY <1>1, <1>2, <1>3, <1>4, <1>5 DEF FailureStep

LEMMA TimeType ==
  ASSUME TypeOK, NEW m \in Msg, Elapse(m) \/ Lapse(m)
  PROVE  TypeOK'
  BY DEF Elapse, Lapse, TypeOK, RowsOK, LedgerOK, WorldOK, ActorOK, CoordOK,
         WorkerOK, PostOK, ledger, world, actor, coord, worker

LEMMA StutterType == ASSUME TypeOK, UNCHANGED vars PROVE TypeOK'
  BY DEF vars, rows, ledger, world, actor, coord, worker, TypeOK, RowsOK,
         LedgerOK, WorldOK, ActorOK, CoordOK, WorkerOK, PostOK

LEMMA NextType == TypeOK /\ [Next]_vars => TypeOK'
  BY CommandType, WorkerType, FailureType, TimeType, StutterType DEF Next

\* The state of the sender's custody is always well typed; in particular a row
\* past its TTL is due, so the retry pump finds it.
THEOREM TypeCorrect == Spec => []TypeOK
<1>1. Init => TypeOK
  BY DEF Init, TypeOK, RowsOK, LedgerOK, WorldOK, ActorOK, CoordOK, WorkerOK, PostOK
<1> QED BY <1>1, NextType, PTL DEF Spec

-----------------------------------------------------------------------------
(* Truth of the records, and no silent loss                                *)

\* An outcome that says the message arrived somewhere is true.
OutcomesTrue ==
    \A r \in Req, m \in Msg :
        /\ outcome[r][m] = "delivered" => m \in delivered
        /\ outcome[r][m] = "custody" => m \in inMailbox

Truth == TypeOK /\ OutcomesTrue /\ FetchedIsTrue /\ NoSilentLoss

\* A step that keeps the database and loses no evidence keeps the truth.
LEMMA TruthKept ==
  ASSUME Truth, TypeOK',
         UNCHANGED <<outbox, status, submitted>>,
         delivered \subseteq delivered', inMailbox \subseteq inMailbox',
         \A r \in Req, m \in Msg :
            \/ outcome'[r][m] = outcome[r][m]
            \/ outcome'[r][m] = "delivered" /\ m \in delivered'
            \/ outcome'[r][m] = "custody" /\ m \in inMailbox'
            \/ outcome'[r][m] \notin {"delivered", "custody"}
  PROVE  Truth'
  BY DEF Truth, OutcomesTrue, FetchedIsTrue, NoSilentLoss

\* Neither does one that adds rows, and removes some with a record of why.
LEMMA TruthWithRecord ==
  ASSUME Truth, TypeOK', NEW gone, NEW added,
         outbox' = (outbox \cup added) \ gone,
         status' = Record(gone, "expired"),
         UNCHANGED <<delivered, inMailbox, outcome>>,
         \A m \in Msg : submitted'[m] > 0 => submitted[m] > 0 \/ m \in added
  PROVE  Truth'
<1>1. \A m \in Msg : /\ m \in gone => status'[m] # "none"
                     /\ status[m] # "none" => status'[m] # "none"
                     /\ status'[m] = "fetched" => status[m] = "fetched"
  BY DEF Record, Rank, Truth, TypeOK, LedgerOK
<1>2. OutcomesTrue' /\ FetchedIsTrue'
  BY <1>1 DEF Truth, OutcomesTrue, FetchedIsTrue
<1>3. NoSilentLoss'
  BY <1>1 DEF Truth, NoSilentLoss
<1> QED BY <1>2, <1>3 DEF Truth

LEMMA TruthAfterInsert ==
  ASSUME Truth, TypeOK', NEW m \in Msg, NEW hold, NEW refused,
         Insert(m, hold, refused), UNCHANGED outcome
  PROVE  Truth'
<1>1. PICK evicted : /\ outbox' = (outbox \cup {m}) \ evicted
                     /\ status' = Record(evicted, "expired")
  BY DEF Insert, Table
<1>2. \A n \in Msg : submitted'[n] > 0 => submitted[n] > 0 \/ n \in {m}
  BY DEF Insert, Truth, TypeOK, WorldOK
<1> QED BY <1>1, <1>2, TruthWithRecord DEF Insert

\* Applying a completion removes a row only for what the outcome says.
LEMMA TruthAfterApply ==
  ASSUME Truth, TypeOK', NEW r \in Req, NEW S, NEW W, Apply(r, S, W),
         UNCHANGED <<delivered, inMailbox, submitted, outcome>>
  PROVE  Truth'
<1>1. \A m \in outbox \ outbox' : \/ m \in S /\ outcome[r][m] = "delivered"
                                  \/ outcome[r][m] = "custody"
                                  \/ m \in OnlineOnly
  BY DEF Apply, Table
<1>2. status' = Record({m \in S \cap outbox : outcome[r][m] \in Confirmed},
                       "fetched")
  BY DEF Apply
<1>3. \A m \in Msg : /\ status[m] # "none" => status'[m] # "none"
                     /\ status'[m] = "fetched" =>
                           status[m] = "fetched" \/ outcome[r][m] = "delivered"
  BY <1>2 DEF Record, Rank, Confirmed, Truth, TypeOK, LedgerOK
<1>4. \A m \in outbox \ outbox' :
         status'[m] # "none" \/ outcome[r][m] = "custody" \/ m \in OnlineOnly
  BY <1>1, <1>2 DEF Record, Rank, Confirmed, Truth, TypeOK, RowsOK, LedgerOK
<1>5. OutcomesTrue' /\ FetchedIsTrue'
  BY <1>3 DEF Truth, OutcomesTrue, FetchedIsTrue
<1>6. NoSilentLoss'
  BY <1>3, <1>4 DEF Truth, OutcomesTrue, NoSilentLoss, TypeOK, RowsOK
<1> QED BY <1>5, <1>6 DEF Truth

LEMMA TruthAfterCommand == ASSUME Truth, TypeOK', CommandStep PROVE Truth'
<1>1. ASSUME NEW m \in Msg,
             \/ \E mode \in Modes : SubmitQueued(m, mode)
             \/ \E r \in SubmitReq : SubmitDirect(m, r)
             \/ SubmitRefused(m)
      PROVE  Truth'
  BY <1>1, TruthAfterInsert
     DEF SubmitQueued, SubmitDirect, SubmitRefused, Reconcile, ActorOnly, Request
<1>2. ASSUME NEW m \in Msg, Retire(m) PROVE Truth'
  <2>1. /\ status' = Record({m}, "fetched") /\ delivered' = delivered \cup {m}
        /\ outbox' = outbox \ {m}
        /\ UNCHANGED <<inMailbox, submitted, outcome>>
    BY <1>2 DEF Retire, Table, Reconcile, ActorOnly
  <2>2. \A n \in Msg : /\ n = m => status'[n] # "none"
                       /\ status[n] # "none" => status'[n] # "none"
                       /\ status'[n] = "fetched" => status[n] = "fetched" \/ n = m
    BY <2>1 DEF Record, Rank, Truth, TypeOK, LedgerOK
  <2> QED BY <2>1, <2>2 DEF Truth, OutcomesTrue, FetchedIsTrue, NoSilentLoss
<1>3. ASSUME NEW m \in Msg, Release(m) PROVE Truth'
  BY <1>3, TruthKept DEF Release, Table, ledger, Reconcile, ActorOnly
<1>4. ASSUME NEW S, ToDlq(S), Reconcile, UNCHANGED <<delivered, inMailbox, submitted>>
      PROVE  Truth'
  <2>1. outbox' = (outbox \cup {}) \ S /\ status' = Record(S, "expired")
    BY <1>4 DEF ToDlq, Table
  <2> QED BY <1>4, <2>1, TruthWithRecord DEF Reconcile, ActorOnly
<1>5. ASSUME NEW recipient, Wake(recipient) PROVE Truth'
  BY <1>5, TruthKept DEF Wake, Table, ledger, ActorOnly
<1>6. ASSUME Tick PROVE Truth'
  <2>1. PICK dead : /\ outbox' = (outbox \cup {}) \ dead
                    /\ status' = Record(dead, "expired")
                    /\ UNCHANGED <<delivered, inMailbox, submitted, outcome>>
    BY <1>6 DEF Tick, TickOnly, ClaimRetry, Expire, Table, Reconcile,
                ActorOnly, Request
  <2> QED BY <2>1, TruthWithRecord
<1>7. ASSUME OtherCommand PROVE Truth'
  BY <1>7, TruthKept DEF OtherCommand, rows, ledger, world, Reconcile, ActorOnly
<1>8. ASSUME NEW c \in mail, HandleCompletion(c) PROVE Truth'
  <2>1. c[1] \in Req
    BY DEF Truth, TypeOK, CoordOK
  <2> QED BY <1>8, <2>1, TruthAfterApply DEF HandleCompletion
<1>9. ASSUME NEW c \in mail, DropCompletion(c) PROVE Truth'
  BY <1>9, TruthKept DEF DropCompletion, rows, ledger, world
<1> QED BY <1>1, <1>2, <1>3, <1>4, <1>5, <1>6, <1>7, <1>8, <1>9
        DEF CommandStep, Prune, Discard

LEMMA TruthAfterWorker ==
  ASSUME Truth, TypeOK', NEW r \in Req, WorkerStep(r)
  PROVE  Truth'
<1>1. CASE Execute(r)
  <2>1. \A q \in Req, m \in Msg :
           \/ outcome'[q][m] = outcome[q][m]
           \/ outcome'[q][m] = "delivered" /\ m \in delivered'
           \/ outcome'[q][m] = "custody" /\ m \in inMailbox'
           \/ outcome'[q][m] \notin {"delivered", "custody"}
    BY <1>1 DEF Execute, Truth, TypeOK, WorkerOK
  <2>2. UNCHANGED <<outbox, status, submitted>>
        /\ delivered \subseteq delivered' /\ inMailbox \subseteq inMailbox'
    BY <1>1 DEF Execute, WorkerOnly, rows, ledger
  <2> QED BY <2>1, <2>2, TruthKept
<1>2. CASE Accepted(r) \/ Handoff(r)
  <2>1. /\ outcome' = [outcome EXCEPT ![r] = [m \in Msg |-> "none"]]
        /\ UNCHANGED <<outbox, status, submitted, delivered, inMailbox>>
    BY <1>2 DEF Accepted, Handoff, Finish, WorkerOnly, rows, ledger, world
  <2> QED BY <2>1, TruthKept DEF Truth, TypeOK, WorkerOK
<1>3. CASE ~ Execute(r) /\ ~ Accepted(r) /\ ~ Handoff(r)
  <2>1. UNCHANGED <<outbox, status, submitted, delivered, inMailbox, outcome>>
    BY <1>3 DEF WorkerStep, Take, Snapshot, TellAccepted, TellRefused, Rejoin,
                Unanswered, Strand, NotAccepted, WorkerOnly, rows, ledger, world
  <2> QED BY <2>1, TruthKept
<1> QED BY <1>1, <1>2, <1>3

LEMMA TruthAfterFailure == ASSUME Truth, TypeOK', FailureStep PROVE Truth'
<1>1. CASE Crash \/ Restart
  BY <1>1, TruthKept DEF Crash, Restart, Fail, rows, ledger, world, worker
<1>2. CASE DaemonRestart
  BY <1>2, TruthKept DEF DaemonRestart, rows, ledger, world
<1>3. ASSUME NEW m \in Msg, NEW mode \in Modes, CrashInSubmit(m, mode)
      PROVE  Truth'
  BY <1>3, TruthAfterInsert DEF CrashInSubmit, Fail
<1>4. ASSUME NEW c \in mail, CrashInCompletion(c) PROVE Truth'
  <2>1. c[1] \in Req
    BY DEF Truth, TypeOK, CoordOK
  <2> QED BY <1>4, <2>1, TruthAfterApply DEF CrashInCompletion, Fail
<1> QED BY <1>1, <1>2, <1>3, <1>4 DEF FailureStep

LEMMA TruthInvariant == Spec => []Truth
<1>1. Init => Truth
  BY TypeCorrect DEF Init, Truth, TypeOK, RowsOK, LedgerOK, WorldOK, ActorOK,
         CoordOK, WorkerOK, PostOK, OutcomesTrue, FetchedIsTrue, NoSilentLoss
<1>2. Truth /\ [Next]_vars => Truth'
  <2> SUFFICES ASSUME Truth, [Next]_vars PROVE Truth'
    OBVIOUS
  <2>1. TypeOK'
    BY NextType DEF Truth
  <2>2. CASE CommandStep
    BY <2>1, <2>2, TruthAfterCommand
  <2>3. ASSUME NEW r \in Req, WorkerStep(r) PROVE Truth'
    BY <2>1, <2>3, TruthAfterWorker
  <2>4. CASE FailureStep
    BY <2>1, <2>4, TruthAfterFailure
  <2>5. ASSUME NEW m \in Msg, Elapse(m) \/ Lapse(m) PROVE Truth'
    BY <2>1, <2>5, TruthKept DEF Elapse, Lapse, ledger, world, worker
  <2>6. CASE UNCHANGED vars
    BY <2>1, <2>6, TruthKept DEF vars, rows, ledger, world, worker
  <2> QED BY <2>2, <2>3, <2>4, <2>5, <2>6 DEF Next
<1> QED BY <1>1, <1>2, PTL DEF Spec

\* Whatever crashes, restarts, lost acks, refused completions and handoffs
\* occur, a submitted message is in the outbox, has a terminal record, is in a
\* mailbox, or was ONLINE_ONLY.
THEOREM NothingLostSilently == Spec => []NoSilentLoss
  BY TruthInvariant, PTL DEF Truth

\* A FETCHED record at the sender means that the recipient committed the
\* message.
THEOREM FetchedTruthful == Spec => []FetchedIsTrue
  BY TruthInvariant, PTL DEF Truth

-----------------------------------------------------------------------------
(* Evidence                                                                *)

\* A terminal record is never written over a stronger one.
LEMMA RecordKeepsFetched ==
  ASSUME TypeOK, NEW S, NEW verdict \in {"expired", "fetched"}, NEW m \in Msg,
         status[m] = "fetched"
  PROVE  Record(S, verdict)[m] = "fetched"
  BY DEF Record, Rank, TypeOK, LedgerOK

StatusKept == \A m \in Msg : status[m] = "fetched" => status'[m] = "fetched"
ReceiptKept == \A m \in Reply : receipt[m] \in {"ok", "failed"} => receipt'[m] = receipt[m]

LEMMA StatusStep ==
  ASSUME TypeOK, [Next]_vars
  PROVE  StatusKept
<1>1. \/ status' = status
      \/ \E S : status' = Record(S, "expired")
      \/ \E S : status' = Record(S, "fetched")
  <2>1. CASE CommandStep
    BY <2>1 DEF CommandStep, SubmitQueued, SubmitDirect, SubmitRefused, Insert, Retire, Release,
                Discard, ToDlq, Wake, Prune, Tick, TickOnly, ClaimRetry, Expire, OtherCommand,
                HandleCompletion, DropCompletion, Apply, ledger
  <2>2. ASSUME NEW r \in Req, WorkerStep(r)
        PROVE  status' = status
    BY <2>2 DEF WorkerStep, Take, Execute, Snapshot, TellAccepted, TellRefused, Rejoin,
                Accepted, Unanswered, Handoff, Strand, WorkerOnly, ledger
  <2>3. CASE FailureStep
    BY <2>3 DEF FailureStep, Crash, Restart, DaemonRestart, CrashInSubmit, CrashInCompletion,
                Insert, Apply, ledger
  <2>4. CASE UNCHANGED vars \/ \E m \in Msg : Elapse(m) \/ Lapse(m)
    BY <2>4 DEF vars, Elapse, Lapse, ledger
  <2> QED BY <2>1, <2>2, <2>3, <2>4 DEF Next
<1> QED BY <1>1, RecordKeepsFetched DEF StatusKept

LEMMA ReceiptStep ==
  ASSUME TypeOK, [Next]_vars
  PROVE  ReceiptKept
<1>1. ASSUME NEW m \in Msg, receipt' = receipt \/ QueuedReceipt(m)
      PROVE  ReceiptKept
  BY <1>1 DEF ReceiptKept, QueuedReceipt, TypeOK, LedgerOK
<1>2. ASSUME NEW r \in Req, NEW S, NEW W, Apply(r, S, W)
      PROVE  ReceiptKept
  BY <1>2 DEF ReceiptKept, Apply, Writable, TypeOK, LedgerOK
<1>3. CASE Tick
  BY <1>3 DEF ReceiptKept, Tick, TickOnly, ClaimRetry, Expire, TypeOK, LedgerOK
<1>4. CASE CommandStep
  <2>1. ASSUME NEW c \in mail, HandleCompletion(c)
        PROVE  ReceiptKept
    BY <2>1, <1>2 DEF HandleCompletion, TypeOK, CoordOK
  <2>2. CASE \/ OtherCommand \/ \E m \in Msg : Wake(RecipientOf[m])
             \/ \E R \in SUBSET {RecipientOf[m] : m \in Msg} : Prune(R)
             \/ \E c \in mail : DropCompletion(c)
    BY <2>2 DEF ReceiptKept, OtherCommand, Wake, Prune, DropCompletion, ledger
  <2>3. ASSUME NEW m \in Msg,
               \/ \E mode \in Modes : SubmitQueued(m, mode)
               \/ \E r \in SubmitReq : SubmitDirect(m, r)
               \/ SubmitRefused(m) \/ Retire(m) \/ Release(m) \/ Discard(m)
        PROVE  ReceiptKept
    BY <2>3, <1>1 DEF SubmitQueued, SubmitDirect, SubmitRefused, Retire, Release, Discard,
                      ledger
  <2> QED BY <1>3, <1>4, <2>1, <2>2, <2>3 DEF CommandStep
<1>5. ASSUME NEW r \in Req, WorkerStep(r)
      PROVE  ReceiptKept
  BY <1>5 DEF ReceiptKept, WorkerStep, Take, Execute, Snapshot, TellAccepted, TellRefused,
              Rejoin, Accepted, Unanswered, Handoff, Strand, WorkerOnly, ledger
<1>6. CASE FailureStep
  <2>1. ASSUME NEW c \in mail, CrashInCompletion(c)
        PROVE  ReceiptKept
    BY <2>1, <1>2 DEF CrashInCompletion, TypeOK, CoordOK
  <2> QED BY <1>6, <2>1 DEF ReceiptKept, FailureStep, Crash, Restart, DaemonRestart,
                            CrashInSubmit, ledger
<1>7. CASE UNCHANGED vars \/ \E m \in Msg : Elapse(m) \/ Lapse(m)
  BY <1>7 DEF ReceiptKept, vars, Elapse, Lapse, ledger
<1> QED BY <1>4, <1>5, <1>6, <1>7 DEF Next

\* A receipt that says what became of a reply is never rewritten, and a FETCHED
\* record never gives way to an expiry or an eviction.
THEOREM EvidenceNeverRewritten == Spec => EvidenceKept
<1>1. TypeOK /\ [Next]_vars
        => [/\ \A m \in Reply : receipt[m] \in {"ok", "failed"} => receipt'[m] = receipt[m]
            /\ \A m \in Msg : status[m] = "fetched" => status'[m] = "fetched"]_vars
  BY StatusStep, ReceiptStep DEF StatusKept, ReceiptKept
<1> QED BY <1>1, TypeCorrect, PTL DEF Spec, EvidenceKept

-----------------------------------------------------------------------------
(* Claims and lanes                                                        *)

\* A live claim waits for its receipt to be settled.
ClaimsUnsettled == \A r \in Live : token[r] # "settled"

ClaimsInv == TypeOK /\ ClaimsBacked /\ ClaimsUnsettled

\* What every command does to the actor's memory: it issues a request, or keeps
\* some of the live claims and settles none of those it keeps.
KeepsClaims ==
    /\ pend' \subseteq Live /\ handoffs' = {} /\ stage' = stage
    /\ \A r \in pend' : items'[r] = items[r] /\ (token'[r] = "settled" => token[r] = "settled")
    /\ \A r \in Req : stage[r] # "free" => items'[r] = items[r]
    /\ \A r \in Req : items'[r] \subseteq items[r]

LEMMA MemoryKeepsClaims ==
  ASSUME TypeOK, NEW claims \in SUBSET Live, NEW w, Memory(claims, w), UNCHANGED stage,
         \A r \in claims : token'[r] = "settled" => token[r] = "settled"
  PROVE  KeepsClaims
  BY DEF KeepsClaims, Memory, Live, TypeOK, ActorOK, WorkerOK

LEMMA ReconcileKeepsClaims ==
  ASSUME TypeOK, Reconcile
  PROVE  KeepsClaims
  BY MemoryKeepsClaims DEF Reconcile, ActorOnly

LEMMA HandleKeepsClaims ==
  ASSUME TypeOK, NEW c \in mail, HandleCompletion(c)
  PROVE  KeepsClaims
<1>1. ClaimsAfter(c) \in SUBSET Live /\ c[1] \notin ClaimsAfter(c)
  BY DEF ClaimsAfter
<1>2. \A r \in ClaimsAfter(c) : token'[r] = token[r]
  BY <1>1 DEF HandleCompletion, Live, TypeOK, ActorOK, CoordOK
<1> QED BY <1>1, <1>2, MemoryKeepsClaims DEF HandleCompletion

LEMMA DropKeepsClaims ==
  ASSUME TypeOK, NEW c \in mail, DropCompletion(c)
  PROVE  KeepsClaims
<1>1. \A r \in Live : token'[r] = "settled" => token[r] = "settled"
  BY DEF DropCompletion, Live, TypeOK, ActorOK, CoordOK
<1> QED BY <1>1, MemoryKeepsClaims DEF DropCompletion

LEMMA CommandMemory ==
  ASSUME TypeOK, CommandStep
  PROVE  KeepsClaims \/ \E r \in Req, S \in SUBSET Msg : Request(r, S)
<1>1. ASSUME NEW m \in Msg, NEW r \in SubmitReq, SubmitDirect(m, r)
      PROVE  \E S \in SUBSET Msg : Request(r, S)
  BY <1>1 DEF SubmitDirect
<1>2. ASSUME NEW r \in RetryReq, ClaimRetry(r)
      PROVE  \E S \in SUBSET Msg : Request(r, S)
  <2>1. Ready \ expired \in SUBSET Msg
    BY DEF TypeOK, RowsOK, Ready
  <2> QED BY <1>2, <2>1 DEF ClaimRetry
<1>3. ASSUME NEW recipient, Wake(recipient)
      PROVE  KeepsClaims
  BY <1>3, MemoryKeepsClaims DEF Wake, ActorOnly
<1>4. CASE Reconcile
  BY <1>4, ReconcileKeepsClaims
<1> QED
  BY <1>1, <1>2, <1>3, <1>4, HandleKeepsClaims, DropKeepsClaims
     DEF CommandStep, SubmitQueued, SubmitRefused, Retire, Release, Discard, Prune, Tick,
         TickOnly, OtherCommand

LEMMA FailKeepsClaims ==
  ASSUME TypeOK, Fail
  PROVE  KeepsClaims /\ pend' = {}
<1>1. {} \in SUBSET Live /\ \A r \in {} : token'[r] = "settled" => token[r] = "settled"
  OBVIOUS
<1> QED BY <1>1, MemoryKeepsClaims DEF Fail, Memory

\* Commands that keep claims keep them backed.
LEMMA ClaimsAfterMemory ==
  ASSUME ClaimsInv, KeepsClaims
  PROVE  ClaimsBacked' /\ ClaimsUnsettled'
<1>1. \A r \in pend' : /\ r \in pend /\ Correlation(r) \notin handoffs
                      /\ stage[r] # "free" /\ token[r] # "settled"
  BY DEF ClaimsInv, ClaimsBacked, ClaimsUnsettled, KeepsClaims, Live
<1>2. ClaimsBacked'
  BY <1>1 DEF ClaimsBacked, KeepsClaims
<1>3. ClaimsUnsettled'
  BY <1>1 DEF ClaimsUnsettled, Live, KeepsClaims
<1> QED BY <1>2, <1>3

LEMMA ClaimsAfterRequest ==
  ASSUME ClaimsInv, NEW r \in Req, NEW S, Request(r, S)
  PROVE  ClaimsBacked' /\ ClaimsUnsettled'
<1>1. \A q \in Live : q \in Req /\ stage[q] # "free" /\ token[q] # "settled"
  BY DEF ClaimsInv, ClaimsBacked, ClaimsUnsettled, Live, TypeOK, ActorOK
<1>2. \A q \in pend' : stage'[q] # "free" /\ token'[q] # "settled"
  BY <1>1 DEF Request, ClaimsInv, TypeOK, WorkerOK, CoordOK
<1> QED BY <1>2 DEF ClaimsBacked, ClaimsUnsettled, Live

\* A finished request is claimed by nobody, or handed off.
LEMMA ClaimsAfterFinish ==
  ASSUME ClaimsInv, NEW r \in Req, Finish(r), UNCHANGED pend,
         handoffs \subseteq handoffs', r \in pend => Correlation(r) \in handoffs'
  PROVE  ClaimsBacked' /\ ClaimsUnsettled'
<1>1. \A q \in pend : q \in Req /\ items'[q] = items[q]
  BY DEF ClaimsInv, TypeOK, ActorOK, WorkerOK, Finish
<1>2. \A q \in pend : Correlation(q)' = Correlation(q)
  BY <1>1 DEF Correlation
<1>3. \A q \in Req : q # r => stage'[q] = stage[q] /\ token'[q] = token[q]
  BY DEF ClaimsInv, TypeOK, WorkerOK, CoordOK, Finish
<1>4. ClaimsBacked'
  BY <1>1, <1>2, <1>3 DEF ClaimsInv, ClaimsBacked
<1>5. \A q \in Live' : q \in Live /\ q # r
  BY <1>2 DEF Live
<1>6. ClaimsUnsettled'
  BY <1>1, <1>3, <1>5 DEF ClaimsInv, ClaimsUnsettled, Live
<1> QED BY <1>4, <1>6

\* Any other step of the worker settles nothing and lets no request go.
GoesOn(r) ==
    /\ UNCHANGED <<pend, handoffs, items>>
    /\ \A q \in Req : q # r => stage'[q] = stage[q]
    /\ stage'[r] \notin {"free", "queued"}
    /\ \A q \in Req : token'[q] = "settled" => token[q] = "settled"

LEMMA WorkerGoesOn ==
  ASSUME TypeOK, NEW r \in Req, WorkerStep(r), ~ Accepted(r), ~ Handoff(r)
  PROVE  GoesOn(r) /\ stage[r] # "free" /\ (stage[r] = "queued" => Take(r))
<1> USE DEF TypeOK, WorkerOK, CoordOK, GoesOn, WorkerOnly
<1>1. CASE Take(r) \/ Execute(r) \/ Rejoin(r) \/ Strand(r)
  BY <1>1 DEF Take, Execute, Rejoin, Strand, coord
<1>2. CASE Snapshot(r) \/ Unanswered(r)
  BY <1>2 DEF Snapshot, Unanswered, NotAccepted, coord
<1>3. CASE TellAccepted(r)
  BY <1>3 DEF TellAccepted
<1>4. CASE TellRefused(r)
  BY <1>4 DEF TellRefused, NotAccepted
<1> QED BY <1>1, <1>2, <1>3, <1>4 DEF WorkerStep

LEMMA ClaimsAfterWorker ==
  ASSUME ClaimsInv, NEW r \in Req, WorkerStep(r)
  PROVE  ClaimsBacked' /\ ClaimsUnsettled'
<1>1. CASE Accepted(r)
  <2>1. r \notin Live
    BY <1>1 DEF ClaimsInv, ClaimsUnsettled, Accepted
  <2>2. r \in pend => Correlation(r) \in handoffs
    BY <2>1 DEF Live
  <2> QED BY <1>1, <2>2, ClaimsAfterFinish DEF Accepted, WorkerOnly
<1>2. CASE Handoff(r)
  BY <1>2, ClaimsAfterFinish DEF Handoff, WorkerOnly
<1>3. CASE ~ Accepted(r) /\ ~ Handoff(r)
  <2>1. GoesOn(r)
    BY <1>3, WorkerGoesOn DEF ClaimsInv
  <2>2. \A q \in Req : Correlation(q)' = Correlation(q)
    BY <2>1 DEF GoesOn, Correlation
  <2>3. Live' = Live
    BY <2>1, <2>2 DEF GoesOn, Live, ClaimsInv, TypeOK, ActorOK
  <2> QED BY <2>1, <2>2, <2>3 DEF GoesOn, Live, ClaimsInv, ClaimsBacked, ClaimsUnsettled,
                                  TypeOK, ActorOK
<1> QED BY <1>1, <1>2, <1>3

LEMMA ClaimsInvariant == Spec => []ClaimsInv
<1>1. Init => ClaimsInv
  BY DEF Init, ClaimsInv, TypeOK, RowsOK, LedgerOK, WorldOK, ActorOK, CoordOK, WorkerOK,
         PostOK, ClaimsBacked, ClaimsUnsettled, Live
<1>2. ClaimsInv /\ [Next]_vars => ClaimsInv'
  <2> SUFFICES ASSUME ClaimsInv, [Next]_vars PROVE ClaimsInv'
    OBVIOUS
  <2>1. TypeOK'
    BY NextType DEF ClaimsInv
  <2>2. CASE CommandStep
    BY <2>1, <2>2, CommandMemory, ClaimsAfterMemory, ClaimsAfterRequest DEF ClaimsInv
  <2>3. ASSUME NEW r \in Req, WorkerStep(r) PROVE ClaimsInv'
    BY <2>1, <2>3, ClaimsAfterWorker DEF ClaimsInv
  <2>4. CASE Fail
    BY <2>1, <2>4, FailKeepsClaims, ClaimsAfterMemory DEF ClaimsInv
  <2>5. CASE DaemonRestart
    BY <2>1, <2>5 DEF DaemonRestart, ClaimsInv, ClaimsBacked, ClaimsUnsettled, Live
  <2>6. CASE \/ Restart \/ UNCHANGED vars \/ \E m \in Msg : Elapse(m) \/ Lapse(m)
    <3>1. UNCHANGED <<pend, handoffs, items, stage, token>>
      BY <2>6 DEF Restart, vars, Elapse, Lapse, actor, coord, worker
    <3> QED BY <2>1, <3>1 DEF ClaimsInv, ClaimsBacked, ClaimsUnsettled, Live, Correlation
  <2> QED BY <2>2, <2>3, <2>4, <2>5, <2>6
          DEF Next, FailureStep, Crash, CrashInSubmit, CrashInCompletion
<1> QED BY <1>1, <1>2, PTL DEF Spec

\* A claim keeps its rows from the retry pump only while the worker has the
\* request or its handoff waits to release the claim: no row is kept for ever by
\* a completion that was lost.
THEOREM ClaimsAreBacked == Spec => []ClaimsBacked
  BY ClaimsInvariant, PTL DEF ClaimsInv

\* What the worker works on stays as it was taken.
LEMMA WorkStays ==
  ASSUME TypeOK, [Next]_vars, ~ \E r \in Req : Take(r)
  PROVE  \A r \in Working' : r \in Working /\ items'[r] = items[r]
<1>1. CASE KeepsClaims
  BY <1>1 DEF KeepsClaims, Working
<1>2. ASSUME NEW r \in Req, NEW S, Request(r, S)
      PROVE  \A q \in Working' : q \in Working /\ items'[q] = items[q]
  BY <1>2 DEF Request, Idle, Working, TypeOK, WorkerOK
<1>3. ASSUME NEW r \in Req, Accepted(r) \/ Handoff(r)
      PROVE  \A q \in Working' : q \in Working /\ items'[q] = items[q]
  BY <1>3 DEF Accepted, Handoff, Finish, Working, TypeOK, WorkerOK
<1>4. ASSUME NEW r \in Req, WorkerStep(r), ~ Accepted(r), ~ Handoff(r), ~ Take(r)
      PROVE  \A q \in Working' : q \in Working /\ items'[q] = items[q]
  BY <1>4, WorkerGoesOn DEF GoesOn, Working
<1>5. CASE DaemonRestart
  BY <1>5 DEF DaemonRestart, Working
<1>6. CASE \/ Restart \/ UNCHANGED vars \/ \E m \in Msg : Elapse(m) \/ Lapse(m)
  BY <1>6 DEF Restart, vars, Elapse, Lapse, worker, Working
<1> QED
  BY <1>1, <1>2, <1>3, <1>4, <1>5, <1>6, CommandMemory, FailKeepsClaims
     DEF Next, FailureStep, Crash, CrashInSubmit, CrashInCompletion

\* The worker has one request of a recipient at a time, also when the actor has
\* been restarted while it worked: the next one finds the lane busy.
THEOREM LanesStaySerial == Spec => []LaneSerial
<1>1. Init => LaneSerial
  BY DEF Init, LaneSerial, Working
<1>2. TypeOK /\ LaneSerial /\ [Next]_vars => LaneSerial'
  <2> SUFFICES ASSUME TypeOK, LaneSerial, [Next]_vars PROVE LaneSerial'
    OBVIOUS
  <2>1. ASSUME NEW r \in Req, Take(r) PROVE LaneSerial'
    <3>1. /\ items' = items /\ Working' \subseteq Working \cup {r}
          /\ \A q \in Working : Lanes(q) \cap Lanes(r) = {}
      BY <2>1 DEF Take, Working, Blockers, TypeOK, WorkerOK
    <3> QED BY <3>1 DEF LaneSerial, Lanes
  <2>2. CASE ~ \E r \in Req : Take(r)
    <3>1. \A r \in Working' : r \in Working /\ items'[r] = items[r]
      BY <2>2, WorkStays
    <3> QED BY <3>1 DEF LaneSerial, Lanes
  <2> QED BY <2>1, <2>2
<1> QED BY <1>1, <1>2, TypeCorrect, PTL DEF Spec

-----------------------------------------------------------------------------
(* Held rows and wakes                                                     *)

\* A held row is due only when it is past its TTL, and no wake is kept for it.
HeldNotDue == held \cap due \subseteq expired /\ awake \cap held = {}

\* What one step does to the rows: neither makes a held row due, and a wake stays
\* with its row.
RowsKept == HeldNotDue' /\ (WakeKept => WakeKept')

LEMMA RowsAfterInsert ==
  ASSUME TypeOK, HeldNotDue, NEW m \in Msg, NEW hold \in BOOLEAN, NEW refused \in BOOLEAN,
         Insert(m, hold, refused)
  PROVE  RowsKept
<1>1. PICK evicted \in Evictions(m) :
        LET fresh == {m} \ outbox
            ready == IF hold THEN due ELSE due \cup fresh
        IN  Table((outbox \cup {m}) \ evicted,
                  IF refused THEN (ready \ {m}) \cup StillDue({m}) ELSE ready,
                  IF refused THEN tried \cup {m} ELSE tried,
                  IF hold THEN held \cup fresh ELSE held,
                  expired, awake \ {m})
  BY DEF Insert
<1>2. HeldNotDue'
  BY <1>1 DEF Table, StillDue, HeldNotDue, TypeOK, RowsOK, WorldOK
<1>3. WakeKept => WakeKept'
  BY <1>1 DEF Table, StillDue, WakeKept, HeldNotDue, TypeOK, RowsOK, WorldOK
<1> QED BY <1>2, <1>3 DEF RowsKept

LEMMA RowsAfterApply ==
  ASSUME TypeOK, HeldNotDue, NEW r, NEW S, NEW W, Apply(r, S, W)
  PROVE  HeldNotDue' /\ (WakeKept /\ awake \cap S \subseteq W \cup expired => WakeKept')
<1> DEFINE gone == {m \in S \cap outbox : outcome[r][m] \in {"delivered", "custody"}}
                     \cup ({m \in S \cap outbox : outcome[r][m] \in {"offline"}} \cap OnlineOnly)
           kept == outbox \ gone
           later == (S \cap outbox) \ gone
<1>1. /\ later \subseteq S
      /\ outbox' = kept /\ held' = held \cap kept /\ expired' = expired \cap kept
      /\ awake' = awake \cap kept
      /\ due' = ((due \ later) \cup StillDue(later) \cup Rousable(W)) \cap kept
  BY DEF Apply, Table
<1> HIDE DEF gone, kept, later
<1>2. HeldNotDue'
  BY <1>1 DEF StillDue, Rousable, HeldNotDue
<1>3. ASSUME WakeKept, awake \cap S \subseteq W \cup expired
      PROVE  WakeKept'
  BY <1>1, <1>3 DEF StillDue, Rousable, WakeKept
<1> QED BY <1>2, <1>3

LEMMA RowsAfterTick ==
  ASSUME TypeOK, HeldNotDue, Tick
  PROVE  RowsKept
<1>1. CASE TickOnly
  BY <1>1 DEF TickOnly, Table, HeldNotDue, WakeKept, RowsKept
<1>2. ASSUME NEW r \in RetryReq, ClaimRetry(r)
      PROVE  RowsKept
  BY <1>2 DEF ClaimRetry, Table, HeldNotDue, WakeKept, RowsKept
<1> QED BY <1>1, <1>2 DEF Tick

\* The other commands that change the rows, and time.
LEMMA RowsAfterCommand ==
  ASSUME TypeOK, HeldNotDue,
         \/ \E m \in Msg : \/ Retire(m) \/ Release(m) \/ Discard(m) \/ Elapse(m) \/ Lapse(m)
         \/ \E recipient : Wake(recipient)
         \/ \E R : Prune(R)
  PROVE  RowsKept
<1> USE DEF HeldNotDue, WakeKept, RowsKept
<1>1. ASSUME NEW S, ToDlq(S) PROVE RowsKept
  BY <1>1 DEF ToDlq, Table
<1>2. ASSUME NEW m \in Msg, Retire(m) \/ Release(m) PROVE RowsKept
  BY <1>2 DEF Retire, Release, Table
<1>3. ASSUME NEW m \in Msg, Elapse(m) \/ Lapse(m) PROVE RowsKept
  BY <1>3 DEF Elapse, Lapse, world
<1>4. ASSUME NEW recipient, Wake(recipient) PROVE RowsKept
  BY <1>4 DEF Wake, Table, Rousable
<1> QED BY <1>1, <1>2, <1>3, <1>4 DEF Discard, Prune

\* Every other step leaves the rows alone.
LEMMA RowsAlone ==
  ASSUME UNCHANGED <<rows, awake>>, HeldNotDue
  PROVE  RowsKept
  BY DEF rows, HeldNotDue, WakeKept, RowsKept

LEMMA RowsStep ==
  ASSUME TypeOK, HeldNotDue, [Next]_vars,
         ~ \E c \in mail : HandleCompletion(c) \/ CrashInCompletion(c)
  PROVE  RowsKept
<1>1. CASE CommandStep
  <2>1. ASSUME NEW m \in Msg, NEW mode \in Modes, SubmitQueued(m, mode) PROVE RowsKept
    BY <2>1, RowsAfterInsert DEF SubmitQueued
  <2>2. ASSUME NEW m \in Msg, \/ \E r \in SubmitReq : SubmitDirect(m, r)
                              \/ SubmitRefused(m)
        PROVE  RowsKept
    BY <2>2, RowsAfterInsert DEF SubmitDirect, SubmitRefused
  <2>3. CASE OtherCommand \/ \E c \in mail : DropCompletion(c)
    BY <2>3, RowsAlone DEF OtherCommand, DropCompletion, world
  <2> QED BY <1>1, <2>1, <2>2, <2>3, RowsAfterTick, RowsAfterCommand DEF CommandStep
<1>2. ASSUME NEW r \in Req, WorkerStep(r) PROVE RowsKept
  <2>1. UNCHANGED <<rows, awake>>
    BY <1>2 DEF WorkerStep, Take, Execute, Snapshot, TellAccepted, TellRefused, Rejoin,
                Accepted, Unanswered, Handoff, Strand, WorkerOnly, world
  <2> QED BY <2>1, RowsAlone
<1>3. CASE FailureStep
  <2>1. ASSUME NEW m \in Msg, NEW mode \in Modes, CrashInSubmit(m, mode) PROVE RowsKept
    BY <2>1, RowsAfterInsert DEF CrashInSubmit
  <2>2. CASE Crash \/ Restart \/ DaemonRestart
    BY <2>2, RowsAlone DEF Crash, Restart, DaemonRestart, world
  <2> QED BY <1>3, <2>1, <2>2 DEF FailureStep
<1>4. CASE UNCHANGED vars
  BY <1>4, RowsAlone DEF vars, world
<1>5. ASSUME NEW m \in Msg, Elapse(m) \/ Lapse(m) PROVE RowsKept
  BY <1>5, RowsAfterCommand
<1> QED BY <1>1, <1>2, <1>3, <1>4, <1>5 DEF Next

LEMMA HeldNotDueStep ==
  ASSUME TypeOK, HeldNotDue, [Next]_vars
  PROVE  HeldNotDue'
<1>1. ASSUME NEW c \in mail, HandleCompletion(c) \/ CrashInCompletion(c)
      PROVE  HeldNotDue'
  BY <1>1, RowsAfterApply DEF HandleCompletion, CrashInCompletion
<1> QED BY <1>1, RowsStep DEF RowsKept

\* What has left for the network or the recipient, or may do so.
Sent == delivered \cup inMailbox \cup UNION {items[r] : r \in Req}

\* A message never submitted is nowhere; one submitted once and held has not left.
HeldUnsent ==
    \A m \in Msg : /\ submitted[m] = 0 => m \notin outbox \cup Sent
                   /\ m \in held /\ submitted[m] <= 1 => m \notin Sent

HeldInv == TypeOK /\ HeldNotDue /\ HeldUnsent

\* Only what is in the outbox and not held is sent.
LEMMA UnsentKept ==
  ASSUME HeldInv, UNCHANGED submitted, outbox' \subseteq outbox, held' \subseteq held,
         \A m \in Sent' : m \in Sent \/ (m \in outbox /\ m \notin held')
  PROVE  HeldUnsent'
  BY DEF HeldInv, HeldUnsent

\* A submit adds its own message only, and sends it only when it does not hold it.
LEMMA UnsentAfterInsert ==
  ASSUME HeldInv, NEW m \in Msg, NEW hold \in BOOLEAN, NEW refused \in BOOLEAN,
         Insert(m, hold, refused),
         \A n \in Sent' : n \in Sent \/ (n = m /\ ~ hold)
  PROVE  HeldUnsent'
<1>1. /\ outbox' \subseteq outbox \cup {m}
      /\ held' \subseteq IF hold THEN held \cup ({m} \ outbox) ELSE held
  BY DEF Insert, Table
<1>2. /\ submitted[m] \in Nat /\ submitted'[m] = submitted[m] + 1
      /\ \A n \in Msg : n # m => submitted'[n] = submitted[n]
  BY DEF Insert, HeldInv, TypeOK, WorldOK
<1>3. \A n \in Msg : n # m => /\ submitted'[n] = 0 => n \notin outbox' \cup Sent'
                              /\ n \in held' /\ submitted'[n] <= 1 => n \notin Sent'
  BY <1>1, <1>2 DEF HeldInv, HeldUnsent
<1>4. ASSUME m \in held', submitted'[m] <= 1
      PROVE  m \notin Sent'
  <2>1. submitted[m] = 0
    BY <1>2, <1>4
  <2>2. m \notin outbox /\ m \notin held /\ m \notin Sent
    BY <2>1 DEF HeldInv, HeldUnsent, TypeOK, RowsOK
  <2>3. hold
    BY <1>1, <1>4, <2>2
  <2> QED BY <2>2, <2>3
<1>5. submitted'[m] # 0
  BY <1>2
<1>6. ASSUME NEW n \in Msg
      PROVE  /\ submitted'[n] = 0 => n \notin outbox' \cup Sent'
             /\ n \in held' /\ submitted'[n] <= 1 => n \notin Sent'
  <2>1. CASE n = m
    BY <1>4, <1>5, <2>1
  <2>2. CASE n # m
    BY <1>3, <2>2
  <2> QED BY <2>1, <2>2
<1> QED BY <1>6 DEF HeldUnsent

\* A command that keeps claims sends nothing.
LEMMA NothingSent ==
  ASSUME TypeOK, KeepsClaims, UNCHANGED <<delivered, inMailbox>>
  PROVE  Sent' \subseteq Sent
  BY DEF KeepsClaims, Sent

LEMMA UnsentAfterCommand ==
  ASSUME HeldInv, CommandStep
  PROVE  HeldUnsent'
<1>1. ASSUME NEW m \in Msg, NEW mode \in Modes, SubmitQueued(m, mode)
      PROVE  HeldUnsent'
  <2>1. Sent' \subseteq Sent
    BY <1>1, ReconcileKeepsClaims, NothingSent DEF HeldInv, SubmitQueued, Insert
  <2> QED BY <1>1, <2>1, UnsentAfterInsert DEF SubmitQueued
<1>2. ASSUME NEW m \in Msg, SubmitRefused(m)
      PROVE  HeldUnsent'
  <2>1. Sent' \subseteq Sent
    BY <1>2, ReconcileKeepsClaims, NothingSent DEF HeldInv, SubmitRefused, Insert
  <2> QED BY <1>2, <2>1, UnsentAfterInsert DEF SubmitRefused
<1>3. ASSUME NEW m \in Msg, NEW r \in SubmitReq, SubmitDirect(m, r)
      PROVE  HeldUnsent'
  <2>1. /\ \A q \in Req : items'[q] \subseteq items[q] \cup {m}
        /\ UNCHANGED <<delivered, inMailbox>>
    BY <1>3 DEF SubmitDirect, Request, Insert, HeldInv, TypeOK, WorkerOK
  <2>2. \A n \in Sent' : n \in Sent \/ n = m
    BY <2>1 DEF Sent
  <2> QED BY <1>3, <2>2, UnsentAfterInsert DEF SubmitDirect
<1>4. ASSUME NEW r \in RetryReq, ClaimRetry(r)
      PROVE  HeldUnsent'
  <2>1. /\ \A q \in Req : items'[q] \subseteq items[q] \cup (due \ expired)
        /\ UNCHANGED <<delivered, inMailbox, submitted>>
        /\ outbox' \subseteq outbox /\ held' \subseteq held
    BY <1>4 DEF ClaimRetry, Request, Ready, Table, HeldInv, TypeOK, WorkerOK
  <2>2. \A m \in Sent' : m \in Sent \/ (m \in outbox /\ m \notin held)
    BY <2>1 DEF Sent, HeldInv, HeldNotDue, TypeOK, RowsOK
  <2> QED BY <2>1, <2>2, UnsentKept
<1>5. ASSUME NEW m \in Msg, Retire(m)
      PROVE  HeldUnsent'
  <2>1. /\ \A r \in Req : items'[r] \subseteq items[r]
        /\ delivered' = delivered \cup {m} /\ UNCHANGED <<inMailbox, submitted>>
        /\ m \in outbox /\ outbox' = outbox \ {m} /\ held' = held \cap (outbox \ {m})
    BY <1>5, ReconcileKeepsClaims DEF Retire, Table, KeepsClaims, HeldInv
  <2>2. \A n \in Sent' : n \in Sent \/ (n \in outbox /\ n \notin held')
    BY <2>1 DEF Sent
  <2> QED BY <2>1, <2>2, UnsentKept
<1>6. ASSUME KeepsClaims, UNCHANGED <<delivered, inMailbox, submitted>>,
             outbox' \subseteq outbox, held' \subseteq held
      PROVE  HeldUnsent'
  BY <1>6, NothingSent, UnsentKept DEF HeldInv
<1>7. CASE \/ TickOnly \/ OtherCommand
           \/ \E m \in Msg : Release(m) \/ Discard(m)
           \/ \E R : Prune(R)
  BY <1>6, <1>7, ReconcileKeepsClaims
     DEF TickOnly, OtherCommand, Release, Discard, Prune, ToDlq, Table, rows, world, HeldInv
<1>8. ASSUME NEW recipient, Wake(recipient)
      PROVE  HeldUnsent'
  <2>1. KeepsClaims
    BY <1>8, MemoryKeepsClaims DEF Wake, ActorOnly, HeldInv
  <2> QED BY <1>6, <1>8, <2>1 DEF Wake, Table
<1>9. ASSUME NEW c \in mail, HandleCompletion(c) \/ DropCompletion(c)
      PROVE  HeldUnsent'
  <2>1. KeepsClaims
    BY <1>9, HandleKeepsClaims, DropKeepsClaims DEF HeldInv
  <2>2. /\ UNCHANGED <<delivered, inMailbox, submitted>>
        /\ outbox' \subseteq outbox /\ held' \subseteq held
    BY <1>9 DEF HandleCompletion, DropCompletion, Apply, Table, rows, world
  <2> QED BY <1>6, <2>1, <2>2
<1> QED
  BY <1>1, <1>2, <1>3, <1>4, <1>5, <1>7, <1>8, <1>9 DEF CommandStep, Tick

\* The worker sends what it has been given, ...
LEMMA UnsentAfterWorker ==
  ASSUME HeldInv, NEW r \in Req, WorkerStep(r)
  PROVE  HeldUnsent'
<1>1. UNCHANGED <<outbox, held, submitted>> /\ \A q \in Req : items'[q] \subseteq items[q]
  BY DEF WorkerStep, Take, Execute, Snapshot, TellAccepted, TellRefused, Rejoin, Accepted,
         Unanswered, Handoff, Strand, NotAccepted, Finish, WorkerOnly, rows, world, HeldInv,
         TypeOK, WorkerOK
<1>2. delivered' \cup inMailbox' \subseteq Sent
  <2>1. CASE Execute(r)
    BY <2>1 DEF Execute, Sent
  <2>2. CASE ~ Execute(r)
    BY <2>2 DEF WorkerStep, Take, Snapshot, TellAccepted, TellRefused, Rejoin, Accepted,
                Unanswered, Handoff, Strand, world, Sent
  <2> QED BY <2>1, <2>2
<1>3. Sent' \subseteq Sent
  BY <1>1, <1>2 DEF Sent
<1> QED BY <1>1, <1>3, UnsentKept

\* ... and a failure sends nothing.
LEMMA UnsentAfterFailure ==
  ASSUME HeldInv, FailureStep
  PROVE  HeldUnsent'
<1>1. ASSUME NEW m \in Msg, NEW mode \in Modes, CrashInSubmit(m, mode)
      PROVE  HeldUnsent'
  <2>1. Sent' \subseteq Sent
    BY <1>1, FailKeepsClaims, NothingSent DEF HeldInv, CrashInSubmit, Insert
  <2> QED BY <1>1, <2>1, UnsentAfterInsert DEF CrashInSubmit
<1>2. CASE Crash \/ \E c \in mail : CrashInCompletion(c)
  <2>1. Fail /\ UNCHANGED <<delivered, inMailbox, submitted>>
        /\ outbox' \subseteq outbox /\ held' \subseteq held
    BY <1>2 DEF Crash, CrashInCompletion, Apply, Table, rows, world
  <2> QED BY <2>1, FailKeepsClaims, NothingSent, UnsentKept DEF HeldInv
<1>3. CASE Restart \/ DaemonRestart
  BY <1>3, UnsentKept DEF Restart, DaemonRestart, Sent, rows, world, worker
<1> QED BY <1>1, <1>2, <1>3 DEF FailureStep

LEMMA HeldInvariant == Spec => []HeldInv
<1>1. Init => HeldInv
  BY DEF Init, HeldInv, TypeOK, RowsOK, LedgerOK, WorldOK, ActorOK, CoordOK, WorkerOK, PostOK,
         HeldNotDue, HeldUnsent, Sent
<1>2. HeldInv /\ [Next]_vars => HeldInv'
  <2> SUFFICES ASSUME HeldInv, [Next]_vars PROVE HeldInv'
    OBVIOUS
  <2>1. TypeOK' /\ HeldNotDue'
    BY NextType, HeldNotDueStep DEF HeldInv
  <2>2. HeldUnsent'
    <3>1. CASE UNCHANGED vars \/ \E m \in Msg : Elapse(m) \/ Lapse(m)
      BY <3>1, UnsentKept DEF vars, Elapse, Lapse, rows, world, worker, Sent
    <3> QED BY <3>1, UnsentAfterCommand, UnsentAfterWorker, UnsentAfterFailure DEF Next
  <2> QED BY <2>1, <2>2 DEF HeldInv
<1> QED BY <1>1, <1>2, PTL DEF Spec

\* As long as no id is submitted again, a held row stays away from the network
\* until its link releases it, whatever wakes, ticks, crashes and restarts occur.
THEOREM HeldRowsStayHome ==
  Spec => []((\A m \in Msg : submitted[m] <= 1) => HeldStaysHome)
<1>1. HeldInv => ((\A m \in Msg : submitted[m] <= 1) => HeldStaysHome)
  BY DEF HeldInv, HeldUnsent, HeldStaysHome, Sent, ClaimedBy, Live, TypeOK, RowsOK, ActorOK
<1> QED BY <1>1, HeldInvariant, PTL

\* Before the actor has failed for the first time, what is under way was issued by
\* its generation, and a completion not settled is of a request under way.
OneGeneration ==
    /\ \A r \in Req : /\ stage[r] # "free" => reqGen[r] = 1
                      /\ stage[r] = "posting" => seen[r] = 1
    /\ \A c \in mail : c[2] = 1 /\ (token[c[1]] = "settled" \/ reqGen[c[1]] = 1)

\* A row in flight that is woken is among the wakes its request retains.
WakesInFlight ==
    \A r \in Live : awake \cap items[r] \subseteq wakes[r] \cup expired

WakeInv == gen = 1 => OneGeneration /\ WakesInFlight /\ WakeKept

LEMMA GenerationStays ==
  ASSUME TypeOK, [Next]_vars, gen' = 1
  PROVE  gen = 1 /\ (CommandStep \/ Restart \/ UNCHANGED vars
                      \/ (\E r \in Req : WorkerStep(r))
                      \/ (\E m \in Msg : Elapse(m) \/ Lapse(m)))
<1>1. gen \in Nat \ {0}
  BY DEF TypeOK, ActorOK
<1>2. ~ Fail /\ ~ DaemonRestart
  BY <1>1 DEF Fail, DaemonRestart
<1>3. \/ CommandStep \/ Restart \/ UNCHANGED vars
      \/ \E r \in Req : WorkerStep(r)
      \/ \E m \in Msg : Elapse(m) \/ Lapse(m)
  BY <1>2 DEF Next, FailureStep, Crash, CrashInSubmit, CrashInCompletion
<1>4. ASSUME CommandStep PROVE gen' = gen
  BY <1>4 DEF CommandStep, SubmitQueued, SubmitDirect, SubmitRefused, Retire, Release, Discard,
              Wake, Prune, Tick, TickOnly, ClaimRetry, OtherCommand, HandleCompletion,
              DropCompletion, Reconcile, ActorOnly, Request
<1>5. ASSUME NEW r \in Req, WorkerStep(r) PROVE gen' = gen
  BY <1>5 DEF WorkerStep, Take, Execute, Snapshot, TellAccepted, TellRefused, Rejoin,
              Accepted, Unanswered, Handoff, Strand, WorkerOnly
<1>6. ASSUME Restart \/ UNCHANGED vars \/ (\E m \in Msg : Elapse(m) \/ Lapse(m))
      PROVE  gen' = gen
  BY <1>6 DEF Restart, vars, Elapse, Lapse, actor
<1> QED BY <1>3, <1>4, <1>5, <1>6

\* What is left of the mailbox, when no receipt and no request changes.
LEMMA SameMail ==
  ASSUME TypeOK, OneGeneration, UNCHANGED <<stage, reqGen, seen>>, mail' \subseteq mail,
         \A c \in mail' : token[c[1]] = "settled" => token'[c[1]] = "settled"
  PROVE  OneGeneration'
  BY DEF OneGeneration

LEMMA OneGenerationAfterCommand ==
  ASSUME TypeOK, OneGeneration, gen = 1, CommandStep
  PROVE  OneGeneration'
<1>1. CASE Reconcile \/ \E recipient : Wake(recipient)
  BY <1>1, SameMail DEF Reconcile, Wake, ActorOnly
<1>2. ASSUME NEW r \in Req, NEW S, Request(r, S) PROVE OneGeneration'
  <2>1. \A c \in mail : c[1] # r
    BY <1>2 DEF Request, Idle
  <2>2. /\ mail' = mail /\ stage' = [stage EXCEPT ![r] = "queued"] /\ seen' = seen
        /\ reqGen' = [reqGen EXCEPT ![r] = 1] /\ token' = [token EXCEPT ![r] = "none"]
    BY <1>2 DEF Request
  <2> QED BY <2>1, <2>2 DEF OneGeneration, TypeOK, WorkerOK, CoordOK
<1>3. ASSUME NEW c \in mail, HandleCompletion(c) PROVE OneGeneration'
  <2>1. \A d \in mail' : token[d[1]] = "settled" => token'[d[1]] = "settled"
    BY <1>3 DEF HandleCompletion, TypeOK, CoordOK
  <2> QED BY <1>3, <2>1, SameMail DEF HandleCompletion
<1>4. ASSUME NEW c \in mail, DropCompletion(c) PROVE OneGeneration'
  <2>1. \A d \in mail' : token[d[1]] = "settled" => token'[d[1]] = "settled"
    BY <1>4 DEF DropCompletion, SettledToken, TypeOK, CoordOK
  <2> QED BY <1>4, <2>1, SameMail DEF DropCompletion
<1> QED
  BY <1>1, <1>2, <1>3, <1>4
     DEF CommandStep, SubmitQueued, SubmitDirect, SubmitRefused, Retire, Release, Discard,
         Prune, Tick, TickOnly, ClaimRetry, OtherCommand

LEMMA OneGenerationAfterWorker ==
  ASSUME TypeOK, OneGeneration, gen = 1, NEW r \in Req, WorkerStep(r)
  PROVE  OneGeneration'
<1> USE DEF TypeOK, WorkerOK, CoordOK
<1>1. CASE \/ Take(r) \/ Execute(r) \/ Rejoin(r) \/ Strand(r)
  <2>1. /\ UNCHANGED <<reqGen, seen, mail, token>> /\ stage[r] # "free"
        /\ \E next \in {"active", "settling", "waiting"} : stage' = [stage EXCEPT ![r] = next]
    BY <1>1 DEF Take, Execute, Rejoin, Strand, coord
  <2> QED BY <2>1 DEF OneGeneration
<1>2. CASE Snapshot(r)
  <2>1. /\ UNCHANGED <<reqGen, mail, token>> /\ stage[r] # "free"
        /\ \/ \E next \in {"settling", "handing"} : /\ stage' = [stage EXCEPT ![r] = next]
                                                    /\ seen' = seen
           \/ stage' = [stage EXCEPT ![r] = "posting"] /\ seen' = [seen EXCEPT ![r] = 1]
    BY <1>2 DEF Snapshot, NotAccepted, coord
  <2> QED BY <2>1 DEF OneGeneration, PostOK
<1>3. CASE TellAccepted(r)
  BY <1>3 DEF TellAccepted, NewClaim, OneGeneration
<1>4. CASE TellRefused(r) \/ Unanswered(r)
  <2>1. /\ UNCHANGED <<reqGen, seen, mail>> /\ stage[r] # "free"
        /\ \E next \in {"settling", "handing"} : stage' = [stage EXCEPT ![r] = next]
        /\ \A q \in Req : token[q] = "settled" => token'[q] = "settled"
    BY <1>4 DEF TellRefused, NewClaim, Unanswered, NotAccepted, coord
  <2> QED BY <2>1 DEF OneGeneration
<1>5. CASE Accepted(r) \/ Handoff(r)
  <2>1. Finish(r) /\ mail' = mail
    BY <1>5 DEF Accepted, Handoff
  <2>2. \A c \in mail : c[1] = r => token'[c[1]] = "settled"
    BY <2>1 DEF Finish, SettledToken
  <2> QED BY <2>1, <2>2 DEF OneGeneration, Finish
<1> QED BY <1>1, <1>2, <1>3, <1>4, <1>5 DEF WorkerStep

\* A command that keeps claims keeps their wakes, if it keeps what they retain.
LEMMA WakesAfterMemory ==
  ASSUME TypeOK, WakesInFlight, KeepsClaims,
         \A r \in pend' : wakes'[r] = wakes[r],
         awake' \subseteq awake, awake' \cap expired \subseteq expired'
  PROVE  WakesInFlight'
<1>1. \A r \in Live' : r \in Live /\ items'[r] = items[r] /\ wakes'[r] = wakes[r]
  BY DEF KeepsClaims, Live
<1> QED BY <1>1 DEF WakesInFlight

LEMMA WakesAfterRequest ==
  ASSUME TypeOK, WakesInFlight, NEW r \in Req, NEW S \in SUBSET Msg, Request(r, S),
         awake' \subseteq awake \ S, awake' \cap expired \subseteq expired'
  PROVE  WakesInFlight'
<1>1. \A q \in Live' : q # r => q \in Live /\ items'[q] = items[q] /\ wakes'[q] = wakes[q]
  BY DEF Request, Live, TypeOK, ActorOK, WorkerOK
<1>2. items'[r] = S
  BY DEF Request
<1> QED BY <1>1, <1>2 DEF WakesInFlight

LEMMA WakesAfterCommand ==
  ASSUME TypeOK, HeldNotDue, WakesInFlight, CommandStep
  PROVE  WakesInFlight'
<1>1. ASSUME Reconcile, awake' \subseteq awake, awake' \cap expired \subseteq expired'
      PROVE  WakesInFlight'
  <2>1. \A r \in pend' : wakes'[r] = wakes[r]
    BY <1>1 DEF Reconcile, Memory, Live, TypeOK, ActorOK
  <2> QED BY <1>1, <2>1, ReconcileKeepsClaims, WakesAfterMemory
<1>2. CASE \E m \in Msg : \/ \E mode \in Modes : SubmitQueued(m, mode)
                          \/ SubmitRefused(m)
  BY <1>1, <1>2 DEF SubmitQueued, SubmitRefused, Insert, Table
<1>3. CASE \/ \E m \in Msg : Retire(m) \/ Release(m) \/ Discard(m)
           \/ \E R : Prune(R)
           \/ TickOnly \/ OtherCommand
  BY <1>1, <1>3 DEF Retire, Release, Discard, Prune, ToDlq, TickOnly, OtherCommand, Table, rows,
                    world
<1>4. ASSUME NEW m \in Msg, NEW r \in SubmitReq, SubmitDirect(m, r)
      PROVE  WakesInFlight'
  <2>1. awake' \subseteq awake \ {m} /\ awake' \cap expired \subseteq expired'
    BY <1>4 DEF SubmitDirect, Insert, Table
  <2> QED BY <1>4, <2>1, WakesAfterRequest DEF SubmitDirect
<1>5. ASSUME NEW r \in RetryReq, ClaimRetry(r)
      PROVE  WakesInFlight'
  <2>1. /\ awake' \subseteq awake \ (Ready \ expired) /\ awake' \cap expired \subseteq expired'
        /\ Ready \ expired \in SUBSET Msg
    BY <1>5 DEF ClaimRetry, Table, TypeOK, RowsOK, Ready
  <2> QED BY <1>5, <2>1, WakesAfterRequest DEF ClaimRetry
<1>6. ASSUME NEW recipient, Wake(recipient)
      PROVE  WakesInFlight'
  <2>1. \A r \in Live' : /\ r \in Live /\ items'[r] = items[r]
                         /\ wakes'[r] = wakes[r]
                               \cup {m \in items[r] : RecipientOf[m] = recipient}
    BY <1>6 DEF Wake, Memory, Live, TypeOK, ActorOK
  <2>2. /\ \A m \in awake' : m \in awake \/ RecipientOf[m] = recipient
        /\ awake' \cap expired \subseteq expired'
    BY <1>6 DEF Wake, Table, Rousable
  <2> QED BY <2>1, <2>2 DEF WakesInFlight
<1>7. ASSUME NEW c \in mail, HandleCompletion(c) \/ DropCompletion(c)
      PROVE  WakesInFlight'
  <2>1. KeepsClaims
    BY <1>7, HandleKeepsClaims, DropKeepsClaims
  <2>2. /\ \A r \in pend' : wakes'[r] = wakes[r]
        /\ awake' \subseteq awake /\ awake' \cap expired \subseteq expired'
    BY <1>7 DEF HandleCompletion, DropCompletion, Memory, ClaimsAfter, Live, Apply, Table, rows,
                world, TypeOK, ActorOK
  <2> QED BY <2>1, <2>2, WakesAfterMemory
<1> QED BY <1>2, <1>3, <1>4, <1>5, <1>6, <1>7 DEF CommandStep, Tick

LEMMA WakesAfterOther ==
  ASSUME TypeOK, WakesInFlight,
         \/ Restart \/ UNCHANGED vars
         \/ (\E r \in Req : WorkerStep(r))
         \/ (\E m \in Msg : Elapse(m) \/ Lapse(m))
  PROVE  WakesInFlight'
<1>1. ASSUME NEW r \in Req, WorkerStep(r)
      PROVE  /\ UNCHANGED <<pend, wakes, awake, expired>> /\ handoffs \subseteq handoffs'
             /\ \A q \in pend : items'[q] = items[q]
  BY <1>1 DEF WorkerStep, Take, Execute, Snapshot, TellAccepted, TellRefused, Rejoin, Accepted,
              Unanswered, Handoff, Strand, NotAccepted, Finish, WorkerOnly, rows, world, coord,
              TypeOK, ActorOK, WorkerOK
<1>2. /\ UNCHANGED <<pend, wakes, awake>> /\ expired \subseteq expired'
      /\ handoffs \subseteq handoffs'
      /\ \A q \in pend : items'[q] = items[q]
  BY <1>1 DEF Restart, vars, Elapse, Lapse, rows, world, actor, coord, worker
<1>3. \A r \in Live' : r \in Live /\ items'[r] = items[r]
  BY <1>2 DEF Live, Correlation
<1> QED BY <1>2, <1>3 DEF WakesInFlight

\* The completion that is applied is that of a live claim, with its wakes.
LEMMA WakeKeptAfterHandle ==
  ASSUME TypeOK, HeldNotDue, OneGeneration, WakesInFlight, WakeKept, gen = 1,
         NEW c \in mail, HandleCompletion(c)
  PROVE  WakeKept'
<1>1. ~ Foreign(c) /\ c[1] \in Live
  BY DEF HandleCompletion, OneGeneration, Foreign, Current
<1>2. awake \cap items[c[1]] \subseteq WakesFor(c) \cup expired
  BY <1>1 DEF WakesInFlight, WakesFor
<1> QED BY <1>2, RowsAfterApply DEF HandleCompletion

LEMMA WakeInvariant == Spec => [](HeldInv /\ WakeInv)
<1>1. Init => WakeInv
  BY DEF Init, WakeInv, OneGeneration, WakesInFlight, WakeKept, Live
<1>2. HeldInv /\ WakeInv /\ [Next]_vars => WakeInv'
  <2> SUFFICES ASSUME HeldInv, WakeInv, [Next]_vars, gen' = 1
               PROVE  OneGeneration' /\ WakesInFlight' /\ WakeKept'
    BY DEF WakeInv
  <2>1. TypeOK /\ HeldNotDue
    BY DEF HeldInv
  <2>2. gen = 1 /\ (CommandStep \/ Restart \/ UNCHANGED vars
                    \/ (\E r \in Req : WorkerStep(r))
                    \/ (\E m \in Msg : Elapse(m) \/ Lapse(m)))
    BY <2>1, GenerationStays
  <2>3. OneGeneration /\ WakesInFlight /\ WakeKept
    BY <2>2 DEF WakeInv
  <2>4. WakesInFlight'
    BY <2>1, <2>2, <2>3, WakesAfterCommand, WakesAfterOther
  <2>5. OneGeneration'
    <3>1. CASE Restart \/ UNCHANGED vars \/ (\E m \in Msg : Elapse(m) \/ Lapse(m))
      BY <2>1, <2>3, <3>1, SameMail DEF Restart, vars, Elapse, Lapse, coord, worker
    <3> QED BY <2>1, <2>2, <2>3, <3>1, OneGenerationAfterCommand, OneGenerationAfterWorker
  <2>6. WakeKept'
    <3>1. ASSUME NEW c \in mail, HandleCompletion(c) PROVE WakeKept'
      BY <2>1, <2>2, <2>3, <3>1, WakeKeptAfterHandle
    <3>2. ~ \E c \in mail : CrashInCompletion(c)
      BY <2>1, <2>2 DEF CrashInCompletion, Fail, TypeOK, ActorOK
    <3> QED BY <2>1, <2>3, <3>1, <3>2, RowsStep DEF RowsKept
  <2> QED BY <2>4, <2>5, <2>6
<1> QED BY <1>1, <1>2, HeldInvariant, PTL DEF Spec

\* A wake outlives the I/O it overlaps: until the actor fails for the first time
\* (the wakes are in its memory), every woken row that is neither held nor past
\* its TTL is due.
THEOREM WakesOutliveIO == Spec => [](gen = 1 => WakeKept)
<1>1. WakeInv => (gen = 1 => WakeKept)
  BY DEF WakeInv
<1> QED BY <1>1, WakeInvariant, PTL
=============================================================================
