--------------------------- MODULE EffectLaneProofs ---------------------------
(***************************************************************************)
(* Proofs about EffectLane, for every set of tokens and workers, every     *)
(* capacity and mailbox, and every number of failures of the owner: the    *)
(* types, that no request is executed twice, and that a request keeps its  *)
(* credit until it is acknowledged.                                        *)
(***************************************************************************)
EXTENDS EffectLane, FiniteSetTheorems, SequenceTheorems, TLAPS

-----------------------------------------------------------------------------
(* The inductive invariant                                                 *)

\* No more credits are out than there are, and they are counted.
CreditsCounted == IsFiniteSet(pending) /\ Cardinality(pending) <= Capacity

\* A queued request holds its token, has not run, is queued once, and no worker
\* has it.
QueueUnrun ==
    \A i \in 1..Len(requests) :
        /\ requests[i] \in submitted /\ ran[requests[i]] = 0
        /\ \A j \in 1..Len(requests) : requests[i] = requests[j] => i = j
        /\ \A w \in Worker : requests[i] \notin work[w]

\* What a worker has in its hands, by where it is in its round.
HandsOK ==
    \A w \in Worker :
        /\ phase[w] \in {"idle", "parked", "gone"} => work[w] = {}
        /\ phase[w] \in {"taken", "executing"} =>
              \E t \in submitted : work[w] = {t} /\ ran[t] = 0
        /\ phase[w] = "completing" => \E t \in Token : work[w] = {t} /\ ran[t] = 1
        /\ phase[w] # "dead"

\* Two workers never have the same request in their hands.
HandsApart == \A v, w \in Worker : v # w => work[v] \cap work[w] = {}

\* A completion is of a request that has run.
PostedRan ==
    /\ \A i \in 1..Len(posted) : ran[posted[i]] = 1
    /\ \A t \in handling : ran[t] = 1 /\ t \in settled

\* A request that has run stays submitted until it is acknowledged, and an
\* acknowledged one gives its credit back for good.
RanKept ==
    /\ \A t \in Token : ran[t] <= 1
    /\ \A t \in Token : ran[t] > 0 /\ t \notin acknowledged => t \in submitted
    /\ acknowledged \subseteq settled /\ acknowledged \subseteq used
    /\ acknowledged \cap pending = {}

IInv == /\ TypeOK /\ CreditsCounted /\ QueueUnrun /\ HandsOK /\ HandsApart
        /\ PostedRan /\ RanKept

-----------------------------------------------------------------------------
(* Type correctness                                                        *)

\* What the parked workers become is a phase again.
LEMMA WokenPhase ==
  ASSUME TypeOK
  PROVE  /\ Woken \in [Worker -> {"idle", "parked", "taken", "executing", "completing",
                                  "gone", "dead"}]
         /\ \A w \in Worker : Woken[w] = phase[w] \/ (phase[w] = "parked" /\ Woken[w] = "idle")
  BY DEF TypeOK, Woken

LEMMA TypeOwner ==
  ASSUME TypeOK,
         \/ \E t \in Token : Reserve(t) \/ Submit(t) \/ CancelReservation(t) \/ Acknowledge(t)
         \/ Close \/ Handle \/ OwnerFails
  PROVE  TypeOK'
<1> USE LaneAssumption DEF TypeOK, lane, workers, owner, history
<1>1. ASSUME NEW t \in Token, Reserve(t) PROVE TypeOK'
  BY <1>1 DEF Reserve
<1>2. ASSUME NEW t \in Token, Submit(t) PROVE TypeOK'
  BY <1>2, WokenPhase, AppendProperties DEF Submit, Submitted
<1>3. ASSUME NEW t \in Token, CancelReservation(t) PROVE TypeOK'
  BY <1>3, WokenPhase DEF CancelReservation, Submitted
<1>4. ASSUME NEW t \in Token, Acknowledge(t) PROVE TypeOK'
  BY <1>4, WokenPhase DEF Acknowledge, Settle
<1>5. CASE Close
  BY <1>5, WokenPhase DEF Close
<1>6. CASE Handle
  BY <1>6, HeadTailProperties DEF Handle
<1>7. CASE OwnerFails
  BY <1>7 DEF OwnerFails
<1> QED BY <1>1, <1>2, <1>3, <1>4, <1>5, <1>6, <1>7

LEMMA TypeWorker ==
  ASSUME TypeOK, NEW w \in Worker, Round(w) \/ Post(w)
  PROVE  TypeOK'
<1> USE DEF TypeOK, lane, workers, owner, history
<1>1. CASE Exit(w) \/ Park(w)
  BY <1>1 DEF Exit, Park
<1>2. CASE Take(w)
  BY <1>2, HeadTailProperties DEF Take
<1>3. CASE LookUp(w)
  BY <1>3 DEF LookUp, Found
<1>4. CASE Execute(w)
  BY <1>4 DEF Execute
<1>5. CASE Released(w)
  BY <1>5 DEF Released
<1>6. CASE Post(w)
  BY <1>6, AppendProperties DEF Post
<1> QED BY <1>1, <1>2, <1>3, <1>4, <1>5, <1>6 DEF Round

LEMMA InitTypes ==
  ASSUME Init
  PROVE  TypeOK
<1>1. requests \in Seq(Token) /\ posted \in Seq(Token)
  BY EmptySeq DEF Init
<1>2. failures \in 0..MaxFailures
  BY LaneAssumption DEF Init
<1> QED BY <1>1, <1>2 DEF Init, TypeOK

\* The types hold in every state of the lane: a submitted token holds a credit.
THEOREM TypeCorrect == Spec => []TypeOK
<1>1. Init => TypeOK
  BY InitTypes
<1>2. TypeOK /\ [Next]_vars => TypeOK'
  <2> SUFFICES ASSUME TypeOK, [Next]_vars PROVE TypeOK'
    OBVIOUS
  <2>1. CASE Next
    BY <2>1, TypeOwner, TypeWorker DEF Next
  <2>2. CASE UNCHANGED vars
    BY <2>2 DEF TypeOK, vars, lane, workers, owner, history
  <2> QED BY <2>1, <2>2
<1> QED BY <1>1, <1>2, PTL DEF Spec

-----------------------------------------------------------------------------
(* The owner's calls keep the invariant                                    *)

LEMMA ReserveKeeps ==
  ASSUME IInv, NEW t \in Token, Reserve(t)
  PROVE  IInv'
<1>1. TypeOK'
  BY TypeOwner DEF IInv
<1>2. CreditsCounted'
  <2>1. IsFiniteSet(pending) /\ pending' = pending \cup {t} /\ t \notin pending
    BY DEF IInv, TypeOK, CreditsCounted, Reserve
  <2>5. IsFiniteSet(pending') /\ Cardinality(pending') = Cardinality(pending) + 1
    BY <2>1, FS_AddElement
  <2>2. Cardinality(pending) < Capacity
    BY FS_CardinalityType, LaneAssumption DEF IInv, CreditsCounted, Reserve, Refused
  <2>3. Cardinality(pending) \in Nat
    BY <2>1, FS_CardinalityType
  <2> QED BY <2>5, <2>2, <2>3, LaneAssumption DEF CreditsCounted
<1>3. QueueUnrun' /\ HandsOK' /\ HandsApart' /\ PostedRan'
  BY DEF IInv, QueueUnrun, HandsOK, HandsApart, PostedRan, Reserve, workers, history
<1>4. RanKept'
  BY DEF IInv, RanKept, Reserve, history
<1> QED BY <1>1, <1>2, <1>3, <1>4 DEF IInv

LEMMA SubmitKeeps ==
  ASSUME IInv, NEW t \in Token, Submit(t)
  PROVE  IInv'
<1>1. TypeOK'
  BY TypeOwner DEF IInv
<1>2. CreditsCounted' /\ HandsApart' /\ PostedRan' /\ RanKept'
  BY DEF IInv, CreditsCounted, HandsApart, PostedRan, RanKept, Submit, owner, history
<1>3. ran[t] = 0
  BY DEF IInv, TypeOK, RanKept, Submit, Submitted
<1>4. QueueUnrun'
  <2>1. /\ Len(requests') = Len(requests) + 1 /\ Len(requests) \in Nat
        /\ \A i \in 1..Len(requests) : requests'[i] = requests[i]
        /\ requests'[Len(requests) + 1] = t
    BY AppendProperties, LenProperties DEF IInv, TypeOK, Submit
  <2>2. \A i \in 1..Len(requests) : requests[i] # t
    BY DEF IInv, QueueUnrun, Submit, Submitted
  <2>3. \A w \in Worker : t \notin work[w]
    BY <1>3 DEF IInv, TypeOK, HandsOK, Submit, Submitted
  <2>4. UNCHANGED <<work, ran>> /\ submitted' = submitted \cup {t}
    BY DEF Submit, history
  <2> QED BY <1>3, <2>1, <2>2, <2>3, <2>4 DEF IInv, QueueUnrun
<1>5. HandsOK'
  BY WokenPhase DEF IInv, HandsOK, Submit, history
<1> QED BY <1>1, <1>2, <1>4, <1>5 DEF IInv

\* A credit that is given back is one less.
LEMMA CreditBack ==
  ASSUME CreditsCounted, NEW t
  PROVE  IsFiniteSet(pending \ {t}) /\ Cardinality(pending \ {t}) <= Capacity
<1>1. /\ IsFiniteSet(pending \ {t})
      /\ Cardinality(pending \ {t}) <= Cardinality(pending)
  BY FS_Subset DEF CreditsCounted
<1>2. Cardinality(pending) \in Nat /\ Cardinality(pending \ {t}) \in Nat
  BY <1>1, FS_CardinalityType DEF CreditsCounted
<1> QED BY <1>1, <1>2, LaneAssumption DEF CreditsCounted

LEMMA CancelKeeps ==
  ASSUME IInv, NEW t \in Token, CancelReservation(t)
  PROVE  IInv'
<1>1. TypeOK'
  BY TypeOwner DEF IInv
<1>2. CreditsCounted'
  BY CreditBack DEF IInv, CreditsCounted, CancelReservation
<1>3. QueueUnrun' /\ HandsApart' /\ PostedRan' /\ RanKept'
  BY DEF IInv, QueueUnrun, HandsApart, PostedRan, RanKept, CancelReservation, owner, history
<1>4. HandsOK'
  BY WokenPhase DEF IInv, HandsOK, CancelReservation, history
<1> QED BY <1>1, <1>2, <1>3, <1>4 DEF IInv

LEMMA AcknowledgeKeeps ==
  ASSUME IInv, NEW t \in Token, Acknowledge(t)
  PROVE  IInv'
<1>1. TypeOK'
  BY TypeOwner DEF IInv
<1>2. ran[t] = 1 /\ t \in settled
  BY DEF IInv, PostedRan, Acknowledge
<1>3. CASE t \in submitted
  <2>1. CreditsCounted'
    BY <1>3, CreditBack DEF IInv, CreditsCounted, Acknowledge
  <2>2. QueueUnrun' /\ HandsApart' /\ PostedRan'
    BY <1>2, <1>3 DEF IInv, QueueUnrun, HandsApart, PostedRan, Acknowledge, Settle
  <2>3. HandsOK'
    BY <1>2, <1>3, WokenPhase DEF IInv, HandsOK, Acknowledge, Settle
  <2>4. RanKept'
    BY <1>2, <1>3 DEF IInv, TypeOK, RanKept, Acknowledge, Settle
  <2> QED BY <1>1, <2>1, <2>2, <2>3, <2>4 DEF IInv
<1>4. CASE t \notin submitted
  BY <1>1, <1>4 DEF IInv, CreditsCounted, QueueUnrun, HandsOK, HandsApart, PostedRan,
                    RanKept, Acknowledge
<1> QED BY <1>3, <1>4

LEMMA HandleKeeps ==
  ASSUME IInv, Handle
  PROVE  IInv'
<1>1. TypeOK'
  BY TypeOwner DEF IInv
<1>2. CreditsCounted' /\ QueueUnrun' /\ HandsOK' /\ HandsApart' /\ RanKept'
  BY DEF IInv, CreditsCounted, QueueUnrun, HandsOK, HandsApart, RanKept, Handle, lane,
         workers
<1>3. PostedRan'
  <2>1. /\ Len(posted) \in Nat \ {0} /\ Head(posted) = posted[1]
        /\ Len(posted') = Len(posted) - 1
        /\ \A i \in 1..Len(posted') : posted'[i] = posted[i + 1]
    BY HeadTailProperties, EmptySeq DEF IInv, TypeOK, Handle
  <2>2. \A i \in 1..Len(posted') : i + 1 \in 1..Len(posted)
    BY <2>1
  <2> QED BY <2>1, <2>2 DEF IInv, PostedRan, Handle
<1> QED BY <1>1, <1>2, <1>3 DEF IInv

LEMMA CloseKeeps ==
  ASSUME IInv, Close
  PROVE  IInv'
<1>1. TypeOK'
  BY TypeOwner DEF IInv
<1>2. HandsOK'
  BY WokenPhase DEF IInv, HandsOK, Close, history
<1> QED BY <1>1, <1>2 DEF IInv, CreditsCounted, QueueUnrun, HandsApart, PostedRan, RanKept,
                          Close, owner, history

LEMMA OwnerFailsKeeps ==
  ASSUME IInv, OwnerFails
  PROVE  IInv'
<1>1. TypeOK'
  BY TypeOwner DEF IInv
<1>2. PostedRan'
  <2>1. Len(posted') = 0 /\ handling' = {}
    BY EmptySeq DEF OwnerFails
  <2> QED BY <2>1 DEF PostedRan
<1> QED BY <1>1, <1>2 DEF IInv, CreditsCounted, QueueUnrun, HandsOK, HandsApart, RanKept,
                          OwnerFails, lane, workers, history

-----------------------------------------------------------------------------
(* A worker's steps keep it                                                *)

LEMMA TakeKeeps ==
  ASSUME IInv, NEW w \in Worker, Take(w)
  PROVE  IInv'
<1>1. TypeOK'
  BY TypeWorker DEF IInv, Round
<1>2. /\ Len(requests) \in Nat \ {0} /\ Head(requests) = requests[1]
      /\ Len(requests') = Len(requests) - 1
      /\ \A i \in 1..Len(requests') : requests'[i] = requests[i + 1]
  BY HeadTailProperties, EmptySeq DEF IInv, TypeOK, Take
<1>3. \A i \in 1..Len(requests') : i + 1 \in 1..Len(requests)
  BY <1>2
<1>4. /\ requests[1] \in submitted /\ requests[1] \in Token /\ ran[requests[1]] = 0
      /\ \A v \in Worker : requests[1] \notin work[v]
      /\ \A i \in 1..Len(requests') : requests'[i] # requests[1]
  BY <1>2, <1>3 DEF IInv, TypeOK, QueueUnrun
<1>5. /\ work' = [work EXCEPT ![w] = {requests[1]}]
      /\ phase' = [phase EXCEPT ![w] = "taken"] /\ phase[w] = "idle"
      /\ UNCHANGED <<pending, submitted, posted, handling, used, ran, settled, acknowledged>>
  BY <1>2 DEF Take, owner, history
<1>6. CreditsCounted' /\ PostedRan' /\ RanKept'
  BY <1>5 DEF IInv, CreditsCounted, PostedRan, RanKept
<1>7. QueueUnrun'
  <2>1. \A i \in 1..Len(requests') :
          /\ requests'[i] \in submitted' /\ ran'[requests'[i]] = 0
          /\ \A v \in Worker : requests'[i] \notin work'[v]
    <3> TAKE i \in 1..Len(requests')
    <3>1. /\ requests'[i] = requests[i + 1] /\ requests'[i] # requests[1]
          /\ requests[i + 1] \in submitted /\ ran[requests[i + 1]] = 0
          /\ \A v \in Worker : requests[i + 1] \notin work[v]
      BY <1>2, <1>3, <1>4 DEF IInv, QueueUnrun
    <3>2. \A v \in Worker : work'[v] = IF v = w THEN {requests[1]} ELSE work[v]
      BY <1>5 DEF IInv, TypeOK
    <3> QED BY <1>5, <3>1, <3>2
  <2>2. \A i, j \in 1..Len(requests') : requests'[i] = requests'[j] => i = j
    <3> TAKE i, j \in 1..Len(requests')
    <3> HAVE requests'[i] = requests'[j]
    <3>1. requests[i + 1] = requests[j + 1]
      BY <1>2
    <3>2. i + 1 = j + 1
      BY <3>1, <1>3 DEF IInv, QueueUnrun
    <3> QED BY <3>2, <1>2
  <2> QED BY <2>1, <2>2 DEF QueueUnrun
<1>8. HandsOK'
  BY <1>4, <1>5 DEF IInv, TypeOK, HandsOK
<1>9. HandsApart'
  BY <1>4, <1>5 DEF IInv, TypeOK, HandsApart
<1> QED BY <1>1, <1>6, <1>7, <1>8, <1>9 DEF IInv

LEMMA ExecuteKeeps ==
  ASSUME IInv, NEW w \in Worker, Execute(w)
  PROVE  IInv'
<1>1. TypeOK'
  BY TypeWorker DEF IInv, Round
<1>2. PICK t \in submitted : work[w] = {t} /\ ran[t] = 0
  BY DEF IInv, HandsOK, Execute
<1>3. t \in Token /\ ran' = [u \in Token |-> IF u = t THEN 1 ELSE ran[u]]
  BY <1>2 DEF IInv, TypeOK, Execute
<1>4. /\ phase' = [phase EXCEPT ![w] = "completing"]
      /\ UNCHANGED <<pending, submitted, requests, work, used, posted, handling, settled,
                     acknowledged>>
  BY DEF Execute, lane, owner
<1>5. CreditsCounted' /\ HandsApart'
  BY <1>4 DEF IInv, CreditsCounted, HandsApart
<1>6. QueueUnrun'
  BY <1>2, <1>3, <1>4, ElementOfSeq DEF IInv, TypeOK, QueueUnrun
<1>7. HandsOK'
  <2> SUFFICES ASSUME NEW v \in Worker
               PROVE  /\ phase'[v] \in {"idle", "parked", "gone"} => work'[v] = {}
                      /\ phase'[v] \in {"taken", "executing"} =>
                            \E u \in submitted' : work'[v] = {u} /\ ran'[u] = 0
                      /\ phase'[v] = "completing" =>
                            \E u \in Token : work'[v] = {u} /\ ran'[u] = 1
                      /\ phase'[v] # "dead"
    BY DEF HandsOK
  <2>1. CASE v = w
    BY <2>1, <1>2, <1>3, <1>4 DEF IInv, TypeOK
  <2>2. CASE v # w
    <3>1. t \notin work[v]
      BY <2>2, <1>2 DEF IInv, HandsApart
    <3>2. phase'[v] = phase[v]
      BY <2>2, <1>4 DEF IInv, TypeOK
    <3> QED BY <3>1, <3>2, <1>3, <1>4 DEF IInv, TypeOK, HandsOK
  <2> QED BY <2>1, <2>2
<1>8. PostedRan'
  BY <1>2, <1>3, <1>4, ElementOfSeq DEF IInv, TypeOK, PostedRan
<1>9. RanKept'
  BY <1>2, <1>3, <1>4 DEF IInv, TypeOK, RanKept
<1> QED BY <1>1, <1>5, <1>6, <1>7, <1>8, <1>9 DEF IInv

LEMMA PostKeeps ==
  ASSUME IInv, NEW w \in Worker, Post(w)
  PROVE  IInv'
<1>1. TypeOK'
  BY TypeWorker DEF IInv
<1>2. PICK t \in work[w] : posted' = Append(posted, t)
  BY DEF Post
<1>3. t \in Token /\ ran[t] = 1
  BY <1>2 DEF IInv, TypeOK, HandsOK, Post
<1>4. PostedRan'
  <2>1. /\ Len(posted') = Len(posted) + 1 /\ Len(posted) \in Nat
        /\ \A i \in 1..Len(posted) : posted'[i] = posted[i]
        /\ posted'[Len(posted) + 1] = t
    BY <1>2, <1>3, AppendProperties, LenProperties DEF IInv, TypeOK
  <2>2. UNCHANGED <<ran, handling, settled>>
    BY DEF Post, history
  <2> QED BY <1>3, <2>1, <2>2 DEF IInv, PostedRan
<1> QED BY <1>1, <1>4 DEF IInv, CreditsCounted, QueueUnrun, HandsOK, HandsApart, RanKept,
                          Post, lane, workers, history

LEMMA RoundKeeps ==
  ASSUME IInv, NEW w \in Worker, Exit(w) \/ Park(w) \/ LookUp(w) \/ Released(w)
  PROVE  IInv'
<1>1. TypeOK'
  BY TypeWorker DEF IInv, Round
<1>2. CreditsCounted' /\ PostedRan' /\ RanKept'
  BY DEF IInv, CreditsCounted, PostedRan, RanKept, Exit, Park, LookUp, Released, lane, owner,
         history
<1>3. UNCHANGED <<requests, submitted, ran>> /\ \A v \in Worker : work'[v] \subseteq work[v]
  BY DEF IInv, TypeOK, Exit, Park, LookUp, Released, lane, history
<1>4. QueueUnrun' /\ HandsApart'
  BY <1>3 DEF IInv, QueueUnrun, HandsApart
<1>5. HandsOK'
  <2>1. CASE Exit(w) \/ Park(w)
    BY <2>1, <1>3 DEF IInv, TypeOK, HandsOK, Exit, Park
  <2>2. CASE LookUp(w)
    <3>1. Found(w) = "executing"
      BY <2>2 DEF IInv, TypeOK, HandsOK, LookUp, Found
    <3> QED BY <2>2, <3>1, <1>3 DEF IInv, TypeOK, HandsOK, LookUp
  <2>3. CASE Released(w)
    BY <2>3, <1>3 DEF IInv, TypeOK, HandsOK, Released
  <2> QED BY <2>1, <2>2, <2>3
<1> QED BY <1>1, <1>2, <1>4, <1>5 DEF IInv

-----------------------------------------------------------------------------
(* The theorems                                                            *)

LEMMA Invariant == Spec => []IInv
<1>1. Init => IInv
  <2> SUFFICES ASSUME Init PROVE IInv
    OBVIOUS
  <2>1. TypeOK
    BY InitTypes
  <2>2. CreditsCounted
    BY FS_EmptySet, LaneAssumption DEF Init, CreditsCounted
  <2>3. Len(requests) = 0 /\ Len(posted) = 0
    BY EmptySeq DEF Init
  <2>4. QueueUnrun /\ PostedRan
    BY <2>3 DEF Init, QueueUnrun, PostedRan
  <2> QED BY <2>1, <2>2, <2>4 DEF Init, IInv, HandsOK, HandsApart, RanKept
<1>2. IInv /\ [Next]_vars => IInv'
  <2> SUFFICES ASSUME IInv, [Next]_vars PROVE IInv'
    OBVIOUS
  <2>1. ASSUME NEW t \in Token,
               Reserve(t) \/ Submit(t) \/ CancelReservation(t) \/ Acknowledge(t)
        PROVE  IInv'
    BY <2>1, ReserveKeeps, SubmitKeeps, CancelKeeps, AcknowledgeKeeps
  <2>2. ASSUME NEW w \in Worker, Round(w) \/ Post(w)
        PROVE  IInv'
    BY <2>2, TakeKeeps, ExecuteKeeps, PostKeeps, RoundKeeps DEF Round
  <2>3. CASE Handle \/ Close \/ OwnerFails
    BY <2>3, HandleKeeps, CloseKeeps, OwnerFailsKeeps
  <2>4. CASE UNCHANGED vars
    BY <2>4 DEF IInv, TypeOK, CreditsCounted, QueueUnrun, HandsOK, HandsApart, PostedRan,
                RanKept, vars, lane, workers, owner, history
  <2> QED BY <2>1, <2>2, <2>3, <2>4 DEF Next
<1> QED BY <1>1, <1>2, PTL DEF Spec

\* effects.py promises one execution per request: no request runs twice and no
\* worker dies of a missing receipt, whatever is posted again, lost with the
\* owner or acknowledged late.
THEOREM ExecutedOnce == Spec => []RunsOnce
<1>1. IInv => RunsOnce
  BY DEF IInv, HandsOK, RanKept, RunsOnce
<1> QED BY <1>1, Invariant, PTL

\* A request keeps its credit from its execution to its acknowledgement, and no
\* more than Capacity of them are out.
THEOREM CreditsUntilAcknowledged == Spec => []CreditsKept
<1>1. IInv => CreditsKept
  BY DEF IInv, TypeOK, CreditsCounted, RanKept, CreditsKept
<1> QED BY <1>1, Invariant, PTL
===============================================================================
