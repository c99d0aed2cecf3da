---------------------------- MODULE TurnPumpProofs ----------------------------
(***************************************************************************)
(* Proofs about TurnPump, for every set of deliveries, every capacity of   *)
(* the gate, the mailbox and the relay, and every number of attempts and   *)
(* restarts.                                                               *)
(***************************************************************************)
EXTENDS TurnPump, SequenceTheorems, FiniteSetTheorems, WellFoundedInduction, TLAPS

-----------------------------------------------------------------------------
(* The elements of a sequence                                              *)

LEMMA ElementsEmpty == Elements(<<>>) = {}
BY DEF Elements

LEMMA ElementsAppend ==
  ASSUME NEW T, NEW q \in Seq(T), NEW e \in T
  PROVE  /\ Append(q, e) \in Seq(T) /\ Len(Append(q, e)) = Len(q) + 1
         /\ Elements(Append(q, e)) = Elements(q) \cup {e}
<1> DEFINE a == Append(q, e)
           n == Len(q)
<1>1. n \in Nat
  BY LenProperties
<1>2. /\ a \in Seq(T) /\ Len(a) = n + 1
      /\ \A i \in 1..n : a[i] = q[i]
      /\ a[n + 1] = e
  BY AppendProperties
<1> HIDE DEF a, n
<1>3. 1..(n + 1) = 1..n \cup {n + 1}
  BY <1>1
<1>4. {a[i] : i \in 1..(n + 1)} = {a[i] : i \in 1..n} \cup {a[n + 1]}
  BY <1>3
<1>5. {a[i] : i \in 1..n} = {q[i] : i \in 1..n}
  BY <1>2
<1>6. Elements(a) = {a[i] : i \in 1..(n + 1)}
  BY <1>2 DEF Elements
<1>7. Elements(q) = {q[i] : i \in 1..n}
  BY DEF Elements, n
<1>8. Elements(a) = Elements(q) \cup {e}
  BY <1>2, <1>4, <1>5, <1>6, <1>7
<1> QED BY <1>2, <1>8 DEF a, n

LEMMA ElementsTail ==
  ASSUME NEW T, NEW q \in Seq(T), q # <<>>
  PROVE  /\ Tail(q) \in Seq(T) /\ Len(Tail(q)) = Len(q) - 1 /\ Head(q) \in T
         /\ Len(q) \in Nat /\ Len(q) >= 1
         /\ Elements(q) = {Head(q)} \cup Elements(Tail(q))
<1> DEFINE a == Tail(q)
           n == Len(q)
<1>1. n \in Nat /\ n >= 1
  BY LenProperties, EmptySeq
<1>2. /\ a \in Seq(T) /\ Len(a) = n - 1
      /\ \A i \in 1..(n - 1) : a[i] = q[i + 1]
      /\ q[1] = Head(q) /\ Head(q) \in T
  BY HeadTailProperties, <1>1
<1> HIDE DEF a, n
<1>3. {q[i] : i \in 1..n} = {q[1]} \cup {q[i] : i \in 2..n}
  BY <1>1
<1>4. {q[i] : i \in 2..n} = {a[i] : i \in 1..(n - 1)}
  <2>1. \A i \in 1..(n - 1) : i + 1 \in 2..n
    BY <1>1
  <2>2. \A i \in 2..n : i - 1 \in 1..(n - 1) /\ (i - 1) + 1 = i
    BY <1>1
  <2>3. \A i \in 2..n : q[i] = a[i - 1]
    BY <2>2, <1>2
  <2> QED BY <2>1, <2>2, <2>3, <1>2
<1>5. Elements(q) = {q[i] : i \in 1..n} /\ Elements(a) = {a[i] : i \in 1..(n - 1)}
  BY <1>2 DEF Elements, n
<1>6. Elements(q) = {Head(q)} \cup Elements(a)
  BY <1>2, <1>3, <1>4, <1>5
<1> QED BY <1>1, <1>2, <1>6 DEF a, n

LEMMA ElementsConcat ==
  ASSUME NEW T, NEW p \in Seq(T), NEW q \in Seq(T)
  PROVE  /\ p \o q \in Seq(T) /\ Len(p \o q) = Len(p) + Len(q)
         /\ Elements(p \o q) = Elements(p) \cup Elements(q)
<1> DEFINE a == p \o q
           m == Len(p)
           n == Len(q)
<1>1. m \in Nat /\ n \in Nat
  BY LenProperties
<1>2. /\ a \in Seq(T) /\ Len(a) = m + n
      /\ \A i \in 1..(m + n) : a[i] = IF i <= m THEN p[i] ELSE q[i - m]
  BY ConcatProperties
<1> HIDE DEF a, m, n
<1>3. Elements(a) = {a[i] : i \in 1..(m + n)}
  BY <1>2 DEF Elements
<1>4. Elements(p) = {p[i] : i \in 1..m} /\ Elements(q) = {q[i] : i \in 1..n}
  BY DEF Elements, m, n
<1>5. \A i \in 1..m : i \in 1..(m + n) /\ a[i] = p[i]
  BY <1>1, <1>2
<1>6. \A i \in 1..n : i + m \in 1..(m + n) /\ a[i + m] = q[i]
  <2> TAKE i \in 1..n
  <2>1. i + m \in 1..(m + n) /\ ~ (i + m <= m) /\ (i + m) - m = i
    BY <1>1
  <2> QED BY <2>1, <1>2
<1>7. \A i \in 1..(m + n) :
         \/ i \in 1..m /\ a[i] = p[i]
         \/ i - m \in 1..n /\ a[i] = q[i - m]
  <2> TAKE i \in 1..(m + n)
  <2>1. i <= m \/ ~ (i <= m)
    OBVIOUS
  <2>2. CASE i <= m
    BY <2>2, <1>1, <1>5
  <2>3. CASE ~ (i <= m)
    <3>1. i - m \in 1..n
      BY <2>3, <1>1
    <3> QED BY <2>3, <3>1, <1>2
  <2> QED BY <2>1, <2>2, <2>3
<1>8. Elements(a) \subseteq Elements(p) \cup Elements(q)
  BY <1>3, <1>4, <1>7
<1>9. Elements(p) \cup Elements(q) \subseteq Elements(a)
  BY <1>3, <1>4, <1>5, <1>6
<1> QED BY <1>2, <1>8, <1>9 DEF a, m, n

LEMMA ElementsOf ==
  ASSUME NEW T, NEW q \in Seq(T)
  PROVE  Elements(q) \subseteq T
BY LenProperties, ElementOfSeq DEF Elements

-----------------------------------------------------------------------------
(* Sequences without some of their elements                                *)

\* A set of naturals has a least element, ...
LEMMA Smallest ==
  ASSUME NEW T \in SUBSET Nat, T # {}
  PROVE  \E x \in T : \A y \in T : x <= y
<1>1. \E x \in T : \A y \in T : ~ (<<y, x>> \in OpToRel(<, Nat))
  BY WFMin, NatLessThanWellFounded
<1>2. PICK x \in T : \A y \in T : ~ (<<y, x>> \in OpToRel(<, Nat))
  BY <1>1
<1>3. ASSUME NEW y \in T, y < x PROVE FALSE
  <2>1. <<y, x>> \in OpToRel(<, Nat)
    BY <1>3 DEF OpToRel
  <2> QED BY <1>2, <2>1
<1>4. \A y \in T : x <= y
  BY <1>3
<1> QED BY <1>4

\* ... so what holds at 0 and is handed on holds up to n.
LEMMA Induct ==
  ASSUME NEW n \in Nat, NEW P, 0 \in P, \A i \in 0..n : i \in P /\ i < n => i + 1 \in P
  PROVE  0..n \subseteq P
<1> SUFFICES ASSUME ~ (0..n \subseteq P) PROVE FALSE
  OBVIOUS
<1> DEFINE T == (0..n) \ P
<1>0. T \in SUBSET Nat /\ T # {}
  OBVIOUS
<1>1. PICK x \in T : \A y \in T : x <= y
  <2> HIDE DEF T
  <2> QED BY Smallest, <1>0
<1>2. x # 0 /\ x - 1 \in 0..n /\ x - 1 < x /\ x - 1 + 1 = x /\ x \notin P /\ x - 1 < n
  BY <1>1
<1>3. x - 1 \in P
  BY <1>1, <1>2
<1> QED BY <1>2, <1>3

\* What Keeping has kept of the first i elements, ...
KeptStep(f, q, S, i) == IF q[i] \in S THEN Append(f[i - 1], q[i]) ELSE f[i - 1]

KeptSteps(f, q, S, n) ==
   f = [i \in 0..n |-> IF i = 0 THEN <<>> ELSE KeptStep(f, q, S, i)]

\* ... for every i: such a function exists, and Keeping is its last value.
LEMMA KeptExists ==
  ASSUME NEW q, NEW S, NEW n \in Nat
  PROVE  \E f : KeptSteps(f, q, S, n)
<1> DEFINE P == {k \in 0..n : \E f : KeptSteps(f, q, S, k)}
<1>1. 0 \in P
  <2> DEFINE g == [i \in 0..0 |-> <<>>]
  <2>1. g = [i \in 0..0 |-> IF i = 0 THEN <<>> ELSE KeptStep(g, q, S, i)]
    OBVIOUS
  <2>2. KeptSteps(g, q, S, 0)
    BY <2>1 DEF KeptSteps
  <2> QED BY <2>2
<1>2. ASSUME NEW k \in 0..n, k \in P, k < n
      PROVE  k + 1 \in P
  <2>1. PICK f : KeptSteps(f, q, S, k)
    BY <1>2
  <2> DEFINE g == [i \in 0..(k + 1) |-> IF i = k + 1 THEN KeptStep(f, q, S, i) ELSE f[i]]
  <2>2. \A i \in 0..k : g[i] = f[i]
    OBVIOUS
  <2>3. \A i \in 1..(k + 1) : KeptStep(g, q, S, i) = KeptStep(f, q, S, i)
    BY <2>2 DEF KeptStep
  <2>4. \A i \in 0..(k + 1) : g[i] = IF i = 0 THEN <<>> ELSE KeptStep(g, q, S, i)
    <3> TAKE i \in 0..(k + 1)
    <3>1. CASE i = k + 1
      BY <3>1, <2>3
    <3>2. CASE i \in 0..k
      <4>1. f[i] = IF i = 0 THEN <<>> ELSE KeptStep(f, q, S, i)
        BY <3>2, <2>1 DEF KeptSteps
      <4> QED BY <4>1, <3>2, <2>2, <2>3
    <3> QED BY <3>1, <3>2
  <2>5. g = [i \in 0..(k + 1) |-> g[i]]
    OBVIOUS
  <2>6. KeptSteps(g, q, S, k + 1)
    <3> HIDE DEF g
    <3> QED BY <2>4, <2>5 DEF KeptSteps
  <2>7. k + 1 \in 0..n
    BY <1>2
  <2> QED BY <2>6, <2>7
<1>3. n \in P
  <2> HIDE DEF P
  <2> QED BY <1>1, <1>2, Induct
<1> QED BY <1>3

LEMMA KeepingSteps ==
  ASSUME NEW q, NEW S, Len(q) \in Nat
  PROVE  \E f : KeptSteps(f, q, S, Len(q)) /\ Keeping(q, S) = f[Len(q)]
<1> DEFINE kept == CHOOSE f : f = [i \in 0..Len(q) |->
                     IF i = 0 THEN <<>>
                     ELSE IF q[i] \in S THEN Append(f[i - 1], q[i]) ELSE f[i - 1]]
<1>1. PICK f : KeptSteps(f, q, S, Len(q))
  BY KeptExists
<1>2. f = [i \in 0..Len(q) |->
             IF i = 0 THEN <<>>
             ELSE IF q[i] \in S THEN Append(f[i - 1], q[i]) ELSE f[i - 1]]
  BY <1>1 DEF KeptSteps, KeptStep
<1>3. kept = [i \in 0..Len(q) |->
                IF i = 0 THEN <<>>
                ELSE IF q[i] \in S THEN Append(kept[i - 1], q[i]) ELSE kept[i - 1]]
  BY <1>2
<1>4. KeptSteps(kept, q, S, Len(q))
  <2> HIDE DEF kept
  <2> QED BY <1>3 DEF KeptSteps, KeptStep
<1>5. Keeping(q, S) = kept[Len(q)]
  BY DEF Keeping
<1> QED BY <1>4, <1>5

\* What is kept is a sequence of the same kind, no longer, with the elements of q
\* that are in S.
LEMMA KeepingProperties ==
  ASSUME NEW T, NEW q \in Seq(T), NEW S
  PROVE  /\ Keeping(q, S) \in Seq(T)
         /\ Len(Keeping(q, S)) <= Len(q)
         /\ Elements(Keeping(q, S)) = Elements(q) \cap S
<1> DEFINE n == Len(q)
<1>1. n \in Nat /\ \A i \in 1..n : q[i] \in T
  BY LenProperties, ElementOfSeq
<1>2. PICK f : KeptSteps(f, q, S, n) /\ Keeping(q, S) = f[n]
  BY <1>1, KeepingSteps
<1>3. /\ f[0] = <<>>
      /\ \A i \in 0..n : i < n =>
            f[i + 1] = IF q[i + 1] \in S THEN Append(f[i], q[i + 1]) ELSE f[i]
  <2>1. \A i \in 0..n : f[i] = IF i = 0 THEN <<>> ELSE KeptStep(f, q, S, i)
    BY <1>2 DEF KeptSteps
  <2>2. f[0] = <<>>
    BY <2>1, <1>1
  <2>3. \A i \in 0..n : i < n => i + 1 \in 0..n /\ i + 1 # 0 /\ (i + 1) - 1 = i
    BY <1>1
  <2> QED BY <2>1, <2>2, <2>3 DEF KeptStep
<1> DEFINE P == {k \in 0..n : /\ f[k] \in Seq(T) /\ Len(f[k]) <= k
                              /\ Elements(f[k]) = {q[i] : i \in 1..k} \cap S}
<1> HIDE DEF n
<1>4. 0 \in P
  <2>1. f[0] \in Seq(T) /\ Len(f[0]) <= 0
    BY <1>3, EmptySeq
  <2>2. {q[i] : i \in 1..0} = {}
    OBVIOUS
  <2>3. Elements(f[0]) = {q[i] : i \in 1..0} \cap S
    BY <1>3, <2>2, ElementsEmpty
  <2>4. 0 \in 0..n
    BY <1>1
  <2> QED BY <2>1, <2>3, <2>4
<1>5. ASSUME NEW k \in 0..n, k \in P, k < n
      PROVE  k + 1 \in P
  <2>1. f[k] \in Seq(T) /\ Len(f[k]) <= k /\ Elements(f[k]) = {q[i] : i \in 1..k} \cap S
    BY <1>5
  <2>2. k + 1 \in 1..n /\ q[k + 1] \in T /\ k + 1 \in 0..n
    BY <1>1, <1>5
  <2>3. {q[i] : i \in 1..(k + 1)} = {q[i] : i \in 1..k} \cup {q[k + 1]}
    OBVIOUS
  <2> SUFFICES /\ f[k + 1] \in Seq(T) /\ Len(f[k + 1]) <= k + 1
               /\ Elements(f[k + 1]) = {q[i] : i \in 1..(k + 1)} \cap S
    BY <2>2
  <2> HIDE DEF P
  <2>4. CASE q[k + 1] \in S
    <3>1. f[k + 1] = Append(f[k], q[k + 1])
      BY <1>3, <1>5, <2>4
    <3>2. /\ f[k + 1] \in Seq(T) /\ Len(f[k + 1]) = Len(f[k]) + 1
          /\ Elements(f[k + 1]) = Elements(f[k]) \cup {q[k + 1]}
      BY <2>1, <2>2, <3>1, ElementsAppend
    <3>3. Len(f[k + 1]) <= k + 1
      BY <2>1, <3>2, LenProperties
    <3>4. Elements(f[k + 1]) = {q[i] : i \in 1..(k + 1)} \cap S
      BY <2>1, <2>3, <2>4, <3>2
    <3> QED BY <3>2, <3>3, <3>4
  <2>5. CASE q[k + 1] \notin S
    <3>1. f[k + 1] = f[k]
      BY <1>3, <1>5, <2>5
    <3>2. Len(f[k + 1]) <= k + 1
      BY <2>1, <3>1, LenProperties
    <3>3. Elements(f[k + 1]) = {q[i] : i \in 1..(k + 1)} \cap S
      BY <2>1, <2>3, <2>5, <3>1
    <3> QED BY <2>1, <3>1, <3>2, <3>3
  <2> QED BY <2>4, <2>5
<1>6. 0..n \subseteq P
  <2> HIDE DEF P
  <2>1. \A k \in 0..n : k \in P /\ k < n => k + 1 \in P
    BY <1>5
  <2> QED BY <1>1, <1>4, <2>1, Induct
<1>7. Elements(q) = {q[i] : i \in 1..n}
  BY DEF Elements, n
<1>8. n \in P
  BY <1>1, <1>6
<1>9. f[n] \in Seq(T) /\ Len(f[n]) <= n /\ Elements(f[n]) = {q[i] : i \in 1..n} \cap S
  BY <1>8
<1> QED BY <1>2, <1>7, <1>9 DEF n

-----------------------------------------------------------------------------
(* Types                                                                   *)

Some(on) == \E d \in Delivery : on = {d}

\* What the type of a step needs besides: a request in the slot is of a generation
\* there is, and an actor that is to be restarted has a restart left.
TypeInv ==
  /\ TypeOK
  /\ \A i \in 1..Len(slot) : slot[i] # Stop => slot[i].gen \in Gen /\ Some(slot[i].on)
  /\ status = "pending" => generation <= MaxRestarts

GateOK ==
  /\ remembered \in Seq(Delivery) /\ Len(remembered) <= Capacity
  /\ submitting \subseteq Delivery /\ closing \in BOOLEAN

MailboxOK == mailbox \in Seq(Messages) /\ Len(mailbox) <= Capacity

RelayOK == relay \in Seq(Messages) /\ Len(relay) <= RelaySize

TurnOK ==
  /\ current \subseteq Delivery /\ pending \in Seq(Delivery) /\ inFlight \subseteq Delivery
  /\ status \in {"running", "failing", "pending", "built", "quarantined"}
  /\ slot \in Seq(Requests) /\ Len(slot) <= 1
  /\ \A i \in 1..Len(slot) : slot[i] # Stop => slot[i].gen \in Gen /\ Some(slot[i].on)
  /\ status = "pending" => generation <= MaxRestarts

ShardOK ==
  /\ announce \in BOOLEAN /\ generation \in Gen
  /\ attempts \in [Delivery -> 0..MaxAttempts]
  /\ shutting \in BOOLEAN /\ recovering \in BOOLEAN /\ recovery \in Seq(Delivery)
  /\ results \in Seq(Delivery)

WorkOK ==
  /\ pc \in {"connecting", "idle", "checking", "asking", "running", "finished", "failing", "dead"}
  /\ work \subseteq [gen : Gen, on : SUBSET Delivery, tries : Nat]
  /\ pc \in {"checking", "asking", "running", "finished", "failing"} => work # {}
  /\ decision \in {"none", "retry", "abandon"} /\ stopping \in BOOLEAN
  /\ activeGen \in 0..(MaxRestarts + 1) /\ active \in BOOLEAN /\ aborted \subseteq Gen

AbortsOK ==
  /\ aborts \subseteq [gen : Gen, on : SUBSET Delivery, how : {"latched", "interrupt"}]
  /\ steering \subseteq Requests /\ killed \in BOOLEAN /\ folded \subseteq Delivery

LEMMA TypeParts ==
  TypeInv <=> /\ GateOK /\ MailboxOK /\ RelayOK /\ TurnOK /\ ShardOK /\ WorkOK /\ AbortsOK
              /\ ready \subseteq Requests
BY DEF TypeInv, TypeOK, ActorOK, PumpOK, GateOK, MailboxOK, RelayOK, TurnOK, ShardOK, WorkOK,
       AbortsOK

LEMMA TypePartsNext ==
  TypeInv' <=> /\ GateOK' /\ MailboxOK' /\ RelayOK' /\ TurnOK' /\ ShardOK' /\ WorkOK' /\ AbortsOK'
               /\ ready' \subseteq Requests
BY DEF TypeInv, TypeOK, ActorOK, PumpOK, GateOK, MailboxOK, RelayOK, TurnOK, ShardOK, WorkOK,
       AbortsOK

LEMMA Limits ==
  /\ Capacity \in Nat /\ Capacity >= 1 /\ RelaySize \in Nat /\ RelaySize >= 1
  /\ MaxAttempts \in Nat /\ MaxAttempts >= 1 /\ MaxRestarts \in Nat
  /\ Gen \subseteq Nat /\ Gen \subseteq 0..(MaxRestarts + 1) /\ 0 \notin Gen /\ 1 \in Gen
  /\ 0 \in 0..(MaxRestarts + 1)
BY LimitsAssumption DEF Gen

\* A command of a mailbox is a message; so is what is left of it.
LEMMA ReceiveOK ==
  ASSUME TypeInv, NEW kind, Receive(kind)
  PROVE  /\ Head(mailbox) \in Messages /\ Head(mailbox).kind = kind
         /\ MailboxOK' /\ mailbox # <<>> /\ mailbox \in Seq(Messages) /\ Alive
         /\ Elements(mailbox) = {Head(mailbox)} \cup Elements(mailbox')
         /\ mailbox' \in Seq(Messages) /\ Len(mailbox') = Len(mailbox) - 1
         /\ Head(mailbox).on \subseteq Delivery /\ Head(mailbox).gen \in 0..(MaxRestarts + 1)
<1>1. mailbox \in Seq(Messages) /\ Len(mailbox) <= Capacity
  BY DEF TypeInv, TypeOK, ActorOK
<1>2. mailbox # <<>> /\ Head(mailbox).kind = kind /\ mailbox' = Tail(mailbox) /\ Alive
  BY DEF Receive
<1>3. /\ Tail(mailbox) \in Seq(Messages) /\ Len(Tail(mailbox)) = Len(mailbox) - 1
      /\ Head(mailbox) \in Messages /\ Len(mailbox) \in Nat
      /\ Elements(mailbox) = {Head(mailbox)} \cup Elements(Tail(mailbox))
  BY <1>1, <1>2, ElementsTail
<1>4. Len(Tail(mailbox)) <= Capacity
  BY <1>1, <1>3, Limits
<1>5. Head(mailbox).on \subseteq Delivery /\ Head(mailbox).gen \in 0..(MaxRestarts + 1)
  BY <1>3 DEF Messages
<1> QED BY <1>1, <1>2, <1>3, <1>4, <1>5 DEF MailboxOK

LEMMA RequestOK ==
  ASSUME NEW g \in Gen, NEW on \in SUBSET Delivery
  PROVE  /\ [gen |-> g, on |-> on] \in Requests /\ {[gen |-> g, on |-> on]} \in SUBSET Requests
         /\ \A kind, yes : Msg(kind, g, on, yes) = [kind |-> kind, gen |-> g, on |-> on, yes |-> yes]
         /\ g \in 0..(MaxRestarts + 1)
<1>1. g \in 0..(MaxRestarts + 1)
  BY Limits
<1>2. [gen |-> g, on |-> on] \in Requests
  BY <1>1 DEF Requests
<1> QED BY <1>1, <1>2 DEF Msg

LEMMA AppendRelay ==
  ASSUME RelayOK, RelayRoom, NEW m \in Messages, relay' = Append(relay, m)
  PROVE  RelayOK' /\ Elements(relay') = Elements(relay) \cup {m}
<1>1. /\ Append(relay, m) \in Seq(Messages) /\ Len(Append(relay, m)) = Len(relay) + 1
      /\ Elements(Append(relay, m)) = Elements(relay) \cup {m}
  BY ElementsAppend DEF RelayOK
<1>2. Len(relay) \in Nat /\ Len(relay) < RelaySize
  BY LenProperties DEF RelayOK, RelayRoom
<1> QED BY <1>1, <1>2, Limits DEF RelayOK

LEMMA AppendMailbox ==
  ASSUME MailboxOK, MailboxRoom, NEW m \in Messages, mailbox' = Append(mailbox, m)
  PROVE  MailboxOK' /\ Elements(mailbox') = Elements(mailbox) \cup {m}
<1>1. /\ Append(mailbox, m) \in Seq(Messages) /\ Len(Append(mailbox, m)) = Len(mailbox) + 1
      /\ Elements(Append(mailbox, m)) = Elements(mailbox) \cup {m}
  BY ElementsAppend DEF MailboxOK
<1>2. Len(mailbox) \in Nat /\ Len(mailbox) < Capacity
  BY LenProperties DEF MailboxOK, MailboxRoom
<1> QED BY <1>1, <1>2, Limits DEF MailboxOK

\* The recovery notice is a message, and what is ready is kept as it is.
LEMMA RecoverOK ==
  ASSUME TypeInv, NEW r \in SUBSET Requests, Recover(r)
  PROVE  /\ RelayOK' /\ ready' \subseteq Requests
         /\ \E more \in SUBSET Messages :
               /\ Elements(relay') = Elements(relay) \cup more
               /\ \A m \in more : m.kind = "ready" /\ m.gen = generation
<1>1. RelayOK /\ generation \in Gen
  BY TypeParts DEF ShardOK
<1>2. CASE /\ \E a \in r : generation > a.gen /\ RelayRoom
                           /\ relay' = Append(relay, Msg("ready", generation, a.on, TRUE))
           /\ ready' = {}
  <2>1. PICK a \in r : /\ RelayRoom
                       /\ relay' = Append(relay, Msg("ready", generation, a.on, TRUE))
    BY <1>2
  <2> DEFINE m == Msg("ready", generation, a.on, TRUE)
  <2>2. m \in Messages /\ m.kind = "ready" /\ m.gen = generation
    BY <1>1, Limits DEF Msg, Messages, Requests
  <2>3. RelayOK' /\ Elements(relay') = Elements(relay) \cup {m}
    <3> HIDE DEF m
    <3> QED BY <1>1, <2>1, <2>2, AppendRelay DEF m
  <2>4. {m} \in SUBSET Messages /\ \A n \in {m} : n.kind = "ready" /\ n.gen = generation
    BY <2>2
  <2>5. ready' \subseteq Requests
    BY <1>2
  <2> HIDE DEF m
  <2> QED BY <2>3, <2>4, <2>5
<1>3. CASE ready' = r /\ relay' = relay
  <2>1. Elements(relay') = Elements(relay) \cup {}
    BY <1>3
  <2>2. RelayOK' /\ ready' \subseteq Requests
    BY <1>1, <1>3 DEF RelayOK
  <2>3. {} \in SUBSET Messages /\ \A m \in {} : m.kind = "ready" /\ m.gen = generation
    OBVIOUS
  <2> QED BY <2>1, <2>2, <2>3
<1> QED BY <1>2, <1>3 DEF Recover

\* A start takes the first of the queue into the slot.
LEMMA StartOK ==
  ASSUME TypeInv, NEW q \in Seq(Delivery), NEW blocked \in BOOLEAN, Start(q, blocked), Alive
  PROVE  TurnOK'
<1>1. TurnOK /\ generation \in Gen
  BY TypeParts DEF ShardOK
<1>2. CASE pending' = q /\ NoTurn /\ UNCHANGED <<slot, status>>
  BY <1>1, <1>2 DEF TurnOK, NoTurn, Alive
<1>3. CASE /\ q # <<>>
           /\ pending' = Tail(q) /\ current' = {Head(q)} /\ inFlight' = {Head(q)}
           /\ slot' = IF slot = <<>> THEN <<Request(generation, Head(q))>> ELSE slot
           /\ status' = IF slot = <<>> THEN status ELSE "failing"
  <2>1. Tail(q) \in Seq(Delivery) /\ Head(q) \in Delivery
    BY <1>3, ElementsTail
  <2> DEFINE r == Request(generation, Head(q))
  <2>2. r \in Requests /\ r.gen \in Gen /\ Some(r.on)
    BY <1>1, <2>1, Limits DEF Request, Requests, Some
  <2>3. slot' \in Seq(Requests) /\ Len(slot') <= 1
        /\ \A i \in 1..Len(slot') : slot'[i] # Stop => slot'[i].gen \in Gen /\ Some(slot'[i].on)
    <3> HIDE DEF r
    <3>1. CASE slot = <<>>
      <4>1. slot' = <<r>>
        BY <1>3, <3>1 DEF r
      <4>2. slot' \in Seq(Requests) /\ Len(slot') = 1 /\ slot'[1] = r
        BY <2>2, <4>1
      <4> QED BY <2>2, <4>2
    <3>2. CASE slot # <<>>
      BY <1>1, <1>3, <3>2 DEF TurnOK
    <3> QED BY <3>1, <3>2
  <2>4. status' \in {"running", "failing"}
    BY <1>3 DEF Alive
  <2> QED BY <1>3, <2>1, <2>3, <2>4 DEF TurnOK
<1> QED BY <1>2, <1>3 DEF Start

\* The slot holds one request at most.
LEMMA SlotHead ==
  ASSUME TypeInv, slot # <<>>
  PROVE  /\ Head(slot) \in Requests /\ slot[1] = Head(slot) /\ Len(slot) = 1
         /\ Head(slot) # Stop => Head(slot).gen \in Gen /\ Some(Head(slot).on)
<1>1. slot \in Seq(Requests) /\ Len(slot) <= 1
  BY TypeParts DEF TurnOK
<1>2. /\ Head(slot) \in Requests /\ Len(slot) \in Nat /\ Len(slot) >= 1
      /\ slot[1] = Head(slot)
  BY <1>1, ElementsTail, HeadTailProperties
<1>3. Len(slot) = 1 /\ 1 \in 1..Len(slot)
  <2>1. \A n \in Nat : n <= 1 /\ n >= 1 => n = 1 /\ 1 \in 1..n
    OBVIOUS
  <2> QED BY <1>1, <1>2, <2>1
<1>4. slot[1] # Stop => slot[1].gen \in Gen /\ Some(slot[1].on)
  BY <1>3, TypeParts DEF TurnOK
<1> QED BY <1>2, <1>3, <1>4

LEMMA KeepingOK ==
  ASSUME NEW q \in Seq(Delivery), NEW S
  PROVE  /\ Keeping(q, S) \in Seq(Delivery) /\ Len(Keeping(q, S)) \in Nat
         /\ Len(Keeping(q, S)) <= Len(q) /\ Len(q) \in Nat
BY KeepingProperties, LenProperties

\* A variable a step leaves alone keeps its type.
LEMMA TypeFrames ==
  ASSUME TypeInv
  PROVE  /\ UNCHANGED <<remembered, submitting, closing>> => GateOK'
         /\ UNCHANGED mailbox => MailboxOK'
         /\ UNCHANGED relay => RelayOK'
         /\ UNCHANGED <<current, pending, inFlight, status, slot, generation>> => TurnOK'
         /\ UNCHANGED <<announce, generation, attempts, shutting, recovering, recovery,
                        results>> => ShardOK'
         /\ UNCHANGED <<pc, work, decision, stopping, activeGen, active, aborted>> => WorkOK'
         /\ UNCHANGED <<aborts, steering, killed, folded>> => AbortsOK'
         /\ UNCHANGED ready => ready' \subseteq Requests
<1>1. UNCHANGED <<remembered, submitting, closing>> => GateOK'
  BY TypeParts DEF GateOK
<1>2. UNCHANGED mailbox => MailboxOK'
  BY TypeParts DEF MailboxOK
<1>3. UNCHANGED relay => RelayOK'
  BY TypeParts DEF RelayOK
<1>4. UNCHANGED <<current, pending, inFlight, status, slot, generation>> => TurnOK'
  BY TypeParts DEF TurnOK
<1>5. UNCHANGED <<announce, generation, attempts, shutting, recovering, recovery,
                  results>> => ShardOK'
  BY TypeParts DEF ShardOK
<1>6. UNCHANGED <<pc, work, decision, stopping, activeGen, active, aborted>> => WorkOK'
  BY TypeParts DEF WorkOK
<1>7. UNCHANGED <<aborts, steering, killed, folded>> => AbortsOK'
  BY TypeParts DEF AbortsOK
<1>8. UNCHANGED ready => ready' \subseteq Requests
  BY TypeParts
<1> QED BY <1>1, <1>2, <1>3, <1>4, <1>5, <1>6, <1>7, <1>8

\* Every step of the callers keeps the types, ...
LEMMA CallersKeepTypes == ASSUME TypeInv, CallerStep PROVE TypeInv'
<1> USE DEF callers, actor, shard, facts, io, native
<1>0. /\ GateOK /\ MailboxOK /\ RelayOK /\ TurnOK /\ ShardOK /\ WorkOK /\ AbortsOK
      /\ ready \subseteq Requests
  BY TypeParts
<1>1. ASSUME NEW d \in Delivery, Admit(d) PROVE TypeInv'
  <2>1. /\ Append(remembered, d) \in Seq(Delivery)
        /\ Len(Append(remembered, d)) = Len(remembered) + 1 /\ Len(remembered) \in Nat
    BY <1>0, ElementsAppend, LenProperties DEF GateOK
  <2>2. GateOK'
    BY <1>0, <1>1, <2>1, Limits DEF GateOK, Admit, Refused
  <2> QED BY <1>1, <2>2, TypeFrames, TypePartsNext DEF Admit
<1>2. ASSUME NEW d \in Delivery, Tell(d) PROVE TypeInv'
  <2>1. Msg("enqueue", 0, {d}, TRUE) \in Messages
    BY Limits DEF Msg, Messages
  <2>2. MailboxOK'
    BY <1>0, <1>2, <2>1, AppendMailbox, TypeFrames DEF Tell
  <2>3. remembered' \in Seq(Delivery) /\ Len(remembered') <= Capacity
    <3>1. remembered \in Seq(Delivery) /\ Len(remembered) <= Capacity
      BY <1>0 DEF GateOK
    <3>2. remembered' \in {remembered, Keeping(remembered, Delivery \ {d})}
      BY <1>2 DEF Tell, Without
    <3> QED BY <3>1, <3>2, KeepingOK, Limits
  <2>4. GateOK'
    BY <1>0, <1>2, <2>3 DEF Tell, GateOK
  <2> QED BY <1>2, <2>2, <2>4, TypeFrames, TypePartsNext DEF Tell
<1>3. ASSUME NEW d \in Delivery, AskSteer(d) PROVE TypeInv'
  <2>1. Msg("steer", 0, {d}, TRUE) \in Messages
    BY Limits DEF Msg, Messages
  <2>2. MailboxOK'
    BY <1>0, <1>3, <2>1, AppendMailbox DEF AskSteer
  <2> QED BY <1>3, <2>2, TypeFrames, TypePartsNext DEF AskSteer
<1>4. CASE AskClose
  <2>1. Msg("close", 0, {}, TRUE) \in Messages
    BY Limits DEF Msg, Messages
  <2>2. MailboxOK'
    BY <1>0, <1>4, <2>1, AppendMailbox, TypeFrames DEF AskClose
  <2>3. GateOK'
    BY <1>0, <1>4 DEF AskClose, GateOK
  <2> QED BY <1>4, <2>2, <2>3, TypeFrames, TypePartsNext DEF AskClose
<1>5. CASE Drain
  <2>1. remembered' \in Seq(Delivery) /\ Len(remembered') <= Capacity
    <3>1. remembered \in Seq(Delivery) /\ Len(remembered) <= Capacity
      BY <1>0 DEF GateOK
    <3>2. remembered' = Keeping(remembered, Delivery \ {Head(results)})
      BY <1>5 DEF Drain, Without
    <3> QED BY <3>1, <3>2, KeepingOK, Limits
  <2>2. GateOK'
    BY <1>0, <1>5, <2>1 DEF Drain, GateOK
  <2>3. results' \in Seq(Delivery)
    BY <1>0, <1>5, ElementsTail DEF Drain, ShardOK
  <2>4. ShardOK'
    BY <1>0, <1>5, <2>3 DEF Drain, ShardOK
  <2>5. TurnOK'
    BY <1>5, TypeFrames DEF Drain
  <2> QED BY <1>5, <2>2, <2>4, <2>5, TypeFrames, TypePartsNext DEF Drain
<1> QED BY CallerStep, <1>1, <1>2, <1>3, <1>4, <1>5 DEF CallerStep

\* ... every command the actor handles, ...
LEMMA HandleKeepsTypes == ASSUME TypeInv, Handle PROVE TypeInv'
<1> USE DEF callers, actor, shard, facts, io, native
<1>0. /\ GateOK /\ MailboxOK /\ RelayOK /\ TurnOK /\ ShardOK /\ WorkOK /\ AbortsOK
      /\ ready \subseteq Requests
  BY TypeParts
<1>00. Alive => status = "running"
  BY DEF Alive
<1>1. CASE Enqueue
  <2>1. MailboxOK' /\ Alive /\ Head(mailbox).on \subseteq Delivery
    BY <1>1, ReceiveOK DEF Enqueue
  <2>2. PICK d \in Head(mailbox).on :
       \/ /\ shutting
          /\ UNCHANGED <<current, pending, inFlight, slot, status>>
       \/ /\ ~ shutting /\ (recovering \/ current # {})
          /\ pending' = Append(pending, d)
          /\ UNCHANGED <<current, inFlight, slot, status>>
       \/ /\ ~ shutting /\ ~ recovering /\ current = {}
          /\ Start(<<d>> \o pending, FALSE)
    BY <1>1 DEF Enqueue
  <2>3. d \in Delivery
    BY <2>1, <2>2
  <2>4. TurnOK'
    <3>1. CASE UNCHANGED <<current, pending, inFlight, slot, status>>
      BY <1>1, <3>1, TypeFrames DEF Enqueue
    <3>2. CASE pending' = Append(pending, d) /\ UNCHANGED <<current, inFlight, slot, status>>
      BY <1>0, <1>1, <2>3, <3>2, ElementsAppend DEF Enqueue, TurnOK
    <3>3. CASE Start(<<d>> \o pending, FALSE)
      <4>1. <<d>> \in Seq(Delivery) /\ pending \in Seq(Delivery)
        BY <1>0, <2>3 DEF TurnOK
      <4>2. <<d>> \o pending \in Seq(Delivery)
        BY <4>1, ElementsConcat
      <4> QED BY <2>1, <3>3, <4>2, StartOK
    <3> QED BY <2>2, <3>1, <3>2, <3>3
  <2> QED BY <1>1, <2>1, <2>4, TypeFrames, TypePartsNext DEF Enqueue
<1>2. CASE Complete
  <2>1. MailboxOK' /\ Alive /\ Head(mailbox).on \subseteq Delivery
    BY <1>2, ReceiveOK DEF Complete
  <2>2. CASE UNCHANGED <<status, current, pending, attempts, facts, slot>>
    BY <1>2, <2>1, <2>2, TypeFrames, TypePartsNext DEF Complete
  <2>3. CASE /\ \E d \in Head(mailbox).on :
                   /\ results' = Append(results, d)
                   /\ attempts' = [attempts EXCEPT ![d] = 0]
             /\ Start(pending, shutting)
    <3>1. TurnOK'
      BY <1>0, <2>1, <2>3, StartOK DEF TurnOK, ShardOK
    <3>2. results' \in Seq(Delivery)
      BY <1>0, <2>1, <2>3, ElementsAppend DEF ShardOK
    <3>3. attempts' \in [Delivery -> 0..MaxAttempts]
      BY <1>0, <2>1, <2>3, Limits DEF ShardOK
    <3>4. ShardOK'
      BY <1>0, <1>2, <3>2, <3>3 DEF Complete, ShardOK
    <3> QED BY <1>2, <2>1, <3>1, <3>4, TypeFrames, TypePartsNext DEF Complete
  <2> QED BY <1>2, <2>2, <2>3 DEF Complete
<1>3. CASE Fail
  <2>1. MailboxOK' /\ Alive /\ Head(mailbox).on \subseteq Delivery
    BY <1>3, ReceiveOK DEF Fail
  <2>2. decision' \in {decision, "retry", "abandon"}
    BY <1>3 DEF Fail
  <2>3. WorkOK'
    BY <1>0, <1>3, <2>2 DEF Fail, WorkOK
  <2>4. CASE UNCHANGED <<status, current, pending, attempts, facts, slot, decision>>
    BY <1>3, <2>1, <2>3, <2>4, TypeFrames, TypePartsNext DEF Fail
  <2>5. CASE \E d \in Head(mailbox).on :
                /\ Retries(Head(mailbox), attempts[d] + 1)
                /\ attempts' = [attempts EXCEPT ![d] = @ + 1]
                /\ UNCHANGED <<status, current, pending, facts, slot>>
    <3>1. attempts' \in [Delivery -> 0..MaxAttempts]
      BY <1>0, <2>1, <2>5, Limits DEF ShardOK, Retries
    <3>2. ShardOK'
      BY <1>0, <1>3, <2>5, <3>1 DEF Fail, ShardOK
    <3>3. TurnOK'
      BY <1>3, <2>5, TypeFrames DEF Fail
    <3> QED BY <1>3, <2>1, <2>3, <3>2, <3>3, TypeFrames, TypePartsNext DEF Fail
  <2>6. CASE \E d \in Head(mailbox).on :
                /\ attempts' = [attempts EXCEPT ![d] = 0]
                /\ results' = Append(results, d)
                /\ Start(pending, shutting)
    <3>1. TurnOK'
      BY <1>0, <2>1, <2>6, StartOK DEF TurnOK, ShardOK
    <3>2. results' \in Seq(Delivery)
      BY <1>0, <2>1, <2>6, ElementsAppend DEF ShardOK
    <3>3. attempts' \in [Delivery -> 0..MaxAttempts]
      BY <1>0, <2>1, <2>6, Limits DEF ShardOK
    <3>4. ShardOK'
      BY <1>0, <1>3, <3>2, <3>3 DEF Fail, ShardOK
    <3> QED BY <1>3, <2>1, <2>3, <3>1, <3>4, TypeFrames, TypePartsNext DEF Fail
  <2> QED BY <1>3, <2>4, <2>5, <2>6 DEF Fail
<1>4. CASE Steer
  <2>1. MailboxOK' /\ Head(mailbox).on \subseteq Delivery
    BY <1>4, ReceiveOK DEF Steer
  <2>2. [gen |-> generation, on |-> Head(mailbox).on] \in Requests
    BY <1>0, <2>1, Limits DEF ShardOK, Requests
  <2>3. AbortsOK'
    BY <1>0, <1>4, <2>2 DEF Steer, AbortsOK
  <2> QED BY <1>4, <2>1, <2>3, TypeFrames, TypePartsNext DEF Steer
<1>5. CASE Steered
  <2>1. MailboxOK' /\ Head(mailbox).on \subseteq Delivery
    BY <1>5, ReceiveOK DEF Steered
  <2>2. pending' \in Seq(Delivery)
    BY <1>0, <1>5, KeepingOK DEF Steered, TurnOK
  <2>3. folded' \subseteq Delivery
    BY <1>0, <1>5, <2>1 DEF Steered, AbortsOK
  <2>4. TurnOK'
    BY <1>0, <1>5, <2>2 DEF Steered, TurnOK
  <2>5. AbortsOK'
    BY <1>0, <1>5, <2>3 DEF Steered, AbortsOK
  <2> QED BY <1>5, <2>1, <2>4, <2>5, TypeFrames, TypePartsNext DEF Steered
<1>6. CASE Recovered
  <2>1. MailboxOK' /\ Alive
    BY <1>6, ReceiveOK DEF Recovered
  <2>2. CASE UNCHANGED <<status, current, pending, recovering, recovery, facts, slot>>
    BY <1>6, <2>1, <2>2, TypeFrames, TypePartsNext DEF Recovered
  <2>3. CASE /\ recovering' = FALSE /\ recovery' = <<>>
             /\ results' = results \o Keeping(recovery, Head(mailbox).on)
             /\ Start(Keeping(recovery, Delivery \ Head(mailbox).on) \o pending, shutting)
    <3>1. /\ Keeping(recovery, Head(mailbox).on) \in Seq(Delivery)
          /\ Keeping(recovery, Delivery \ Head(mailbox).on) \in Seq(Delivery)
      BY <1>0, KeepingOK DEF ShardOK
    <3>2. results' \in Seq(Delivery)
      BY <1>0, <2>3, <3>1, ElementsConcat DEF ShardOK
    <3>3. Keeping(recovery, Delivery \ Head(mailbox).on) \o pending \in Seq(Delivery)
      BY <1>0, <3>1, ElementsConcat DEF TurnOK
    <3>4. TurnOK'
      BY <1>0, <2>1, <2>3, <3>3, StartOK DEF ShardOK
    <3>5. ShardOK'
      BY <1>0, <1>6, <2>3, <3>2, EmptySeq DEF Recovered, ShardOK
    <3> QED BY <1>6, <2>1, <3>4, <3>5, TypeFrames, TypePartsNext DEF Recovered
  <2> QED BY <1>6, <2>2, <2>3 DEF Recovered
<1>7. CASE Close
  <2>1. MailboxOK' /\ Alive
    BY <1>7, ReceiveOK DEF Close
  <2>2. Stop \in Requests
    BY Limits DEF Stop, Requests
  <2>3. slot' \in Seq(Requests) /\ Len(slot') <= 1
        /\ \A i \in 1..Len(slot') : slot'[i] # Stop => slot'[i].gen \in Gen /\ Some(slot'[i].on)
    <3>1. CASE slot' = <<Stop>>
      <4>1. slot' \in Seq(Requests) /\ Len(slot') = 1 /\ slot'[1] = Stop
        BY <2>2, <3>1
      <4> QED BY <4>1
    <3>2. CASE slot' = slot
      BY <1>0, <3>2 DEF TurnOK
    <3> QED BY <1>7, <3>1, <3>2 DEF Close
  <2>4. TurnOK'
    BY <1>0, <1>7, <2>3 DEF Close, TurnOK
  <2>5. ShardOK' /\ WorkOK'
    BY <1>0, <1>7 DEF Close, ShardOK, WorkOK
  <2> QED BY <1>7, <2>1, <2>4, <2>5, TypeFrames, TypePartsNext DEF Close
<1> QED BY <1>1, <1>2, <1>3, <1>4, <1>5, <1>6, <1>7 DEF Handle

\* ... every other step of the actor, ...
LEMMA ActorKeepsTypes == ASSUME TypeInv, ActorStep PROVE TypeInv'
<1> USE DEF callers, actor, shard, facts, io, native
<1>0. /\ GateOK /\ MailboxOK /\ RelayOK /\ TurnOK /\ ShardOK /\ WorkOK /\ AbortsOK
      /\ ready \subseteq Requests
  BY TypeParts
<1>1. CASE Raise
  <2>1. TurnOK'
    BY <1>0, <1>1 DEF Raise, TurnOK
  <2> QED BY <1>1, <2>1, TypeFrames, TypePartsNext DEF Raise
<1>2. CASE Failed
  <2>1. inFlight \subseteq Delivery /\ generation \in Gen
    BY <1>0 DEF TurnOK, ShardOK
  <2>2. RelayOK' /\ ready' \subseteq Requests
    <3>1. CASE Recover({[gen |-> generation, on |-> inFlight]})
      <4>1. {[gen |-> generation, on |-> inFlight]} \in SUBSET Requests
        BY <2>1, RequestOK
      <4> QED BY <3>1, <4>1, RecoverOK
    <3> QED BY <1>2, <3>1, TypeFrames DEF Failed
  <2>3. AbortsOK'
    BY <1>0, <1>2, <2>1 DEF Failed, AbortsOK
  <2>4. WorkOK'
    BY <1>0, <1>2, <2>1 DEF Failed, WorkOK
  <2>5. MailboxOK'
    <3>1. <<>> \in Seq(Messages) /\ Len(<<>>) <= Capacity
      BY EmptySeq, Limits
    <3> QED BY <1>2, <3>1, TypeFrames DEF Failed, MailboxOK
  <2>6. status' = "pending" => generation' <= MaxRestarts
    <3>1. generation' = generation /\ (status' = "pending" => ~ (generation > MaxRestarts))
      BY <1>2 DEF Failed
    <3>2. generation \in Nat /\ MaxRestarts \in Nat
      BY <2>1, Limits
    <3> QED BY <3>1, <3>2
  <2>7. TurnOK'
    <3>1. /\ status' \in {"pending", "quarantined"} /\ pending' \in Seq(Delivery)
          /\ current' = {} /\ inFlight' = {} /\ slot' = slot
      <4>1. <<>> \in Seq(Delivery)
        BY EmptySeq
      <4>2. status' \in {"pending", "quarantined"}
        BY <1>2 DEF Failed
      <4> QED BY <1>2, <4>1, <4>2 DEF Failed
    <3> QED BY <1>0, <2>6, <3>1 DEF TurnOK
  <2>8. ShardOK'
    <3>1. shutting' \in BOOLEAN /\ recovering' \in BOOLEAN
      BY <1>2 DEF Failed
    <3>2. attempts' \in [Delivery -> 0..MaxAttempts]
      BY <1>2, Limits DEF Failed
    <3>3. recovery' \in Seq(Delivery)
      BY <1>2, EmptySeq DEF Failed
    <3> QED BY <1>0, <1>2, <3>1, <3>2, <3>3 DEF Failed, ShardOK
  <2> QED BY <1>2, <2>2, <2>3, <2>4, <2>5, <2>7, <2>8, TypeFrames, TypePartsNext DEF Failed
<1>3. CASE Build
  <2>1. generation + 1 \in Gen
    BY <1>0, <1>3, Limits DEF Build, TurnOK, ShardOK, Gen
  <2>2. TurnOK'
    BY <1>0, <1>3 DEF Build, TurnOK
  <2>3. ShardOK'
    BY <1>0, <1>3, <2>1 DEF Build, ShardOK, GateOK, Rebuilt
  <2> QED BY <1>3, <2>2, <2>3, TypeFrames, TypePartsNext DEF Build
<1>4. CASE Run
  <2>1. TurnOK' /\ ShardOK'
    BY <1>0, <1>4 DEF Run, TurnOK, ShardOK
  <2> QED BY <1>4, <2>1, TypeFrames, TypePartsNext DEF Run
<1>5. CASE Announce
  <2>1. RelayOK' /\ ready' \subseteq Requests
    BY <1>0, <1>5, RecoverOK DEF Announce
  <2>2. ShardOK'
    BY <1>0, <1>5 DEF Announce, ShardOK
  <2> QED BY <1>5, <2>1, <2>2, TypeFrames, TypePartsNext DEF Announce
<1> QED BY <1>1, <1>2, <1>3, <1>4, <1>5, HandleKeepsTypes DEF ActorStep

\* ... every step of the pump, ...
LEMMA PumpKeepsTypes == ASSUME TypeInv, PumpStep PROVE TypeInv'
<1> USE DEF callers, actor, shard, facts, io, native
<1>0. /\ GateOK /\ MailboxOK /\ RelayOK /\ TurnOK /\ ShardOK /\ WorkOK /\ AbortsOK
      /\ ready \subseteq Requests
  BY TypeParts
<1>w. ASSUME NEW w \in work PROVE w.gen \in Gen /\ w.on \subseteq Delivery /\ w.tries \in Nat
  BY <1>0 DEF WorkOK
<1>a. ASSUME NEW a \in aborts, Ready(a) PROVE RelayOK' /\ ready' \subseteq Requests
  <2>0. a.gen \in Gen /\ a.on \subseteq Delivery
    BY <1>0 DEF AbortsOK
  <2>1. {[gen |-> a.gen, on |-> a.on]} \in SUBSET Requests
    BY <2>0, RequestOK
  <2> QED BY <1>a, <2>1, RecoverOK DEF Ready
<1>1. CASE Connect
  <2>1. WorkOK' /\ AbortsOK'
    BY <1>0, <1>1 DEF Connect, WorkOK, AbortsOK
  <2> QED BY <1>1, <2>1, TypeFrames, TypePartsNext DEF Connect
<1>2. CASE NeverConnects
  <2>1. WorkOK'
    BY <1>0, <1>2 DEF NeverConnects, WorkOK
  <2> QED BY <1>2, <2>1, TypeFrames, TypePartsNext DEF NeverConnects
<1>3. CASE Take
  <2> DEFINE r == Head(slot)
  <2>0. slot # <<>>
    BY <1>3 DEF Take
  <2>1. slot' = <<>> /\ r \in Requests
    BY <1>3, <2>0, SlotHead DEF Take
  <2>2. r # Stop => r.gen \in Gen /\ r.on \subseteq Delivery
    <3>1. r # Stop => r.gen \in Gen
      BY <2>0, SlotHead
    <3> HIDE DEF r
    <3>2. r.on \subseteq Delivery
      BY <2>1 DEF Requests
    <3> QED BY <3>1, <3>2
  <2>3. TurnOK'
    <3>0. <<>> \in Seq(Requests) /\ Len(<<>>) = 0 /\ 1..0 = {}
      BY EmptySeq
    <3>1. slot' \in Seq(Requests) /\ Len(slot') = 0 /\ 1..Len(slot') = {}
      <4> HIDE DEF r
      <4> QED BY <2>1, <3>0
    <3>2. UNCHANGED <<current, pending, inFlight, status, generation>>
      BY <1>3 DEF Take
    <3> QED BY <1>0, <3>1, <3>2 DEF TurnOK
  <2> HIDE DEF r
  <2>4. WorkOK'
    <3>1. CASE pc' = "dead" /\ UNCHANGED <<work, activeGen, aborted>>
      BY <1>0, <1>3, <3>1 DEF Take, WorkOK
    <3>2. CASE pc' = Again /\ activeGen' = 0 /\ aborted' = aborted \ {r.gen} /\ UNCHANGED work
      <4>1. aborted' \subseteq Gen /\ activeGen' \in 0..(MaxRestarts + 1)
        BY <1>0, <3>2, Limits DEF WorkOK
      <4>2. pc' \in {"idle", "dead"}
        BY <3>2 DEF Again
      <4> QED BY <1>0, <1>3, <3>2, <4>1, <4>2 DEF Take, WorkOK
    <3>3. CASE /\ r # Stop /\ pc' = "checking" /\ activeGen' = r.gen
               /\ work' = {[gen |-> r.gen, on |-> r.on, tries |-> 0]} /\ UNCHANGED aborted
      <4>1. [gen |-> r.gen, on |-> r.on, tries |-> 0] \in [gen : Gen, on : SUBSET Delivery, tries : Nat]
        BY <2>2, <3>3
      <4>2. activeGen' \in 0..(MaxRestarts + 1)
        BY <2>2, <3>3, Limits
      <4>3. work' \subseteq [gen : Gen, on : SUBSET Delivery, tries : Nat] /\ work' # {}
        BY <3>3, <4>1
      <4> HIDE <3>3
      <4>4. pc' = "checking" /\ aborted' = aborted
        BY <3>3
      <4> QED BY <1>0, <1>3, <4>2, <4>3, <4>4 DEF Take, WorkOK
    <3> QED BY <1>3, <3>1, <3>2, <3>3 DEF Take, r
  <2> QED BY <1>3, <2>3, <2>4, TypeFrames, TypePartsNext DEF Take
<1>4. CASE StopsWaiting
  <2>1. WorkOK'
    BY <1>0, <1>4 DEF StopsWaiting, WorkOK
  <2> QED BY <1>4, <2>1, TypeFrames, TypePartsNext DEF StopsWaiting
<1>5. CASE Ask
  <2>0. ASSUME NEW w \in work
        PROVE  [w EXCEPT !.tries = @ + 1] \in [gen : Gen, on : SUBSET Delivery, tries : Nat]
    BY <1>0, <2>0 DEF WorkOK
  <2>1. /\ work' \subseteq [gen : Gen, on : SUBSET Delivery, tries : Nat]
        /\ work # {} => work' # {}
    BY <1>5, <2>0 DEF Ask
  <2>2. WorkOK'
    BY <1>0, <1>5, <2>1 DEF Ask, WorkOK
  <2> QED BY <1>5, <2>2, TypeFrames, TypePartsNext DEF Ask
<1>6. CASE Asked
  <2>1. RelayOK' /\ ready' \subseteq Requests
    BY <1>6, <1>a, TypeFrames DEF Asked
  <2>2. WorkOK' /\ AbortsOK'
    BY <1>0, <1>6 DEF Asked, WorkOK, AbortsOK
  <2> QED BY <1>6, <2>1, <2>2, TypeFrames, TypePartsNext DEF Asked
<1>7. CASE Answer
  <2>1. RelayOK'
    <3>1. CASE RelayRoom /\ \E w \in work : relay' = Append(relay, Msg("completed", w.gen, w.on, TRUE))
      <4>1. PICK w \in work : relay' = Append(relay, Msg("completed", w.gen, w.on, TRUE))
        BY <3>1
      <4>2. Msg("completed", w.gen, w.on, TRUE) \in Messages
        BY <1>w, Limits DEF Msg, Messages
      <4> QED BY <1>0, <3>1, <4>1, <4>2, AppendRelay
    <3> QED BY <1>7, <3>1, TypeFrames DEF Answer
  <2>2. WorkOK'
    BY <1>0, <1>7 DEF Answer, WorkOK
  <2> QED BY <1>7, <2>1, <2>2, TypeFrames, TypePartsNext DEF Answer
<1>8. CASE Clear
  <2>1. active' \in BOOLEAN
    BY <1>8 DEF Clear
  <2>2. WorkOK'
    <3>1. aborted' \subseteq Gen /\ activeGen' \in 0..(MaxRestarts + 1)
      BY <1>0, <1>8, Limits DEF Clear, WorkOK
    <3>2. pc' \in {"idle", "dead"} /\ work' = {} /\ decision' = decision /\ stopping' = stopping
      BY <1>8 DEF Clear, Again
    <3> QED BY <1>0, <2>1, <3>1, <3>2 DEF WorkOK
  <2> QED BY <1>8, <2>2, TypeFrames, TypePartsNext DEF Clear
<1>9. CASE ErrorWhenAborted
  <2>1. RelayOK' /\ ready' \subseteq Requests
    BY <1>9, <1>a, TypeFrames DEF ErrorWhenAborted
  <2>2. active' \in BOOLEAN
    BY <1>9 DEF ErrorWhenAborted
  <2>3. WorkOK'
    <3>1. aborted' \subseteq Gen /\ activeGen' \in 0..(MaxRestarts + 1)
      BY <1>0, <1>9, Limits DEF ErrorWhenAborted, WorkOK
    <3>2. pc' = "connecting" /\ work' = {} /\ decision' = decision /\ stopping' = stopping
      BY <1>9 DEF ErrorWhenAborted
    <3> QED BY <1>0, <2>2, <3>1, <3>2 DEF WorkOK
  <2>4. AbortsOK'
    BY <1>0, <1>9 DEF ErrorWhenAborted, AbortsOK
  <2> QED BY <1>9, <2>1, <2>3, <2>4, TypeFrames, TypePartsNext DEF ErrorWhenAborted
<1>14. CASE InterruptRaises
  <2>1. active' \in BOOLEAN
    BY <1>14 DEF InterruptRaises
  <2>2. WorkOK'
    <3>1. aborted' \subseteq Gen /\ activeGen' \in 0..(MaxRestarts + 1)
      BY <1>0, <1>14, Limits DEF InterruptRaises, WorkOK
    <3>2. pc' = "connecting" /\ work' = {} /\ decision' = decision /\ stopping' = stopping
      BY <1>14 DEF InterruptRaises
    <3> QED BY <1>0, <2>1, <3>1, <3>2 DEF WorkOK
  <2>3. AbortsOK'
    BY <1>0, <1>14 DEF InterruptRaises, AbortsOK
  <2> QED BY <1>14, <2>2, <2>3, TypeFrames, TypePartsNext DEF InterruptRaises
<1>10. CASE ErrorBeforeTurn
  <2>1. WorkOK'
    BY <1>0, <1>10 DEF ErrorBeforeTurn, WorkOK
  <2> QED BY <1>10, <2>1, TypeFrames, TypePartsNext DEF ErrorBeforeTurn
<1>11. CASE ErrorInTurn
  <2>1. RelayOK'
    <3>1. CASE /\ RelayRoom
               /\ \E w \in work, retriable \in BOOLEAN :
                    relay' = Append(relay, Msg("failed", w.gen, w.on, retriable))
      <4>1. PICK w \in work, retriable \in BOOLEAN :
                    relay' = Append(relay, Msg("failed", w.gen, w.on, retriable))
        BY <3>1
      <4>2. Msg("failed", w.gen, w.on, retriable) \in Messages
        BY <1>w, Limits DEF Msg, Messages
      <4> QED BY <1>0, <3>1, <4>1, <4>2, AppendRelay
    <3> QED BY <1>11, <3>1, TypeFrames DEF ErrorInTurn
  <2>2. WorkOK'
    BY <1>0, <1>11 DEF ErrorInTurn, WorkOK
  <2> QED BY <1>11, <2>1, <2>2, TypeFrames, TypePartsNext DEF ErrorInTurn
<1>12. CASE Decided
  <2>1. WorkOK'
    BY <1>0, <1>12 DEF Decided, WorkOK
  <2> QED BY <1>12, <2>1, TypeFrames, TypePartsNext DEF Decided
<1>13. CASE Undecided
  <2>1. WorkOK'
    BY <1>0, <1>13 DEF Undecided, WorkOK
  <2> QED BY <1>13, <2>1, TypeFrames, TypePartsNext DEF Undecided
<1> QED BY <1>1, <1>2, <1>3, <1>4, <1>5, <1>6, <1>7, <1>8, <1>9, <1>10, <1>11, <1>12, <1>13, <1>14
        DEF PumpStep

\* ... and every other step.
LEMMA TypeStep == TypeInv /\ [Next]_vars => TypeInv'
<1> SUFFICES ASSUME TypeInv, [Next]_vars PROVE TypeInv'
  OBVIOUS
<1> USE DEF callers, actor, shard, facts, io, native
<1>0. /\ GateOK /\ MailboxOK /\ RelayOK /\ TurnOK /\ ShardOK /\ WorkOK /\ AbortsOK
      /\ ready \subseteq Requests
  BY TypeParts
<1>1. CASE Deliver
  <2>1. relay \in Seq(Messages) /\ relay # <<>> /\ relay' = Tail(relay) /\ Len(relay) <= RelaySize
    BY <1>0, <1>1 DEF Deliver, RelayOK
  <2>2. /\ Tail(relay) \in Seq(Messages) /\ Len(Tail(relay)) = Len(relay) - 1
        /\ Len(relay) \in Nat /\ Head(relay) \in Messages
    BY <2>1, ElementsTail
  <2>3. Len(relay) - 1 <= RelaySize
    BY <2>1, <2>2, Limits
  <2>3a. RelayOK'
    BY <2>1, <2>2, <2>3 DEF RelayOK
  <2>4. MailboxOK'
    BY <1>0, <1>1, <2>2, AppendMailbox, TypeFrames DEF Deliver
  <2> QED BY <1>1, <2>3a, <2>4, TypeFrames, TypePartsNext DEF Deliver
<1>2. ASSUME NEW a \in aborts, AbortDone(a) PROVE TypeInv'
  <2>0. a.gen \in Gen /\ a.on \subseteq Delivery
    BY <1>0 DEF AbortsOK
  <2>1. {[gen |-> a.gen, on |-> a.on]} \in SUBSET Requests
    BY <2>0, RequestOK
  <2>2. RelayOK' /\ ready' \subseteq Requests
    BY <1>2, <2>1, RecoverOK DEF AbortDone, Ready
  <2>3. AbortsOK'
    BY <1>0, <1>2 DEF AbortDone, AbortsOK
  <2> QED BY <1>2, <2>2, <2>3, TypeFrames, TypePartsNext DEF AbortDone
<1>3. ASSUME NEW s \in steering, SteerDone(s) PROVE TypeInv'
  <2>1. Msg("steered", s.gen, s.on, TRUE) \in Messages
    BY <1>0 DEF Msg, Messages, AbortsOK, Requests
  <2>2. RelayOK'
    BY <1>0, <1>3, <2>1, AppendRelay, TypeFrames DEF SteerDone
  <2>3. AbortsOK'
    BY <1>0, <1>3 DEF SteerDone, AbortsOK
  <2> QED BY <1>3, <2>2, <2>3, TypeFrames, TypePartsNext DEF SteerDone
<1>4. CASE UNCHANGED vars
  BY <1>4, TypeFrames, TypePartsNext DEF vars
<1> QED BY <1>1, <1>2, <1>3, <1>4, CallersKeepTypes, ActorKeepsTypes, PumpKeepsTypes
        DEF Next, NativeStep

LEMMA TypeInit == Init => TypeInv
<1> SUFFICES ASSUME Init PROVE TypeInv
  OBVIOUS
<1>1. <<>> \in Seq(Delivery) /\ <<>> \in Seq(Messages) /\ <<>> \in Seq(Requests) /\ Len(<<>>) = 0
  BY EmptySeq
<1>2. remembered = <<>> /\ submitting = {} /\ closing = FALSE
  BY DEF Init
<1>3. GateOK
  <2>1. closing \in BOOLEAN
    BY <1>2
  <2> QED BY <1>1, <1>2, <2>1, Limits DEF GateOK
<1>4. mailbox = <<>> /\ relay = <<>> /\ ready = {}
  BY DEF Init
<1>5. MailboxOK /\ RelayOK
  BY <1>1, <1>4, Limits DEF MailboxOK, RelayOK
<1>6. current = {} /\ pending = <<>> /\ inFlight = {} /\ status = "running" /\ slot = <<>>
  BY DEF Init
<1>7. TurnOK
  BY <1>1, <1>6 DEF TurnOK
<1>8. /\ announce = FALSE /\ generation = 1 /\ attempts = [d \in Delivery |-> 0]
      /\ shutting = FALSE /\ recovering = FALSE /\ recovery = <<>> /\ results = <<>>
  BY DEF Init
<1>9. ShardOK
  <2>1. announce \in BOOLEAN /\ shutting \in BOOLEAN /\ recovering \in BOOLEAN
    BY <1>8
  <2>2. attempts \in [Delivery -> 0..MaxAttempts]
    BY <1>8, Limits
  <2> QED BY <1>1, <1>8, <2>1, <2>2, Limits DEF ShardOK
<1>10. /\ pc = "connecting" /\ work = {} /\ decision = "none" /\ stopping = FALSE
       /\ activeGen = 0 /\ active = FALSE /\ aborted = {}
  BY DEF Init
<1>11. WorkOK
  <2>1. stopping \in BOOLEAN /\ active \in BOOLEAN
    BY <1>10
  <2> QED BY <1>10, <2>1, Limits DEF WorkOK
<1>12. AbortsOK
  BY DEF Init, AbortsOK
<1> QED BY <1>3, <1>4, <1>5, <1>7, <1>9, <1>11, <1>12, TypeParts

LEMMA TypeInvariant == Spec => []TypeInv
BY TypeInit, TypeStep, PTL DEF Spec

\* Every variable keeps its type: in particular the gate, the mailbox and the relay
\* never hold more than their capacity, whatever the threads do between a look at
\* the room and the use of it.
THEOREM TypeCorrect == Spec => []TypeOK
<1>1. TypeInv => TypeOK
  BY DEF TypeInv
<1> QED BY <1>1, TypeInvariant, PTL

-----------------------------------------------------------------------------
(* The one place of the turn                                               *)

Answering == {"completed", "failed"}

\* Among the messages of q at most one is an answer of generation g.
OneAnswer(q, g) ==
  \A i, j \in 1..Len(q) :
     /\ q[i].kind \in Answering /\ q[i].gen = g
     /\ q[j].kind \in Answering /\ q[j].gen = g
     => i = j

\* The messages on their way to the actor or in its mailbox.
Underway == Elements(relay) \cup Elements(mailbox)

HeldInSlot == \E r \in Elements(slot) : r.gen = generation

PumpHolds ==
  \/ pc \in {"connecting", "checking", "asking", "running"}
  \/ pc = "failing" /\ decision = "retry"

HeldAtPump == PumpHolds /\ \E w \in work : w.gen = generation
HeldInRelay == \E m \in Elements(relay) : IsAnswer(m)
HeldInMailbox == \E m \in Elements(mailbox) : IsAnswer(m)

\* Nothing is of a generation to come, and an answer is about one delivery.
Past ==
  /\ \A r \in Elements(slot) : r.gen <= generation
  /\ \A w \in work : w.gen <= generation
  /\ \A m \in Underway : m.kind \in Answering => m.gen <= generation /\ Some(m.on)
  /\ \A g \in aborted : g <= generation

\* The pump works on one request.
OneAtWork ==
  /\ \A w \in work : Some(w.on)
  /\ \A v, w \in work : v = w
  /\ pc = "idle" => work = {}

\* A generation that is built and not yet running has no turn anywhere.
Fresh ==
  status = "built" =>
     ~ HeldInSlot /\ (\A w \in work : w.gen # generation) /\ ~ HeldInRelay

Settled ==
  status \in {"pending", "built", "quarantined"} =>
     current = {} /\ inFlight = {} /\ mailbox = <<>>

\* A generation is aborted only when it has failed.
NotAborted == status \in {"running", "failing", "built"} => generation \notin aborted

RecoveringIdle == Alive /\ recovering => current = {}

\* The turn of the actor is in one place.
Apart ==
  Alive =>
     /\ HeldInSlot => ~ HeldAtPump /\ ~ HeldInRelay /\ ~ HeldInMailbox
     /\ HeldAtPump => ~ HeldInRelay /\ ~ HeldInMailbox
     /\ HeldInRelay => ~ HeldInMailbox
     /\ OneAnswer(relay, generation) /\ OneAnswer(mailbox, generation)

\* It is the turn the actor believes to be running, and that is not lost before the
\* pump ends.
Known ==
  Alive =>
     /\ \A r \in Elements(slot) : r.gen = generation => r.on = current
     /\ PumpHolds => \A w \in work : w.gen = generation => w.on = current
     /\ \A m \in Underway : IsAnswer(m) => m.on = current
     /\ inFlight = current
     /\ \/ HeldInSlot \/ HeldAtPump \/ HeldInRelay \/ HeldInMailbox
        \/ current = {} \/ pc = "dead"

\* While a question of this generation is under way the pump waits for the decision, ...
QuestionWaits ==
  Alive => \A m \in Underway :
     m.kind = "failed" /\ m.gen = generation => pc = "dead" \/ Awaited(m)

\* ... and while it waits the question is under way.
QuestionAsked ==
  Alive /\ pc = "failing" /\ decision = "none" =>
     \A w \in work : w.gen = generation =>
        \E m \in Underway : m.kind = "failed" /\ m.gen = generation /\ m.on = w.on

HeldInv ==
  /\ TypeInv
  /\ Past /\ OneAtWork /\ Fresh /\ Settled /\ NotAborted /\ RecoveringIdle
  /\ Apart /\ Known /\ QuestionWaits /\ QuestionAsked

LEMMA OneAppend ==
  ASSUME NEW q \in Seq(Messages), NEW m \in Messages, NEW g, OneAnswer(q, g),
         m.kind \in Answering /\ m.gen = g =>
            \A n \in Elements(q) : ~ (n.kind \in Answering /\ n.gen = g)
  PROVE  OneAnswer(Append(q, m), g)
<1> DEFINE a == Append(q, m)
           n == Len(q)
<1>1. n \in Nat
  BY LenProperties
<1>2. /\ Len(a) = n + 1
      /\ \A i \in 1..n : a[i] = q[i]
      /\ a[n + 1] = m
  BY AppendProperties
<1>3. \A i \in 1..n : q[i] \in Elements(q)
  BY DEF Elements, n
<1>4. \A i, j \in 1..n :
         /\ q[i].kind \in Answering /\ q[i].gen = g
         /\ q[j].kind \in Answering /\ q[j].gen = g
         => i = j
  BY DEF OneAnswer, n
<1> HIDE DEF a, n
<1> SUFFICES ASSUME NEW i \in 1..(n + 1), NEW j \in 1..(n + 1),
                    a[i].kind \in Answering, a[i].gen = g,
                    a[j].kind \in Answering, a[j].gen = g
             PROVE  i = j
  BY <1>2 DEF OneAnswer, a
<1>5. \A k \in 1..(n + 1) : k \in 1..n \/ k = n + 1
  BY <1>1
<1>6. CASE i \in 1..n /\ j \in 1..n
  <2>1. a[i] = q[i] /\ a[j] = q[j]
    BY <1>2, <1>6
  <2> QED BY <1>4, <1>6, <2>1
<1>7. CASE i \in 1..n /\ j = n + 1
  <2>1. a[i] = q[i] /\ a[j] = m
    BY <1>2, <1>7
  <2> QED BY <1>3, <1>7, <2>1
<1>8. CASE i = n + 1 /\ j \in 1..n
  <2>1. a[i] = m /\ a[j] = q[j]
    BY <1>2, <1>8
  <2> QED BY <1>3, <1>8, <2>1
<1> QED BY <1>5, <1>6, <1>7, <1>8

LEMMA OneTail ==
  ASSUME NEW q \in Seq(Messages), q # <<>>, NEW g, OneAnswer(q, g)
  PROVE  /\ OneAnswer(Tail(q), g)
         /\ Head(q).kind \in Answering /\ Head(q).gen = g =>
               \A n \in Elements(Tail(q)) : ~ (n.kind \in Answering /\ n.gen = g)
<1> DEFINE a == Tail(q)
           n == Len(q)
<1>1. n \in Nat /\ n >= 1
  BY LenProperties, EmptySeq
<1>2. /\ Len(a) = n - 1
      /\ \A i \in 1..(n - 1) : a[i] = q[i + 1]
      /\ q[1] = Head(q)
  BY HeadTailProperties, <1>1
<1>3. \A i, j \in 1..n :
         /\ q[i].kind \in Answering /\ q[i].gen = g
         /\ q[j].kind \in Answering /\ q[j].gen = g
         => i = j
  BY DEF OneAnswer, n
<1> HIDE DEF a, n
<1>4. \A i \in 1..(n - 1) : i + 1 \in 1..n /\ i + 1 # 1
  BY <1>1
<1>5. OneAnswer(a, g)
  <2> SUFFICES ASSUME NEW i \in 1..(n - 1), NEW j \in 1..(n - 1),
                      a[i].kind \in Answering, a[i].gen = g,
                      a[j].kind \in Answering, a[j].gen = g
               PROVE  i = j
    BY <1>2 DEF OneAnswer
  <2>1. a[i] = q[i + 1] /\ a[j] = q[j + 1]
    BY <1>2
  <2>2. i + 1 = j + 1
    BY <1>3, <1>4, <2>1
  <2> QED BY <2>2
<1>6. ASSUME Head(q).kind \in Answering, Head(q).gen = g,
             NEW m \in Elements(a), m.kind \in Answering, m.gen = g
      PROVE  FALSE
  <2>1. PICK i \in 1..(n - 1) : a[i] = m
    BY <1>2 DEF Elements
  <2>2. q[i + 1] = m /\ 1 \in 1..n
    BY <1>1, <1>2, <2>1
  <2> QED BY <1>2, <1>3, <1>4, <1>6, <2>2
<1> QED BY <1>5, <1>6 DEF a

\* The same answers of this generation are in the relay, or in the mailbox, and no
\* other answers than before.
RelaySame ==
  /\ \A m : m.kind \in Answering /\ m \in Elements(relay') => m \in Elements(relay)
  /\ \A m : IsAnswer(m) /\ m \in Elements(relay) => m \in Elements(relay')
  /\ OneAnswer(relay, generation) => OneAnswer(relay', generation)

MailboxSame ==
  /\ \A m : m.kind \in Answering /\ m \in Elements(mailbox') => m \in Elements(mailbox)
  /\ \A m : IsAnswer(m) /\ m \in Elements(mailbox) => m \in Elements(mailbox')
  /\ OneAnswer(mailbox, generation) => OneAnswer(mailbox', generation)

LEMMA Unchanged ==
  /\ UNCHANGED relay => RelaySame
  /\ UNCHANGED mailbox => MailboxSame
BY DEF RelaySame, MailboxSame

LEMMA MailboxGets ==
  ASSUME TypeInv, NEW m \in Messages, m.kind \notin Answering, mailbox' = Append(mailbox, m)
  PROVE  MailboxSame
<1>1. mailbox \in Seq(Messages)
  BY TypeParts DEF MailboxOK
<1>2. Elements(mailbox') = Elements(mailbox) \cup {m}
  BY <1>1, ElementsAppend
<1>3. OneAnswer(mailbox, generation) => OneAnswer(mailbox', generation)
  BY <1>1, OneAppend
<1> QED BY <1>2, <1>3 DEF MailboxSame

LEMMA RelayGets ==
  ASSUME TypeInv, NEW m \in Messages, m.kind \notin Answering, relay' = Append(relay, m)
  PROVE  RelaySame
<1>1. relay \in Seq(Messages)
  BY TypeParts DEF RelayOK
<1>2. Elements(relay') = Elements(relay) \cup {m}
  BY <1>1, ElementsAppend
<1>3. OneAnswer(relay, generation) => OneAnswer(relay', generation)
  BY <1>1, OneAppend
<1> QED BY <1>2, <1>3 DEF RelaySame

\* A command that is no answer of this generation is taken out of the mailbox.
LEMMA MailboxGives ==
  ASSUME TypeInv, NEW kind, Receive(kind), ~ IsAnswer(Head(mailbox))
  PROVE  MailboxSame
<1>1. /\ mailbox \in Seq(Messages) /\ mailbox # <<>>
      /\ Elements(mailbox) = {Head(mailbox)} \cup Elements(mailbox')
  BY ReceiveOK
<1>2. mailbox' = Tail(mailbox)
  BY DEF Receive
<1>3. OneAnswer(mailbox, generation) => OneAnswer(mailbox', generation)
  BY <1>1, <1>2, OneTail
<1> QED BY <1>1, <1>3 DEF MailboxSame

LEMMA RecoverSame ==
  ASSUME TypeInv, NEW r \in SUBSET Requests, Recover(r)
  PROVE  RelaySame
<1>1. generation \in Gen
  BY TypeParts DEF ShardOK
<1>2. CASE \E a \in r : relay' = Append(relay, Msg("ready", generation, a.on, TRUE))
  <2>1. PICK a \in r : relay' = Append(relay, Msg("ready", generation, a.on, TRUE))
    BY <1>2
  <2>2. /\ Msg("ready", generation, a.on, TRUE) \in Messages
        /\ Msg("ready", generation, a.on, TRUE).kind \notin Answering
    BY <1>1, Limits DEF Msg, Messages, Requests, Answering
  <2> QED BY <2>1, <2>2, RelayGets
<1>3. CASE relay' = relay
  BY <1>3, Unchanged
<1> QED BY <1>2, <1>3 DEF Recover

Held ==
  /\ Past /\ OneAtWork /\ Fresh /\ Settled /\ NotAborted /\ RecoveringIdle
  /\ Apart /\ Known /\ QuestionWaits /\ QuestionAsked

LEMMA HeldParts == HeldInv <=> TypeInv /\ Held
BY DEF HeldInv, Held

\* A step that moves no turn and no answer; only the slot may change, for a request
\* that is not of this generation.
LEMMA QuietSlot ==
  ASSUME HeldInv, RelaySame, MailboxSame, status # "running" => mailbox' = mailbox,
         UNCHANGED <<status, generation, current, inFlight, recovering, work, decision, aborted>>,
         \A r \in Elements(slot) : r.gen = generation => r \in Elements(slot'),
         \A r \in Elements(slot') : r \in Elements(slot) \/ r.gen = 0,
         \/ pc' = pc
         \/ /\ pc \in {"connecting", "checking", "asking", "running"}
            /\ pc' \in {"connecting", "checking", "asking", "running"}
  PROVE  Held'
<1> USE DEF HeldInv
<1>0. /\ UNCHANGED <<status, generation, current, inFlight, recovering, work, decision, aborted>>
      /\ Alive' = Alive /\ \A m : IsAnswer(m)' <=> IsAnswer(m)
      /\ generation \in Nat /\ generation # 0
  BY TypeParts, Limits DEF Alive, IsAnswer, ShardOK
<1>1. /\ \A m : m.kind \in Answering /\ m \in Underway' => m \in Underway
      /\ \A m : IsAnswer(m) /\ m \in Underway => m \in Underway'
  BY DEF RelaySame, MailboxSame, Underway
<1>2. /\ HeldInSlot' = HeldInSlot /\ PumpHolds' = PumpHolds /\ HeldAtPump' = HeldAtPump
      /\ HeldInRelay' = HeldInRelay /\ HeldInMailbox' = HeldInMailbox
  <2>1. HeldInSlot' = HeldInSlot
    BY <1>0 DEF HeldInSlot
  <2>2. PumpHolds' = PumpHolds
    BY <1>0 DEF PumpHolds
  <2>3. HeldAtPump' = HeldAtPump
    BY <1>0, <2>2 DEF HeldAtPump
  <2>4. \A m : IsAnswer(m) => m.kind \in Answering
    BY DEF IsAnswer, Answering
  <2>5. HeldInRelay' = HeldInRelay
    BY <1>0, <2>4 DEF HeldInRelay, RelaySame
  <2>6. HeldInMailbox' = HeldInMailbox
    BY <1>0, <2>4 DEF HeldInMailbox, MailboxSame
  <2> QED BY <2>1, <2>2, <2>3, <2>5, <2>6
<1>3. Past'
  <2>1. \A r \in Elements(slot') : r.gen <= generation
    BY <1>0 DEF Past
  <2> QED BY <1>0, <1>1, <2>1 DEF Past
<1>4. OneAtWork' /\ NotAborted'
  BY <1>0 DEF OneAtWork, NotAborted
<1>5. Fresh' /\ RecoveringIdle'
  BY <1>0, <1>2 DEF Fresh, RecoveringIdle
<1>6. Settled'
  BY <1>0 DEF Settled
<1>7. Apart'
  BY <1>0, <1>2 DEF Apart, RelaySame, MailboxSame
<1>8. Known'
  <2>1. \A m : IsAnswer(m) => m.kind \in Answering
    BY DEF IsAnswer, Answering
  <2> QED BY <1>0, <1>1, <1>2, <2>1 DEF Known
<1>9. QuestionWaits'
  <2>1. \A m : pc' = pc => (Awaited(m)' <=> Awaited(m))
    BY <1>0 DEF Awaited
  <2>2. pc' # pc => pc # "dead" /\ \A m : ~ Awaited(m)
    BY DEF Awaited
  <2> QED BY <1>0, <1>1, <2>1, <2>2 DEF QuestionWaits, Answering
<1>10. QuestionAsked'
  <2>1. \A m : m.kind = "failed" /\ m.gen = generation => IsAnswer(m)
    BY DEF IsAnswer
  <2> QED BY <1>0, <1>1, <2>1 DEF QuestionAsked
<1> QED BY <1>3, <1>4, <1>5, <1>6, <1>7, <1>8, <1>9, <1>10 DEF Held

LEMMA Quiet ==
  ASSUME HeldInv, RelaySame, MailboxSame, status # "running" => mailbox' = mailbox,
         UNCHANGED <<status, generation, current, inFlight, recovering, slot, work, decision,
                     aborted>>,
         \/ pc' = pc
         \/ /\ pc \in {"connecting", "checking", "asking", "running"}
            /\ pc' \in {"connecting", "checking", "asking", "running"}
  PROVE  Held'
BY QuietSlot

\* The steps that are quiet.
LEMMA CallersQuiet == ASSUME HeldInv, CallerStep PROVE Held'
<1> USE DEF callers, actor, shard, facts, io, native
<1>0. TypeInv
  BY HeldParts
<1>1. ASSUME NEW d \in Delivery, Admit(d) PROVE Held'
  BY <1>1, Unchanged, Quiet DEF Admit
<1>2. ASSUME NEW d \in Delivery, Tell(d) PROVE Held'
  <2>1. /\ Msg("enqueue", 0, {d}, TRUE) \in Messages
        /\ Msg("enqueue", 0, {d}, TRUE).kind \notin Answering
    BY Limits DEF Msg, Messages, Answering
  <2>2. MailboxSame
    BY <1>0, <1>2, <2>1, MailboxGets, Unchanged DEF Tell
  <2> QED BY <1>2, <2>2, Unchanged, Quiet DEF Tell, Alive
<1>3. ASSUME NEW d \in Delivery, AskSteer(d) PROVE Held'
  <2>1. /\ Msg("steer", 0, {d}, TRUE) \in Messages
        /\ Msg("steer", 0, {d}, TRUE).kind \notin Answering
    BY Limits DEF Msg, Messages, Answering
  <2>2. MailboxSame
    BY <1>0, <1>3, <2>1, MailboxGets DEF AskSteer
  <2> QED BY <1>3, <2>2, Unchanged, Quiet DEF AskSteer, Alive
<1>4. CASE AskClose
  <2>1. /\ Msg("close", 0, {}, TRUE) \in Messages
        /\ Msg("close", 0, {}, TRUE).kind \notin Answering
    BY Limits DEF Msg, Messages, Answering
  <2>2. MailboxSame
    BY <1>0, <1>4, <2>1, MailboxGets, Unchanged DEF AskClose
  <2> QED BY <1>4, <2>2, Unchanged, Quiet DEF AskClose, Alive
<1>5. CASE Drain
  BY <1>5, Unchanged, Quiet DEF Drain
<1> QED BY <1>1, <1>2, <1>3, <1>4, <1>5 DEF CallerStep

LEMMA NativeQuiet == ASSUME HeldInv, NativeStep PROVE Held'
<1> USE DEF callers, actor, shard, facts, io, native
<1>0. TypeInv
  BY HeldParts
<1>1. ASSUME NEW a \in aborts, AbortDone(a) PROVE Held'
  <2>1. a.gen \in Gen /\ a.on \subseteq Delivery
    BY <1>0, TypeParts DEF AbortsOK
  <2>2. RelaySame
    BY <1>0, <1>1, <2>1, RequestOK, RecoverSame DEF AbortDone, Ready
  <2> QED BY <1>1, <2>2, Unchanged, Quiet DEF AbortDone
<1>2. ASSUME NEW s \in steering, SteerDone(s) PROVE Held'
  <2>1. s \in Requests
    BY <1>0, TypeParts DEF AbortsOK
  <2>2. /\ Msg("steered", s.gen, s.on, TRUE) \in Messages
        /\ Msg("steered", s.gen, s.on, TRUE).kind \notin Answering
    BY <2>1 DEF Msg, Messages, Requests, Answering
  <2>3. RelaySame
    BY <1>0, <1>2, <2>2, RelayGets, Unchanged DEF SteerDone
  <2> QED BY <1>2, <2>3, Unchanged, Quiet DEF SteerDone
<1> QED BY <1>1, <1>2 DEF NativeStep

\* An actor without a turn has none anywhere.
LEMMA IdleHoldsNothing ==
  ASSUME HeldInv, Alive, current = {}
  PROVE  /\ ~ HeldInSlot /\ ~ HeldAtPump
         /\ \A m \in Underway : ~ IsAnswer(m)
<1>1. TypeInv /\ Past /\ OneAtWork /\ Known
  BY DEF HeldInv
<1>2. \A on : Some(on) => on # {}
  BY DEF Some
<1>3. ~ HeldAtPump
  BY <1>1, <1>2 DEF OneAtWork, Known, HeldAtPump
<1>4. \A m \in Underway : ~ IsAnswer(m)
  <2>1. \A m : IsAnswer(m) => m.kind \in Answering
    BY DEF IsAnswer, Answering
  <2> QED BY <1>1, <1>2, <2>1 DEF Past, Known
<1>5. ~ HeldInSlot
  <2> SUFFICES ASSUME HeldInSlot PROVE FALSE
    OBVIOUS
  <2>1. PICK r \in Elements(slot) : r.gen = generation
    BY DEF HeldInSlot
  <2>2. PICK i \in 1..Len(slot) : slot[i] = r
    BY DEF Elements
  <2>3. generation \in Gen
    BY <1>1, TypeParts DEF ShardOK
  <2>4. r # Stop
    BY <2>1, <2>3, Limits DEF Stop
  <2>5. Some(r.on)
    BY <1>1, <2>2, <2>4, TypeParts DEF TurnOK
  <2> QED BY <1>1, <1>2, <2>1, <2>5 DEF Known
<1> QED BY <1>3, <1>4, <1>5

\* An answer the actor receives is the only place of its turn.
LEMMA AnswerAlone ==
  ASSUME HeldInv, NEW kind, Receive(kind), IsAnswer(Head(mailbox))
  PROVE  /\ Head(mailbox).on = current /\ ~ HeldInSlot /\ ~ HeldAtPump /\ current # {}
         /\ \A m \in Elements(relay) \cup Elements(mailbox') : ~ IsAnswer(m)
         /\ Fenced(Head(mailbox)) /\ Head(mailbox) \in Underway
<1>1. TypeInv /\ Past /\ Apart /\ Known
  BY DEF HeldInv
<1>2. /\ mailbox \in Seq(Messages) /\ mailbox # <<>> /\ Alive
      /\ Elements(mailbox) = {Head(mailbox)} \cup Elements(mailbox')
  BY <1>1, ReceiveOK
<1>3. Head(mailbox) \in Elements(mailbox) /\ Head(mailbox) \in Underway
  BY <1>2 DEF Underway
<1>4. HeldInMailbox
  BY <1>3 DEF HeldInMailbox
<1>5. ~ HeldInSlot /\ ~ HeldAtPump /\ ~ HeldInRelay /\ OneAnswer(mailbox, generation)
  BY <1>1, <1>2, <1>4 DEF Apart
<1>6. Head(mailbox).on = current /\ current # {}
  <2>1. Head(mailbox).on = current
    BY <1>1, <1>2, <1>3 DEF Known
  <2>2. Some(Head(mailbox).on)
    BY <1>1, <1>3 DEF Past, IsAnswer, Answering
  <2> QED BY <2>1, <2>2 DEF Some
<1>7. \A m \in Elements(mailbox') : ~ IsAnswer(m)
  <2>1. mailbox' = Tail(mailbox)
    BY DEF Receive
  <2> QED BY <1>2, <1>5, <2>1, OneTail DEF IsAnswer, Answering
<1>8. Fenced(Head(mailbox))
  BY <1>6 DEF Fenced, IsAnswer
<1> QED BY <1>3, <1>5, <1>6, <1>7, <1>8 DEF HeldInRelay

\* A start makes the slot the one place of the turn it starts, if there is no other
\* and nobody waits for a decision.
LEMMA StartHeld ==
  ASSUME HeldInv, TypeInv', Alive, NEW q \in Seq(Delivery), NEW blocked \in BOOLEAN,
         Start(q, blocked), UNCHANGED <<generation, work, pc, aborted, relay>>,
         Elements(mailbox') \subseteq Elements(mailbox),
         \A m \in Elements(relay) \cup Elements(mailbox') : ~ IsAnswer(m),
         ~ HeldInSlot, ~ HeldAtPump', ~ recovering',
         pc = "failing" /\ decision' = "none" => \A w \in work : w.gen # generation
  PROVE  Held'
<1>0. /\ TypeInv /\ Past /\ OneAtWork /\ Fresh /\ Settled /\ NotAborted /\ RecoveringIdle
      /\ Apart /\ Known /\ status = "running" /\ status' \in {"running", "failing"}
      /\ generation \in Nat
  BY TypeParts, Limits DEF HeldInv, Alive, Start, ShardOK
<1>1. Underway' \subseteq Underway
  BY DEF Underway
<1>2. \A m : IsAnswer(m)' <=> IsAnswer(m)
  BY DEF IsAnswer
<1>3. \A m \in Underway' : ~ IsAnswer(m)'
  BY <1>2 DEF Underway
<1>4. ~ HeldInRelay' /\ ~ HeldInMailbox'
  BY <1>3 DEF HeldInRelay, HeldInMailbox, Underway
<1>5. \/ /\ Elements(slot') = Elements(slot) /\ current' = {} /\ inFlight' = {}
      \/ /\ \E d \in Delivery : /\ Elements(slot') = {Request(generation, d)}
                                /\ current' = {d} /\ inFlight' = {d}
      \/ Elements(slot') = Elements(slot) /\ ~ Alive'
  <2>1. CASE NoTurn /\ slot' = slot
    BY <2>1 DEF NoTurn
  <2>2. CASE /\ q # <<>> /\ current' = {Head(q)} /\ inFlight' = {Head(q)}
             /\ slot' = IF slot = <<>> THEN <<Request(generation, Head(q))>> ELSE slot
             /\ status' = IF slot = <<>> THEN status ELSE "failing"
    <3>1. Head(q) \in Delivery
      BY <2>2, ElementsTail
    <3>2. CASE slot = <<>>
      <4>1. slot' = <<Request(generation, Head(q))>>
        BY <2>2, <3>2
      <4>2. Len(slot') = 1 /\ slot'[1] = Request(generation, Head(q))
        BY <4>1
      <4>3. Elements(slot') = {Request(generation, Head(q))}
        BY <4>2 DEF Elements
      <4> QED BY <2>2, <3>1, <4>3
    <3>3. CASE slot # <<>>
      BY <2>2, <3>3 DEF Alive
    <3> QED BY <3>2, <3>3
  <2> QED BY <2>1, <2>2 DEF Start
<1>6. \A d \in Delivery : Request(generation, d).gen = generation /\ Request(generation, d).on = {d}
  BY DEF Request
<1>7. Past'
  <2>1. \A r \in Elements(slot') : r.gen <= generation
    BY <1>0, <1>5, <1>6 DEF Past
  <2> QED BY <1>0, <1>1, <2>1 DEF Past
<1>8. OneAtWork' /\ NotAborted' /\ Fresh' /\ Settled' /\ RecoveringIdle'
  BY <1>0 DEF OneAtWork, NotAborted, Fresh, Settled, RecoveringIdle
<1>9. Apart'
  <2>1. OneAnswer(relay', generation') /\ OneAnswer(mailbox', generation')
    BY DEF OneAnswer, Elements, IsAnswer, Answering
  <2> QED BY <1>4, <2>1 DEF Apart
<1>10. Known'
  <2>1. Alive' => \A r \in Elements(slot') : r.gen = generation => r.on = current'
    BY <1>5, <1>6 DEF HeldInSlot
  <2>2. Alive' => HeldInSlot' \/ current' = {}
    BY <1>5, <1>6 DEF HeldInSlot
  <2>3. Alive' => inFlight' = current'
    BY <1>5, <1>0 DEF Start, NoTurn
  <2>4. PumpHolds' => \A w \in work : w.gen # generation
    BY DEF HeldAtPump
  <2> QED BY <1>3, <2>1, <2>2, <2>3, <2>4 DEF Known
<1>11. QuestionWaits'
  <2>1. \A m : m.kind = "failed" /\ m.gen = generation => IsAnswer(m)
    BY DEF IsAnswer
  <2> QED BY <1>2, <1>3, <2>1 DEF QuestionWaits
<1>12. QuestionAsked'
  BY DEF QuestionAsked
<1> QED BY <1>7, <1>8, <1>9, <1>10, <1>11, <1>12 DEF Held

\* A command that is no answer is quiet, unless it starts a turn.
LEMMA HandleHeld == ASSUME HeldInv, TypeInv', Handle PROVE Held'
<1> USE DEF callers, actor, shard, facts, io, native
<1>0. TypeInv /\ Past /\ OneAtWork /\ RecoveringIdle /\ Apart /\ Known /\ QuestionWaits /\ QuestionAsked
  BY DEF HeldInv
<1>00. /\ shutting \in BOOLEAN /\ pending \in Seq(Delivery) /\ recovery \in Seq(Delivery)
       /\ generation \in Gen
  BY <1>0, TypeParts DEF TurnOK, ShardOK
<1>k. ASSUME NEW kind, Receive(kind)
      PROVE  /\ Alive /\ Head(mailbox).kind = kind /\ Head(mailbox).on \subseteq Delivery
             /\ Elements(mailbox') \subseteq Elements(mailbox)
             /\ kind \notin Answering => MailboxSame
  <2>1. /\ Alive /\ Head(mailbox).kind = kind /\ Head(mailbox).on \subseteq Delivery
        /\ Elements(mailbox') \subseteq Elements(mailbox)
    BY <1>0, <1>k, ReceiveOK
  <2>2. kind \notin Answering => ~ IsAnswer(Head(mailbox))
    BY <2>1 DEF IsAnswer, Answering
  <2> QED BY <1>0, <1>k, <2>1, <2>2, MailboxGives
\* Nothing is held when the actor has no turn; then nobody asks.
<1>i. ASSUME Alive, current = {}
      PROVE  /\ ~ HeldInSlot /\ ~ HeldAtPump
             /\ \A m \in Elements(relay) \cup Elements(mailbox) : ~ IsAnswer(m)
             /\ pc = "failing" /\ decision = "none" => \A w \in work : w.gen # generation
  <2>1. ~ HeldInSlot /\ ~ HeldAtPump /\ \A m \in Underway : ~ IsAnswer(m)
    BY <1>i, IdleHoldsNothing
  <2>2. pc = "failing" /\ decision = "none" => \A w \in work : w.gen # generation
    BY <1>0, <1>i, <2>1 DEF QuestionAsked, IsAnswer
  <2> QED BY <2>1, <2>2 DEF Underway
<1>h. UNCHANGED <<work, pc, decision, generation>> => (HeldAtPump' <=> HeldAtPump)
  BY DEF HeldAtPump, PumpHolds
<1>1. CASE Enqueue
  <2>1. /\ Alive /\ Elements(mailbox') \subseteq Elements(mailbox) /\ MailboxSame
        /\ Head(mailbox).on \subseteq Delivery
    BY <1>1, <1>k DEF Enqueue, Answering
  <2>2. PICK d \in Head(mailbox).on :
       \/ /\ shutting
          /\ UNCHANGED <<current, pending, inFlight, slot, status>>
       \/ /\ ~ shutting /\ (recovering \/ current # {})
          /\ pending' = Append(pending, d)
          /\ UNCHANGED <<current, inFlight, slot, status>>
       \/ /\ ~ shutting /\ ~ recovering /\ current = {}
          /\ Start(<<d>> \o pending, FALSE)
    BY <1>1 DEF Enqueue
  <2>3. CASE UNCHANGED <<current, inFlight, slot, status>>
    BY <1>1, <2>1, <2>3, Unchanged, Quiet DEF Enqueue, Alive
  <2>4. CASE ~ recovering /\ current = {} /\ Start(<<d>> \o pending, FALSE)
    <3>1. <<d>> \o pending \in Seq(Delivery)
      <4>1. <<d>> \in Seq(Delivery)
        BY <2>1
      <4> QED BY <1>00, <4>1, ElementsConcat
    <3>2. UNCHANGED <<generation, work, pc, aborted, relay, decision, recovering>>
      BY <1>1 DEF Enqueue
    <3> QED BY <1>i, <1>h, <2>1, <2>4, <3>1, <3>2, StartHeld
  <2> QED BY <2>2, <2>3, <2>4
<1>2. CASE Complete
  <2>1. Receive("completed") /\ Alive /\ Elements(mailbox') \subseteq Elements(mailbox)
    BY <1>2, <1>k DEF Complete
  <2>2. UNCHANGED <<generation, work, pc, aborted, relay, decision, recovering>>
    BY <1>2 DEF Complete
  <2>3. CASE ~ IsAnswer(Head(mailbox))
    <3>1. Head(mailbox).gen # generation
      BY <1>k, <2>1, <2>3 DEF IsAnswer
    <3>2. MailboxSame
      BY <1>0, <2>1, <2>3, MailboxGives
    <3>3. UNCHANGED <<status, current, inFlight, slot>>
      BY <1>2, <3>1 DEF Complete, Fenced
    <3> QED BY <2>1, <2>2, <3>2, <3>3, Unchanged, Quiet DEF Alive
  <2>4. CASE IsAnswer(Head(mailbox))
    <3>1. /\ ~ HeldInSlot /\ ~ HeldAtPump /\ current # {} /\ Fenced(Head(mailbox))
          /\ \A m \in Elements(relay) \cup Elements(mailbox') : ~ IsAnswer(m)
      BY <2>1, <2>4, AnswerAlone
    <3>2. Start(pending, shutting)
      BY <1>2, <3>1 DEF Complete
    <3>3. ~ recovering
      BY <1>0, <2>1, <3>1 DEF RecoveringIdle
    <3>4. pc = "failing" /\ decision = "none" => \A w \in work : w.gen # generation
      <4> SUFFICES ASSUME pc = "failing", decision = "none", NEW w \in work, w.gen = generation
                   PROVE  FALSE
        OBVIOUS
      <4>1. PICK m \in Underway : m.kind = "failed" /\ m.gen = generation
        BY <1>0, <2>1 DEF QuestionAsked
      <4>2. IsAnswer(m)
        BY <4>1 DEF IsAnswer
      <4>3. m = Head(mailbox)
        BY <1>0, <2>1, <3>1, <4>1, <4>2, ReceiveOK DEF Underway
      <4> QED BY <1>k, <2>1, <4>1, <4>3
    <3> QED BY <1>00, <1>h, <2>1, <2>2, <3>1, <3>2, <3>3, <3>4, StartHeld
  <2> QED BY <2>3, <2>4
<1>3. CASE Fail
  <2> DEFINE m == Head(mailbox)
  <2>1. /\ Receive("failed") /\ Alive /\ Elements(mailbox') \subseteq Elements(mailbox)
        /\ m.kind = "failed"
    BY <1>3, <1>k DEF Fail
  <2>2. UNCHANGED <<generation, work, pc, aborted, relay, recovering>>
    BY <1>3 DEF Fail
  <2>3. CASE ~ IsAnswer(m)
    <3>1. m.gen # generation
      BY <2>1, <2>3 DEF IsAnswer
    <3>2. MailboxSame
      BY <1>0, <2>1, <2>3, MailboxGives
    <3>3. UNCHANGED <<status, current, inFlight, slot, decision>>
      BY <1>3, <3>1 DEF Fail, Fenced
    <3> QED BY <2>1, <2>2, <3>2, <3>3, Unchanged, Quiet DEF Alive
  <2>4. CASE IsAnswer(m)
    <3>1. /\ ~ HeldInSlot /\ ~ HeldAtPump /\ current # {} /\ Fenced(m) /\ m.on = current
          /\ \A n \in Elements(relay) \cup Elements(mailbox') : ~ IsAnswer(n)
          /\ m \in Underway /\ m.gen = generation
      BY <2>1, <2>4, AnswerAlone DEF Fenced
    <3>2. pc = "dead" \/ Awaited(m)
      BY <1>0, <2>1, <3>1 DEF QuestionWaits
    <3>3. ~ recovering
      BY <1>0, <2>1, <3>1 DEF RecoveringIdle
    <3>4. CASE /\ decision' = IF Awaited(m) THEN "retry" ELSE decision
               /\ UNCHANGED <<status, current, pending, facts, slot>>
      <4>1. status' = "running" /\ Alive' /\ Alive
        BY <2>1, <3>4 DEF Alive
      <4>2. \A n \in Underway' : ~ IsAnswer(n)'
        BY <2>2, <3>1 DEF Underway, IsAnswer
      <4>3. ~ HeldInSlot' /\ ~ HeldInRelay' /\ ~ HeldInMailbox'
        BY <2>2, <3>1, <3>4, <4>2 DEF HeldInSlot, HeldInRelay, HeldInMailbox, Underway
      <4>4. Underway' \subseteq Underway
        BY <2>1, <2>2 DEF Underway
      <4>5. Past'
        BY <1>0, <2>2, <3>4, <4>4 DEF Past
      <4>6. OneAtWork' /\ NotAborted' /\ Fresh' /\ Settled' /\ RecoveringIdle'
        BY <1>0, <2>1, <2>2, <3>3, <3>4, <4>1
           DEF HeldInv, OneAtWork, NotAborted, Fresh, Settled, RecoveringIdle, Alive
      <4>7. Apart'
        <5>1. OneAnswer(relay', generation') /\ OneAnswer(mailbox', generation')
          BY <4>2 DEF OneAnswer, Elements, IsAnswer, Answering, Underway
        <5> QED BY <4>3, <5>1 DEF Apart
      <4>8. Known'
        <5>1. \A r \in Elements(slot') : r.gen # generation
          BY <3>1, <3>4 DEF HeldInSlot
        <5>2. Awaited(m) => \A w \in work : w.gen = generation => w.on = current
          BY <1>0, <3>1 DEF Awaited, OneAtWork
        <5>3. PumpHolds' => Awaited(m)
          BY <2>2, <3>2, <3>4 DEF PumpHolds, Awaited
        <5>4. Awaited(m) => HeldAtPump'
          BY <2>2, <3>1, <3>4 DEF Awaited, HeldAtPump, PumpHolds
        <5>5. inFlight' = current'
          BY <1>0, <2>1, <3>4 DEF Known
        <5> QED BY <2>2, <3>2, <3>4, <4>2, <5>1, <5>2, <5>3, <5>4, <5>5 DEF Known
      <4>9. QuestionWaits'
        BY <2>2, <4>2 DEF QuestionWaits, IsAnswer
      <4>10. QuestionAsked'
        BY <2>2, <3>2, <3>4 DEF QuestionAsked, Awaited
      <4> QED BY <4>5, <4>6, <4>7, <4>8, <4>9, <4>10 DEF Held
    <3>5. CASE /\ decision' = IF Awaited(m) THEN "abandon" ELSE decision
               /\ Start(pending, shutting)
      <4>1. pc = "failing" /\ decision' = "none" => \A w \in work : w.gen # generation
        BY <3>2, <3>5 DEF Awaited
      <4>2. ~ HeldAtPump'
        BY <2>2, <3>1, <3>5 DEF HeldAtPump, PumpHolds
      <4> QED BY <1>00, <2>1, <2>2, <3>1, <3>3, <3>5, <4>1, <4>2, StartHeld
    <3> QED BY <1>3, <3>1, <3>4, <3>5 DEF Fail
  <2> QED BY <2>3, <2>4
<1>4. CASE Steer
  <2>1. Alive /\ MailboxSame
    BY <1>4, <1>k DEF Steer, Answering
  <2> QED BY <1>4, <2>1, Unchanged, Quiet DEF Steer, Alive
<1>5. CASE Steered
  <2>1. Alive /\ MailboxSame
    BY <1>5, <1>k DEF Steered, Answering
  <2> QED BY <1>5, <2>1, Unchanged, Quiet DEF Steered, Alive
<1>6. CASE Recovered
  <2>1. /\ Alive /\ Elements(mailbox') \subseteq Elements(mailbox) /\ MailboxSame
    BY <1>6, <1>k DEF Recovered, Answering
  <2>2. UNCHANGED <<generation, work, pc, aborted, relay, decision>>
    BY <1>6 DEF Recovered
  <2>3. CASE UNCHANGED <<status, current, pending, recovering, recovery, facts, slot>>
    BY <2>1, <2>2, <2>3, Unchanged, Quiet DEF Alive
  <2>4. CASE /\ recovering /\ recovering' = FALSE
             /\ Start(Keeping(recovery, Delivery \ Head(mailbox).on) \o pending, shutting)
    <3>1. Keeping(recovery, Delivery \ Head(mailbox).on) \o pending \in Seq(Delivery)
      BY <1>00, KeepingOK, ElementsConcat
    <3>2. current = {}
      BY <1>0, <2>1, <2>4 DEF RecoveringIdle
    <3> QED BY <1>00, <1>i, <1>h, <2>1, <2>2, <2>4, <3>1, <3>2, StartHeld
  <2> QED BY <1>6, <2>3, <2>4 DEF Recovered
<1>7. CASE Close
  <2>1. Alive /\ MailboxSame
    BY <1>7, <1>k DEF Close, Answering
  <2>2. CASE slot' = slot
    BY <1>7, <2>1, <2>2, Unchanged, Quiet DEF Close, Alive
  <2>3. CASE slot = <<>> /\ slot' = <<Stop>>
    <3>1. UNCHANGED <<status, generation, current, inFlight, recovering, work, decision, pc,
                      aborted, relay>>
      BY <1>7 DEF Close
    <3>2. Elements(slot') = {Stop} /\ Elements(slot) = {}
      BY <2>3, ElementsEmpty DEF Elements
    <3>3. Stop.gen = 0 /\ generation \in Nat /\ generation # 0
      BY <1>00, Limits DEF Stop
    <3> QED BY <2>1, <3>1, <3>2, <3>3, Unchanged, QuietSlot DEF Alive
  <2> QED BY <1>7, <2>2, <2>3 DEF Close
<1> QED BY <1>1, <1>2, <1>3, <1>4, <1>5, <1>6, <1>7 DEF Handle

\* The relay hands its oldest message to the actor, or to nobody.
LEMMA DeliverHeld == ASSUME HeldInv, Deliver PROVE Held'
<1> USE DEF callers, actor, shard, facts, io, native
<1>0. /\ TypeInv /\ Past /\ OneAtWork /\ Fresh /\ Settled /\ NotAborted /\ RecoveringIdle
      /\ Apart /\ Known /\ QuestionWaits /\ QuestionAsked
  BY DEF HeldInv
<1>1. /\ relay \in Seq(Messages) /\ relay # <<>> /\ relay' = Tail(relay)
      /\ mailbox \in Seq(Messages)
      /\ mailbox' = IF Alive THEN Append(mailbox, Head(relay)) ELSE mailbox
  BY <1>0, TypeParts DEF Deliver, RelayOK, MailboxOK
<1>2. /\ Head(relay) \in Messages /\ Elements(relay) = {Head(relay)} \cup Elements(relay')
      /\ Elements(relay') \subseteq Elements(relay)
  BY <1>1, ElementsTail
<1>3. UNCHANGED <<status, generation, current, inFlight, recovering, slot, work, pc, decision,
                  aborted>>
  BY DEF Deliver
<1>4. \A m : (IsAnswer(m)' <=> IsAnswer(m)) /\ (Awaited(m)' <=> Awaited(m))
  BY <1>3 DEF IsAnswer, Awaited
<1>5. HeldInSlot' = HeldInSlot /\ HeldAtPump' = HeldAtPump /\ PumpHolds' = PumpHolds
  BY <1>3 DEF HeldInSlot, HeldAtPump, PumpHolds
<1>6. CASE ~ Alive
  <2>1. mailbox' = mailbox /\ ~ Alive'
    BY <1>1, <1>3, <1>6 DEF Alive
  <2>2. Underway' \subseteq Underway /\ (HeldInRelay' => HeldInRelay)
    BY <1>2, <1>3, <2>1 DEF Underway, HeldInRelay, IsAnswer
  <2>3. Past' /\ OneAtWork' /\ NotAborted' /\ Settled'
    BY <1>0, <1>3, <2>1, <2>2 DEF Past, OneAtWork, NotAborted, Settled
  <2>4. Fresh'
    BY <1>0, <1>3, <1>5, <2>2 DEF Fresh
  <2> QED BY <2>1, <2>3, <2>4
          DEF Held, RecoveringIdle, Apart, Known, QuestionWaits, QuestionAsked
<1>7. CASE Alive
  <2>1. mailbox' = Append(mailbox, Head(relay)) /\ Alive' /\ status = "running"
    BY <1>1, <1>3, <1>7 DEF Alive
  <2>2. Elements(mailbox') = Elements(mailbox) \cup {Head(relay)}
    BY <1>1, <1>2, <2>1, ElementsAppend
  <2>3. Underway' = Underway
    BY <1>2, <2>2 DEF Underway
  <2>4. Past' /\ OneAtWork' /\ NotAborted' /\ Settled' /\ Fresh' /\ RecoveringIdle'
    BY <1>0, <1>3, <2>1, <2>3
       DEF Past, OneAtWork, NotAborted, Settled, Fresh, RecoveringIdle, Alive
  <2>5. OneAnswer(relay, generation) /\ OneAnswer(mailbox, generation)
    BY <1>0, <1>7 DEF Apart
  <2>6. /\ OneAnswer(relay', generation)
        /\ IsAnswer(Head(relay)) => \A m \in Elements(relay') : ~ IsAnswer(m)
    BY <1>1, <2>5, OneTail DEF IsAnswer, Answering
  <2>7. CASE IsAnswer(Head(relay))
    <3>1. HeldInRelay
      BY <1>2, <2>7 DEF HeldInRelay
    <3>2. ~ HeldInSlot /\ ~ HeldAtPump /\ \A m \in Elements(mailbox) : ~ IsAnswer(m)
      BY <1>0, <1>7, <3>1 DEF Apart, HeldInMailbox
    <3>3. OneAnswer(mailbox', generation)
      BY <1>1, <1>2, <2>1, <2>5, <3>2, OneAppend DEF IsAnswer, Answering
    <3>4. ~ HeldInRelay'
      BY <1>4, <2>6, <2>7 DEF HeldInRelay
    <3>5. HeldInMailbox'
      BY <1>4, <2>2, <2>7 DEF HeldInMailbox
    <3>6. Apart'
      BY <1>3, <1>5, <2>6, <3>2, <3>3, <3>4 DEF Apart
    <3>7. Known'
      BY <1>0, <1>3, <1>4, <1>5, <1>7, <2>3, <3>5 DEF Known
    <3> QED BY <1>0, <1>3, <1>4, <1>7, <2>3, <2>4, <3>6, <3>7
            DEF Held, QuestionWaits, QuestionAsked, Alive
  <2>8. CASE ~ IsAnswer(Head(relay))
    <3>1. HeldInRelay' = HeldInRelay
      BY <1>2, <1>4, <2>8 DEF HeldInRelay
    <3>2. HeldInMailbox' = HeldInMailbox
      BY <1>4, <2>2, <2>8 DEF HeldInMailbox
    <3>3. OneAnswer(mailbox', generation)
      BY <1>1, <1>2, <2>1, <2>5, <2>8, OneAppend DEF IsAnswer, Answering
    <3>4. Apart'
      BY <1>0, <1>3, <1>5, <1>7, <2>6, <3>1, <3>2, <3>3 DEF Apart
    <3>5. Known'
      BY <1>0, <1>3, <1>4, <1>5, <1>7, <2>3, <3>1, <3>2 DEF Known
    <3> QED BY <1>0, <1>3, <1>4, <1>7, <2>3, <2>4, <3>4, <3>5
            DEF Held, QuestionWaits, QuestionAsked, Alive
  <2> QED BY <2>7, <2>8
<1> QED BY <1>6, <1>7

\* The other steps of the actor: a failure forgets the turn, and a generation is new
\* to everything that is left of the earlier ones.
LEMMA ActorHeld == ASSUME HeldInv, TypeInv', ActorStep PROVE Held'
<1> USE DEF callers, actor, shard, facts, io, native
<1>0. /\ TypeInv /\ Past /\ OneAtWork /\ Fresh /\ Settled /\ NotAborted /\ RecoveringIdle
      /\ Apart /\ Known /\ QuestionWaits /\ QuestionAsked
  BY DEF HeldInv
<1>00. /\ generation \in Nat /\ generation \in Gen /\ inFlight \subseteq Delivery
       /\ ready \in SUBSET Requests
  BY <1>0, TypeParts, Limits DEF TurnOK, ShardOK
<1>v. ~ Alive' => RecoveringIdle' /\ Apart' /\ Known' /\ QuestionWaits' /\ QuestionAsked'
  BY DEF RecoveringIdle, Apart, Known, QuestionWaits, QuestionAsked
<1>1. CASE Raise
  <2>1. /\ status = "running" /\ status' = "failing" /\ ~ Alive'
        /\ UNCHANGED <<generation, mailbox, relay, slot, work, pc, aborted>>
    BY <1>1 DEF Raise, Alive
  <2>2. Past' /\ OneAtWork' /\ Fresh' /\ Settled' /\ NotAborted'
    BY <1>0, <2>1 DEF Past, OneAtWork, Fresh, Settled, NotAborted, Underway
  <2> QED BY <1>v, <2>1, <2>2 DEF Held
<1>2. CASE Failed
  <2>1. /\ status' \in {"pending", "quarantined"} /\ ~ Alive'
        /\ aborted' = aborted \cup {generation} /\ mailbox' = <<>>
        /\ current' = {} /\ inFlight' = {}
        /\ UNCHANGED <<generation, slot, work, pc>>
    BY <1>2 DEF Failed, Alive
  <2>2. RelaySame
    <3>1. CASE Recover({[gen |-> generation, on |-> inFlight]})
      <4>1. {[gen |-> generation, on |-> inFlight]} \in SUBSET Requests
        BY <1>00, RequestOK
      <4> QED BY <1>0, <3>1, <4>1, RecoverSame
    <3> QED BY <1>2, <3>1, Unchanged DEF Failed
  <2>3. \A m \in Underway' : m.kind \in Answering => m \in Underway
    BY <2>1, <2>2, ElementsEmpty DEF Underway, RelaySame
  <2>4. Past'
    <3>1. \A r \in Elements(slot') : r.gen <= generation'
      BY <1>0, <2>1 DEF Past
    <3>2. \A g \in aborted' : g <= generation'
      BY <1>0, <1>00, <2>1 DEF Past
    <3> QED BY <1>0, <2>1, <2>3, <3>1, <3>2 DEF Past
  <2>5. OneAtWork' /\ Settled' /\ Fresh' /\ NotAborted'
    BY <1>0, <2>1 DEF OneAtWork, Settled, Fresh, NotAborted
  <2> QED BY <1>v, <2>1, <2>4, <2>5 DEF Held
<1>3. CASE Build
  <2>1. /\ status = "pending" /\ status' = "built" /\ ~ Alive'
        /\ generation' = generation + 1 /\ inFlight' = {}
        /\ UNCHANGED <<mailbox, current, relay, slot, work, pc, aborted>>
    BY <1>3 DEF Build, Alive
  <2>2. /\ \A r \in Elements(slot) : r.gen <= generation
        /\ \A w \in work : w.gen <= generation
        /\ \A m \in Underway : m.kind \in Answering => m.gen <= generation /\ Some(m.on)
        /\ \A g \in aborted : g <= generation
    BY <1>0 DEF Past
  <2>3. /\ \A r \in Elements(slot) : r.gen \in Nat
        /\ \A w \in work : w.gen \in Nat
        /\ \A m \in Underway : m.gen \in Nat
        /\ \A g \in aborted : g \in Nat
    <3>1. \A w \in work : w.gen \in Nat
      BY <1>0, TypeParts, Limits DEF WorkOK
    <3>2. \A g \in aborted : g \in Nat
      BY <1>0, TypeParts, Limits DEF WorkOK
    <3>3. \A r \in Elements(slot) : r.gen \in Nat
      <4>1. Elements(slot) \subseteq Requests
        BY <1>0, TypeParts, ElementsOf DEF TurnOK
      <4>2. \A r \in Requests : r.gen \in Nat
        BY Limits DEF Requests
      <4> QED BY <4>1, <4>2
    <3>4. \A m \in Underway : m.gen \in Nat
      <4>1. Elements(relay) \subseteq Messages /\ Elements(mailbox) \subseteq Messages
        BY <1>0, TypeParts, ElementsOf DEF RelayOK, MailboxOK
      <4>2. \A m \in Messages : m.gen \in Nat
        BY Limits DEF Messages
      <4> QED BY <4>1, <4>2 DEF Underway
    <3> QED BY <3>1, <3>2, <3>3, <3>4
  <2>4. \A g \in Nat : g <= generation => g <= generation + 1 /\ g # generation + 1
    BY <1>00
  <2>5. Past'
    BY <2>1, <2>2, <2>3, <2>4 DEF Past, Underway
  <2>6. Fresh'
    <3>1. ~ HeldInSlot'
      BY <2>1, <2>2, <2>3, <2>4 DEF HeldInSlot
    <3>2. \A w \in work' : w.gen # generation'
      BY <2>1, <2>2, <2>3, <2>4
    <3>3. ~ HeldInRelay'
      BY <2>1, <2>2, <2>3, <2>4 DEF HeldInRelay, Underway, IsAnswer, Answering
    <3> QED BY <3>1, <3>2, <3>3 DEF Fresh
  <2>7. OneAtWork' /\ Settled'
    BY <1>0, <2>1 DEF OneAtWork, Settled
  <2>8. NotAborted'
    BY <2>1, <2>2, <2>3, <2>4 DEF NotAborted
  <2> QED BY <1>v, <2>1, <2>5, <2>6, <2>7, <2>8 DEF Held
<1>4. CASE Run
  <2>1. /\ status = "built" /\ status' = "running" /\ Alive'
        /\ UNCHANGED <<generation, mailbox, current, inFlight, relay, slot, work, pc, decision,
                       aborted, recovering>>
    BY <1>4 DEF Run, Alive
  <2>2. /\ ~ HeldInSlot /\ (\A w \in work : w.gen # generation) /\ ~ HeldInRelay
        /\ current = {} /\ inFlight = {} /\ mailbox = <<>> /\ generation \notin aborted
    BY <1>0, <2>1 DEF Fresh, Settled, NotAborted
  <2>3. \A m \in Underway' : ~ IsAnswer(m)'
    BY <2>1, <2>2, ElementsEmpty DEF Underway, HeldInRelay, IsAnswer
  <2>4. ~ HeldInSlot' /\ ~ HeldAtPump' /\ ~ HeldInRelay' /\ ~ HeldInMailbox'
    <3>1. ~ HeldInSlot' /\ ~ HeldAtPump'
      BY <2>1, <2>2 DEF HeldInSlot, HeldAtPump
    <3> QED BY <2>3, <3>1 DEF HeldInRelay, HeldInMailbox, Underway
  <2>5. Past'
    BY <1>0, <2>1 DEF Past, Underway
  <2>6. OneAtWork' /\ Fresh' /\ Settled' /\ NotAborted' /\ RecoveringIdle'
    BY <1>0, <2>1, <2>2 DEF OneAtWork, Fresh, Settled, NotAborted, RecoveringIdle
  <2>7. Apart'
    <3>1. OneAnswer(relay', generation') /\ OneAnswer(mailbox', generation')
      BY <2>3 DEF OneAnswer, Elements, IsAnswer, Answering, Underway
    <3> QED BY <2>4, <3>1 DEF Apart
  <2>8. Known'
    BY <2>1, <2>2, <2>3 DEF Known, HeldInSlot
  <2>9. QuestionWaits' /\ QuestionAsked'
    BY <2>1, <2>2, <2>3 DEF QuestionWaits, QuestionAsked, IsAnswer
  <2> QED BY <2>5, <2>6, <2>7, <2>8, <2>9 DEF Held
<1>5. CASE Announce
  <2>1. RelaySame
    BY <1>0, <1>00, <1>5, RecoverSame DEF Announce
  <2> QED BY <1>5, <2>1, Unchanged, Quiet DEF Announce
<1> QED BY <1>1, <1>2, <1>3, <1>4, <1>5, HandleHeld DEF ActorStep

\* The end of the pump loses its turn.
LEMMA PumpEnds ==
  ASSUME HeldInv, pc' = "dead", work' = {},
         UNCHANGED <<status, generation, mailbox, current, inFlight, recovering, relay, slot,
                     aborted>>
  PROVE  Held'
<1>0. /\ Past /\ OneAtWork /\ Fresh /\ Settled /\ NotAborted /\ RecoveringIdle /\ Apart /\ Known
      /\ UNCHANGED <<status, generation, mailbox, current, inFlight, recovering, relay, slot,
                     aborted>>
  BY DEF HeldInv
<1>1. /\ HeldInSlot' = HeldInSlot /\ ~ HeldAtPump'
      /\ HeldInRelay' = HeldInRelay /\ HeldInMailbox' = HeldInMailbox
      /\ Underway' = Underway /\ Alive' = Alive /\ \A m : IsAnswer(m)' <=> IsAnswer(m)
  BY <1>0 DEF HeldInSlot, HeldAtPump, HeldInRelay, HeldInMailbox, Underway, Alive, IsAnswer
<1>2. Past' /\ OneAtWork' /\ Settled' /\ NotAborted' /\ RecoveringIdle'
  BY <1>0, <1>1 DEF Past, OneAtWork, Settled, NotAborted, RecoveringIdle
<1>3. Fresh' /\ Apart'
  BY <1>0, <1>1 DEF Fresh, Apart
<1>4. Known'
  BY <1>0, <1>1 DEF Known
<1>5. QuestionWaits' /\ QuestionAsked'
  BY DEF QuestionWaits, QuestionAsked
<1> QED BY <1>2, <1>3, <1>4, <1>5 DEF Held

\* A pump that has handed its turn over, or has none of this generation, forgets its
\* request, and perhaps one of the slot that is not of this generation either.
LEMMA PumpLets ==
  ASSUME HeldInv, RelaySame, work' = {}, pc # "dead", pc' # "failing",
         UNCHANGED <<status, generation, mailbox, current, inFlight, recovering>>,
         Alive => ~ HeldAtPump, pc = "failing" => decision # "none",
         Elements(slot') \subseteq Elements(slot),
         Alive => \A r \in Elements(slot) : r.gen = generation => r \in Elements(slot'),
         aborted' \subseteq aborted
  PROVE  Held'
<1>0. /\ Past /\ OneAtWork /\ Fresh /\ Settled /\ NotAborted /\ RecoveringIdle /\ Apart /\ Known
      /\ QuestionWaits
      /\ UNCHANGED <<status, generation, mailbox, current, inFlight, recovering>>
  BY DEF HeldInv
<1>1. /\ Alive' = Alive /\ (\A m : IsAnswer(m)' <=> IsAnswer(m))
      /\ (\A m : IsAnswer(m) => m.kind \in Answering)
      /\ ~ HeldAtPump' /\ (HeldInSlot' => HeldInSlot) /\ (Alive => (HeldInSlot' <=> HeldInSlot))
  BY <1>0 DEF HeldInSlot, HeldAtPump, Alive, IsAnswer, Answering
<1>2. HeldInRelay' = HeldInRelay /\ HeldInMailbox' = HeldInMailbox
  BY <1>0, <1>1 DEF HeldInRelay, HeldInMailbox, RelaySame
<1>3. /\ \A m : m.kind \in Answering /\ m \in Underway' => m \in Underway
      /\ \A m : IsAnswer(m) /\ m \in Underway => m \in Underway'
  BY <1>0 DEF Underway, RelaySame
<1>4. Past'
  <2>1. \A m \in Underway' : m.kind \in Answering => m.gen <= generation /\ Some(m.on)
    BY <1>0, <1>3 DEF Past
  <2>2. \A r \in Elements(slot') : r.gen <= generation
    BY <1>0 DEF Past
  <2>3. \A g \in aborted' : g <= generation
    BY <1>0 DEF Past
  <2> QED BY <1>0, <2>1, <2>2, <2>3 DEF Past
<1>5. OneAtWork' /\ Settled' /\ NotAborted' /\ RecoveringIdle'
  BY <1>0, <1>1 DEF OneAtWork, Settled, NotAborted, RecoveringIdle
<1>6. Fresh' /\ Apart'
  <2>1. Fresh'
    BY <1>0, <1>1, <1>2 DEF Fresh
  <2>2. OneAnswer(mailbox, generation) => OneAnswer(mailbox', generation')
    BY <1>0
  <2>3. OneAnswer(relay, generation) => OneAnswer(relay', generation')
    BY <1>0 DEF RelaySame
  <2>4. Apart'
    BY <1>0, <1>1, <1>2, <2>2, <2>3 DEF Apart
  <2> QED BY <2>1, <2>4
<1>7. Known'
  <2>1. Alive => \A r \in Elements(slot') : r.gen = generation => r.on = current
    BY <1>0 DEF Known
  <2>2. Alive => \A m \in Underway' : IsAnswer(m) => m.on = current
    BY <1>0, <1>1, <1>3 DEF Known
  <2>3. Alive => HeldInSlot' \/ HeldInRelay' \/ HeldInMailbox' \/ current' = {}
    BY <1>0, <1>1, <1>2 DEF Known
  <2>4. Alive => inFlight' = current'
    BY <1>0 DEF Known
  <2> QED BY <1>0, <1>1, <2>1, <2>2, <2>3, <2>4 DEF Known
<1>8. QuestionWaits'
  <2>1. \A m : m.kind = "failed" => m.kind \in Answering
    BY DEF Answering
  <2>2. \A m : ~ Awaited(m)
    BY DEF Awaited
  <2> QED BY <1>0, <1>1, <1>3, <2>1, <2>2 DEF QuestionWaits
<1>9. QuestionAsked'
  BY DEF QuestionAsked
<1> QED BY <1>4, <1>5, <1>6, <1>7, <1>8, <1>9 DEF Held

\* The pump goes on with its request: another query, or another connection.
LEMMA PumpGoesOn ==
  ASSUME HeldInv, PumpHolds,
         pc' \in {"connecting", "checking", "asking", "running"},
         UNCHANGED <<status, generation, mailbox, current, inFlight, recovering, slot, aborted,
                     relay>>,
         \A v \in work' : \E w \in work : v.gen = w.gen /\ v.on = w.on,
         \A w \in work : \E v \in work' : v.gen = w.gen /\ v.on = w.on,
         \A u, v \in work' : u = v
  PROVE  Held'
<1>0. /\ Past /\ OneAtWork /\ Fresh /\ Settled /\ NotAborted /\ RecoveringIdle /\ Apart /\ Known
      /\ QuestionWaits
      /\ UNCHANGED <<status, generation, mailbox, current, inFlight, recovering, slot, aborted,
                     relay>>
  BY DEF HeldInv
<1>1. /\ Alive' = Alive /\ (\A m : IsAnswer(m)' <=> IsAnswer(m))
      /\ PumpHolds' /\ (HeldAtPump' <=> HeldAtPump) /\ HeldInSlot' = HeldInSlot
      /\ HeldInRelay' = HeldInRelay /\ HeldInMailbox' = HeldInMailbox /\ Underway' = Underway
  BY <1>0 DEF HeldInSlot, HeldAtPump, Alive, IsAnswer, PumpHolds, HeldInRelay, HeldInMailbox, Underway
<1>2. Past' /\ OneAtWork' /\ Settled' /\ NotAborted' /\ RecoveringIdle'
  BY <1>0, <1>1 DEF Past, OneAtWork, Settled, NotAborted, RecoveringIdle
<1>3. Fresh' /\ Apart'
  BY <1>0, <1>1 DEF Fresh, Apart
<1>4. Known'
  <2>1. pc # "dead"
    BY DEF PumpHolds
  <2>2. Alive => \A w \in work' : w.gen = generation => w.on = current
    BY <1>0 DEF Known
  <2> QED BY <1>0, <1>1, <2>1, <2>2 DEF Known
<1>5. QuestionWaits'
  <2>1. pc # "dead" /\ \A m : ~ Awaited(m)
    BY DEF PumpHolds, Awaited
  <2> QED BY <1>0, <1>1, <2>1 DEF QuestionWaits
<1>6. QuestionAsked'
  BY DEF QuestionAsked
<1> QED BY <1>2, <1>3, <1>4, <1>5, <1>6 DEF Held

\* The pump submits an answer: the turn goes from the pump to the relay, and only
\* after a failure does the pump wait.
LEMMA PumpAnswers ==
  ASSUME HeldInv, NEW w \in work, NEW m \in Messages,
         pc \in {"checking", "asking", "running"},
         m.kind \in Answering, m.gen = w.gen, m.on = w.on, relay' = Append(relay, m),
         UNCHANGED <<status, generation, mailbox, current, inFlight, recovering, slot, aborted,
                     work>>,
         \/ pc' = "finished" /\ m.kind = "completed"
         \/ pc' = "failing" /\ decision' = "none" /\ m.kind = "failed"
  PROVE  Held'
<1>0. /\ TypeInv /\ Past /\ OneAtWork /\ Fresh /\ Settled /\ NotAborted /\ RecoveringIdle
      /\ Apart /\ Known /\ QuestionWaits
      /\ UNCHANGED <<status, generation, mailbox, current, inFlight, recovering, slot, aborted,
                     work>>
  BY DEF HeldInv
<1>1. relay \in Seq(Messages)
  BY <1>0, TypeParts DEF RelayOK
<1>2. Elements(relay') = Elements(relay) \cup {m}
  BY <1>1, ElementsAppend
<1>3. /\ Alive' = Alive /\ (\A n : IsAnswer(n)' <=> IsAnswer(n))
      /\ HeldInSlot' = HeldInSlot /\ HeldInMailbox' = HeldInMailbox /\ ~ PumpHolds' /\ ~ HeldAtPump'
      /\ PumpHolds /\ pc # "dead" /\ (\A n : ~ Awaited(n))
      /\ Underway' = Underway \cup {m}
  BY <1>0, <1>2 DEF HeldInSlot, HeldAtPump, Alive, IsAnswer, PumpHolds, HeldInMailbox, Underway, Awaited
<1>4. w.gen = generation => HeldAtPump
  BY <1>3 DEF HeldAtPump
<1>5. IsAnswer(m) <=> w.gen = generation
  BY DEF IsAnswer, Answering
<1>6. Past'
  <2>1. m.gen <= generation /\ Some(m.on)
    BY <1>0 DEF Past, OneAtWork
  <2> QED BY <1>0, <1>3, <2>1 DEF Past
<1>7. OneAtWork' /\ Settled' /\ NotAborted' /\ RecoveringIdle'
  BY <1>0, <1>3 DEF OneAtWork, Settled, NotAborted, RecoveringIdle
<1>8. Fresh'
  BY <1>0, <1>2, <1>3, <1>5 DEF Fresh, HeldInRelay
<1>9. HeldInRelay' <=> HeldInRelay \/ w.gen = generation
  BY <1>2, <1>3, <1>5 DEF HeldInRelay
<1>10. Apart'
  <2> SUFFICES ASSUME Alive PROVE Apart'
    BY <1>3 DEF Apart
  <2>1. OneAnswer(relay, generation) /\ OneAnswer(mailbox, generation)
    BY <1>0 DEF Apart
  <2>2. OneAnswer(relay', generation)
    <3>1. CASE w.gen = generation
      <4>1. \A n \in Elements(relay) : ~ IsAnswer(n)
        BY <1>0, <1>4, <3>1 DEF Apart, HeldInRelay
      <4> QED BY <1>1, <2>1, <4>1, OneAppend DEF IsAnswer, Answering
    <3>2. CASE w.gen # generation
      BY <1>1, <2>1, <3>2, OneAppend
    <3> QED BY <3>1, <3>2
  <2> QED BY <1>0, <1>3, <1>4, <1>9, <2>1, <2>2 DEF Apart
<1>11. Known'
  <2>1. Alive /\ w.gen = generation => m.on = current
    BY <1>0, <1>3 DEF Known
  <2>2. Alive => \A n \in Underway' : IsAnswer(n) => n.on = current
    BY <1>0, <1>3, <1>5, <2>1 DEF Known
  <2>3. HeldAtPump => w.gen = generation
    BY <1>0 DEF HeldAtPump, OneAtWork
  <2> QED BY <1>0, <1>3, <1>9, <2>2, <2>3 DEF Known
<1>12. QuestionWaits'
  <2>1. Alive => \A n \in Underway : ~ (n.kind = "failed" /\ n.gen = generation)
    BY <1>0, <1>3 DEF QuestionWaits
  <2>2. m.kind = "failed" => Awaited(m)'
    BY <1>0 DEF Awaited
  <2> QED BY <1>0, <1>3, <2>1, <2>2 DEF QuestionWaits
<1>13. QuestionAsked'
  <2>1. \A v \in work : v = w
    BY <1>0 DEF OneAtWork
  <2>2. m \in Underway'
    BY <1>3
  <2> QED BY <1>0, <2>1, <2>2 DEF QuestionAsked
<1> QED BY <1>6, <1>7, <1>8, <1>10, <1>11, <1>12, <1>13 DEF Held

\* The steps of the pump.
LEMMA PumpHeld == ASSUME HeldInv, PumpStep PROVE Held'
<1> USE DEF callers, actor, shard, facts, io, native
<1>0. /\ TypeInv /\ Past /\ OneAtWork /\ Fresh /\ Settled /\ NotAborted /\ RecoveringIdle
      /\ Apart /\ Known /\ QuestionWaits /\ QuestionAsked
  BY DEF HeldInv
<1>i. pc = "idle" => work = {} /\ ~ HeldAtPump
  BY <1>0 DEF OneAtWork, HeldAtPump
<1>a. ASSUME NEW a \in aborts, Ready(a) PROVE RelaySame
  <2>1. a.gen \in Gen /\ a.on \subseteq Delivery
    BY <1>0, TypeParts DEF AbortsOK
  <2> QED BY <1>0, <1>a, <2>1, RequestOK, RecoverSame DEF Ready
<1>w. ASSUME NEW w \in work PROVE w.gen \in Gen /\ w.on \subseteq Delivery
  BY <1>0, TypeParts DEF WorkOK
<1>1. CASE Connect
  <2>1. CASE stopping
    BY <1>1, <2>1, PumpEnds DEF Connect
  <2>2. CASE ~ stopping /\ work = {}
    <3>1. pc' = "idle" /\ work' = {} /\ ~ HeldAtPump
      BY <1>1, <2>2 DEF Connect, HeldAtPump
    <3> QED BY <1>1, <3>1, Unchanged, PumpLets DEF Connect
  <2>3. CASE ~ stopping /\ work # {}
    BY <1>1, <2>3, Unchanged, Quiet DEF Connect
  <2> QED BY <2>1, <2>2, <2>3
<1>2. CASE NeverConnects
  BY <1>2, PumpEnds DEF NeverConnects
<1>3. CASE Take
  <2> DEFINE r == Head(slot)
  <2>1. /\ pc = "idle" /\ slot # <<>> /\ slot' = <<>> /\ work = {} /\ ~ HeldAtPump
        /\ UNCHANGED <<status, generation, mailbox, current, inFlight, recovering, relay, decision>>
    BY <1>3, <1>i DEF Take
  <2>2. Elements(slot) = {r} /\ Elements(slot') = {}
    <3>1. slot[1] = r /\ Len(slot) = 1
      BY <1>0, <2>1, SlotHead
    <3>2. Elements(slot) = {slot[1]}
      BY <3>1 DEF Elements
    <3> QED BY <2>1, <3>1, <3>2, ElementsEmpty
  <2>3. r # Stop => r.gen \in Gen /\ Some(r.on)
    BY <1>0, <2>1, SlotHead
  <2> HIDE DEF r
  <2>4. generation \in Gen /\ 0 \notin Gen
    BY <1>0, TypeParts, Limits DEF ShardOK
  <2>5. CASE r = Stop /\ pc' = "dead" /\ UNCHANGED <<work, activeGen, aborted>>
    <3>1. r.gen # generation
      BY <2>4, <2>5 DEF Stop
    <3> QED BY <2>1, <2>2, <2>5, <3>1, Unchanged, PumpLets
  <2>6. CASE r.gen \in aborted /\ pc' = Again /\ aborted' = aborted \ {r.gen} /\ UNCHANGED work
    <3>1. Alive => r.gen # generation
      BY <1>0, <2>6 DEF NotAborted, Alive
    <3>2. pc' # "failing"
      BY <2>6 DEF Again
    <3> QED BY <2>1, <2>2, <2>6, <3>1, <3>2, Unchanged, PumpLets
  <2>7. CASE /\ r # Stop /\ pc' = "checking"
             /\ work' = {[gen |-> r.gen, on |-> r.on, tries |-> 0]} /\ UNCHANGED aborted
    <3>1. /\ Alive' = Alive /\ (\A m : IsAnswer(m)' <=> IsAnswer(m))
          /\ ~ HeldInSlot' /\ HeldInRelay' = HeldInRelay /\ HeldInMailbox' = HeldInMailbox
          /\ Underway' = Underway
      BY <2>1, <2>2 DEF Alive, IsAnswer, HeldInSlot, HeldInRelay, HeldInMailbox, Underway
    <3>2. \A w \in work' : w.gen = r.gen /\ w.on = r.on
      BY <2>7
    <3>3. r.gen = generation <=> HeldInSlot
      BY <2>2 DEF HeldInSlot
    <3>4. HeldAtPump' <=> HeldInSlot
      BY <2>1, <2>7, <3>2, <3>3 DEF HeldAtPump, PumpHolds
    <3>5. Past'
      <4>1. r.gen <= generation
        BY <1>0, <2>2 DEF Past
      <4> QED BY <1>0, <2>1, <2>2, <2>7, <3>1, <3>2, <4>1 DEF Past
    <3>6. OneAtWork'
      BY <2>3, <2>7, <3>2 DEF OneAtWork
    <3>7. Settled' /\ NotAborted' /\ RecoveringIdle'
      BY <1>0, <2>1, <2>7, <3>1 DEF Settled, NotAborted, RecoveringIdle
    <3>8. Fresh' /\ Apart'
      BY <1>0, <2>1, <3>1, <3>2, <3>3, <3>4 DEF Fresh, Apart
    <3>9. Known'
      <4>1. Alive /\ r.gen = generation => r.on = current
        BY <1>0, <2>2 DEF Known
      <4> QED BY <1>0, <2>1, <2>2, <2>7, <3>1, <3>2, <3>4, <4>1 DEF Known
    <3>10. QuestionWaits'
      <4>1. \A m : ~ Awaited(m)
        BY <2>1 DEF Awaited
      <4> QED BY <1>0, <2>1, <3>1, <4>1 DEF QuestionWaits
    <3>11. QuestionAsked'
      BY <2>7 DEF QuestionAsked
    <3> QED BY <3>5, <3>6, <3>7, <3>8, <3>9, <3>10, <3>11 DEF Held
  <2> QED BY <1>3, <2>5, <2>6, <2>7 DEF Take, r
<1>4. CASE StopsWaiting
  BY <1>4, PumpEnds DEF StopsWaiting
<1>5. CASE Ask
  <2>1. PumpHolds
    BY <1>5 DEF Ask, PumpHolds
  <2>2. work' = {[w EXCEPT !.tries = @ + 1] : w \in work}
    BY <1>5 DEF Ask
  <2>3. \A w \in work : /\ [w EXCEPT !.tries = @ + 1].gen = w.gen
                        /\ [w EXCEPT !.tries = @ + 1].on = w.on
    BY <1>0, TypeParts DEF WorkOK
  <2>4. \A u, v \in work' : u = v
    BY <1>0, <2>2 DEF OneAtWork
  <2>5. /\ \A v \in work' : \E w \in work : v.gen = w.gen /\ v.on = w.on
        /\ \A w \in work : \E v \in work' : v.gen = w.gen /\ v.on = w.on
    BY <2>2, <2>3
  <2> QED BY <1>5, <2>1, <2>4, <2>5, PumpGoesOn DEF Ask
<1>6. CASE Asked
  <2>1. RelaySame
    BY <1>6, <1>a, Unchanged DEF Asked
  <2> QED BY <1>6, <2>1, Unchanged, Quiet DEF Asked
<1>7. CASE Answer
  <2>1. CASE RelayRoom
    <3>1. PICK w \in work : relay' = Append(relay, Msg("completed", w.gen, w.on, TRUE))
      BY <1>7, <2>1 DEF Answer
    <3> DEFINE m == Msg("completed", w.gen, w.on, TRUE)
    <3>2. m \in Messages /\ m.kind = "completed" /\ m.gen = w.gen /\ m.on = w.on
      BY <1>w, RequestOK DEF Msg, Messages
    <3>3. "completed" \in Answering
      BY DEF Answering
    <3> HIDE DEF m
    <3>4. relay' = Append(relay, m)
      BY <3>1 DEF m
    <3>5. /\ pc \in {"checking", "asking", "running"} /\ pc' = "finished"
          /\ UNCHANGED <<status, generation, mailbox, current, inFlight, recovering, slot, aborted,
                         work>>
      BY <1>7, <2>1 DEF Answer
    <3> QED BY <3>2, <3>3, <3>4, <3>5, PumpAnswers
  <2>2. CASE ~ RelayRoom
    BY <1>7, <2>2, PumpEnds DEF Answer
  <2> QED BY <2>1, <2>2
<1>8. CASE Clear
  <2>1. ~ HeldAtPump /\ pc' # "failing"
    BY <1>8 DEF Clear, HeldAtPump, PumpHolds, Again
  <2> QED BY <1>8, <2>1, Unchanged, PumpLets DEF Clear
<1>9. CASE ErrorWhenAborted
  <2>1. RelaySame
    BY <1>9, <1>a, Unchanged DEF ErrorWhenAborted
  <2>2. Alive => ~ HeldAtPump
    BY <1>0, <1>9 DEF ErrorWhenAborted, HeldAtPump, NotAborted, Alive
  <2>3. aborted' \subseteq aborted
    BY <1>9 DEF ErrorWhenAborted
  <2> QED BY <1>9, <2>1, <2>2, <2>3, PumpLets DEF ErrorWhenAborted
<1>14. CASE InterruptRaises
  <2>1. Alive => ~ HeldAtPump
    BY <1>0, <1>14 DEF InterruptRaises, HeldAtPump, NotAborted, Alive
  <2>2. aborted' \subseteq aborted
    BY <1>14 DEF InterruptRaises
  <2> QED BY <1>14, <2>1, <2>2, Unchanged, PumpLets DEF InterruptRaises
<1>10. CASE ErrorBeforeTurn
  BY <1>10, Unchanged, Quiet DEF ErrorBeforeTurn
<1>11. CASE ErrorInTurn
  <2>1. CASE RelayRoom
    <3>1. PICK w \in work, retriable \in BOOLEAN :
             relay' = Append(relay, Msg("failed", w.gen, w.on, retriable))
      BY <1>11, <2>1 DEF ErrorInTurn
    <3> DEFINE m == Msg("failed", w.gen, w.on, retriable)
    <3>2. m \in Messages /\ m.kind = "failed" /\ m.gen = w.gen /\ m.on = w.on
      BY <1>w, RequestOK DEF Msg, Messages
    <3>3. "failed" \in Answering
      BY DEF Answering
    <3> HIDE DEF m
    <3>4. relay' = Append(relay, m)
      BY <3>1 DEF m
    <3>5. /\ pc \in {"checking", "asking", "running"} /\ pc' = "failing" /\ decision' = "none"
          /\ UNCHANGED <<status, generation, mailbox, current, inFlight, recovering, slot, aborted,
                         work>>
      BY <1>11, <2>1 DEF ErrorInTurn
    <3> QED BY <3>2, <3>3, <3>4, <3>5, PumpAnswers
  <2>2. CASE ~ RelayRoom
    BY <1>11, <2>2, PumpEnds DEF ErrorInTurn
  <2> QED BY <2>1, <2>2
<1>12. CASE Decided
  <2>1. CASE decision = "retry"
    <3>1. PumpHolds /\ work' = work /\ pc' = "connecting"
      BY <1>12, <2>1 DEF Decided, PumpHolds
    <3> QED BY <1>0, <1>12, <3>1, PumpGoesOn DEF Decided, OneAtWork
  <2>2. CASE decision # "retry"
    <3>1. ~ HeldAtPump /\ work' = {} /\ pc' = "connecting"
      BY <1>12, <2>2 DEF Decided, HeldAtPump, PumpHolds
    <3> QED BY <1>12, <3>1, Unchanged, PumpLets DEF Decided
  <2> QED BY <2>1, <2>2
<1>13. CASE Undecided
  BY <1>13, PumpEnds DEF Undecided
<1> QED BY <1>1, <1>2, <1>3, <1>4, <1>5, <1>6, <1>7, <1>8, <1>9, <1>10, <1>11, <1>12, <1>13, <1>14
        DEF PumpStep

LEMMA HeldStep == HeldInv /\ [Next]_vars => HeldInv'
<1> SUFFICES ASSUME HeldInv, [Next]_vars PROVE HeldInv'
  OBVIOUS
<1>1. TypeInv /\ TypeInv'
  BY TypeStep, HeldParts
<1>2. (TypeInv /\ Held)' => HeldInv'
  BY DEF HeldInv, Held
<1>3. CASE UNCHANGED vars
  <2>1. Held'
    BY <1>3, Unchanged, Quiet DEF vars, callers, actor, shard, facts, io, native
  <2> QED BY <1>1, <1>2, <2>1
<1>4. CASE Next
  <2>1. Held'
    BY <1>1, <1>4, CallersQuiet, DeliverHeld, ActorHeld, PumpHeld, NativeQuiet DEF Next
  <2> QED BY <1>1, <1>2, <2>1
<1> QED BY <1>3, <1>4

LEMMA HeldInit == Init => HeldInv
<1> SUFFICES ASSUME Init PROVE HeldInv
  OBVIOUS
<1>1. TypeInv
  BY TypeInit
<1>2. /\ relay = <<>> /\ mailbox = <<>> /\ slot = <<>> /\ work = {} /\ aborted = {}
      /\ pc = "connecting" /\ status = "running" /\ current = {} /\ inFlight = {}
  BY DEF Init
<1>3. Underway = {} /\ Elements(relay) = {} /\ Elements(mailbox) = {} /\ Elements(slot) = {}
  BY <1>2, ElementsEmpty DEF Underway
<1>4. Past /\ OneAtWork /\ Fresh /\ Settled /\ NotAborted /\ RecoveringIdle
  BY <1>2, <1>3 DEF Past, OneAtWork, Fresh, Settled, NotAborted, RecoveringIdle
<1>5. Apart
  <2>1. OneAnswer(relay, generation) /\ OneAnswer(mailbox, generation)
    BY <1>2 DEF OneAnswer
  <2> QED BY <1>2, <1>3, <2>1 DEF Apart, HeldInSlot, HeldAtPump, HeldInRelay, HeldInMailbox
<1>6. Known
  BY <1>2, <1>3 DEF Known
<1>7. QuestionWaits /\ QuestionAsked
  BY <1>2, <1>3 DEF QuestionWaits, QuestionAsked
<1> QED BY <1>1, <1>4, <1>5, <1>6, <1>7 DEF HeldInv

LEMMA HeldInvariant == Spec => []HeldInv
BY HeldInit, HeldStep, PTL DEF Spec

LEMMA AtMostOne ==
  ASSUME NEW S, \A x, y \in S : x = y
  PROVE  Cardinality(S) \in {0, 1} /\ (Cardinality(S) = 0 <=> S = {})
<1>1. CASE S = {}
  BY <1>1, FS_EmptySet
<1>2. CASE S # {}
  <2>1. PICK x \in S : S = {x}
    BY <1>2
  <2> QED BY <2>1, FS_Singleton
<1> QED BY <1>1, <1>2

LEMMA HeldOnce == ASSUME HeldInv PROVE TurnHeldOnce
<1> SUFFICES ASSUME Alive
             PROVE  /\ Concerned \subseteq {current}
                    /\ inFlight = current
                    /\ Holders <= 1
                    /\ Holders = 0 => current = {} \/ pc = "dead"
  BY DEF TurnHeldOnce
<1>0. TypeInv /\ OneAtWork /\ Apart /\ Known
  BY DEF HeldInv
<1>1. /\ \A i \in 1..Len(slot) : slot[i] \in Elements(slot)
      /\ \A i \in 1..Len(relay) : relay[i] \in Elements(relay)
      /\ \A i \in 1..Len(mailbox) : mailbox[i] \in Elements(mailbox)
  BY DEF Elements
<1>2. InSlot = {} <=> ~ HeldInSlot
  BY DEF InSlot, HeldInSlot, Elements
<1>3. InRelay = {} <=> ~ HeldInRelay
  BY DEF InRelay, HeldInRelay, Elements
<1>4. InMailbox = {} <=> ~ HeldInMailbox
  BY DEF InMailbox, HeldInMailbox, Elements
<1>5. AtPump = {} <=> ~ HeldAtPump
  BY DEF AtPump, HeldAtPump, PumpHolds
<1>6. Concerned \subseteq {current}
  <2>1. \A i \in InSlot : slot[i].on = current
    BY <1>0, <1>1 DEF InSlot, Known
  <2>2. \A w \in AtPump : w.on = current
    BY <1>0 DEF AtPump, Known, PumpHolds
  <2>3. \A i \in InRelay : relay[i].on = current
    BY <1>0, <1>1 DEF InRelay, Known, Underway
  <2>4. \A i \in InMailbox : mailbox[i].on = current
    BY <1>0, <1>1 DEF InMailbox, Known, Underway
  <2> QED BY <2>1, <2>2, <2>3, <2>4 DEF Concerned
<1>7. Cardinality(InSlot) \in {0, 1} /\ (Cardinality(InSlot) = 0 <=> InSlot = {})
  <2>1. \A i, j \in InSlot : i = j
    <3>1. Len(slot) \in {0, 1}
      <4>1. slot \in Seq(Requests) /\ Len(slot) <= 1
        BY <1>0, TypeParts DEF TurnOK
      <4>2. Len(slot) \in Nat
        BY <4>1, LenProperties
      <4>3. \A n \in Nat : n <= 1 => n \in {0, 1}
        OBVIOUS
      <4> QED BY <4>1, <4>2, <4>3
    <3>2. \A i \in InSlot : i = 1
      BY <3>1 DEF InSlot
    <3> QED BY <3>2
  <2> QED BY <2>1, AtMostOne
<1>8. Cardinality(AtPump) \in {0, 1} /\ (Cardinality(AtPump) = 0 <=> AtPump = {})
  <2>1. \A v, w \in AtPump : v = w
    BY <1>0 DEF AtPump, OneAtWork
  <2> QED BY <2>1, AtMostOne
<1>9. Cardinality(InRelay) \in {0, 1} /\ (Cardinality(InRelay) = 0 <=> InRelay = {})
  <2>1. \A i, j \in InRelay : i = j
    BY <1>0 DEF InRelay, Apart, OneAnswer, IsAnswer, Answering
  <2> QED BY <2>1, AtMostOne
<1>10. Cardinality(InMailbox) \in {0, 1} /\ (Cardinality(InMailbox) = 0 <=> InMailbox = {})
  <2>1. \A i, j \in InMailbox : i = j
    BY <1>0 DEF InMailbox, Apart, OneAnswer, IsAnswer, Answering
  <2> QED BY <2>1, AtMostOne
<1>11. /\ InSlot # {} => AtPump = {} /\ InRelay = {} /\ InMailbox = {}
       /\ AtPump # {} => InRelay = {} /\ InMailbox = {}
       /\ InRelay # {} => InMailbox = {}
  BY <1>0, <1>2, <1>3, <1>4, <1>5 DEF Apart
<1>12. Holders <= 1 /\ (Holders = 0 => InSlot = {} /\ AtPump = {} /\ InRelay = {} /\ InMailbox = {})
  BY <1>7, <1>8, <1>9, <1>10, <1>11 DEF Holders
<1>13. Holders = 0 => current = {} \/ pc = "dead"
  BY <1>0, <1>2, <1>3, <1>4, <1>5, <1>12 DEF Known
<1>14. inFlight = current
  BY <1>0 DEF Known
<1> QED BY <1>6, <1>12, <1>13, <1>14

\* The turn the actor believes to be running is in exactly one place -- the slot, the
\* pump, or an answer on its way back -- and is what the projection shows, whatever
\* fails, is retried, aborted or answered late; only the end of the pump loses it.
THEOREM OnePlace == Spec => []TurnHeldOnce
BY HeldOnce, HeldInvariant, PTL

\* A pump that waits for the decision about a failure never waits for a question that
\* is not on its way to the running actor of that generation.
THEOREM NoVainWait == Spec => []DecisionUnderWay
<1>1. ASSUME HeldInv PROVE DecisionUnderWay
  <2>1. QuestionAsked
    BY <1>1 DEF HeldInv
  <2> SUFFICES ASSUME Alive, pc = "failing", decision = "none",
                      NEW w \in work, w.gen = generation
               PROVE  InRelay # {} \/ InMailbox # {}
    BY DEF DecisionUnderWay
  <2>2. PICK m \in Underway : m.kind = "failed" /\ m.gen = generation
    BY <2>1 DEF QuestionAsked
  <2>3. IsAnswer(m)
    BY <2>2 DEF IsAnswer
  <2>4. CASE m \in Elements(relay)
    <3>1. PICK i \in 1..Len(relay) : relay[i] = m
      BY <2>4 DEF Elements
    <3> QED BY <2>3, <3>1 DEF InRelay
  <2>5. CASE m \in Elements(mailbox)
    <3>1. PICK i \in 1..Len(mailbox) : mailbox[i] = m
      BY <2>5 DEF Elements
    <3> QED BY <2>3, <3>1 DEF InMailbox
  <2> QED BY <2>4, <2>5 DEF Underway
<1> QED BY <1>1, HeldInvariant, PTL

-----------------------------------------------------------------------------
(* No delivery is forgotten                                                *)

\* The deliveries of the enqueue commands in the mailbox.
Told == UNION {m.on : m \in {n \in Elements(mailbox) : n.kind = "enqueue"}}

\* An enqueue command is about one delivery, and no completion is one.
TellsOne ==
  /\ \A m \in Elements(mailbox) : m.kind = "enqueue" => Some(m.on)
  /\ \A m \in Elements(relay) : m.kind # "enqueue"

Found ==
  submitting \cup current \cup Elements(pending) \cup Elements(recovery) \cup Elements(results)
  \cup Told \cup folded

\* What the gate remembers is found by the actor, from the building of a generation on.
Remembered ==
  status \in {"running", "built"} /\ ~ shutting => Elements(remembered) \subseteq Found

LEMMA ToldIs ==
  /\ \A d : d \in Told <=> \E m \in Elements(mailbox) : m.kind = "enqueue" /\ d \in m.on
  /\ \A d : d \in Told' <=> \E m \in Elements(mailbox') : m.kind = "enqueue" /\ d \in m.on
BY DEF Told

\* What a start takes from the queue becomes the current turn.
LEMMA StartKeeps ==
  ASSUME NEW q \in Seq(Delivery), NEW blocked \in BOOLEAN, Start(q, blocked)
  PROVE  ~ blocked => Elements(q) = current' \cup Elements(pending')
<1> SUFFICES ASSUME ~ blocked PROVE Elements(q) = current' \cup Elements(pending')
  OBVIOUS
<1>1. CASE q = <<>> /\ pending' = q /\ NoTurn
  BY <1>1, ElementsEmpty DEF NoTurn
<1>2. CASE q # <<>> /\ pending' = Tail(q) /\ current' = {Head(q)}
  BY <1>2, ElementsTail
<1> QED BY <1>1, <1>2 DEF Start

\* The types of the sequences a step may change.
LEMMA Sequences ==
  ASSUME TypeInv
  PROVE  /\ remembered \in Seq(Delivery) /\ pending \in Seq(Delivery)
         /\ recovery \in Seq(Delivery) /\ results \in Seq(Delivery)
         /\ mailbox \in Seq(Messages) /\ relay \in Seq(Messages)
         /\ shutting \in BOOLEAN /\ generation \in Gen /\ ready \in SUBSET Requests
         /\ attempts \in [Delivery -> 0..MaxAttempts]
BY TypeParts DEF GateOK, TurnOK, ShardOK, MailboxOK, RelayOK

\* The commands and completions: only the callers tell a delivery.
LEMMA TellsStep == ASSUME HeldInv, TellsOne, [Next]_vars PROVE TellsOne'
<1> USE DEF callers, actor, shard, facts, io, native
<1>0. TypeInv
  BY HeldParts
<1>u. /\ UNCHANGED <<mailbox, relay>> => TellsOne'
      /\ Elements(mailbox') \subseteq Elements(mailbox) /\ relay' = relay => TellsOne'
      /\ Elements(relay') \subseteq Elements(relay) /\ mailbox' = mailbox => TellsOne'
  BY DEF TellsOne
\* A message that is added to one of them.
<1>m. ASSUME NEW m \in Messages, relay' = relay, m.kind = "enqueue" => Some(m.on),
             mailbox' = Append(mailbox, m)
      PROVE  TellsOne'
  BY <1>0, <1>m, Sequences, ElementsAppend DEF TellsOne
<1>r. ASSUME NEW m \in Messages, mailbox' = mailbox, m.kind # "enqueue", relay' = Append(relay, m)
      PROVE  TellsOne'
  BY <1>0, <1>r, Sequences, ElementsAppend DEF TellsOne
<1>c. ASSUME NEW r \in SUBSET Requests, Recover(r), mailbox' = mailbox \/ mailbox' = <<>>
      PROVE  TellsOne'
  <2>1. \E more \in SUBSET Messages : /\ Elements(relay') = Elements(relay) \cup more
                                      /\ \A m \in more : m.kind = "ready"
    BY <1>0, <1>c, RecoverOK
  <2>2. \A m \in Elements(relay') : m.kind # "enqueue"
    BY <2>1 DEF TellsOne
  <2> QED BY <1>c, <2>2, ElementsEmpty DEF TellsOne
<1>a. ASSUME NEW a \in aborts, Ready(a), mailbox' = mailbox PROVE TellsOne'
  <2>1. a.gen \in Gen /\ a.on \subseteq Delivery
    BY <1>0, TypeParts DEF AbortsOK
  <2> QED BY <1>a, <1>c, <2>1, RequestOK DEF Ready
<1>w. ASSUME NEW w \in work, NEW yes \in BOOLEAN
      PROVE  /\ Msg("completed", w.gen, w.on, yes) \in Messages
             /\ Msg("failed", w.gen, w.on, yes) \in Messages
             /\ Msg("completed", w.gen, w.on, yes).kind = "completed"
             /\ Msg("failed", w.gen, w.on, yes).kind = "failed"
  <2>1. w.gen \in Gen /\ w.on \subseteq Delivery
    BY <1>0, TypeParts DEF WorkOK
  <2>2. w.gen \in 0..(MaxRestarts + 1)
    BY <2>1, Limits
  <2> QED BY <2>1, <2>2 DEF Msg, Messages
<1>1. CASE CallerStep
  <2>1. ASSUME NEW d \in Delivery, Admit(d) PROVE TellsOne'
    BY <1>u, <2>1 DEF Admit
  <2>2. ASSUME NEW d \in Delivery, Tell(d) PROVE TellsOne'
    <3>1. Msg("enqueue", 0, {d}, TRUE) \in Messages /\ Some(Msg("enqueue", 0, {d}, TRUE).on)
      BY Limits DEF Msg, Messages, Some
    <3> QED BY <1>m, <1>u, <2>2, <3>1 DEF Tell
  <2>3. ASSUME NEW d \in Delivery, AskSteer(d) PROVE TellsOne'
    <3>1. Msg("steer", 0, {d}, TRUE) \in Messages /\ Some(Msg("steer", 0, {d}, TRUE).on)
      BY Limits DEF Msg, Messages, Some
    <3> QED BY <1>m, <1>u, <2>3, <3>1 DEF AskSteer
  <2>4. CASE AskClose
    <3>1. Msg("close", 0, {}, TRUE) \in Messages /\ Msg("close", 0, {}, TRUE).kind # "enqueue"
      BY Limits DEF Msg, Messages
    <3> QED BY <1>m, <1>u, <2>4, <3>1 DEF AskClose
  <2>5. CASE Drain
    BY <1>u, <2>5 DEF Drain
  <2> QED BY <1>1, <2>1, <2>2, <2>3, <2>4, <2>5 DEF CallerStep
<1>2. CASE Deliver
  <2>1. relay # <<>> /\ relay' = Tail(relay)
    BY <1>2 DEF Deliver
  <2>2. Head(relay) \in Messages /\ Elements(relay) = {Head(relay)} \cup Elements(relay')
    BY <1>0, <2>1, Sequences, ElementsTail
  <2>3. CASE mailbox' = mailbox
    BY <1>u, <2>2, <2>3
  <2>4. CASE mailbox' = Append(mailbox, Head(relay))
    <3>1. Elements(mailbox') = Elements(mailbox) \cup {Head(relay)}
      BY <1>0, <2>2, <2>4, Sequences, ElementsAppend
    <3> QED BY <2>2, <3>1 DEF TellsOne
  <2> QED BY <1>2, <2>3, <2>4 DEF Deliver
<1>3. CASE Handle
  <2>1. ASSUME NEW kind, Receive(kind), relay' = relay PROVE TellsOne'
    BY <1>0, <1>u, <2>1, ReceiveOK
  <2>2. relay' = relay /\ \E kind : Receive(kind)
    BY <1>3 DEF Handle, Enqueue, Complete, Fail, Steer, Steered, Recovered, Close
  <2> QED BY <2>1, <2>2
<1>4. CASE Raise \/ Build \/ Run
  BY <1>4, <1>u DEF Raise, Build, Run
<1>5. CASE Failed
  <2>1. CASE Recover({[gen |-> generation, on |-> inFlight]})
    <3>1. {[gen |-> generation, on |-> inFlight]} \in SUBSET Requests
      BY <1>0, RequestOK, TypeParts DEF TurnOK, ShardOK
    <3> QED BY <1>5, <1>c, <2>1, <3>1 DEF Failed
  <2>2. CASE relay' = relay
    BY <1>5, <1>u, <2>2, ElementsEmpty DEF Failed
  <2> QED BY <1>5, <2>1, <2>2 DEF Failed
<1>6. CASE Announce
  BY <1>0, <1>6, <1>c, Sequences DEF Announce
<1>7. CASE Connect \/ NeverConnects \/ Take \/ StopsWaiting \/ Ask \/ Clear \/ ErrorBeforeTurn
           \/ InterruptRaises \/ Decided \/ Undecided
  BY <1>7, <1>u
     DEF Connect, NeverConnects, Take, StopsWaiting, Ask, Clear, ErrorBeforeTurn, InterruptRaises,
         Decided, Undecided
<1>8. CASE Asked \/ ErrorWhenAborted
  BY <1>8, <1>a, <1>u DEF Asked, ErrorWhenAborted
<1>9. CASE Answer
  <2>1. CASE \E w \in work : relay' = Append(relay, Msg("completed", w.gen, w.on, TRUE))
    BY <1>9, <1>r, <1>w, <2>1 DEF Answer
  <2> QED BY <1>9, <1>u, <2>1 DEF Answer
<1>10. CASE ErrorInTurn
  <2>1. CASE \E w \in work, yes \in BOOLEAN : relay' = Append(relay, Msg("failed", w.gen, w.on, yes))
    BY <1>10, <1>r, <1>w, <2>1 DEF ErrorInTurn
  <2> QED BY <1>10, <1>u, <2>1 DEF ErrorInTurn
<1>11. ASSUME NEW a \in aborts, AbortDone(a) PROVE TellsOne'
  BY <1>11, <1>a DEF AbortDone
<1>12. ASSUME NEW s \in steering, SteerDone(s) PROVE TellsOne'
  <2>1. s.gen \in 0..(MaxRestarts + 1) /\ s.on \subseteq Delivery
    BY <1>0, TypeParts DEF AbortsOK, Requests
  <2>2. Msg("steered", s.gen, s.on, TRUE) \in Messages /\ Msg("steered", s.gen, s.on, TRUE).kind # "enqueue"
    BY <2>1 DEF Msg, Messages
  <2> QED BY <1>12, <1>r, <1>u, <2>2 DEF SteerDone
<1>13. CASE UNCHANGED vars
  BY <1>13, <1>u DEF vars
<1> QED BY <1>1, <1>2, <1>3, <1>4, <1>5, <1>6, <1>7, <1>8, <1>9, <1>10, <1>11, <1>12, <1>13
        DEF Next, ActorStep, PumpStep, NativeStep

\* A step that takes no delivery away from where it is, and remembers no new one.
LEMMA KeepsFound ==
  ASSUME Remembered, Elements(remembered') \subseteq Elements(remembered),
         status' \in {"running", "built"} /\ ~ shutting' =>
            status \in {"running", "built"} /\ ~ shutting /\ Found \subseteq Found'
  PROVE  Remembered'
BY DEF Remembered

LEMMA RememberedStep == ASSUME HeldInv, TellsOne, Remembered, [Next]_vars PROVE Remembered'
<1> USE DEF callers, actor, shard, facts, io, native
<1>0. /\ TypeInv /\ Past /\ RecoveringIdle
      /\ remembered \in Seq(Delivery) /\ pending \in Seq(Delivery)
      /\ recovery \in Seq(Delivery) /\ results \in Seq(Delivery)
      /\ mailbox \in Seq(Messages) /\ relay \in Seq(Messages) /\ shutting \in BOOLEAN
  BY Sequences DEF HeldInv
<1>u. UNCHANGED <<remembered, submitting, status, mailbox, current, pending, shutting, recovery,
                  results, folded>> => Remembered'
  <2> SUFFICES ASSUME UNCHANGED <<remembered, submitting, status, mailbox, current, pending,
                                  shutting, recovery, results, folded>>
               PROVE  Remembered'
    OBVIOUS
  <2>1. Found' = Found
    BY DEF Found, Told
  <2> QED BY <2>1, KeepsFound
\* A command that is no enqueue leaves what is told as it is.
<1>k. ASSUME NEW kind, Receive(kind)
      PROVE  /\ Alive /\ status = "running" /\ Head(mailbox).kind = kind
             /\ Elements(mailbox) = {Head(mailbox)} \cup Elements(mailbox')
             /\ Head(mailbox) \in Elements(mailbox)
             /\ kind # "enqueue" => Told' = Told
  <2>1. /\ Alive /\ Head(mailbox).kind = kind
        /\ Elements(mailbox) = {Head(mailbox)} \cup Elements(mailbox')
    BY <1>0, <1>k, ReceiveOK
  <2>2. kind # "enqueue" => Told' = Told
    BY <2>1 DEF Told
  <2> QED BY <2>1, <2>2 DEF Alive
<1>m. ASSUME NEW m \in Messages, mailbox' = Append(mailbox, m)
      PROVE  Told \subseteq Told' /\ (m.kind = "enqueue" => m.on \subseteq Told')
  <2>1. Elements(mailbox') = Elements(mailbox) \cup {m}
    BY <1>0, <1>m, ElementsAppend
  <2> QED BY <2>1 DEF Told
<1>1. ASSUME NEW d \in Delivery, Admit(d) PROVE Remembered'
  <2>1. Elements(remembered') = Elements(remembered) \cup {d}
    BY <1>0, <1>1, ElementsAppend DEF Admit
  <2>2. Found' = Found \cup {d}
    BY <1>1 DEF Admit, Found, Told
  <2> QED BY <1>1, <2>1, <2>2 DEF Admit, Remembered
<1>2. ASSUME NEW d \in Delivery, Tell(d) PROVE Remembered'
  <2>1. CASE /\ mailbox' = Append(mailbox, Msg("enqueue", 0, {d}, TRUE)) /\ UNCHANGED remembered
    <3>1. /\ Msg("enqueue", 0, {d}, TRUE) \in Messages
          /\ Msg("enqueue", 0, {d}, TRUE).kind = "enqueue"
          /\ Msg("enqueue", 0, {d}, TRUE).on = {d}
      BY Limits DEF Msg, Messages
    <3>2. Told \subseteq Told' /\ d \in Told'
      BY <1>m, <2>1, <3>1
    <3>3. Found \subseteq Found'
      BY <1>2, <3>2 DEF Tell, Found
    <3> QED BY <1>2, <2>1, <3>3, KeepsFound DEF Tell
  <2>2. CASE remembered' = Without(d) /\ UNCHANGED mailbox
    <3>1. Elements(remembered') = Elements(remembered) \cap (Delivery \ {d})
      BY <1>0, <2>2, KeepingProperties DEF Without
    <3>2. Found \subseteq Found' \cup {d}
      BY <1>2, <2>2 DEF Tell, Found, Told
    <3> QED BY <1>2, <3>1, <3>2 DEF Tell, Remembered
  <2> QED BY <1>2, <2>1, <2>2 DEF Tell
<1>3. ASSUME NEW d \in Delivery, AskSteer(d) PROVE Remembered'
  <2>1. Msg("steer", 0, {d}, TRUE) \in Messages
    BY Limits DEF Msg, Messages
  <2>2. Found \subseteq Found'
    BY <1>3, <1>m, <2>1 DEF AskSteer, Found
  <2> QED BY <1>3, <2>2, KeepsFound DEF AskSteer
<1>4. CASE AskClose
  <2>1. Msg("close", 0, {}, TRUE) \in Messages
    BY Limits DEF Msg, Messages
  <2>2. Told \subseteq Told'
    BY <1>4, <1>m, <2>1 DEF AskClose, Told
  <2>3. Found \subseteq Found'
    BY <1>4, <2>2 DEF AskClose, Found
  <2> QED BY <1>4, <2>3, KeepsFound DEF AskClose
<1>5. CASE Drain
  <2>1. Elements(results) = {Head(results)} \cup Elements(results')
    BY <1>0, <1>5, ElementsTail DEF Drain
  <2>2. Elements(remembered') = Elements(remembered) \cap (Delivery \ {Head(results)})
    BY <1>0, <1>5, KeepingProperties DEF Drain, Without
  <2>3. Found \subseteq Found' \cup {Head(results)}
    BY <1>5, <2>1 DEF Drain, Found, Told
  <2> QED BY <1>5, <2>2, <2>3 DEF Drain, Remembered
<1>6. CASE Deliver
  <2>1. Head(relay) \in Messages
    BY <1>0, <1>6, ElementsTail DEF Deliver
  <2>2. Told \subseteq Told'
    BY <1>6, <1>m, <2>1 DEF Deliver, Told
  <2>3. Found \subseteq Found'
    BY <1>6, <2>2 DEF Deliver, Found
  <2> QED BY <1>6, <2>3, KeepsFound DEF Deliver
<1>7. CASE Enqueue
  <2>1. PICK d \in Head(mailbox).on :
       \/ /\ shutting
          /\ UNCHANGED <<current, pending, inFlight, slot, status>>
       \/ /\ ~ shutting /\ (recovering \/ current # {})
          /\ pending' = Append(pending, d)
          /\ UNCHANGED <<current, inFlight, slot, status>>
       \/ /\ ~ shutting /\ ~ recovering /\ current = {}
          /\ Start(<<d>> \o pending, FALSE)
    BY <1>7 DEF Enqueue
  <2>2. /\ status = "running" /\ Head(mailbox).kind = "enqueue" /\ Head(mailbox) \in Elements(mailbox)
        /\ Elements(mailbox) = {Head(mailbox)} \cup Elements(mailbox')
    BY <1>7, <1>k DEF Enqueue
  <2>3. Head(mailbox).on = {d} /\ d \in Delivery
    BY <2>1, <2>2 DEF TellsOne, Some
  <2>4. Told \subseteq Told' \cup {d}
    BY <2>2, <2>3 DEF Told
  <2>5. UNCHANGED <<remembered, submitting, shutting, recovery, results, folded>>
    BY <1>7 DEF Enqueue
  <2>6. ~ shutting => current \cup Elements(pending) \cup {d} \subseteq current' \cup Elements(pending')
    <3>1. CASE pending' = Append(pending, d) /\ current' = current
      BY <1>0, <2>3, <3>1, ElementsAppend
    <3>2. CASE current = {} /\ Start(<<d>> \o pending, FALSE)
      <4>1. <<d>> \in Seq(Delivery) /\ Elements(<<d>>) = {d}
        BY <2>3 DEF Elements
      <4> DEFINE first == <<d>>
      <4>2. pending \in Seq(Delivery) /\ first \in Seq(Delivery) /\ Elements(first) = {d}
        BY <1>0, <4>1
      <4>3. Start(first \o pending, FALSE)
        BY <3>2
      <4> HIDE DEF first
      <4>4. /\ first \o pending \in Seq(Delivery)
            /\ Elements(first \o pending) = Elements(first) \cup Elements(pending)
        BY <4>2, ElementsConcat
      <4> QED BY <3>2, <4>2, <4>3, <4>4, StartKeeps
    <3> QED BY <2>1, <3>1, <3>2
  <2>7. ~ shutting => Found \subseteq Found'
    BY <2>4, <2>5, <2>6 DEF Found
  <2> QED BY <2>2, <2>5, <2>7, KeepsFound
<1>8. CASE Complete \/ Fail
  <2>1. PICK kind \in {"completed", "failed"} : Receive(kind)
    BY <1>8 DEF Complete, Fail
  <2>2. status = "running" /\ Told' = Told /\ Head(mailbox) \in Elements(mailbox)
        /\ Head(mailbox).kind \in Answering
    BY <1>k, <2>1 DEF Answering
  <2>3. UNCHANGED <<remembered, submitting, shutting, recovery, folded>>
    BY <1>8 DEF Complete, Fail
  <2>4. CASE UNCHANGED <<current, pending, results>>
    <3>1. Found' = Found
      BY <2>2, <2>3, <2>4 DEF Found
    <3> QED BY <2>2, <2>3, <3>1, KeepsFound
  <2>5. CASE /\ Fenced(Head(mailbox))
             /\ \E d \in Head(mailbox).on : results' = Append(results, d)
             /\ Start(pending, shutting)
    <3>1. PICK d \in Head(mailbox).on : results' = Append(results, d)
      BY <2>5
    <3>2. Some(Head(mailbox).on)
      BY <1>0, <2>2 DEF Past, Underway
    <3>3. current = {d} /\ d \in Delivery
      BY <2>5, <3>1, <3>2 DEF Fenced, Some
    <3>4. Elements(results') = Elements(results) \cup {d}
      BY <1>0, <3>1, <3>3, ElementsAppend
    <3>5. ~ shutting => Elements(pending) = current' \cup Elements(pending')
      BY <1>0, <2>5, StartKeeps
    <3>6. ~ shutting => Found \subseteq Found'
      BY <2>2, <2>3, <3>3, <3>4, <3>5 DEF Found
    <3> QED BY <2>2, <2>3, <3>6, KeepsFound
  <2> QED BY <1>8, <2>4, <2>5 DEF Complete, Fail
<1>9. CASE Steer
  <2>1. Told' = Told /\ status = "running"
    BY <1>9, <1>k DEF Steer
  <2>2. Found' = Found
    BY <1>9, <2>1 DEF Steer, Found
  <2> QED BY <1>9, <2>1, <2>2, KeepsFound DEF Steer
<1>10. CASE Steered
  <2>1. Told' = Told /\ status = "running"
    BY <1>10, <1>k DEF Steered
  <2>2. CASE UNCHANGED <<pending, folded>>
    <3>1. Found' = Found
      BY <1>10, <2>1, <2>2 DEF Steered, Found
    <3> QED BY <1>10, <2>1, <3>1, KeepsFound DEF Steered
  <2>3. CASE /\ pending' = Keeping(pending, Delivery \ Head(mailbox).on)
             /\ folded' = folded \cup (Head(mailbox).on \cap Elements(pending))
    <3>1. Elements(pending') = Elements(pending) \cap (Delivery \ Head(mailbox).on)
      BY <1>0, <2>3, KeepingProperties
    <3>2. Elements(pending) \subseteq Delivery
      BY <1>0, ElementsOf
    <3>3. Elements(pending) \cup folded \subseteq Elements(pending') \cup folded'
      BY <2>3, <3>1, <3>2
    <3>4. Found \subseteq Found'
      BY <1>10, <2>1, <3>3 DEF Steered, Found
    <3> QED BY <1>10, <2>1, <3>4, KeepsFound DEF Steered
  <2> QED BY <1>10, <2>2, <2>3 DEF Steered
<1>11. CASE Recovered
  <2>1. Told' = Told /\ status = "running" /\ Alive
    BY <1>11, <1>k DEF Recovered
  <2>2. UNCHANGED <<remembered, submitting, shutting, folded>>
    BY <1>11 DEF Recovered
  <2>3. CASE UNCHANGED <<current, pending, recovery, facts>>
    <3>1. Found' = Found
      BY <2>1, <2>2, <2>3 DEF Found
    <3> QED BY <2>1, <2>2, <3>1, KeepsFound
  <2>4. CASE /\ recovering
             /\ results' = results \o Keeping(recovery, Head(mailbox).on)
             /\ Start(Keeping(recovery, Delivery \ Head(mailbox).on) \o pending, shutting)
    <3> DEFINE failed == Keeping(recovery, Head(mailbox).on)
               others == Keeping(recovery, Delivery \ Head(mailbox).on)
    <3>1. /\ failed \in Seq(Delivery) /\ Elements(failed) = Elements(recovery) \cap Head(mailbox).on
          /\ others \in Seq(Delivery)
          /\ Elements(others) = Elements(recovery) \cap (Delivery \ Head(mailbox).on)
      BY <1>0, KeepingProperties
    <3>2. Elements(recovery) \subseteq Delivery
      BY <1>0, ElementsOf
    <3> HIDE DEF failed, others
    <3>3. Elements(recovery) = Elements(failed) \cup Elements(others)
      BY <3>1, <3>2
    <3>4. Elements(results') = Elements(results) \cup Elements(failed)
      BY <1>0, <2>4, <3>1, ElementsConcat DEF failed
    <3>5. /\ others \o pending \in Seq(Delivery)
          /\ Elements(others \o pending) = Elements(others) \cup Elements(pending)
      BY <1>0, <3>1, ElementsConcat
    <3>6. ~ shutting => Elements(others \o pending) = current' \cup Elements(pending')
      BY <1>0, <2>4, <3>5, StartKeeps DEF others
    <3>7. current = {}
      BY <1>0, <2>1, <2>4 DEF RecoveringIdle
    <3>8. ~ shutting => Found \subseteq Found'
      BY <2>1, <2>2, <3>3, <3>4, <3>5, <3>6, <3>7 DEF Found
    <3> QED BY <2>1, <2>2, <3>8, KeepsFound
  <2> QED BY <1>11, <2>3, <2>4 DEF Recovered
<1>12. CASE Close
  BY <1>12, KeepsFound DEF Close
<1>13. CASE Raise \/ Failed
  BY <1>13, KeepsFound DEF Raise, Failed
<1>14. CASE Build
  <2>1. recovery' = remembered /\ remembered' = remembered
    BY <1>14 DEF Build, Rebuilt
  <2> QED BY <2>1 DEF Remembered, Found
<1>15. CASE Run
  <2>1. Found' = Found
    BY <1>15 DEF Run, Found, Told
  <2> QED BY <1>15, <2>1, KeepsFound DEF Run
<1>16. CASE Announce
  BY <1>16, <1>u DEF Announce
<1>17. CASE PumpStep
  BY <1>17, <1>u
     DEF PumpStep, Connect, NeverConnects, Take, StopsWaiting, Ask, Asked, Answer, Clear,
         InterruptRaises, ErrorWhenAborted, ErrorBeforeTurn, ErrorInTurn, Decided, Undecided
<1>18. CASE NativeStep
  BY <1>18, <1>u DEF NativeStep, AbortDone, SteerDone
<1>19. CASE UNCHANGED vars
  BY <1>19, <1>u DEF vars
<1> QED BY <1>1, <1>2, <1>3, <1>4, <1>5, <1>6, <1>7, <1>8, <1>9, <1>10, <1>11, <1>12, <1>13, <1>14,
           <1>15, <1>16, <1>17, <1>18, <1>19 DEF Next, CallerStep, ActorStep, Handle

\* No step forgets a delivery: what the gate remembers is told, queued, running, to be
\* recovered or answered -- or folded into another turn -- whenever the actor runs and is
\* not closing, in every generation and whatever failed before.
THEOREM NothingLost == Spec => []NothingForgotten
<1> DEFINE Inv == HeldInv /\ TellsOne /\ Remembered
<1>1. Init => Inv
  <2> SUFFICES ASSUME Init PROVE TellsOne /\ Remembered
    BY HeldInit
  <2>1. mailbox = <<>> /\ relay = <<>> /\ remembered = <<>>
    BY DEF Init
  <2>2. Elements(mailbox) = {} /\ Elements(relay) = {} /\ Elements(remembered) = {}
    BY <2>1, ElementsEmpty
  <2> QED BY <2>2 DEF TellsOne, Remembered
<1>2. Inv /\ [Next]_vars => Inv'
  BY HeldStep, TellsStep, RememberedStep
<1>3. Inv => NothingForgotten
  <2>1. Told \subseteq UNION {mailbox[i].on : i \in {j \in 1..Len(mailbox) : mailbox[j].kind = "enqueue"}}
    BY DEF Told, Elements
  <2>2. Found \subseteq Whereabouts \cup folded
    BY <2>1 DEF Found, Whereabouts
  <2> QED BY <2>2 DEF Remembered, NothingForgotten, Alive
<1> QED BY <1>1, <1>2, <1>3, PTL DEF Spec
-----------------------------------------------------------------------------
(* The queries of a turn are bounded                                       *)

\* The pump may yet query for its request, or has queried and waits for what comes of it.
WillQuery == pc \in {"connecting", "checking"} \/ (pc = "failing" /\ decision = "retry")
HasQueried == pc \in {"asking", "running"} \/ (pc = "failing" /\ decision = "none")

\* The actor never counts up to the bound, ...
FewTries ==
  /\ \A d \in Delivery : attempts[d] < MaxAttempts
  /\ \A w \in work : w.tries <= MaxAttempts /\ (WillQuery => w.tries < MaxAttempts)

\* ... and counts every query of the turn of its generation but the one being made.
TriesCounted ==
  Alive => \A w \in work : \A d \in w.on : w.gen = generation =>
     /\ WillQuery => w.tries <= attempts[d]
     /\ HasQueried => w.tries <= attempts[d] + 1

LEMMA WorkTypes ==
  ASSUME TypeInv
  PROVE  /\ \A w \in work : w.on \subseteq Delivery /\ w.tries \in Nat
         /\ \A d \in Delivery : attempts[d] \in Nat
         /\ attempts \in [Delivery -> 0..MaxAttempts]
         /\ MaxAttempts \in Nat /\ MaxAttempts >= 1
         /\ pc \in {"connecting", "idle", "checking", "asking", "running", "finished", "failing", "dead"}
<1>1. work \subseteq [gen : Gen, on : SUBSET Delivery, tries : Nat]
  BY TypeParts DEF WorkOK
<1>2. attempts \in [Delivery -> 0..MaxAttempts] /\ MaxAttempts \in Nat /\ MaxAttempts >= 1
  BY TypeParts, LimitsAssumption DEF ShardOK
<1>3. \A d \in Delivery : attempts[d] \in Nat
  BY <1>2
<1>4. pc \in {"connecting", "idle", "checking", "asking", "running", "finished", "failing", "dead"}
  BY TypeParts DEF WorkOK
<1> QED BY <1>1, <1>2, <1>3, <1>4

\* A step of the actor that answers the pump, or forgets what it has counted.
LEMMA HandleTries ==
  ASSUME HeldInv, FewTries, TriesCounted, Complete \/ Fail
  PROVE  FewTries' /\ TriesCounted'
<1> DEFINE m == Head(mailbox)
<1>0. /\ TypeInv /\ Past /\ OneAtWork /\ QuestionWaits /\ QuestionAsked
      /\ \A w \in work : w.on \subseteq Delivery /\ w.tries \in Nat
      /\ \A d \in Delivery : attempts[d] \in Nat
      /\ attempts \in [Delivery -> 0..MaxAttempts]
      /\ MaxAttempts \in Nat /\ MaxAttempts >= 1
  BY WorkTypes DEF HeldInv
<1>1. PICK kind \in Answering : Receive(kind)
  BY DEF Complete, Fail, Answering
<1>2. Alive /\ m.kind = kind /\ UNCHANGED <<generation, work, pc>> /\ status = "running"
  BY <1>0, <1>1, ReceiveOK DEF Complete, Fail, Alive
<1>3. CASE UNCHANGED <<attempts, decision>>
  BY <1>2, <1>3 DEF FewTries, TriesCounted, WillQuery, HasQueried
<1>4. CASE Fenced(m)
  <2>1. IsAnswer(m) /\ m.gen = generation
    BY <1>1, <1>2, <1>4 DEF IsAnswer, Fenced, Answering
  <2>2. /\ ~ HeldAtPump /\ m.on = current /\ m \in Underway
        /\ \A n \in Elements(relay) \cup Elements(mailbox') : ~ IsAnswer(n)
    BY <1>1, <2>1, AnswerAlone
  <2>3. Some(m.on)
    BY <1>0, <1>1, <1>2, <2>2 DEF Past
  \* Nobody holds the turn but who waits for the decision about it.
  <2>4. \A w \in work : w.gen = generation => ~ PumpHolds
    BY <2>2 DEF HeldAtPump
  <2>5. ASSUME Complete PROVE FewTries' /\ TriesCounted'
    <3>1. PICK d \in m.on : attempts' = [attempts EXCEPT ![d] = 0]
      BY <1>4, <2>5 DEF Complete
    <3>2. decision' = decision
      BY <2>5 DEF Complete
    <3>3. ASSUME NEW w \in work, w.gen = generation PROVE ~ (pc = "failing" /\ decision = "none")
      <4> SUFFICES ASSUME pc = "failing" /\ decision = "none" PROVE FALSE
        OBVIOUS
      <4>1. PICK n \in Underway : n.kind = "failed" /\ n.gen = generation
        BY <1>0, <1>2, <3>3 DEF QuestionAsked
      <4>2. IsAnswer(n)
        BY <4>1 DEF IsAnswer
      <4>3. n = m
        BY <1>0, <1>1, <2>2, <4>1, <4>2, ReceiveOK DEF Underway
      <4>4. m.kind = "completed"
        BY <2>5 DEF Complete, Receive
      <4> QED BY <4>1, <4>3, <4>4
    <3>4. \A e \in Delivery : attempts'[e] < MaxAttempts
      BY <1>0, <3>1 DEF FewTries
    <3>5. FewTries'
      BY <1>2, <3>2, <3>4 DEF FewTries, WillQuery
    <3>6. TriesCounted'
      BY <1>2, <2>4, <3>2, <3>3 DEF TriesCounted, WillQuery, HasQueried, PumpHolds
    <3> QED BY <3>5, <3>6
  <2>6. ASSUME Fail PROVE FewTries' /\ TriesCounted'
    <3>0. m.kind = "failed"
      BY <2>6 DEF Fail, Receive
    <3>1. pc = "dead" \/ Awaited(m)
      BY <1>0, <1>2, <2>1, <2>2, <3>0 DEF QuestionWaits
    <3>2. PICK d \in m.on :
             \/ /\ Retries(m, attempts[d] + 1)
                /\ attempts' = [attempts EXCEPT ![d] = @ + 1]
                /\ decision' = IF Awaited(m) THEN "retry" ELSE decision
             \/ /\ attempts' = [attempts EXCEPT ![d] = 0]
                /\ decision' = IF Awaited(m) THEN "abandon" ELSE decision
      BY <1>4, <2>6 DEF Fail
    <3>3. m.on = {d} /\ d \in Delivery
      BY <2>3, <3>2 DEF Some
    <3>4. \A e \in Delivery : attempts'[e] < MaxAttempts
      BY <1>0, <3>2, <3>3 DEF FewTries, Retries
    <3>5. CASE pc = "dead"
      BY <1>2, <3>4, <3>5 DEF FewTries, TriesCounted, WillQuery, HasQueried
    <3>6. CASE Awaited(m) /\ decision' = "abandon"
      BY <1>2, <3>4, <3>6 DEF FewTries, TriesCounted, WillQuery, HasQueried, Awaited
    <3>7. CASE /\ Awaited(m) /\ decision' = "retry" /\ Retries(m, attempts[d] + 1)
               /\ attempts' = [attempts EXCEPT ![d] = @ + 1]
      <4>1. pc = "failing" /\ decision = "none" /\ \A w \in work : w.gen = generation /\ w.on = {d}
        BY <1>0, <2>1, <3>3, <3>7 DEF Awaited, OneAtWork
      <4>2. \A w \in work : w.tries <= attempts[d] + 1
        BY <1>2, <4>1 DEF TriesCounted, HasQueried
      <4>3. attempts'[d] = attempts[d] + 1 /\ attempts[d] + 1 < MaxAttempts
        BY <1>0, <3>3, <3>7 DEF Retries
      <4>4. \A w \in work : w.tries <= attempts'[d] /\ w.tries < MaxAttempts
        BY <1>0, <3>3, <4>2, <4>3
      <4>5. FewTries'
        BY <1>2, <3>4, <4>4 DEF FewTries
      <4>6. TriesCounted'
        BY <1>2, <3>7, <4>1, <4>4 DEF TriesCounted, HasQueried
      <4> QED BY <4>5, <4>6
    <3> QED BY <3>1, <3>2, <3>5, <3>6, <3>7
  <2> QED BY <2>5, <2>6
<1>5. ~ Fenced(m) => UNCHANGED <<attempts, decision>>
  BY DEF Complete, Fail
<1> QED BY <1>3, <1>4, <1>5

LEMMA TriesStep ==
  ASSUME HeldInv, FewTries, TriesCounted, [Next]_vars
  PROVE  FewTries' /\ TriesCounted'
<1> USE DEF callers, actor, shard, facts, io, native
<1>0. /\ TypeInv /\ OneAtWork /\ Fresh
      /\ \A w \in work : w.on \subseteq Delivery /\ w.tries \in Nat
      /\ \A d \in Delivery : attempts[d] \in Nat
      /\ MaxAttempts \in Nat /\ MaxAttempts >= 1
      /\ pc \in {"connecting", "idle", "checking", "asking", "running", "finished", "failing", "dead"}
  BY WorkTypes DEF HeldInv
<1>u. UNCHANGED <<attempts, work, pc, decision, generation>> /\ (Alive' => Alive)
         => FewTries' /\ TriesCounted'
  BY DEF FewTries, TriesCounted, WillQuery, HasQueried
\* A pump without a request has queried nothing.
<1>n. work' = {} /\ UNCHANGED <<attempts, status, generation>> => FewTries' /\ TriesCounted'
  BY DEF FewTries, TriesCounted
\* The pump goes on with its request, and has not queried in between.
<1>g. /\ UNCHANGED <<attempts, status, generation, work>>
      /\ WillQuery' => WillQuery
      /\ HasQueried' => HasQueried
      => FewTries' /\ TriesCounted'
  BY DEF FewTries, TriesCounted, Alive
<1>1. CASE CallerStep \/ Deliver \/ NativeStep \/ UNCHANGED vars
  BY <1>1, <1>u
     DEF CallerStep, Admit, Tell, AskSteer, AskClose, Drain, Deliver, NativeStep, AbortDone,
         SteerDone, vars, Alive
<1>2. CASE Enqueue \/ Steer \/ Steered \/ Recovered \/ Close
  <2>1. Alive
    BY <1>2 DEF Enqueue, Steer, Steered, Recovered, Close, Receive
  <2> QED BY <1>2, <1>u, <2>1 DEF Enqueue, Steer, Steered, Recovered, Close
<1>3. CASE Complete \/ Fail
  BY <1>3, HandleTries
<1>4. CASE Raise \/ Announce
  BY <1>4, <1>u DEF Raise, Announce, Alive
<1>5. CASE Failed
  <2>1. \A d \in Delivery : attempts'[d] = 0
    BY <1>5 DEF Failed
  <2>2. FewTries'
    BY <1>0, <1>5, <2>1 DEF Failed, FewTries, WillQuery
  <2> QED BY <1>5, <2>2 DEF Failed, TriesCounted, Alive
<1>6. CASE Build
  BY <1>6 DEF Build, FewTries, TriesCounted, WillQuery, Alive
<1>7. CASE Run
  BY <1>0, <1>7 DEF Run, FewTries, TriesCounted, WillQuery, Fresh
<1>8. CASE Connect
  <2>1. CASE work' = {}
    BY <1>8, <1>n, <2>1 DEF Connect
  <2>2. CASE work' = work /\ pc' \in {"idle", "checking"}
    BY <1>8, <1>g, <2>2 DEF Connect, WillQuery, HasQueried
  <2> QED BY <1>8, <2>1, <2>2 DEF Connect
<1>9. CASE NeverConnects \/ StopsWaiting \/ Clear \/ InterruptRaises
           \/ ErrorWhenAborted \/ Undecided
  BY <1>9, <1>n
     DEF NeverConnects, StopsWaiting, Clear, InterruptRaises, ErrorWhenAborted, Undecided
<1>10. CASE Take
  <2>1. work = {}
    BY <1>0, <1>10 DEF Take, OneAtWork
  <2>2. CASE work' = work
    BY <1>10, <1>n, <2>1, <2>2 DEF Take
  <2>3. CASE work' = {[gen |-> Head(slot).gen, on |-> Head(slot).on, tries |-> 0]}
    <3>1. Head(slot).on \subseteq Delivery
      <4>1. slot \in Seq(Requests) /\ slot # <<>>
        BY <1>0, <1>10, TypeParts DEF Take, TurnOK
      <4>2. Head(slot) \in Requests
        BY <4>1, ElementsTail
      <4> QED BY <4>2 DEF Requests
    <3>2. \A w \in work' : w.tries = 0 /\ w.on \subseteq Delivery
      BY <2>3, <3>1
    <3>3. UNCHANGED <<attempts, status, generation>>
      BY <1>10 DEF Take
    <3>4. FewTries'
      BY <1>0, <3>2, <3>3 DEF FewTries
    <3>5. TriesCounted'
      BY <1>0, <3>2, <3>3 DEF TriesCounted
    <3> QED BY <3>4, <3>5
  <2> QED BY <1>10, <2>2, <2>3 DEF Take
<1>11. CASE Ask
  <2>1. pc = "checking" /\ pc' = "asking" /\ UNCHANGED <<attempts, status, generation>>
    BY <1>11 DEF Ask
  <2>2. work' = {[w EXCEPT !.tries = @ + 1] : w \in work}
    BY <1>11 DEF Ask
  <2>3. work \subseteq [gen : Gen, on : SUBSET Delivery, tries : Nat]
    BY <1>0, TypeParts DEF WorkOK
  <2>4. \A w \in work' : \E v \in work : w.gen = v.gen /\ w.on = v.on /\ w.tries = v.tries + 1
    BY <2>2, <2>3
  <2>5. WillQuery /\ ~ WillQuery'
    BY <2>1 DEF WillQuery
  <2>6. FewTries'
    <3>1. \A w \in work' : w.tries <= MaxAttempts
      BY <1>0, <2>4, <2>5 DEF FewTries
    <3> QED BY <2>1, <2>5, <3>1 DEF FewTries
  <2>7. TriesCounted'
    <3> SUFFICES ASSUME Alive', NEW w \in work', NEW d \in w.on, w.gen = generation'
                 PROVE  w.tries <= attempts'[d] + 1
      BY <2>5 DEF TriesCounted
    <3>1. PICK v \in work : w.gen = v.gen /\ w.on = v.on /\ w.tries = v.tries + 1
      BY <2>4
    <3>2. Alive /\ v.gen = generation /\ d \in v.on /\ d \in Delivery
      BY <1>0, <2>1, <3>1 DEF Alive
    <3>3. v.tries <= attempts[d]
      BY <2>5, <3>2 DEF TriesCounted
    <3> QED BY <1>0, <2>1, <3>1, <3>2, <3>3
  <2> QED BY <2>6, <2>7
<1>12. CASE Asked
  BY <1>12, <1>g DEF Asked, WillQuery, HasQueried
<1>13. CASE Answer
  <2>1. CASE work' = {}
    BY <1>13, <1>n, <2>1 DEF Answer
  <2>2. CASE work' = work /\ pc' = "finished"
    BY <1>13, <1>g, <2>2 DEF Answer, WillQuery, HasQueried
  <2> QED BY <1>13, <2>1, <2>2 DEF Answer
<1>14. CASE ErrorBeforeTurn
  BY <1>14, <1>g DEF ErrorBeforeTurn, WillQuery, HasQueried
<1>15. CASE ErrorInTurn
  <2>1. CASE work' = {}
    BY <1>15, <1>n, <2>1 DEF ErrorInTurn
  <2>2. CASE work' = work /\ pc' = "failing" /\ decision' = "none"
    BY <1>15, <1>g, <2>2 DEF ErrorInTurn, WillQuery, HasQueried
  <2> QED BY <1>15, <2>1, <2>2 DEF ErrorInTurn
<1>16. CASE Decided
  <2>1. CASE work' = {}
    BY <1>16, <1>n, <2>1 DEF Decided
  <2>2. CASE work' = work /\ decision = "retry"
    BY <1>16, <1>g, <2>2 DEF Decided, WillQuery, HasQueried
  <2> QED BY <1>16, <2>1, <2>2 DEF Decided
<1> QED BY <1>1, <1>2, <1>3, <1>4, <1>5, <1>6, <1>7, <1>8, <1>9, <1>10, <1>11, <1>12, <1>13,
           <1>14, <1>15, <1>16 DEF Next, ActorStep, Handle, PumpStep

\* A start of a turn makes at most MaxAttempts native queries, whatever reconnections,
\* lost decisions and failures of the actor come in between.
THEOREM QueriesBounded == Spec => []AttemptsBounded
<1> DEFINE Inv == HeldInv /\ FewTries /\ TriesCounted
<1>1. Init => Inv
  <2> SUFFICES ASSUME Init PROVE FewTries /\ TriesCounted
    BY HeldInit
  <2>1. work = {} /\ \A d \in Delivery : attempts[d] = 0
    BY DEF Init
  <2>2. MaxAttempts \in Nat /\ MaxAttempts >= 1
    BY LimitsAssumption
  <2> QED BY <2>1, <2>2 DEF FewTries, TriesCounted
<1>2. Inv /\ [Next]_vars => Inv'
  BY HeldStep, TriesStep
<1>3. Inv => AttemptsBounded
  BY DEF FewTries, AttemptsBounded
<1> QED BY <1>1, <1>2, <1>3, PTL DEF Spec
-----------------------------------------------------------------------------
(* One turn for one admission                                              *)

\* At most one element of q is in S.
OneIn(q, S) == \A i, j \in 1..Len(q) : q[i] \in S /\ q[j] \in S => i = j

LEMMA OneInAppend ==
  ASSUME NEW T, NEW q \in Seq(T), NEW e \in T, NEW S, OneIn(q, S),
         e \in S => Elements(q) \cap S = {}
  PROVE  OneIn(Append(q, e), S)
<1> DEFINE a == Append(q, e)
           n == Len(q)
<1>1. n \in Nat
  BY LenProperties
<1>2. /\ Len(a) = n + 1
      /\ \A i \in 1..n : a[i] = q[i]
      /\ a[n + 1] = e
  BY AppendProperties
<1>3. /\ \A i \in 1..n : q[i] \in Elements(q)
      /\ \A i, j \in 1..n : q[i] \in S /\ q[j] \in S => i = j
  BY DEF Elements, OneIn, n
<1> HIDE DEF a, n
<1> SUFFICES ASSUME NEW i \in 1..(n + 1), NEW j \in 1..(n + 1), a[i] \in S, a[j] \in S
             PROVE  i = j
  BY <1>2 DEF OneIn, a
<1>4. \A k \in 1..(n + 1) : k \in 1..n \/ k = n + 1
  BY <1>1
<1>5. \A k \in 1..n : a[k] \in S => q[k] \in Elements(q) \cap S
  BY <1>2, <1>3
<1> QED BY <1>2, <1>3, <1>4, <1>5

LEMMA OneInTail ==
  ASSUME NEW T, NEW q \in Seq(T), q # <<>>, NEW S, OneIn(q, S)
  PROVE  /\ OneIn(Tail(q), S)
         /\ Head(q) \in S => Elements(Tail(q)) \cap S = {}
<1> DEFINE a == Tail(q)
           n == Len(q)
<1>1. n \in Nat /\ n >= 1
  BY LenProperties, EmptySeq
<1>2. /\ Len(a) = n - 1
      /\ \A i \in 1..(n - 1) : a[i] = q[i + 1]
      /\ q[1] = Head(q)
  BY HeadTailProperties, <1>1
<1>3. \A i, j \in 1..n : q[i] \in S /\ q[j] \in S => i = j
  BY DEF OneIn, n
<1> HIDE DEF a, n
<1>4. \A i \in 1..(n - 1) : i + 1 \in 1..n /\ i + 1 # 1
  BY <1>1
<1>5. OneIn(a, S)
  <2> SUFFICES ASSUME NEW i \in 1..(n - 1), NEW j \in 1..(n - 1), a[i] \in S, a[j] \in S
               PROVE  i = j
    BY <1>2 DEF OneIn
  <2>1. i + 1 = j + 1
    BY <1>2, <1>3, <1>4
  <2> QED BY <2>1
<1>6. ASSUME Head(q) \in S, NEW e \in Elements(a), e \in S
      PROVE  FALSE
  <2>1. PICK i \in 1..(n - 1) : a[i] = e
    BY <1>2 DEF Elements
  <2>2. q[i + 1] = e /\ 1 \in 1..n
    BY <1>1, <1>2, <2>1
  <2> QED BY <1>2, <1>3, <1>4, <1>6, <2>2
<1> QED BY <1>5, <1>6 DEF a

LEMMA OneInKeeping ==
  ASSUME NEW T, NEW q \in Seq(T), NEW K, NEW S, OneIn(q, S)
  PROVE  OneIn(Keeping(q, K), S)
<1> DEFINE n == Len(q)
<1>1. n \in Nat /\ \A i \in 1..n : q[i] \in T
  BY LenProperties, ElementOfSeq
<1>2. PICK f : KeptSteps(f, q, K, n) /\ Keeping(q, K) = f[n]
  BY <1>1, KeepingSteps
<1>3. \A i, j \in 1..n : q[i] \in S /\ q[j] \in S => i = j
  BY DEF OneIn
<1> HIDE DEF n
<1>4. /\ f[0] = <<>>
      /\ \A i \in 0..n : i < n =>
            f[i + 1] = IF q[i + 1] \in K THEN Append(f[i], q[i + 1]) ELSE f[i]
  <2>1. \A i \in 0..n : f[i] = IF i = 0 THEN <<>> ELSE KeptStep(f, q, K, i)
    BY <1>2 DEF KeptSteps
  <2>2. f[0] = <<>>
    BY <2>1, <1>1
  <2>3. \A i \in 0..n : i < n => i + 1 \in 0..n /\ i + 1 # 0 /\ (i + 1) - 1 = i
    BY <1>1
  <2> QED BY <2>1, <2>2, <2>3 DEF KeptStep
<1> DEFINE P == {k \in 0..n : f[k] \in Seq(T) /\ OneIn(f[k], S)
                              /\ Elements(f[k]) \subseteq {q[i] : i \in 1..k}}
<1>5. 0 \in P
  <2>1. f[0] \in Seq(T) /\ Elements(f[0]) = {}
    BY <1>4, EmptySeq, ElementsEmpty
  <2>2. OneIn(f[0], S)
    BY <2>1 DEF OneIn, Elements
  <2>3. 0 \in 0..n
    BY <1>1
  <2> QED BY <2>1, <2>2, <2>3
<1>6. ASSUME NEW k \in 0..n, k \in P, k < n
      PROVE  k + 1 \in P
  <2>1. f[k] \in Seq(T) /\ OneIn(f[k], S) /\ Elements(f[k]) \subseteq {q[i] : i \in 1..k}
    BY <1>6
  <2>2. k + 1 \in 1..n /\ q[k + 1] \in T /\ k + 1 \in 0..n
    BY <1>1, <1>6
  <2>3. {q[i] : i \in 1..(k + 1)} = {q[i] : i \in 1..k} \cup {q[k + 1]}
    OBVIOUS
  <2> SUFFICES /\ f[k + 1] \in Seq(T) /\ OneIn(f[k + 1], S)
               /\ Elements(f[k + 1]) \subseteq {q[i] : i \in 1..(k + 1)}
    BY <2>2
  <2> HIDE DEF P
  <2>4. CASE q[k + 1] \in K
    <3>1. f[k + 1] = Append(f[k], q[k + 1])
      BY <1>4, <1>6, <2>4
    <3>2. f[k + 1] \in Seq(T) /\ Elements(f[k + 1]) = Elements(f[k]) \cup {q[k + 1]}
      BY <2>1, <2>2, <3>1, ElementsAppend
    <3>3. q[k + 1] \in S => Elements(f[k]) \cap S = {}
      <4> SUFFICES ASSUME q[k + 1] \in S, NEW i \in 1..k, q[i] \in S PROVE FALSE
        BY <2>1
      <4>1. i \in 1..n /\ i # k + 1
        BY <1>1, <1>6
      <4> QED BY <1>3, <2>2, <4>1
    <3>4. OneIn(f[k + 1], S)
      BY <2>1, <2>2, <3>1, <3>3, OneInAppend
    <3> QED BY <2>1, <2>3, <3>2, <3>4
  <2>5. CASE q[k + 1] \notin K
    <3>1. f[k + 1] = f[k]
      BY <1>4, <1>6, <2>5
    <3> QED BY <2>1, <2>3, <3>1
  <2> QED BY <2>4, <2>5
<1>7. n \in P
  <2> HIDE DEF P
  <2>1. \A k \in 0..n : k \in P /\ k < n => k + 1 \in P
    BY <1>6
  <2>2. 0..n \subseteq P
    BY <1>1, <1>5, <2>1, Induct
  <2> QED BY <1>1, <2>2
<1> QED BY <1>2, <1>7

\* What is put before a queue and taken at once.
LEMMA TakeFirst ==
  ASSUME NEW T, NEW e \in T, NEW q \in Seq(T)
  PROVE  /\ <<e>> \o q # <<>> /\ <<e>> \o q \in Seq(T)
         /\ Head(<<e>> \o q) = e /\ Tail(<<e>> \o q) = q
OBVIOUS
\* The enqueue commands that are about d.
Telling(d) == {m \in Messages : m.kind = "enqueue" /\ d \in m.on}

\* In the first generation nothing is recovered, ...
FirstCalm == generation = 1 => ~ recovering /\ status # "built"

\* ... and a delivery is in one place, once, and remembered there.
Once ==
  \A d \in Delivery : OneIn(pending, {d}) /\ OneIn(results, {d}) /\ OneIn(mailbox, Telling(d))

Separate ==
  /\ submitting \cap (current \cup Elements(pending) \cup Elements(results) \cup Told) = {}
  /\ current \cap (Elements(pending) \cup Elements(results) \cup Told) = {}
  /\ Elements(pending) \cap (Elements(results) \cup Told) = {}
  /\ Elements(results) \cap Told = {}

Backed ==
  submitting \cup current \cup Elements(pending) \cup Elements(results) \cup Told
  \subseteq Elements(remembered)

Distinct == generation = 1 /\ Alive => Once /\ Separate /\ Backed

LEMMA FirstCalmStep == ASSUME HeldInv, FirstCalm, [Next]_vars PROVE FirstCalm'
<1> USE DEF callers, actor, shard, facts, io, native
<1>1. CASE Build
  <2>1. generation \in Nat /\ generation >= 1 /\ generation' = generation + 1
    BY <1>1, TypeParts, Limits DEF HeldInv, ShardOK, Gen, Build
  <2>2. generation' # 1
    BY <2>1
  <2> QED BY <2>2 DEF FirstCalm
<1>2. CASE CallerStep \/ Deliver \/ PumpStep \/ NativeStep \/ Announce \/ UNCHANGED vars
  BY <1>2
     DEF FirstCalm, CallerStep, Admit, Tell, AskSteer, AskClose, Drain, Deliver, PumpStep, Connect,
         NeverConnects, Take, StopsWaiting, Ask, Asked, Answer, Clear, ErrorWhenAborted,
         ErrorBeforeTurn, InterruptRaises, ErrorInTurn, Decided, Undecided, NativeStep, AbortDone, SteerDone,
         Announce, vars
<1>3. CASE Handle
  <2>1. status = "running"
    BY <1>3 DEF Handle, Enqueue, Complete, Fail, Steer, Steered, Recovered, Close, Receive, Alive
  <2>2. \A q, blocked : Start(q, blocked) => status' \in {status, "failing"}
    BY DEF Start
  <2>3. status' \in {status, "failing"}
    BY <1>3, <2>2 DEF Handle, Enqueue, Complete, Fail, Steer, Steered, Recovered, Close
  <2>4. generation' = generation
    BY <1>3 DEF Handle, Enqueue, Complete, Fail, Steer, Steered, Recovered, Close
  <2>5. recovering' = recovering \/ recovering' = FALSE
    BY <1>3 DEF Handle, Enqueue, Complete, Fail, Steer, Steered, Recovered, Close
  <2> QED BY <2>1, <2>3, <2>4, <2>5 DEF FirstCalm
<1>4. CASE Raise \/ Failed \/ Run
  BY <1>4 DEF FirstCalm, Raise, Failed, Run
<1> QED BY <1>1, <1>2, <1>3, <1>4 DEF Next, ActorStep

\* A message enters the mailbox, or the actor takes its oldest one.
LEMMA ToldMore ==
  ASSUME TypeInv, Once, NEW m \in Messages, mailbox' = Append(mailbox, m),
         m.kind = "enqueue" => m.on \cap Told = {}
  PROVE  /\ Told' = Told \cup IF m.kind = "enqueue" THEN m.on ELSE {}
         /\ \A d \in Delivery : OneIn(mailbox', Telling(d))
<1>1. mailbox \in Seq(Messages)
  BY Sequences
<1>2. Elements(mailbox') = Elements(mailbox) \cup {m}
  BY <1>1, ElementsAppend
<1>3. ASSUME NEW d \in Delivery PROVE OneIn(mailbox', Telling(d))
  <2>1. m \in Telling(d) => Elements(mailbox) \cap Telling(d) = {}
    BY DEF Telling, Told
  <2>2. OneIn(mailbox, Telling(d))
    BY DEF Once
  <2> QED BY <1>1, <2>1, <2>2, OneInAppend
<1> QED BY <1>2, <1>3 DEF Told

LEMMA ToldLess ==
  ASSUME TypeInv, Once, NEW kind, Receive(kind)
  PROVE  /\ Told = Told' \cup IF kind = "enqueue" THEN Head(mailbox).on ELSE {}
         /\ kind = "enqueue" => Head(mailbox).on \cap Told' = {}
         /\ \A d \in Delivery : OneIn(mailbox', Telling(d))
<1>1. /\ mailbox \in Seq(Messages) /\ mailbox # <<>> /\ Head(mailbox).kind = kind
      /\ Elements(mailbox) = {Head(mailbox)} \cup Elements(mailbox')
      /\ Head(mailbox) \in Messages /\ Head(mailbox).on \subseteq Delivery
      /\ mailbox' \in Seq(Messages)
  BY ReceiveOK
<1>2. mailbox' = Tail(mailbox)
  BY DEF Receive
<1>3. ASSUME NEW d \in Delivery
      PROVE  /\ OneIn(mailbox', Telling(d))
             /\ Head(mailbox) \in Telling(d) => Elements(mailbox') \cap Telling(d) = {}
  BY <1>1, <1>2, OneInTail DEF Once
<1>4. Told = Told' \cup IF kind = "enqueue" THEN Head(mailbox).on ELSE {}
  BY <1>1 DEF Told
<1>5. ASSUME kind = "enqueue", NEW d \in Head(mailbox).on, d \in Told' PROVE FALSE
  <2>1. PICK m \in Elements(mailbox') : m.kind = "enqueue" /\ d \in m.on
    BY <1>5 DEF Told
  <2>2. m \in Messages
    BY <1>1, <2>1, ElementsOf
  <2>3. m \in Telling(d) /\ Head(mailbox) \in Telling(d) /\ d \in Delivery
    BY <1>1, <1>5, <2>1, <2>2 DEF Telling
  <2> QED BY <1>3, <2>1, <2>3
<1> QED BY <1>3, <1>4, <1>5

\* A start takes a delivery of the queue, or none.
LEMMA StartMoves ==
  ASSUME NEW q \in Seq(Delivery), NEW blocked \in BOOLEAN, Start(q, blocked),
         \A d \in Delivery : OneIn(q, {d})
  PROVE  /\ \A d \in Delivery : OneIn(pending', {d})
         /\ current' \cup Elements(pending') = Elements(q)
         /\ current' \cap Elements(pending') = {}
<1>1. CASE pending' = q /\ current' = {}
  BY <1>1
<1>2. CASE q # <<>> /\ pending' = Tail(q) /\ current' = {Head(q)}
  <2>1. Head(q) \in Delivery /\ Elements(q) = {Head(q)} \cup Elements(Tail(q))
    BY <1>2, ElementsTail
  <2>2. ASSUME NEW d \in Delivery
        PROVE  OneIn(Tail(q), {d}) /\ (Head(q) \in {d} => Elements(Tail(q)) \cap {d} = {})
    BY <1>2, OneInTail
  <2>3. Head(q) \notin Elements(Tail(q))
    BY <2>1, <2>2
  <2> QED BY <1>2, <2>1, <2>2, <2>3
<1> QED BY <1>1, <1>2 DEF Start, NoTurn

\* A result is added, of a delivery that has none.
LEMMA ResultMore ==
  ASSUME TypeInv, Once, NEW d \in Delivery, d \notin Elements(results), results' = Append(results, d)
  PROVE  /\ \A e \in Delivery : OneIn(results', {e})
         /\ Elements(results') = Elements(results) \cup {d}
<1>1. results \in Seq(Delivery)
  BY Sequences
<1>2. ASSUME NEW e \in Delivery PROVE OneIn(results', {e})
  <2>1. d \in {e} => Elements(results) \cap {e} = {}
    OBVIOUS
  <2>2. OneIn(results, {e})
    BY DEF Once
  <2> QED BY <1>1, <2>1, <2>2, OneInAppend
<1> QED BY <1>1, <1>2, ElementsAppend

\* The handlers that take a turn's answer or queue a delivery.
LEMMA EnqueueOnce ==
  ASSUME HeldInv, TellsOne, Once, Separate, Backed, Enqueue
  PROVE  Once' /\ Separate' /\ Backed'
<1>0. TypeInv /\ pending \in Seq(Delivery)
  BY Sequences DEF HeldInv
<1>1. PICK d \in Head(mailbox).on :
     \/ shutting /\ UNCHANGED <<current, pending>>
     \/ ~ shutting /\ pending' = Append(pending, d) /\ UNCHANGED current
     \/ ~ shutting /\ current = {} /\ Start(<<d>> \o pending, FALSE)
  BY DEF Enqueue
<1>2. UNCHANGED <<submitting, remembered, results>> /\ Receive("enqueue")
  BY DEF Enqueue, callers
<1>3. Head(mailbox).on = {d} /\ d \in Delivery
  <2>1. Head(mailbox) \in Elements(mailbox) /\ Head(mailbox).kind = "enqueue"
    BY <1>0, <1>2, ReceiveOK
  <2> QED BY <1>1, <2>1 DEF TellsOne, Some
<1>4. Told = Told' \cup {d} /\ d \notin Told' /\ \A e \in Delivery : OneIn(mailbox', Telling(e))
  BY <1>0, <1>2, <1>3, ToldLess
<1>5. d \notin submitting \cup current \cup Elements(pending) \cup Elements(results)
  BY <1>4 DEF Separate
<1>6. CASE UNCHANGED <<current, pending>>
  BY <1>2, <1>4, <1>6 DEF Once, Separate, Backed
<1>7. CASE pending' = Append(pending, d) /\ UNCHANGED current
  <2>1. Elements(pending') = Elements(pending) \cup {d}
    BY <1>0, <1>3, <1>7, ElementsAppend
  <2>2. ASSUME NEW e \in Delivery PROVE OneIn(pending', {e})
    <3>1. d \in {e} => Elements(pending) \cap {e} = {}
      BY <1>5
    <3> QED BY <1>0, <1>3, <1>7, <3>1, OneInAppend DEF Once
  <2> QED BY <1>2, <1>4, <1>5, <1>7, <2>1, <2>2 DEF Once, Separate, Backed
<1>8. CASE current = {} /\ Start(<<d>> \o pending, FALSE)
  <2>1. current' = {d} /\ pending' = pending
    BY <1>0, <1>3, <1>8, TakeFirst DEF Start
  <2> QED BY <1>2, <1>4, <1>5, <1>8, <2>1 DEF Once, Separate, Backed
<1> QED BY <1>1, <1>6, <1>7, <1>8

LEMMA AnswerOnce ==
  ASSUME HeldInv, Once, Separate, Backed, Complete \/ Fail
  PROVE  Once' /\ Separate' /\ Backed'
<1>0. TypeInv /\ Past /\ pending \in Seq(Delivery) /\ shutting \in BOOLEAN
  BY Sequences DEF HeldInv
<1>1. PICK kind \in Answering : Receive(kind)
  BY DEF Complete, Fail, Answering
<1>2. UNCHANGED <<submitting, remembered>>
  BY DEF Complete, Fail, callers
<1>3. Told' = Told /\ \A e \in Delivery : OneIn(mailbox', Telling(e))
  BY <1>0, <1>1, ToldLess DEF Answering
<1>4. CASE UNCHANGED <<current, pending, results>>
  BY <1>2, <1>3, <1>4 DEF Once, Separate, Backed
<1>5. CASE /\ Fenced(Head(mailbox))
           /\ \E d \in Head(mailbox).on : results' = Append(results, d)
           /\ Start(pending, shutting)
  <2>1. PICK d \in Head(mailbox).on : results' = Append(results, d)
    BY <1>5
  <2>2. current = {d} /\ d \in Delivery
    <3>1. Head(mailbox).kind \in Answering /\ Head(mailbox) \in Underway
      BY <1>0, <1>1, ReceiveOK DEF Underway
    <3>2. Some(Head(mailbox).on)
      BY <1>0, <3>1 DEF Past
    <3> QED BY <1>5, <2>1, <3>2 DEF Some, Fenced
  <2>3. d \notin Elements(results)
    BY <2>2 DEF Separate
  <2>4. Elements(results') = Elements(results) \cup {d} /\ \A e \in Delivery : OneIn(results', {e})
    BY <1>0, <2>1, <2>2, <2>3, ResultMore
  <2>5. /\ \A e \in Delivery : OneIn(pending', {e})
        /\ current' \cup Elements(pending') = Elements(pending)
        /\ current' \cap Elements(pending') = {}
    BY <1>0, <1>5, StartMoves DEF Once
  <2> QED BY <1>2, <1>3, <2>2, <2>4, <2>5 DEF Once, Separate, Backed
<1> QED BY <1>4, <1>5 DEF Complete, Fail, facts

\* What the gate releases has its result drained, and is nowhere else.
LEMMA CallersOnce ==
  ASSUME TypeInv, Once, Separate, Backed, CallerStep
  PROVE  Once' /\ Separate' /\ Backed'
<1> USE DEF callers, actor, shard, facts, io, native
<1>0. remembered \in Seq(Delivery) /\ results \in Seq(Delivery) /\ pending \in Seq(Delivery)
  BY Sequences
<1>1. ASSUME NEW d \in Delivery, Admit(d) PROVE Once' /\ Separate' /\ Backed'
  <2>1. Elements(remembered') = Elements(remembered) \cup {d}
    BY <1>0, <1>1, ElementsAppend DEF Admit
  <2>2. d \notin Elements(remembered) /\ submitting' = submitting \cup {d}
    BY <1>1 DEF Admit, Refused
  <2>3. UNCHANGED <<current, pending, results, mailbox>> /\ Told' = Told
    BY <1>1 DEF Admit, Told
  <2> QED BY <2>1, <2>2, <2>3 DEF Once, Separate, Backed
<1>2. ASSUME NEW d \in Delivery, Tell(d) PROVE Once' /\ Separate' /\ Backed'
  <2>1. d \in submitting /\ submitting' = submitting \ {d} /\ UNCHANGED <<current, pending, results>>
    BY <1>2 DEF Tell
  <2>2. d \notin current \cup Elements(pending) \cup Elements(results) \cup Told
    BY <2>1 DEF Separate
  <2>3. CASE mailbox' = Append(mailbox, Msg("enqueue", 0, {d}, TRUE)) /\ UNCHANGED remembered
    <3>1. /\ Msg("enqueue", 0, {d}, TRUE) \in Messages
          /\ Msg("enqueue", 0, {d}, TRUE).kind = "enqueue"
          /\ Msg("enqueue", 0, {d}, TRUE).on = {d}
      BY Limits DEF Msg, Messages
    <3>2. Told' = Told \cup {d} /\ \A e \in Delivery : OneIn(mailbox', Telling(e))
      BY <2>2, <2>3, <3>1, ToldMore
    <3> QED BY <2>1, <2>2, <2>3, <3>2 DEF Once, Separate, Backed
  <2>4. CASE remembered' = Without(d) /\ UNCHANGED mailbox
    <3>1. Elements(remembered') = Elements(remembered) \cap (Delivery \ {d})
      BY <1>0, <2>4, KeepingProperties DEF Without
    <3>2. Elements(remembered) \subseteq Delivery
      BY <1>0, ElementsOf
    <3>3. Told' = Told
      BY <2>4 DEF Told
    <3> QED BY <2>1, <2>2, <2>4, <3>1, <3>2, <3>3 DEF Once, Separate, Backed
  <2> QED BY <1>2, <2>3, <2>4 DEF Tell
<1>3. ASSUME NEW m \in Messages, m.kind # "enqueue", mailbox' = Append(mailbox, m) \/ mailbox' = mailbox,
             UNCHANGED <<remembered, submitting, current, pending, results>>
      PROVE  Once' /\ Separate' /\ Backed'
  <2>1. Told' = Told /\ \A e \in Delivery : OneIn(mailbox', Telling(e))
    <3>1. CASE mailbox' = Append(mailbox, m)
      BY <1>3, <3>1, ToldMore
    <3>2. CASE mailbox' = mailbox
      BY <3>2 DEF Once, Told
    <3> QED BY <1>3, <3>1, <3>2
  <2> QED BY <1>3, <2>1 DEF Once, Separate, Backed
<1>4. ASSUME NEW d \in Delivery, AskSteer(d) PROVE Once' /\ Separate' /\ Backed'
  <2>1. Msg("steer", 0, {d}, TRUE) \in Messages /\ Msg("steer", 0, {d}, TRUE).kind # "enqueue"
    BY Limits DEF Msg, Messages
  <2> QED BY <1>3, <1>4, <2>1 DEF AskSteer
<1>5. CASE AskClose
  <2>1. Msg("close", 0, {}, TRUE) \in Messages /\ Msg("close", 0, {}, TRUE).kind # "enqueue"
    BY Limits DEF Msg, Messages
  <2> QED BY <1>3, <1>5, <2>1 DEF AskClose
<1>6. CASE Drain
  <2> DEFINE d == Head(results)
  <2>1. /\ d \in Delivery /\ Elements(results) = {d} \cup Elements(results')
        /\ results # <<>> /\ results' = Tail(results)
    BY <1>0, <1>6, ElementsTail DEF Drain
  <2>2. ASSUME NEW e \in Delivery
        PROVE  OneIn(results', {e}) /\ (d \in {e} => Elements(results') \cap {e} = {})
    BY <1>0, <2>1, OneInTail DEF Once
  <2>3. d \notin Elements(results')
    BY <2>1, <2>2
  <2>4. Elements(remembered') = Elements(remembered) \cap (Delivery \ {d})
    BY <1>0, <1>6, KeepingProperties DEF Drain, Without
  <2>5. UNCHANGED <<submitting, current, pending, mailbox>> /\ Told' = Told
    BY <1>6 DEF Drain, Told
  <2>6. Elements(remembered) \subseteq Delivery
    BY <1>0, ElementsOf
  <2> HIDE DEF d
  <2> QED BY <2>1, <2>2, <2>3, <2>4, <2>5, <2>6 DEF Once, Separate, Backed
<1> QED BY <1>1, <1>2, <1>4, <1>5, <1>6 DEF CallerStep

LEMMA DistinctStep ==
  ASSUME HeldInv, TellsOne, FirstCalm, Distinct, [Next]_vars
  PROVE  Distinct'
<1> USE DEF callers, actor, shard, facts, io, native
<1>0. /\ TypeInv /\ pending \in Seq(Delivery) /\ relay \in Seq(Messages)
      /\ generation \in Nat /\ generation >= 1
  BY Sequences, Limits DEF HeldInv, Gen
<1>1. CASE ~ (generation' = 1 /\ Alive')
  BY <1>1 DEF Distinct
<1>2. CASE ~ Alive /\ Alive'
  <2>1. Run
    BY <1>2
       DEF Next, CallerStep, Admit, Tell, AskSteer, AskClose, Drain, Deliver, ActorStep, Handle,
           Enqueue, Complete, Fail, Steer, Steered, Recovered, Close, Receive, Raise, Failed,
           Build, Announce, PumpStep, Connect, NeverConnects, Take, StopsWaiting, Ask, Asked,
           Answer, Clear, ErrorWhenAborted, ErrorBeforeTurn, InterruptRaises, ErrorInTurn, Decided, Undecided,
           NativeStep, AbortDone, SteerDone, vars, Alive
  <2>2. generation # 1 /\ generation' = generation
    BY <2>1 DEF Run, FirstCalm
  <2> QED BY <2>2 DEF Distinct
<1>3. CASE Build
  <2>1. generation' # 1
    BY <1>0, <1>3 DEF Build
  <2> QED BY <2>1 DEF Distinct
<1> SUFFICES ASSUME generation' = 1, Alive', Alive, ~ Build
             PROVE  Once' /\ Separate' /\ Backed'
  BY <1>1, <1>2, <1>3 DEF Distinct
<1>4. generation = 1
  BY DEF Next, CallerStep, Admit, Tell, AskSteer, AskClose, Drain, Deliver, ActorStep, Handle,
         Enqueue, Complete, Fail, Steer, Steered, Recovered, Close, Raise, Failed, Run,
         Announce, PumpStep, Connect, NeverConnects, Take, StopsWaiting, Ask, Asked,
         Answer, Clear, ErrorWhenAborted, ErrorBeforeTurn, InterruptRaises, ErrorInTurn, Decided, Undecided,
         NativeStep, AbortDone, SteerDone, vars
<1>5. Once /\ Separate /\ Backed /\ ~ recovering
  BY <1>4 DEF Distinct, FirstCalm
<1>u. UNCHANGED <<remembered, submitting, current, pending, results, mailbox>>
         => Once' /\ Separate' /\ Backed'
  BY <1>5 DEF Once, Separate, Backed, Told
\* A command that is no enqueue and moves no delivery.
<1>k. ASSUME NEW kind, kind # "enqueue", Receive(kind),
             UNCHANGED <<remembered, submitting, current, results>>,
             Elements(pending') \subseteq Elements(pending),
             \A d \in Delivery : OneIn(pending', {d})
      PROVE  Once' /\ Separate' /\ Backed'
  <2>0. /\ Told = Told' \cup IF kind = "enqueue" THEN Head(mailbox).on ELSE {}
        /\ \A e \in Delivery : OneIn(mailbox', Telling(e))
    BY <1>0, <1>5, <1>k, ToldLess
  <2>1. Told' = Told /\ \A e \in Delivery : OneIn(mailbox', Telling(e))
    BY <1>k, <2>0
  <2> QED BY <1>5, <1>k, <2>1 DEF Once, Separate, Backed
<1>6. CASE CallerStep
  BY <1>0, <1>5, <1>6, CallersOnce
<1>7. CASE Deliver
  <2>1. Head(relay) \in Messages /\ Head(relay) \in Elements(relay)
    BY <1>0, <1>7, ElementsTail DEF Deliver
  <2>2. Head(relay).kind # "enqueue"
    BY <2>1 DEF TellsOne
  <2>3. mailbox' = Append(mailbox, Head(relay))
    BY <1>7 DEF Deliver
  <2>4. Told' = Told /\ \A e \in Delivery : OneIn(mailbox', Telling(e))
    BY <1>0, <1>5, <2>1, <2>2, <2>3, ToldMore
  <2> QED BY <1>5, <1>7, <2>4 DEF Deliver, Once, Separate, Backed
<1>8. CASE Enqueue
  BY <1>5, <1>8, EnqueueOnce
<1>9. CASE Complete \/ Fail
  BY <1>5, <1>9, AnswerOnce
<1>10. CASE Steer
  BY <1>5, <1>10, <1>k DEF Steer, Once
<1>11. CASE Steered
  <2>1. CASE pending' = pending
    BY <1>5, <1>11, <1>k, <2>1 DEF Steered, Once
  <2>2. CASE pending' = Keeping(pending, Delivery \ Head(mailbox).on)
    <3>1. Elements(pending') \subseteq Elements(pending)
      BY <1>0, <2>2, KeepingProperties
    <3>2. \A d \in Delivery : OneIn(pending', {d})
      BY <1>0, <1>5, <2>2, OneInKeeping DEF Once
    <3> QED BY <1>11, <1>k, <3>1, <3>2 DEF Steered
  <2> QED BY <1>11, <2>1, <2>2 DEF Steered
<1>12. CASE Recovered
  BY <1>5, <1>12, <1>k DEF Recovered, Once
<1>13. CASE Close
  BY <1>5, <1>13, <1>k DEF Close, Once
<1>14. CASE Raise \/ Failed \/ Run
  BY <1>14 DEF Raise, Failed, Run, Alive
<1>15. CASE Announce \/ PumpStep \/ NativeStep \/ UNCHANGED vars
  BY <1>15, <1>u
     DEF Announce, PumpStep, Connect, NeverConnects, Take, StopsWaiting, Ask, Asked, Answer, Clear,
         ErrorWhenAborted, ErrorBeforeTurn, InterruptRaises, ErrorInTurn, Decided, Undecided, NativeStep,
         AbortDone, SteerDone, vars
<1> QED BY <1>6, <1>7, <1>8, <1>9, <1>10, <1>11, <1>12, <1>13, <1>14, <1>15
        DEF Next, ActorStep, Handle

\* The places of a delivery, counted.
LEMMA CountedOnce == ASSUME TypeInv, Distinct PROVE OncePerAdmission
<1> SUFFICES ASSUME generation = 1, Alive, NEW d \in Delivery PROVE Occurrences(d) <= 1
  BY DEF OncePerAdmission
<1> DEFINE P == {i \in 1..Len(pending) : pending[i] = d}
           R == {i \in 1..Len(results) : results[i] = d}
           M == {i \in 1..Len(mailbox) : mailbox[i].kind = "enqueue" /\ d \in mailbox[i].on}
           S == {s \in {submitting, current} : d \in s}
<1>1. Once /\ Separate
  BY DEF Distinct
<1>2. Cardinality(P) \in {0, 1} /\ (P # {} => d \in Elements(pending))
                                /\ (Cardinality(P) = 0 <=> P = {})
  <2>1. \A i, j \in P : i = j
    BY <1>1 DEF Once, OneIn
  <2> QED BY <2>1, AtMostOne DEF Elements
<1>3. Cardinality(R) \in {0, 1} /\ (R # {} => d \in Elements(results))
                                /\ (Cardinality(R) = 0 <=> R = {})
  <2>1. \A i, j \in R : i = j
    BY <1>1 DEF Once, OneIn
  <2> QED BY <2>1, AtMostOne DEF Elements
<1>4. Cardinality(M) \in {0, 1} /\ (M # {} => d \in Told) /\ (Cardinality(M) = 0 <=> M = {})
  <2>1. \A i \in 1..Len(mailbox) : mailbox[i] \in Messages
    BY Sequences, ElementOfSeq
  <2>2. \A i \in M : mailbox[i] \in Telling(d)
    BY <2>1 DEF Telling
  <2>3. \A i, j \in M : i = j
    BY <1>1, <2>2 DEF Once, OneIn
  <2>4. M # {} => d \in Told
    BY DEF Told, Elements
  <2> QED BY <2>3, <2>4, AtMostOne
<1>5. Cardinality(S) \in {0, 1} /\ (S # {} => d \in submitting \cup current)
                                /\ (Cardinality(S) = 0 <=> S = {})
  <2>1. \A s, t \in S : s = t
    BY <1>1 DEF Separate
  <2> QED BY <2>1, AtMostOne
<1>6. /\ P # {} => R = {} /\ M = {} /\ S = {}
      /\ R # {} => M = {} /\ S = {}
      /\ M # {} => S = {}
  <2> HIDE DEF P, R, M, S
  <2> QED BY <1>1, <1>2, <1>3, <1>4, <1>5 DEF Separate
<1>7. Occurrences(d) = Cardinality(P) + Cardinality(R) + Cardinality(M) + Cardinality(S)
  BY DEF Occurrences
<1> HIDE DEF P, R, M, S
<1> QED BY <1>2, <1>3, <1>4, <1>5, <1>6, <1>7

\* No admission leads to two turns, nor to two results: until the first failure of the
\* actor a delivery is told, queued, running or answered in one place only.
THEOREM OneTurnEach == Spec => []OncePerAdmission
<1> DEFINE Inv == HeldInv /\ TellsOne /\ FirstCalm /\ Distinct
<1>1. Init => Inv
  <2> SUFFICES ASSUME Init PROVE TellsOne /\ FirstCalm /\ Distinct
    BY HeldInit
  <2>1. /\ mailbox = <<>> /\ relay = <<>> /\ remembered = <<>> /\ pending = <<>> /\ results = <<>>
        /\ submitting = {} /\ current = {} /\ recovering = FALSE /\ status = "running"
    BY DEF Init
  <2>2. /\ Elements(mailbox) = {} /\ Elements(relay) = {} /\ Elements(remembered) = {}
        /\ Elements(pending) = {} /\ Elements(results) = {}
    BY <2>1, ElementsEmpty
  <2>3. \A S : OneIn(<<>>, S)
    BY DEF OneIn
  <2>4. Told = {} /\ TellsOne
    BY <2>2 DEF Told, TellsOne
  <2> QED BY <2>1, <2>2, <2>3, <2>4 DEF FirstCalm, Distinct, Once, Separate, Backed
<1>2. Inv /\ [Next]_vars => Inv'
  BY HeldStep, TellsStep, FirstCalmStep, DistinctStep
<1>3. Inv => OncePerAdmission
  BY CountedOnce DEF HeldInv
<1> QED BY <1>1, <1>2, <1>3, PTL DEF Spec
===============================================================================
