------------------------ MODULE RecipientInboxProofs ------------------------
(***************************************************************************)
(* Proofs about RecipientInbox, for every set of messages, every clock     *)
(* with a TTL shorter than the dedup window, and every bound: no copy runs *)
(* into its own row, no settled message is run again, none that was        *)
(* answered is stranded, and the inbox implements DurableDelivery.         *)
(***************************************************************************)
EXTENDS RecipientInbox, TLAPS

USE MessagesAssumption, ClocksAssumption, BoundsAssumption

-----------------------------------------------------------------------------
(* Type correctness                                                        *)

\* A message that has not failed for good has an attempt left.
AttemptLeft == \A m \in Message : m \notin terminal => attempts[m] < MaxAttempts

\* What is left of a clock after a tick.
LEMMA LessLeft ==
  ASSUME NEW S, NEW f \in [S -> Nat]
  PROVE  /\ Less(f) \in [S -> Nat]
         /\ \A x \in S : /\ Less(f)[x] <= f[x]
                         /\ Less(f)[x] = IF f[x] = 0 THEN 0 ELSE f[x] - 1
  BY DEF Less

LEMMA TypeSenders ==
  ASSUME TypeOK, AttemptLeft, NEW m \in Message,
         Submit(m) \/ Put(m) \/ Confirm(m)
  PROVE  TypeOK' /\ AttemptLeft'
<1> USE DEF TypeOK, AttemptLeft, table, dedup, failure, bridge, extra
<1>1. CASE Submit(m)
  BY <1>1 DEF Submit
<1>2. CASE Put(m)
  BY <1>2 DEF Put
<1>3. CASE Confirm(m)
  BY <1>3 DEF Confirm
<1> QED BY <1>1, <1>2, <1>3

LEMMA TypeReceive ==
  ASSUME TypeOK, AttemptLeft, NEW m \in Message,
         \/ Duplicate(m) \/ TerminalDuplicate(m) \/ Refuse(m) \/ Reject(m)
         \/ Accept(m) \/ Collide(m)
  PROVE  TypeOK' /\ AttemptLeft'
<1> USE DEF TypeOK, AttemptLeft, bridge, extra, Arrives, Fresh
<1>1. CASE Duplicate(m)
  BY <1>1 DEF Duplicate, Bury, LiveKeys, table, failure
<1>2. CASE TerminalDuplicate(m) \/ Refuse(m) \/ Reject(m)
  BY <1>2 DEF TerminalDuplicate, Refuse, Reject, Purge, LiveKeys, table, failure
<1>3. CASE Accept(m)
  <2>1. keys' \subseteq Message \cup Key
        /\ window' \in [Message \cup Key -> 0..Window]
    BY <1>3 DEF Accept, Bury, LiveKeys, KeysOf
  <2>2. attempts' \in [Message -> 0..MaxAttempts] /\ AttemptLeft'
    BY <1>3 DEF Accept
  <2>3. ttl' \in [Message -> Nat] /\ row' \in [Message -> {"none", "pending", "consumed"}]
    BY <1>3 DEF Accept
  <2>4. record' \in [Message -> {"none", "refused", "fetched"}]
    BY <1>3 DEF Accept
  <2> QED BY <1>3, <2>1, <2>2, <2>3, <2>4 DEF Accept
<1>4. CASE Collide(m)
  BY <1>4 DEF Collide, table, dedup, failure
<1> QED BY <1>1, <1>2, <1>3, <1>4

\* An acknowledged row keeps the types of the table.
LEMMA AckRowType ==
  ASSUME TypeOK, NEW m \in Message, AckRow(m)
  PROVE  /\ row' \in [Message -> {"none", "pending", "consumed"}]
         /\ ttl' \in [Message -> Nat]
         /\ stamped' \subseteq Message
  BY DEF TypeOK, AckRow

LEMMA TypeRows ==
  ASSUME TypeOK, AttemptLeft,
         (\E m \in Message : Ack(m) \/ Fetch(m) \/ BackoffOver(m)) \/ Prune
  PROVE  TypeOK' /\ AttemptLeft'
<1> USE DEF TypeOK, AttemptLeft, senders, dedup, bridge, extra
<1>1. ASSUME NEW m \in Message, Ack(m)
      PROVE  TypeOK' /\ AttemptLeft'
  BY <1>1, AckRowType DEF Ack, failure
<1>2. ASSUME NEW m \in Message, Fetch(m) \/ BackoffOver(m)
      PROVE  TypeOK' /\ AttemptLeft'
  BY <1>2 DEF Fetch, BackoffOver, table, failure
<1>3. CASE Prune
  BY <1>3 DEF Prune, Overdue, failure
<1> QED BY <1>1, <1>2, <1>3

LEMMA TypeBridge ==
  ASSUME TypeOK, AttemptLeft, NEW m \in Message,
         \/ Offer(m) \/ Taken(m) \/ NotTaken(m) \/ Progress(m) \/ Finish(m)
         \/ Interrupt(m) \/ ReadOriginal(m) \/ Stamp(m) \/ Hint(m)
         \/ AckTurn(m) \/ SettleFailure(m)
  PROVE  TypeOK' /\ AttemptLeft'
<1> USE DEF TypeOK, AttemptLeft, senders, dedup, Turn
<1>1. CASE Offer(m) \/ NotTaken(m) \/ Finish(m) \/ Hint(m)
  BY <1>1 DEF Offer, NotTaken, Finish, Hint, table, failure, extra
<1>2. CASE Taken(m) \/ Progress(m)
  BY <1>2 DEF Taken, Progress, RefreshHold, failure, extra
<1>3. CASE Interrupt(m) \/ ReadOriginal(m)
  BY <1>3 DEF Interrupt, ReadOriginal, table, failure, extra
<1>4. CASE Stamp(m)
  BY <1>4 DEF Stamp, Called, Live
<1>5. CASE AckTurn(m)
  BY <1>5, AckRowType DEF AckTurn, Called, failure
<1>6. CASE SettleFailure(m)
  <2>1. /\ turn' \in [Message -> {"idle", "offered", "running", "ok", "stamping",
                                  "hinting", "acking", "failed", "failing"}]
        /\ faults' \in 0..MaxFaults /\ UNCHANGED <<phase, sweep>>
    BY <1>6 DEF SettleFailure, Called
  <2>2. CASE m \notin Pending
    BY <1>6, <2>1, <2>2 DEF SettleFailure, table, failure
  <2>3. CASE m \in Pending
    <3>1. attempts' \in [Message -> 0..MaxAttempts] /\ AttemptLeft'
          /\ ttl' \in [Message -> Nat]
      BY <1>6, <2>3 DEF SettleFailure, Pending, MayRetry
    <3> QED BY <1>6, <2>1, <2>3, <3>1 DEF SettleFailure
  <2> QED BY <2>2, <2>3
<1> QED BY <1>1, <1>2, <1>3, <1>4, <1>5, <1>6

LEMMA TypeDaemon ==
  ASSUME TypeOK, AttemptLeft,
         (\E m \in Message : Sweep(m)) \/ Crash \/ Restart \/ SweepFails \/ Started \/ Tick
         \/ UNCHANGED vars
  PROVE  TypeOK' /\ AttemptLeft'
<1> USE DEF TypeOK, AttemptLeft
<1>1. ASSUME NEW m \in Message, Sweep(m)
      PROVE  TypeOK' /\ AttemptLeft'
  <2>1. /\ row' \in [Message -> {"none", "pending", "consumed"}]
        /\ ttl' \in [Message -> Nat]
        /\ stamped' \subseteq Message
    BY <1>1, AckRowType DEF Sweep
  <2> QED BY <1>1, <2>1 DEF Sweep, senders, dedup, failure, extra
<1>2. CASE Crash
  BY <1>2 DEF Crash, senders, table, dedup, failure
<1>3. CASE Restart \/ SweepFails \/ Started
  BY <1>3 DEF Restart, SweepFails, Started, Live, senders, table, dedup, failure, extra
<1>4. CASE Tick
  <2>1. /\ life' \in [Message -> Nat] /\ ttl' \in [Message -> Nat]
        /\ window' \in [Message \cup Key -> 0..Window]
        /\ sending' \in [Message -> {"new", "sending", "confirmed", "expired"}]
    BY <1>4 DEF Tick, Less, GiveUp
  <2> QED BY <1>4, <2>1 DEF Tick, bridge, extra
<1>5. CASE UNCHANGED vars
  BY <1>5 DEF vars, senders, table, dedup, failure, bridge, extra
<1> QED BY <1>1, <1>2, <1>3, <1>4, <1>5

LEMMA TypeStep ==
  ASSUME TypeOK, AttemptLeft, [Next]_vars
  PROVE  TypeOK' /\ AttemptLeft'
  BY TypeSenders, TypeReceive, TypeRows, TypeBridge, TypeDaemon DEF Next

\* Every variable of the inbox, of the bridge and of the senders keeps its
\* type, and a message is never tried more often than it may be.
THEOREM TypeCorrect == Spec => []TypeOK
<1>1. Init => TypeOK /\ AttemptLeft
  BY DEF Init, TypeOK, AttemptLeft
<1>2. TypeOK /\ AttemptLeft /\ [Next]_vars => (TypeOK /\ AttemptLeft)'
  BY TypeStep
<1> QED BY <1>1, <1>2, PTL DEF Spec

-----------------------------------------------------------------------------
(* The invariant                                                           *)

\* The sender's clock: a copy is on the wire only while it has time left.
WireAlive ==
    \A m \in Message : life[m] <= Life[m] /\ (m \in wire => life[m] > 0)

\* What is on the wire or was committed has been submitted.
SentFirst == \A m \in wire \cup Committed : sending[m] # "new"

\* Some message with the key of m was committed.
Twin(m) == \E twin \in Committed : KeyOf[twin] = KeyOf[m]

\* A tombstone, or a record that says fetched, is of such a message.
KeysBacked ==
    \A m \in Message :
        m \in keys \/ KeyOf[m] \in keys \/ record[m] = "fetched" => Twin(m)

\* As long as the sender of an ordinary message may repeat it, its tombstone
\* is there, and outlasts the sender.
WindowKept ==
    \A m \in Ordinary :
        m \in Committed /\ life[m] > 0 => m \in keys /\ window[m] > life[m]

\* An ordinary message ends in one way only.
EndsOnce ==
    \A m \in Ordinary :
        /\ row[m] = "pending" => m \notin pruned
        /\ row[m] = "consumed" => m \notin pruned \cup terminal
        /\ m \notin pruned \cap terminal

\* A message with a completed turn stays fetched and without failures, and no
\* other turn of it is under way.
AnsweredKept ==
    \A m \in answered \cap Ordinary :
        /\ m \in Committed
        /\ m \in Pending =>
              /\ m \in stamped /\ attempts[m] = 0
              /\ turn[m] \notin {"offered", "running", "failed", "failing"}

\* Until it is settled it is in the hands of the bridge, or of the sweep.
SweepKept ==
    \A m \in (answered \cap Ordinary) \ Requests :
        m \in Live =>
            phase = "down" \/ m \in sweep \/ (phase = "up" /\ Settling(m))

IInv ==
    /\ TypeOK /\ AttemptLeft
    /\ WireAlive /\ SentFirst /\ KeysBacked /\ WindowKept /\ EndsOnce
    /\ AnsweredKept /\ SweepKept

-----------------------------------------------------------------------------
(* Facts about the actions                                                 *)

\* The message takes part in a step of the senders, of receive, of its row, or
\* of the bridge.
Sends(m) == Submit(m) \/ Put(m) \/ Confirm(m)
Drops(m) == TerminalDuplicate(m) \/ Refuse(m) \/ Reject(m)
Turns(m) == Offer(m) \/ NotTaken(m) \/ Finish(m) \/ Interrupt(m)
                \/ ReadOriginal(m) \/ Hint(m)
Holds(m) == Taken(m) \/ Progress(m)

\* An ordinary message is accepted once: when a copy of it comes again it
\* finds the tombstone.
LEMMA AcceptedOnce ==
  ASSUME IInv, NEW m \in Ordinary, Accept(m)
  PROVE  m \notin Committed
<1>1. m \in Message /\ life[m] > 0 /\ life[m] \in Nat /\ window[m] \in Nat
  BY DEF IInv, TypeOK, WireAlive, Accept, Fresh, Arrives, Ordinary
<1>2. m \in KeysOf(m) /\ m \notin LiveKeys
  BY DEF Accept, Fresh, KeysOf
<1>3. SUFFICES ASSUME m \in Committed PROVE FALSE
  OBVIOUS
<1>4. m \in keys /\ window[m] > life[m]
  BY <1>1, <1>3 DEF IInv, WindowKept
<1> QED BY <1>1, <1>2, <1>4 DEF LiveKeys

\* Only a row that is pending and not failed for good is consumed.
LEMMA AckRowFacts ==
  ASSUME TypeOK, NEW m \in Message, AckRow(m)
  PROVE  /\ \A n \in Message : n # m => row'[n] = row[n] /\ ttl'[n] = ttl[n]
         /\ row'[m] = (IF m \in Pending THEN "consumed" ELSE row[m])
         /\ ttl'[m] = (IF m \in Pending THEN 0 ELSE ttl[m])
         /\ stamped \subseteq stamped'
  BY DEF TypeOK, AckRow

\* Which variables a step leaves alone.
LEMMA LeftAlone ==
  ASSUME TypeOK, NEW m \in Message
  PROVE  /\ Sends(m) => UNCHANGED <<table, dedup, failure, bridge, extra>>
         /\ Drops(m) => UNCHANGED <<sending, life, table, window, failure, bridge, extra>>
         /\ Collide(m) => UNCHANGED <<sending, life, table, dedup, failure, bridge, extra>>
         /\ Turns(m) => UNCHANGED <<senders, table, dedup, failure, answered>>
         /\ Holds(m) => UNCHANGED <<senders, row, stamped, pruned, dedup, failure, extra>>
<1>1. Sends(m) => UNCHANGED <<table, dedup, failure, bridge, extra>>
  BY DEF Sends, Submit, Put, Confirm
<1>2. Drops(m) => UNCHANGED <<sending, life, table, window, failure, bridge, extra>>
  BY DEF Drops, TerminalDuplicate, Refuse, Reject, Purge
<1>3. Collide(m) => UNCHANGED <<sending, life, table, dedup, failure, bridge, extra>>
  BY DEF Collide
<1>4. Turns(m) => UNCHANGED <<senders, table, dedup, failure, answered>>
  BY DEF Turns, Offer, NotTaken, Finish, Interrupt, ReadOriginal, Hint, extra
<1>5. Holds(m) => UNCHANGED <<senders, row, stamped, pruned, dedup, failure, extra>>
  BY DEF Holds, Taken, Progress
<1> QED BY <1>1, <1>2, <1>3, <1>4, <1>5

Rests(m) == \/ Ack(m) \/ Fetch(m) \/ BackoffOver(m) \/ Turns(m) \/ Holds(m)
            \/ Stamp(m) \/ AckTurn(m) \/ SettleFailure(m) \/ Sweep(m)
Daemon == Prune \/ Crash \/ Restart \/ SweepFails \/ Started

LEMMA NextCases ==
  [Next]_vars =>
      \/ \E m \in Message : \/ Sends(m) \/ Drops(m) \/ Duplicate(m) \/ Collide(m)
                            \/ Accept(m) \/ Rests(m)
      \/ Daemon \/ Tick \/ UNCHANGED vars
  BY DEF Next, Sends, Drops, Rests, Turns, Holds, Daemon

LEMMA RestsAlone ==
  ASSUME (\E m \in Message : Rests(m)) \/ Daemon \/ UNCHANGED vars
  PROVE  UNCHANGED <<senders, dedup>>
<1>1. ASSUME NEW m \in Message, Rests(m)
      PROVE  UNCHANGED <<senders, dedup>>
  BY <1>1 DEF Rests, Turns, Holds, Ack, Fetch, BackoffOver, Offer, NotTaken,
     Finish, Interrupt, ReadOriginal, Hint, Taken, Progress, Stamp, AckTurn,
     SettleFailure, Sweep
<1>2. Daemon \/ UNCHANGED vars => UNCHANGED <<senders, dedup>>
  BY DEF Daemon, Prune, Crash, Restart, SweepFails, Started, vars
<1> QED BY <1>1, <1>2

\* Only an acceptance commits a message, and nothing takes that back.
LEMMA CommittedGrows ==
  ASSUME IInv, [Next]_vars
  PROVE  \/ Committed' = Committed
         \/ \E m \in Message : Accept(m) /\ Committed' = Committed \cup {m}
<1> USE DEF Committed
<1>1. ASSUME NEW m \in Message, Accept(m)
      PROVE  Committed' = Committed \cup {m}
  BY <1>1 DEF Accept, IInv, TypeOK
<1>2. ASSUME NEW m \in Message, Ack(m) \/ AckTurn(m) \/ Sweep(m)
      PROVE  Committed' = Committed
  <2>1. UNCHANGED <<pruned, terminal>> /\ (AckRow(m) \/ UNCHANGED row)
    BY <1>2 DEF Ack, AckTurn, Sweep, failure
  <2>2. ASSUME NEW n \in Message PROVE row[n] # "none" <=> row'[n] # "none"
    BY <2>1, AckRowFacts DEF IInv, Pending
  <2> QED BY <2>1, <2>2
<1>3. ASSUME NEW m \in Message, SettleFailure(m)
      PROVE  Committed' = Committed
  BY <1>3 DEF SettleFailure, Pending, table, failure
<1>4. CASE Prune
  BY <1>4 DEF Prune, Overdue, failure
<1>5. ASSUME UNCHANGED <<row, pruned, terminal>>
      PROVE  Committed' = Committed
  BY <1>5
<1>6. ASSUME NEW m \in Message,
             \/ Sends(m) \/ Drops(m) \/ Collide(m) \/ Turns(m) \/ Holds(m)
      PROVE  UNCHANGED <<row, pruned, terminal>>
  BY <1>6, LeftAlone DEF IInv, table, failure
<1>7. ASSUME NEW m \in Message,
             Duplicate(m) \/ Fetch(m) \/ BackoffOver(m) \/ Stamp(m)
      PROVE  UNCHANGED <<row, pruned, terminal>>
  BY <1>7 DEF Duplicate, Fetch, BackoffOver, Stamp, table, failure
<1>8. ASSUME Crash \/ Restart \/ SweepFails \/ Started \/ Tick \/ UNCHANGED vars
      PROVE  UNCHANGED <<row, pruned, terminal>>
  BY <1>8 DEF Crash, Restart, SweepFails, Started, Tick, vars, table, failure
<1> QED
  BY <1>1, <1>2, <1>3, <1>4, <1>5, <1>6, <1>7, <1>8, NextCases DEF Rests, Daemon

-----------------------------------------------------------------------------
(* The invariant is kept                                                   *)

LEMMA WireStep ==
  ASSUME IInv, [Next]_vars
  PROVE  WireAlive' /\ SentFirst'
<1> USE DEF IInv, TypeOK, WireAlive, SentFirst
<1>1. ASSUME NEW m \in Message, Sends(m)
      PROVE  WireAlive' /\ SentFirst'
  <2>1. Committed' = Committed
    BY <1>1, LeftAlone DEF Committed, table, failure
  <2>2. CASE Submit(m)
    BY <2>1, <2>2 DEF Submit, Committed
  <2>3. CASE Put(m)
    BY <2>1, <2>3 DEF Put, Committed
  <2>4. CASE Confirm(m)
    BY <2>1, <2>4 DEF Confirm, Committed
  <2> QED BY <1>1, <2>2, <2>3, <2>4 DEF Sends
<1>2. ASSUME NEW m \in Message,
             Drops(m) \/ Duplicate(m) \/ Collide(m) \/ Accept(m)
      PROVE  WireAlive' /\ SentFirst'
  <2>1. UNCHANGED <<sending, life>> /\ wire' = wire \ {m} /\ m \in wire
    BY <1>2 DEF Drops, TerminalDuplicate, Refuse, Reject, Duplicate, Collide,
                Accept, Fresh, Arrives
  <2>2. Committed' \subseteq Committed \cup {m}
    BY <1>2, LeftAlone
       DEF Committed, table, failure, Duplicate, Accept
  <2> QED BY <2>1, <2>2
<1>3. CASE (\E m \in Message : Rests(m)) \/ Daemon \/ UNCHANGED vars
  <2>1. UNCHANGED <<sending, life, wire>>
    BY <1>3, RestsAlone DEF senders
  <2>2. Committed' = Committed \/ \E m \in Message : Accept(m)
    BY CommittedGrows
  <2>3. ASSUME NEW m \in Message, Accept(m) PROVE FALSE
    BY <2>1, <2>3 DEF Accept, Fresh, Arrives
  <2> QED BY <2>1, <2>2, <2>3
<1>4. CASE Tick
  <2>1. wire' = {} /\ Committed' = Committed /\ Committed \subseteq Message
        /\ \A m \in Message : sending[m] # "new" => sending'[m] # "new"
    BY <1>4 DEF Tick, GiveUp, Committed
  <2>2. life' = Less(life) /\ life \in [Message -> Nat]
    BY <1>4 DEF Tick
  <2>3. life' \in [Message -> Nat] /\ \A m \in Message : life'[m] <= life[m]
    BY <2>2, LessLeft
  <2> QED BY <2>1, <2>3
<1> QED BY <1>1, <1>2, <1>3, <1>4, NextCases

LEMMA KeysStep ==
  ASSUME IInv, [Next]_vars
  PROVE  KeysBacked'
<1>1. \A m \in Message : Twin(m) => Twin(m)'
  BY CommittedGrows DEF Twin, Committed
<1>2. ASSUME NEW m \in Message, Duplicate(m)
      PROVE  KeysBacked'
  <2>1. Twin(m)
    BY <1>2 DEF Duplicate, KeysOf, LiveKeys, IInv, KeysBacked
  <2>2. ASSUME NEW n \in Message, n # m, n \in keys' \/ KeyOf[n] \in keys' \/ record'[n] = "fetched"
        PROVE  n \in keys \/ KeyOf[n] \in keys \/ record[n] = "fetched"
    BY <1>2, <2>2 DEF Duplicate, Bury, LiveKeys, IInv, TypeOK
  <2> QED BY <1>1, <2>1, <2>2 DEF IInv, KeysBacked
<1>3. ASSUME NEW m \in Message, Accept(m)
      PROVE  KeysBacked'
  <2>1. m \in Committed'
    BY <1>3 DEF Accept, Committed, IInv, TypeOK
  <2>2. ASSUME NEW n \in Message, n \in keys' \/ KeyOf[n] \in keys' \/ record'[n] = "fetched"
        PROVE  \/ KeyOf[n] = KeyOf[m]
               \/ n \in keys \/ KeyOf[n] \in keys \/ record[n] = "fetched"
    BY <1>3, <2>2 DEF Accept, Bury, KeysOf, LiveKeys, IInv, TypeOK
  <2>3. ASSUME NEW n \in Message, KeyOf[n] = KeyOf[m]
        PROVE  Twin(n)'
    BY <2>1, <2>3 DEF Twin
  <2> QED BY <1>1, <2>2, <2>3 DEF IInv, KeysBacked
<1>4. ASSUME NEW m \in Message, Drops(m)
      PROVE  KeysBacked'
  <2>1. keys' \subseteq keys /\ \A n \in Message : record'[n] = "fetched" => record[n] = "fetched"
    BY <1>4 DEF Drops, TerminalDuplicate, Refuse, Reject, Purge, LiveKeys, IInv, TypeOK
  <2> QED BY <1>1, <2>1 DEF IInv, KeysBacked
<1>5. CASE UNCHANGED <<keys, record>>
  BY <1>1, <1>5 DEF IInv, KeysBacked
<1>6. ASSUME \/ \E m \in Message : Sends(m) \/ Collide(m) \/ Rests(m)
             \/ Daemon \/ Tick \/ UNCHANGED vars
      PROVE  UNCHANGED <<keys, record>>
  BY <1>6, LeftAlone, RestsAlone DEF IInv, dedup, Tick
<1> QED BY <1>2, <1>3, <1>4, <1>5, <1>6, NextCases

LEMMA WindowStep ==
  ASSUME IInv, [Next]_vars
  PROVE  WindowKept'
<1> USE DEF Ordinary
<1>1. ASSUME NEW m \in Message, Sends(m)
      PROVE  WindowKept'
  <2>1. Committed' = Committed /\ UNCHANGED <<keys, window>>
    BY <1>1, LeftAlone DEF IInv, Committed, table, dedup, failure
  <2>2. \A n \in Committed : life'[n] = life[n]
    <3>1. CASE Submit(m)
      BY <3>1 DEF Submit, IInv, SentFirst, TypeOK, Committed
    <3>2. CASE ~ Submit(m)
      BY <1>1, <3>2 DEF Sends, Put, Confirm
    <3> QED BY <3>1, <3>2
  <2> QED BY <2>1, <2>2 DEF IInv, WindowKept
<1>2. ASSUME NEW m \in Message, Drops(m) \/ Collide(m)
      PROVE  WindowKept'
  <2>1. Committed' = Committed /\ UNCHANGED <<life, window>>
    BY <1>2, LeftAlone DEF IInv, Committed, table, failure, dedup
  <2>2. keys' = LiveKeys \/ keys' = keys
    BY <1>2 DEF Drops, TerminalDuplicate, Refuse, Reject, Purge, Collide, dedup
  <2>3. \A n \in Ordinary : life[n] \in Nat /\ window[n] \in Nat
    BY DEF IInv, TypeOK
  <2>4. \A n \in Ordinary : n \in keys /\ window[n] > life[n] => n \in LiveKeys
    BY <2>3 DEF LiveKeys
  <2> QED BY <2>1, <2>2, <2>4 DEF IInv, WindowKept
<1>3. ASSUME NEW m \in Message, Duplicate(m) \/ Accept(m)
      PROVE  WindowKept'
  <2>1. life' = life /\ Committed' \subseteq Committed \cup {m}
    BY <1>3 DEF Duplicate, Accept, Committed, table, failure, IInv, TypeOK
  <2>2. PICK S \in {{m}, KeysOf(m)} : Bury(S)
    BY <1>3 DEF Duplicate, Accept
  <2>3. m \in keys' /\ (m \in Ordinary => window'[m] > life[m])
    BY <2>2 DEF Bury, KeysOf, IInv, TypeOK, WireAlive
  <2>4. ASSUME NEW n \in Ordinary, n \in Committed, life[n] > 0
        PROVE  n \in keys' /\ window'[n] > life[n]
    BY <2>2, <2>4 DEF Bury, LiveKeys, IInv, TypeOK, WireAlive, WindowKept
  <2> QED BY <2>1, <2>3, <2>4 DEF WindowKept
<1>4. CASE Tick
  <2>1. Committed' = Committed /\ keys' = keys
    BY <1>4 DEF Tick, Committed
  <2>2. ASSUME NEW m \in Message
        PROVE  /\ life'[m] = IF life[m] = 0 THEN 0 ELSE life[m] - 1
               /\ window'[m] = IF window[m] = 0 THEN 0 ELSE window[m] - 1
    BY <1>4 DEF Tick, Less, IInv, TypeOK
  <2> QED BY <2>1, <2>2 DEF IInv, TypeOK, WindowKept
<1>5. CASE (\E m \in Message : Rests(m)) \/ Daemon \/ UNCHANGED vars
  <2>1. UNCHANGED <<life, wire, keys, window>>
    BY <1>5, RestsAlone DEF senders, dedup
  <2>2. Committed' = Committed
    <3>1. ASSUME NEW m \in Message, Accept(m) PROVE FALSE
      BY <2>1, <3>1 DEF Accept, Fresh, Arrives
    <3> QED BY <3>1, CommittedGrows
  <2> QED BY <2>1, <2>2 DEF IInv, WindowKept
<1> QED BY <1>1, <1>2, <1>3, <1>4, <1>5, NextCases

\* An acknowledgement consumes what has neither expired nor failed.
LEMMA AckEnds ==
  ASSUME IInv, NEW m \in Message, AckRow(m), UNCHANGED <<pruned, terminal>>
  PROVE  EndsOnce'
<1>1. \A n \in Message : n # m => row'[n] = row[n]
  BY AckRowFacts DEF IInv
<1>2. row'[m] = "consumed" => row[m] = "consumed" \/ m \in Pending
  BY AckRowFacts DEF IInv
<1>3. row'[m] = "pending" => row[m] = "pending"
  BY AckRowFacts DEF IInv
<1> QED BY <1>1, <1>2, <1>3 DEF IInv, EndsOnce, Pending, Ordinary

LEMMA EndsStep ==
  ASSUME IInv, [Next]_vars
  PROVE  EndsOnce'
<1> USE DEF Ordinary
<1>1. ASSUME NEW m \in Message, Accept(m)
      PROVE  EndsOnce'
  <2>1. m \in Ordinary => m \notin pruned \cup terminal
    BY <1>1, AcceptedOnce DEF Committed
  <2>2. row' = [row EXCEPT ![m] = "pending"] /\ UNCHANGED <<pruned, terminal>>
    BY <1>1 DEF Accept
  <2> QED BY <2>1, <2>2 DEF IInv, TypeOK, EndsOnce
<1>2. ASSUME NEW m \in Message, Ack(m) \/ AckTurn(m) \/ Sweep(m)
      PROVE  EndsOnce'
  <2>1. UNCHANGED <<pruned, terminal>> /\ (AckRow(m) \/ UNCHANGED row)
    BY <1>2 DEF Ack, AckTurn, Sweep, failure
  <2> QED BY <2>1, AckEnds DEF IInv, EndsOnce
<1>3. ASSUME NEW m \in Message, SettleFailure(m)
      PROVE  EndsOnce'
  <2>1. UNCHANGED <<row, pruned>>
    BY <1>3 DEF SettleFailure, table
  <2>2. terminal' = terminal \/ (m \in Pending /\ terminal' = terminal \cup {m})
    BY <1>3 DEF SettleFailure, failure
  <2> QED BY <2>1, <2>2 DEF IInv, EndsOnce, Pending
<1>4. CASE Prune
  BY <1>4 DEF Prune, Overdue, failure, IInv, EndsOnce
<1>5. CASE UNCHANGED <<row, pruned, terminal>>
  BY <1>5 DEF IInv, EndsOnce
<1>6. ASSUME NEW m \in Message,
             \/ Sends(m) \/ Drops(m) \/ Collide(m) \/ Turns(m) \/ Holds(m)
      PROVE  UNCHANGED <<row, pruned, terminal>>
  BY <1>6, LeftAlone DEF IInv, table, failure
<1>7. ASSUME NEW m \in Message,
             Duplicate(m) \/ Fetch(m) \/ BackoffOver(m) \/ Stamp(m)
      PROVE  UNCHANGED <<row, pruned, terminal>>
  BY <1>7 DEF Duplicate, Fetch, BackoffOver, Stamp, table, failure
<1>8. ASSUME Crash \/ Restart \/ SweepFails \/ Started \/ Tick \/ UNCHANGED vars
      PROVE  UNCHANGED <<row, pruned, terminal>>
  BY <1>8 DEF Crash, Restart, SweepFails, Started, Tick, vars, table, failure
<1> QED
  BY <1>1, <1>2, <1>3, <1>4, <1>5, <1>6, <1>7, <1>8, NextCases DEF Rests, Daemon

-----------------------------------------------------------------------------
(* Completed turns                                                         *)

\* What AnsweredKept says of one message, and of the next state.
Kept(m) ==
    /\ m \in Committed
    /\ m \in Pending =>
          /\ m \in stamped /\ attempts[m] = 0
          /\ turn[m] \notin {"offered", "running", "failed", "failing"}

\* Steps that touch none of the message's row, failures and turn.
LEMMA KeptAlone ==
  ASSUME IInv, [Next]_vars, NEW m \in Message, Kept(m),
         m \in Pending' => m \in Pending,
         m \in Pending' => m \in stamped' /\ attempts'[m] = 0,
         m \in Pending' =>
             turn'[m] \notin {"offered", "running", "failed", "failing"}
  PROVE  Kept(m)'
  BY CommittedGrows DEF Kept

LEMMA AnsweredStep ==
  ASSUME IInv, [Next]_vars
  PROVE  AnsweredKept'
<1> SUFFICES ASSUME NEW n \in answered' \cap Ordinary
             PROVE  Kept(n)'
  BY DEF AnsweredKept, Kept
<1> n \in Message /\ n \in Ordinary
  BY DEF Ordinary
<1>0. n \in answered => Kept(n)
  BY DEF IInv, AnsweredKept, Kept
<1>1. ASSUME NEW m \in Message, Accept(m)
      PROVE  Kept(n)'
  <2>1. n \in answered /\ n # m
    BY <1>0, <1>1, AcceptedOnce DEF Accept, extra, Kept
  <2>2. row'[n] = row[n] /\ attempts'[n] = attempts[n] /\ (n \in stamped => n \in stamped')
    BY <1>1, <2>1 DEF Accept, IInv, TypeOK
  <2>3. UNCHANGED <<turn, terminal>>
    BY <1>1 DEF Accept, bridge
  <2> QED BY <1>0, <2>1, <2>2, <2>3, KeptAlone DEF Kept, Pending
<1>2. ASSUME NEW m \in Message, Stamp(m)
      PROVE  Kept(n)'
  <2>1. UNCHANGED <<row, terminal>>
    BY <1>2 DEF Stamp
  <2>2. turn'[m] \in {"hinting", "ok"} /\ \A k \in Message : k # m => turn'[k] = turn[k]
    BY <1>2 DEF Stamp, Called, Turn, IInv, TypeOK
  <2>3. CASE n # m
    <3>1. n \in answered /\ attempts'[n] = attempts[n] /\ (n \in stamped => n \in stamped')
      BY <1>2, <2>3 DEF Stamp, IInv, TypeOK
    <3> QED BY <1>0, <2>1, <2>2, <2>3, <3>1, KeptAlone DEF Kept, Pending
  <2>4. CASE n = m /\ m \in Live
    <3>1. n \in Committed'
      BY <2>1, <2>4 DEF Live, Committed
    <3>2. n \in stamped' /\ attempts'[n] = 0
      BY <1>2, <2>4 DEF Stamp, IInv, TypeOK
    <3> QED BY <2>2, <2>4, <3>1, <3>2 DEF Kept
  <2>5. CASE n = m /\ m \notin Live
    <3>1. n \in answered /\ UNCHANGED attempts /\ (n \in stamped => n \in stamped')
      BY <1>2, <2>5 DEF Stamp
    <3> QED BY <1>0, <2>1, <2>2, <2>5, <3>1, KeptAlone DEF Kept, Pending
  <2> QED BY <2>3, <2>4, <2>5
<1>3. ASSUME NEW m \in Message, Ack(m) \/ AckTurn(m) \/ Sweep(m)
      PROVE  Kept(n)'
  <2>1. UNCHANGED <<terminal, attempts, answered>>
        /\ (AckRow(m) \/ UNCHANGED <<row, stamped>>)
    BY <1>3 DEF Ack, AckTurn, Sweep, failure, extra
  <2>2. (n \in Pending' => n \in Pending) /\ (n \in stamped => n \in stamped')
    BY <2>1, AckRowFacts DEF IInv, Pending
  <2>3. turn'[n] = turn[n] \/ turn'[n] \in {"idle", "ok"}
    BY <1>3 DEF Ack, AckTurn, Sweep, bridge, Called, Turn, IInv, TypeOK
  <2> QED BY <1>0, <2>1, <2>2, <2>3, KeptAlone DEF Kept
<1>4. ASSUME NEW m \in Message, SettleFailure(m)
      PROVE  Kept(n)'
  <2>1. n \in answered /\ UNCHANGED <<row, stamped>> /\ terminal \subseteq terminal'
    BY <1>4 DEF SettleFailure, table, failure
  <2>2. turn[m] = "failing" /\ \A k \in Message : k # m => turn'[k] = turn[k]
    BY <1>4 DEF SettleFailure, Called, Turn, IInv, TypeOK
  <2>3. CASE n = m
    <3>1. n \notin Pending
      BY <1>0, <2>1, <2>2, <2>3 DEF Kept
    <3> QED BY <1>0, <2>1, <3>1, KeptAlone DEF Kept, Pending
  <2>4. CASE n # m
    <3>1. attempts'[n] = attempts[n]
      BY <1>4, <2>4 DEF SettleFailure, failure, IInv, TypeOK
    <3> QED BY <1>0, <2>1, <2>2, <2>4, <3>1, KeptAlone DEF Kept, Pending
  <2> QED BY <2>3, <2>4
<1>5. ASSUME NEW m \in Message, Turns(m) \/ Holds(m)
      PROVE  Kept(n)'
  <2>1. UNCHANGED <<row, stamped, terminal, attempts, answered>>
    BY <1>5, LeftAlone DEF IInv, table, failure, extra
  <2>2. \A k \in Message : k # m => turn'[k] = turn[k]
    BY <1>5 DEF Turns, Holds, Offer, NotTaken, Finish, Interrupt, ReadOriginal,
                Hint, Taken, Progress, Turn, IInv, TypeOK
  <2>3. ASSUME n = m, n \in Pending
        PROVE  turn'[n] \notin {"offered", "running", "failed", "failing"}
    <3>1. turn[m] \notin {"offered", "running", "failed", "failing"}
          /\ ~ (m \in Dispatchable /\ turn[m] = "idle")
      BY <1>0, <2>1, <2>3 DEF Kept, Dispatchable
    <3> QED
      BY <1>5, <2>3, <3>1 DEF Turns, Holds, Offer, NotTaken, Finish, Interrupt,
         ReadOriginal, Hint, Taken, Progress, Turn, IInv, TypeOK
  <2> QED BY <1>0, <2>1, <2>2, <2>3, KeptAlone DEF Kept, Pending
<1>6. CASE Prune
  <2>1. UNCHANGED <<terminal, attempts, answered, turn>>
        /\ \A k \in Message : row'[k] = "pending" => row[k] = "pending" /\ k \notin Overdue
    BY <1>6 DEF Prune, failure, extra, bridge
  <2>2. stamped' = stamped \ Overdue
    BY <1>6 DEF Prune
  <2> QED BY <1>0, <2>1, <2>2, KeptAlone DEF Kept, Pending
<1>7. CASE Crash \/ Tick \/ \E m \in Message : Fetch(m)
  <2>1. UNCHANGED <<row, terminal, attempts, answered>> /\ stamped \subseteq stamped'
    BY <1>7 DEF Crash, Tick, Fetch, table, failure, extra
  <2>2. turn'[n] = turn[n] \/ turn'[n] = "idle"
    BY <1>7 DEF Crash, Tick, Fetch, bridge
  <2> QED BY <1>0, <2>1, <2>2, KeptAlone DEF Kept, Pending
<1>8. CASE UNCHANGED <<row, stamped, terminal, attempts, answered, turn>>
  BY <1>0, <1>8, KeptAlone DEF Kept, Pending
<1>9. ASSUME \/ \E m \in Message : Sends(m) \/ Drops(m) \/ Collide(m)
             \/ \E m \in Message : Duplicate(m) \/ BackoffOver(m)
             \/ Restart \/ SweepFails \/ Started \/ UNCHANGED vars
      PROVE  UNCHANGED <<row, stamped, terminal, attempts, answered, turn>>
  BY <1>9, LeftAlone DEF IInv, Duplicate, BackoffOver, Restart, SweepFails, Started, vars,
     table, failure, bridge, extra
<1> QED
  BY <1>1, <1>2, <1>3, <1>4, <1>5, <1>6, <1>7, <1>8, <1>9, NextCases
     DEF Rests, Daemon

\* What SweepKept says of one message.
Held(n) ==
    n \in Live => phase = "down" \/ n \in sweep \/ (phase = "up" /\ Settling(n))

\* Steps that only let the message's time run out keep it where it is.
LEMMA HeldAlone ==
  ASSUME NEW n \in Message, Held(n), n \in Live' => n \in Live,
         UNCHANGED phase, n \in sweep => n \in sweep', turn'[n] = turn[n]
  PROVE  Held(n)'
  BY DEF Held, Settling

LEMMA SweepStep ==
  ASSUME IInv, [Next]_vars
  PROVE  SweepKept'
<1> SUFFICES ASSUME NEW n \in (answered' \cap Ordinary) \ Requests
             PROVE  Held(n)'
  BY DEF SweepKept, Held
<1> n \in Message /\ n \in Ordinary /\ n \notin Requests /\ n \notin Deadlined
  BY DEF Ordinary
<1>0. n \in answered => Held(n) /\ Kept(n)
  BY DEF IInv, AnsweredKept, Kept, SweepKept, Held
<1>p. n \in Live => n \in Pending
  BY DEF Live, Pending
<1>1. ASSUME NEW m \in Message, Accept(m)
      PROVE  Held(n)'
  <2>1. n \in answered /\ n # m
    BY <1>0, <1>1, AcceptedOnce DEF Accept, extra, Kept
  <2>2. row'[n] = row[n] /\ ttl'[n] = ttl[n] /\ UNCHANGED <<terminal, turn, phase, sweep>>
    BY <1>1, <2>1 DEF Accept, IInv, TypeOK, bridge
  <2> QED BY <1>0, <2>1, <2>2, HeldAlone DEF Live
<1>2. ASSUME NEW m \in Message, Stamp(m)
      PROVE  Held(n)'
  <2>1. UNCHANGED <<row, ttl, terminal, phase, sweep>> /\ phase = "up"
    BY <1>2 DEF Stamp, Called, Turn
  <2>2. turn'[m] \in {"hinting", "ok"} /\ \A k \in Message : k # m => turn'[k] = turn[k]
    BY <1>2 DEF Stamp, Called, Turn, IInv, TypeOK
  <2>3. CASE n = m
    BY <2>1, <2>2, <2>3 DEF Held, Settling
  <2>4. CASE n # m
    <3>1. n \in answered
      BY <1>2, <2>4 DEF Stamp
    <3> QED BY <1>0, <2>1, <2>2, <2>4, <3>1, HeldAlone DEF Live
  <2> QED BY <2>3, <2>4
<1>3. ASSUME NEW m \in Message, Ack(m) \/ AckTurn(m)
      PROVE  Held(n)'
  <2>1. AckRow(m) /\ UNCHANGED <<terminal, answered, phase, sweep>>
        /\ \A k \in Message : k # m => turn'[k] = turn[k]
    BY <1>3 DEF Ack, AckTurn, failure, extra, bridge, Called, Turn, IInv, TypeOK
  <2>2. CASE n = m
    <3>1. n \notin Live'
      BY <2>1, <2>2, AckRowFacts DEF IInv, Live, Pending
    <3> QED BY <3>1 DEF Held
  <2>3. CASE n # m
    <3>1. n \in Live' => n \in Live
      BY <2>1, <2>3, AckRowFacts DEF IInv, Live
    <3> QED BY <1>0, <2>1, <2>3, <3>1, HeldAlone
  <2> QED BY <2>2, <2>3
<1>4. ASSUME NEW m \in Message, Sweep(m)
      PROVE  Held(n)'
  <2>1. /\ n \in answered /\ phase = "starting" /\ UNCHANGED <<terminal, turn>>
        /\ (sweep \ {m}) \cap Stranded \subseteq sweep'
        /\ (AckRow(m) \/ UNCHANGED <<row, ttl>>)
    BY <1>4 DEF Sweep, failure, extra
  <2>2. CASE n = m
    <3>1. SUFFICES ASSUME n \in Live' PROVE FALSE
      BY DEF Held
    <3>2. ~ AckRow(m)
      BY <2>2, <3>1, <2>1, AckRowFacts DEF IInv, Live, Pending
    <3>3. n \in Live
      BY <2>1, <3>1, <3>2 DEF Live
    <3>4. n \in Stranded
      BY <1>0, <1>p, <2>1, <3>3 DEF Kept, Stranded
    <3> QED BY <1>4, <2>2, <3>2, <3>4 DEF Sweep
  <2>3. CASE n # m
    <3>1. n \in Live' => n \in Live
      BY <2>1, <2>3, AckRowFacts DEF IInv, Live
    <3>2. n \in Live => n \in sweep'
      BY <1>0, <1>p, <2>1, <2>3 DEF Held, Kept, Stranded
    <3> QED BY <3>1, <3>2 DEF Held
  <2> QED BY <2>2, <2>3
<1>5. ASSUME NEW m \in Message, SettleFailure(m)
      PROVE  Held(n)'
  <2>1. /\ n \in answered /\ UNCHANGED <<row, phase, sweep>> /\ turn[m] = "failing"
        /\ terminal \subseteq terminal'
        /\ \A k \in Message : k # m => turn'[k] = turn[k]
    BY <1>5 DEF SettleFailure, Called, Turn, IInv, TypeOK, table, failure
  <2>2. CASE n = m
    <3>1. n \notin Pending
      BY <1>0, <2>1, <2>2 DEF Kept
    <3>2. n \notin Live'
      BY <2>1, <3>1 DEF Live, Pending
    <3> QED BY <3>2 DEF Held
  <2>3. CASE n # m
    <3>1. ttl'[n] = ttl[n]
      BY <1>5, <2>3 DEF SettleFailure, table, IInv, TypeOK
    <3> QED BY <1>0, <2>1, <2>3, <3>1, HeldAlone DEF Live
  <2> QED BY <2>2, <2>3
<1>6. ASSUME NEW m \in Message, Turns(m)
      PROVE  Held(n)'
  <2>1. n \in answered /\ UNCHANGED <<row, ttl, terminal, phase, sweep>> /\ phase = "up"
    BY <1>6 DEF Turns, Offer, NotTaken, Finish, Interrupt, ReadOriginal, Hint,
                Turn, table, failure, extra
  <2>2. \A k \in Message : k # m => turn'[k] = turn[k]
    BY <1>6 DEF Turns, Offer, NotTaken, Finish, Interrupt, ReadOriginal, Hint,
                Turn, IInv, TypeOK
  <2>3. ASSUME n = m, n \in Live
        PROVE  Settling(n)'
    <3>1. turn[m] \notin {"offered", "running", "failed"} /\ m \notin Dispatchable
      BY <1>0, <1>p, <2>1, <2>3 DEF Kept, Dispatchable
    <3>2. (ReadOriginal(m) /\ turn[m] = "ok") \/ Hint(m)
      BY <1>6, <3>1 DEF Turns, Offer, NotTaken, Finish, Interrupt, ReadOriginal, Turn
    <3>3. turn'[m] \in {"stamping", "acking"}
      BY <2>3, <3>2 DEF ReadOriginal, Hint, Turn, IInv, TypeOK
    <3> QED BY <2>3, <3>3 DEF Settling
  <2>4. n \in Live' => n \in Live
    BY <2>1 DEF Live
  <2> QED BY <1>0, <2>1, <2>2, <2>3, <2>4, HeldAlone DEF Held
<1>7. ASSUME NEW m \in Message, Holds(m)
      PROVE  Held(n)'
  <2>1. /\ n \in answered /\ UNCHANGED <<row, terminal, phase, sweep>>
        /\ turn[m] \in {"offered", "running"} /\ RefreshHold(m)
        /\ \A k \in Message : k # m => turn'[k] = turn[k]
    BY <1>7 DEF Holds, Taken, Progress, Turn, failure, extra, IInv, TypeOK
  <2>2. CASE n = m
    <3>1. n \notin Pending
      BY <1>0, <2>1, <2>2 DEF Kept
    <3>2. n \notin Live'
      BY <2>1, <3>1 DEF Live, Pending
    <3> QED BY <3>2 DEF Held
  <2>3. CASE n # m
    <3>1. ttl'[n] = ttl[n]
      BY <2>1, <2>3 DEF RefreshHold, IInv, TypeOK
    <3> QED BY <1>0, <2>1, <2>3, <3>1, HeldAlone DEF Live
  <2> QED BY <2>2, <2>3
<1>8. CASE Prune
  <2>1. /\ UNCHANGED <<ttl, terminal, answered, turn, phase, sweep>>
        /\ row'[n] = "pending" => row[n] = "pending"
    BY <1>8 DEF Prune, failure, bridge, extra
  <2> QED BY <1>0, <2>1, HeldAlone DEF Live
<1>9. CASE Crash
  BY <1>9 DEF Crash, Held
<1>10. CASE Restart \/ SweepFails \/ Started
  <2>1. n \in answered /\ UNCHANGED <<row, ttl, terminal>>
    BY <1>10 DEF Restart, SweepFails, Started, table, failure, extra
  <2>2. n \in Live => n \in Stranded
    BY <1>0, <1>p, <2>1 DEF Kept, Stranded
  <2> QED BY <1>0, <1>10, <2>1, <2>2 DEF Restart, SweepFails, Started, Held, Live
<1>11. CASE Tick
  <2>1. n \in answered /\ UNCHANGED <<row, terminal, turn, phase, sweep>>
    BY <1>11 DEF Tick, bridge, extra
  <2>2. ttl'[n] = IF ttl[n] = 0 THEN 0 ELSE ttl[n] - 1
    BY <1>11 DEF Tick, Less, IInv, TypeOK
  <2>3. n \in Live' => n \in Live
    BY <2>1, <2>2 DEF Live, IInv, TypeOK
  <2> QED BY <1>0, <2>1, <2>3, HeldAlone
<1>12. CASE UNCHANGED <<row, ttl, terminal, answered, turn, phase, sweep>>
  BY <1>0, <1>12, HeldAlone DEF Live
<1>13. ASSUME \/ \E m \in Message : Sends(m) \/ Drops(m) \/ Collide(m)
              \/ \E m \in Message : Duplicate(m) \/ BackoffOver(m) \/ Fetch(m)
              \/ UNCHANGED vars
       PROVE  UNCHANGED <<row, ttl, terminal, answered, turn, phase, sweep>>
  BY <1>13, LeftAlone DEF IInv, Duplicate, BackoffOver, Fetch, vars,
     table, failure, bridge, extra
<1> QED
  BY <1>1, <1>2, <1>3, <1>4, <1>5, <1>6, <1>7, <1>8, <1>9, <1>10, <1>11, <1>12,
     <1>13, NextCases DEF Rests, Daemon

LEMMA InvStep == IInv /\ [Next]_vars => IInv'
<1> SUFFICES ASSUME IInv, [Next]_vars PROVE IInv'
  OBVIOUS
<1>1. TypeOK' /\ AttemptLeft'
  BY TypeStep DEF IInv
<1> QED
  BY <1>1, WireStep, KeysStep, WindowStep, EndsStep, AnsweredStep, SweepStep
     DEF IInv

THEOREM Invariance == Spec => []IInv
<1>1. Init => IInv
  <2>1. Init => TypeOK /\ AttemptLeft
    BY DEF Init, TypeOK, AttemptLeft
  <2>2. Init => Committed = {}
    BY DEF Init, Committed
  <2> QED
    BY <2>1, <2>2 DEF Init, IInv, WireAlive, SentFirst, KeysBacked, WindowKept,
       EndsOnce, AnsweredKept, SweepKept, Ordinary
<1> QED BY <1>1, InvStep, PTL DEF Spec

-----------------------------------------------------------------------------
(* Safety                                                                  *)

\* A copy of an ordinary message that arrives while its row waits finds the
\* tombstone, if the TTL is shorter than the dedup window.
THEOREM CopiesAnswered == Spec => []CopyIsAnswered
<1>1. IInv => CopyIsAnswered
  <2> SUFFICES ASSUME IInv, NEW m \in wire \ Deadlined, m \in Pending
               PROVE  KeysOf(m) \cap LiveKeys # {}
    BY DEF CopyIsAnswered
  <2>1. m \in Ordinary /\ life[m] > 0 /\ life[m] \in Nat /\ window[m] \in Nat
    BY DEF IInv, TypeOK, WireAlive, Ordinary
  <2>2. m \in Committed
    BY DEF Pending, Committed
  <2>3. m \in keys /\ window[m] > life[m]
    BY <2>1, <2>2 DEF IInv, WindowKept
  <2> QED BY <2>1, <2>3 DEF KeysOf, LiveKeys
<1> QED BY <1>1, Invariance, PTL

\* A message whose turn was completed is being settled, or is left to the
\* sweep of a restart, as long as it has time left.
THEOREM NothingStranded == Spec => []NoStrandedAnswer
<1>1. IInv => NoStrandedAnswer
  BY DEF IInv, SweepKept, NoStrandedAnswer, Ordinary
<1> QED BY <1>1, Invariance, PTL

NotOffered ==
    \A m \in Ordinary :
          turn[m] = "idle" /\ turn'[m] = "offered"
              => m \notin answered \cup terminal \cup pruned

\* An ordinary message that was answered, failed for good or was reported as
\* expired is never offered to a worker again.
THEOREM NeverRunAgain == Spec => NotRunAgain
<1>1. ASSUME IInv, [Next]_vars PROVE NotOffered
  <2> SUFFICES ASSUME NEW m \in Ordinary, turn[m] = "idle", turn'[m] = "offered"
               PROVE  m \notin answered \cup terminal \cup pruned
    BY DEF NotOffered
  <2> m \in Message
    BY DEF Ordinary
  <2>1. Offer(m)
    <3>1. ASSUME NEW n \in Message, Rests(n), ~ Offer(m)
          PROVE  turn'[m] # "offered"
      BY <1>1, <3>1 DEF Rests, Turns, Holds, Ack, Fetch, BackoffOver, Offer, NotTaken,
         Finish, Interrupt, ReadOriginal, Hint, Taken, Progress, Stamp, AckTurn,
         SettleFailure, Sweep, Called, Turn, bridge, IInv, TypeOK
    <3>2. ASSUME NEW n \in Message,
                 Sends(n) \/ Drops(n) \/ Collide(n) \/ Duplicate(n) \/ Accept(n)
          PROVE  turn' = turn
      BY <1>1, <3>2, LeftAlone DEF IInv, Duplicate, Accept, bridge
    <3>3. Daemon \/ Tick \/ UNCHANGED vars => turn'[m] # "offered"
      BY DEF Daemon, Prune, Crash, Restart, SweepFails, Started, Tick, vars, bridge
    <3> QED BY <1>1, <3>1, <3>2, <3>3, NextCases
  <2>2. m \in Dispatchable
    BY <2>1 DEF Offer
  <2> QED
    BY <1>1, <2>2 DEF Dispatchable, Live, Pending, IInv, EndsOnce, AnsweredKept
<1>2. IInv /\ [Next]_vars => [NotOffered]_vars
  BY <1>1
<1>3. Spec => [][NotOffered]_vars
  BY <1>2, Invariance, PTL DEF Spec
<1> QED BY <1>3 DEF NotRunAgain, NotOffered

-----------------------------------------------------------------------------
(* The inbox implements DurableDelivery                                    *)

\* An acknowledgement ends the message, or changes nothing for the senders.
LEMMA AckImplements ==
  ASSUME IInv, NEW m \in Message, AckRow(m), UNCHANGED <<pruned, terminal, sending>>
  PROVE  (\E n \in Message : Delivery!End(n)) \/ UNCHANGED <<Committed, Confirmed, Fate>>
<1>1. \A n \in Message : n # m => row'[n] = row[n]
  BY AckRowFacts DEF IInv
<1>2. row'[m] = (IF m \in Pending THEN "consumed" ELSE row[m])
  BY AckRowFacts DEF IInv
<1>3. UNCHANGED <<Committed, Confirmed>>
  BY <1>1, <1>2 DEF Committed, Confirmed, Pending
<1>4. CASE m \in Pending \cap Ordinary
  <2>1. m \in Committed /\ Fate[m] = "open"
    BY <1>4 DEF Pending, Ordinary, Committed, Fate, IInv, EndsOnce
  <2>2. Fate' = [Fate EXCEPT ![m] = "consumed"]
    BY <1>1, <1>2, <1>4 DEF Pending, Ordinary, Fate, IInv, EndsOnce
  <2> QED BY <1>3, <2>1, <2>2 DEF Delivery!End, Delivery!Outcomes
<1>5. CASE m \notin Pending \cap Ordinary
  <2>1. Fate' = Fate
    BY <1>1, <1>2, <1>5 DEF Fate, Ordinary
  <2> QED BY <1>3, <2>1
<1> QED BY <1>4, <1>5

LEMMA StepImplements ==
  ASSUME IInv, [Next]_vars
  PROVE  Delivery!Next \/ UNCHANGED <<Committed, Confirmed, Fate>>
<1>1. ASSUME NEW m \in Message, Accept(m)
      PROVE  Delivery!Next \/ UNCHANGED <<Committed, Confirmed, Fate>>
  <2>1. Confirmed' = Confirmed /\ Committed' = Committed \cup {m}
    BY <1>1 DEF Accept, Confirmed, Committed, IInv, TypeOK
  <2>2. m \in Deadlined \/ m \notin Committed
    BY <1>1, AcceptedOnce DEF Ordinary
  <2>3. Fate' = Fate
    BY <1>1, <2>2 DEF Accept, Fate, Committed, IInv, TypeOK
  <2>4. CASE m \in Committed
    BY <2>1, <2>3, <2>4
  <2>5. CASE m \notin Committed
    BY <2>1, <2>3, <2>5 DEF Delivery!Next, Delivery!Commit
  <2> QED BY <2>4, <2>5
<1>2. ASSUME NEW m \in Message, Ack(m) \/ AckTurn(m) \/ Sweep(m)
      PROVE  Delivery!Next \/ UNCHANGED <<Committed, Confirmed, Fate>>
  <2>1. UNCHANGED <<pruned, terminal, sending>> /\ (AckRow(m) \/ UNCHANGED row)
    BY <1>2 DEF Ack, AckTurn, Sweep, failure, senders
  <2>2. CASE UNCHANGED row
    BY <2>1, <2>2 DEF Committed, Confirmed, Fate
  <2> QED BY <2>1, <2>2, AckImplements DEF Delivery!Next
<1>3. ASSUME NEW m \in Message, SettleFailure(m)
      PROVE  Delivery!Next \/ UNCHANGED <<Committed, Confirmed, Fate>>
  <2>1. UNCHANGED <<row, pruned, sending>>
        /\ (terminal' = terminal \/ (m \in Pending /\ terminal' = terminal \cup {m}))
    BY <1>3 DEF SettleFailure, table, failure, senders
  <2>2. UNCHANGED <<Committed, Confirmed>>
    BY <2>1 DEF Committed, Confirmed, Pending
  <2>3. CASE m \in Pending \cap Ordinary /\ terminal' = terminal \cup {m}
    <3>1. m \in Committed /\ Fate[m] = "open"
      BY <2>3 DEF Pending, Ordinary, Committed, Fate, IInv, EndsOnce
    <3>2. Fate' = [Fate EXCEPT ![m] = "failed"]
      BY <2>1, <2>3 DEF Pending, Ordinary, Fate
    <3> QED BY <2>2, <3>1, <3>2 DEF Delivery!Next, Delivery!End, Delivery!Outcomes
  <2>4. CASE m \notin Ordinary \/ terminal' = terminal
    <3>1. Fate' = Fate
      BY <2>1, <2>4 DEF Fate, Ordinary
    <3> QED BY <2>2, <3>1
  <2> QED BY <2>1, <2>3, <2>4
<1>4. CASE Prune
  <2>1. UNCHANGED <<terminal, sending>>
    BY <1>4 DEF Prune, failure, senders
  <2>2. UNCHANGED <<Committed, Confirmed>>
    BY <1>4, <2>1 DEF Prune, Overdue, Committed, Confirmed
  <2> DEFINE S == (Overdue \ terminal) \cap Ordinary
  <2>3. S \in SUBSET Message /\ \A n \in S : n \in Committed /\ Fate[n] = "open"
    BY DEF Overdue, Ordinary, Committed, Fate, IInv, EndsOnce
  <2>4. Fate' = [n \in Message |-> IF n \in S THEN "expired" ELSE Fate[n]]
    BY <1>4, <2>1 DEF Prune, Overdue, Ordinary, Fate
  <2> QED BY <2>2, <2>3, <2>4 DEF Delivery!Next, Delivery!Expire
<1>5. ASSUME NEW m \in Message, Confirm(m)
      PROVE  Delivery!Next \/ UNCHANGED <<Committed, Confirmed, Fate>>
  <2>1. \E twin \in Committed : KeyOf[twin] = KeyOf[m]
    BY <1>5 DEF Confirm, HasReceived, Committed, IInv, KeysBacked, Twin
  <2>2. Confirmed' = Confirmed \cup {m}
    BY <1>5 DEF Confirm, Confirmed, IInv, TypeOK
  <2>3. UNCHANGED <<Committed, Fate>>
    BY <1>5 DEF Confirm, Committed, Fate, table, failure
  <2> QED BY <2>1, <2>2, <2>3 DEF Delivery!Next, Delivery!Confirm
<1>6. ASSUME NEW m \in Message, Submit(m) \/ Put(m)
      PROVE  UNCHANGED <<Committed, Confirmed, Fate>>
  <2>1. UNCHANGED <<row, pruned, terminal>> /\ Confirmed' = Confirmed
    BY <1>6 DEF Submit, Put, Confirmed, table, failure, IInv, TypeOK
  <2> QED BY <2>1 DEF Committed, Fate
<1>7. CASE Tick
  <2>1. UNCHANGED <<row, pruned, terminal>> /\ Confirmed' = Confirmed
    BY <1>7 DEF Tick, GiveUp, Confirmed, IInv, TypeOK
  <2> QED BY <2>1 DEF Committed, Fate
<1>8. CASE UNCHANGED <<row, pruned, terminal, sending>>
  BY <1>8 DEF Committed, Confirmed, Fate
<1>9. ASSUME \/ \E m \in Message : Drops(m) \/ Collide(m) \/ Turns(m) \/ Holds(m)
             \/ \E m \in Message :
                    Duplicate(m) \/ Fetch(m) \/ BackoffOver(m) \/ Stamp(m)
             \/ Crash \/ Restart \/ SweepFails \/ Started \/ UNCHANGED vars
      PROVE  UNCHANGED <<row, pruned, terminal, sending>>
  BY <1>9, LeftAlone DEF IInv, Duplicate, Fetch, BackoffOver, Stamp, Crash,
     Restart, SweepFails, Started, vars, table, failure, senders
<1> QED
  BY <1>1, <1>2, <1>3, <1>4, <1>5, <1>6, <1>7, <1>8, <1>9, NextCases
     DEF Sends, Rests, Daemon

\* The inbox keeps its promise to the senders: a receipt only for a message
\* that was committed, and one end for each.
THEOREM DeliveryIsDurable == Spec => DeliveryImplemented
<1>1. Init => Delivery!Init
  BY DEF Init, Delivery!Init, Committed, Confirmed, Fate
<1>2. IInv /\ [Next]_vars => [Delivery!Next]_(Delivery!delivery)
  BY StepImplements DEF Delivery!delivery
<1> QED BY <1>1, <1>2, Invariance, PTL DEF Spec, DeliveryImplemented, Delivery!Spec
=============================================================================
