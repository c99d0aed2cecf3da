--------------------------- MODULE RecipientInbox ---------------------------
(***************************************************************************)
(* The recipient's half of the durable inbox: the inbox rows of one        *)
(* daemon, their deduplication tombstones and failure settlements, the     *)
(* harness bridge that has a message answered and settles the answer, and  *)
(* the senders that repeat a message until a receipt is signed.            *)
(*                                                                         *)
(* Time is a coarse tick (half a day).  Deadlines are kept as the ticks    *)
(* that are left; what lasts seconds (a copy on the wire, the back-off of  *)
(* a failed turn, a settlement) does not outlast the tick.                 *)
(***************************************************************************)
EXTENDS Naturals, FiniteSets

CONSTANTS
    Message,      \* message ids
    Requests,     \* messages of intent "request": pending until replied to
    Deadlined,    \* messages with a producer deadline, which nothing extends
    Key,          \* idempotency keys
    KeyOf,        \* [Message -> Key]
    Life,         \* [Message -> Nat]: ticks the sender keeps its outbox row
    Ttl,          \* durable_ttl_ms, in ticks
    Window,       \* dedup_window_ms, in ticks
    MaxItems,     \* max_inbox_items
    MaxAttempts,  \* HARNESS_FAILURE_MAX_ATTEMPTS
    Pulled,       \* bound: messages the agent may fetch itself
    SelfSettled,  \* bound: messages the agent may acknowledge or reply to
    MaxTurns,     \* bound: messages with a worker at a time
    MaxFaults     \* bound: crashes of the daemon, interrupted turns, and calls
                  \* that are answered only after their caller's timeout

ASSUME MessagesAssumption ==
    /\ Requests \subseteq Message /\ Deadlined \subseteq Message
    /\ KeyOf \in [Message -> Key] /\ Key \cap Message = {}
ASSUME ClocksAssumption ==
    /\ Ttl \in Nat \ {0} /\ Window \in Nat \ {0} /\ Life \in [Message -> Nat]
    /\ \A m \in Message \ Deadlined : Life[m] = Ttl
    \* durable_ttl_ms is 12 h and dedup_window_ms 24 h
    /\ Ttl < Window
ASSUME BoundsAssumption ==
    /\ MaxItems \in Nat \ {0} /\ MaxAttempts \in Nat \ {0}
    /\ MaxTurns \in Nat /\ MaxFaults \in Nat

VARIABLES
    \* senders: outbox row, ticks it has left; copies on the wire
    sending, life, wire,
    \* inbox table: row, fetched_at_ms, ticks left; expired rows swept so far
    row, stamped, ttl, pruned,
    \* dedup table: keys present and ticks left; the recipient's record
    keys, window, record,
    \* harness_failure_settlements: attempts (0: no row), terminal, backing off
    attempts, terminal, backoff,
    \* the bridge, in memory: where a message's turn and its settlement are;
    \* is the daemon up, or still starting, and what its startup has to sweep,
    \* or has given up
    turn, phase, sweep,
    \* bounds, and history: messages stamped by a completed turn
    faults, answered

senders == <<sending, life, wire>>
table   == <<row, stamped, ttl, pruned>>
dedup   == <<keys, window, record>>
failure == <<attempts, terminal, backoff>>
bridge  == <<turn, phase, sweep>>
extra   == <<faults, answered>>
vars    == <<senders, table, dedup, failure, bridge, extra>>

KeysOf(m) == {m, KeyOf[m]}

\* pending_messages: rows a caller may still act on.
Live == {m \in Message :
            row[m] = "pending" /\ ttl[m] > 0 /\ m \notin terminal}

\* Rows the capacity counts, and an acknowledgement may settle.
Pending == {m \in Message : row[m] = "pending" /\ m \notin terminal}

\* dispatchable_messages: not fetched yet, or failed and backed off.
Dispatchable == {m \in Live \ backoff : m \notin stamped \/ attempts[m] > 0}

Init ==
    /\ sending = [m \in Message |-> "new"]
    /\ life = [m \in Message |-> 0] /\ wire = {}
    /\ row = [m \in Message |-> "none"] /\ stamped = {}
    /\ ttl = [m \in Message |-> 0] /\ pruned = {}
    /\ keys = {} /\ window = [k \in Message \cup Key |-> 0]
    /\ record = [m \in Message |-> "none"]
    /\ attempts = [m \in Message |-> 0] /\ terminal = {} /\ backoff = {}
    /\ turn = [m \in Message |-> "idle"] /\ phase = "up" /\ sweep = {}
    /\ faults = 0 /\ answered = {}

-----------------------------------------------------------------------------
(* Senders *)

Submit(m) ==
    /\ sending[m] = "new"
    /\ sending' = [sending EXCEPT ![m] = "sending"]
    /\ life' = [life EXCEPT ![m] = Life[m]]
    /\ UNCHANGED <<wire, table, dedup, failure, bridge, extra>>

\* One delivery attempt: the copy may arrive, late or never.  Bound: one copy
\* is on its way at a time.
Put(m) ==
    /\ sending[m] = "sending" /\ life[m] > 0 /\ wire = {}
    /\ wire' = wire \cup {m}
    /\ UNCHANGED <<sending, life, table, dedup, failure, bridge, extra>>

\* has_received: the receipt is signed for an inbox row or a tombstone.
ReceivedRecord(m) ==    \* mutant: any record of the message will do
    row[m] # "none" \/ m \in keys \/ record[m] # "none"
HasReceived(m) == row[m] # "none" \/ m \in keys

\* The sender reads the receipt, or the recipient's record (ack_received).
Confirm(m) ==
    /\ sending[m] = "sending" /\ life[m] > 0 /\ phase # "down"
    /\ HasReceived(m) \/ record[m] = "fetched"
    /\ sending' = [sending EXCEPT ![m] = "confirmed"]
    /\ UNCHANGED <<life, wire, table, dedup, failure, bridge, extra>>

\* prune_outbox: a row whose time is over after this tick is given up.
GiveUp == sending' = [m \in Message |-> IF sending[m] = "sending" /\ life[m] <= 1
                                        THEN "expired" ELSE sending[m]]

-----------------------------------------------------------------------------
(* receive *)

\* The tombstones left by the purge each receive starts with.
LiveKeys == {k \in keys : window[k] > 0}

\* A copy is taken from the wire by a running actor.
Arrives(m) == m \in wire /\ phase # "down" /\ wire' = wire \ {m}

\* Mutant: no tombstone is left.
BuryNothing(S) == keys' = LiveKeys /\ UNCHANGED window

Bury(S) == /\ keys' = LiveKeys \cup S
           /\ window' = [k \in Message \cup Key |->
                            IF k \in S THEN Window ELSE window[k]]

\* A key already seen: only the message id's tombstone is renewed.
Duplicate(m) ==
    /\ Arrives(m) /\ KeysOf(m) \cap LiveKeys # {}
    /\ Bury({m})
    /\ record' = [record EXCEPT ![m] = "fetched"]
    /\ UNCHANGED <<sending, life, table, failure, bridge, extra>>

Fresh(m) == Arrives(m) /\ KeysOf(m) \cap LiveKeys = {}

Purge == /\ keys' = LiveKeys
         /\ UNCHANGED window

\* A terminal settlement still answers, and records nothing.
TerminalDuplicate(m) ==
    /\ Fresh(m) /\ m \in terminal
    /\ Purge
    /\ UNCHANGED <<sending, life, table, record, failure, bridge, extra>>

\* The link gate does not know the sender: no row, no tombstone, no receipt.
Refuse(m) ==
    /\ Fresh(m) /\ m \notin terminal
    /\ Purge
    /\ record' = [record EXCEPT ![m] = IF @ = "none" THEN "refused" ELSE @]
    /\ UNCHANGED <<sending, life, table, failure, bridge, extra>>

\* DELIVERY_REJECTED: the inbox is full.
Reject(m) ==
    /\ Fresh(m) /\ m \notin terminal /\ Cardinality(Pending) >= MaxItems
    /\ Purge
    /\ UNCHANGED <<sending, life, table, record, failure, bridge, extra>>

\* The row, its tombstones and its record are one transaction.  A consumed
\* row of the same id gives way, with the failures of its cycle.
Accept(m) ==
    /\ Fresh(m) /\ m \notin terminal /\ Cardinality(Pending) < MaxItems
    /\ row[m] # "pending"
    /\ row' = [row EXCEPT ![m] = "pending"]
    /\ stamped' = stamped \ {m}
    /\ ttl' = [ttl EXCEPT ![m] = IF m \in Deadlined THEN life[m] ELSE Ttl]
    /\ Bury(KeysOf(m))
    /\ record' = [record EXCEPT ![m] = "fetched"]
    /\ attempts' = [attempts EXCEPT ![m] = IF row[m] = "consumed" THEN 0 ELSE @]
    /\ backoff' = IF row[m] = "consumed" THEN backoff \ {m} ELSE backoff
    /\ UNCHANGED <<sending, life, pruned, terminal, bridge, extra>>

\* The row is there and its tombstone is not: message_id is UNIQUE, so the
\* insertion raises, rolls back, and the actor's generation ends with it.
Collide(m) ==
    /\ Fresh(m) /\ m \notin terminal /\ Cardinality(Pending) < MaxItems
    /\ row[m] = "pending"
    /\ UNCHANGED <<sending, life, table, dedup, failure, bridge, extra>>

-----------------------------------------------------------------------------
(* Rows *)

\* ack: a pending row is consumed, and counts as fetched; any other is left.
AckRow(m) ==
    /\ row' = [row EXCEPT ![m] = IF m \in Pending THEN "consumed" ELSE @]
    /\ stamped' = IF m \in Pending THEN stamped \cup {m} ELSE stamped
    /\ ttl' = [ttl EXCEPT ![m] = IF m \in Pending THEN 0 ELSE @]

\* The agent settles the message itself (message.ack, message.reply).
Ack(m) ==
    /\ phase = "up" /\ m \in SelfSettled /\ row[m] = "pending"
    /\ AckRow(m)
    /\ UNCHANGED <<senders, pruned, dedup, failure, bridge, extra>>

\* The agent pulls the message itself (fetch_pending_admitted).
Fetch(m) ==
    /\ phase = "up" /\ m \in (Live \ stamped) \cap Pulled
    /\ stamped' = stamped \cup {m}
    /\ UNCHANGED <<senders, row, ttl, pruned, dedup, failure, bridge, extra>>

\* refresh_hold: an ordinary row someone works on starts its hold again.
RefreshHold(m) ==
    ttl' = [ttl EXCEPT ![m] = IF m \in Pending \ Deadlined THEN Ttl ELSE @]

\* Rows past their deadline; a terminal settlement does not keep one.
OverdueUnsettled ==    \* mutant: a terminally settled row is kept for ever
    {m \in Message : row[m] = "pending" /\ ttl[m] = 0 /\ m \notin terminal}
Overdue == {m \in Message : row[m] = "pending" /\ ttl[m] = 0}

\* prune_inbox: the rows go, the settlements stay; senders are told of the
\* rows no settlement had told them of.
Prune ==
    /\ phase = "up" /\ Overdue # {}
    /\ row' = [m \in Message |-> IF m \in Overdue THEN "none" ELSE row[m]]
    /\ stamped' = stamped \ Overdue
    /\ pruned' = pruned \cup (Overdue \ terminal)
    /\ UNCHANGED <<senders, ttl, dedup, failure, bridge, extra>>

BackoffOver(m) ==
    /\ m \in backoff
    /\ backoff' = backoff \ {m}
    /\ UNCHANGED <<senders, table, dedup, attempts, terminal, bridge, extra>>

-----------------------------------------------------------------------------
(* The bridge: a turn and its settlement *)

Turn(m, from, to) ==
    /\ phase = "up" /\ turn[m] = from
    /\ turn' = [turn EXCEPT ![m] = to]
    /\ UNCHANGED <<phase, sweep>>

\* A call of the inbox authority from a settlement: it goes on, or it timed
\* out though the command was executed, and the result is settled again.
Called(m, from, to, again) ==
    \/ Turn(m, from, to) /\ UNCHANGED faults
    \/ /\ faults < MaxFaults /\ faults' = faults + 1
       /\ Turn(m, from, again)

Offer(m) ==
    /\ m \in Dispatchable /\ Turn(m, "idle", "offered")
    /\ Cardinality({n \in Message : turn[n] # "idle"}) < MaxTurns
    /\ UNCHANGED <<senders, table, dedup, failure, extra>>

\* The worker takes the delivery, and the hold starts again.
Taken(m) ==
    /\ Turn(m, "offered", "running") /\ RefreshHold(m)
    /\ UNCHANGED <<senders, row, stamped, pruned, dedup, failure, extra>>

NotTaken(m) ==
    /\ Turn(m, "offered", "idle")
    /\ UNCHANGED <<senders, table, dedup, failure, extra>>

Progress(m) ==
    /\ Turn(m, "running", "running") /\ RefreshHold(m)
    /\ UNCHANGED <<senders, row, stamped, pruned, dedup, failure, extra>>

Finish(m) ==
    /\ Turn(m, "running", "ok") \/ Turn(m, "running", "failed")
    /\ UNCHANGED <<senders, table, dedup, failure, extra>>

\* INTERRUPTED: nothing is settled and the message is dispatched again.
Interrupt(m) ==
    /\ faults < MaxFaults /\ faults' = faults + 1
    /\ Turn(m, "running", "idle")
    /\ UNCHANGED <<senders, table, dedup, failure, answered>>

\* The settlement of a result starts from a row that is still pending.
ReadOriginal(m) ==
    /\ \/ Turn(m, "ok", IF m \in Live THEN "stamping" ELSE "idle")
       \/ Turn(m, "failed", IF m \in Live THEN "failing" ELSE "idle")
    /\ UNCHANGED <<senders, table, dedup, failure, extra>>

\* Mutant: the failed attempts outlive the completed turn.
StampOnly(m) ==
    /\ Called(m, "stamping", "hinting", "ok")
    /\ stamped' = stamped \cup ({m} \cap Live)
    /\ answered' = answered \cup ({m} \cap Live)
    /\ UNCHANGED <<senders, row, ttl, pruned, dedup, failure>>

\* fetch_pending(completed_turn): stamped, and no failure is left to retry.
Stamp(m) ==
    /\ Called(m, "stamping", "hinting", "ok")
    /\ stamped' = stamped \cup ({m} \cap Live)
    /\ answered' = answered \cup ({m} \cap Live)
    /\ IF m \in Live
       THEN attempts' = [attempts EXCEPT ![m] = 0] /\ backoff' = backoff \ {m}
       ELSE UNCHANGED <<attempts, backoff>>
    /\ UNCHANGED <<senders, row, ttl, pruned, dedup, terminal>>

\* settle_hint_for: a request still pending is kept for its reply, unless the
\* link gate has marked it as drained.
Hint(m) ==
    /\ \/ Turn(m, "hinting", "acking")
       \/ m \in Live \cap Requests /\ Turn(m, "hinting", "idle")
    /\ UNCHANGED <<senders, table, dedup, failure, extra>>

AckTurn(m) ==
    /\ Called(m, "acking", "idle", "ok") /\ AckRow(m)
    /\ UNCHANGED <<senders, pruned, dedup, failure, answered>>

\* Mutant: one attempt too many.
MayRetryLast(m) == attempts[m] + 1 <= MaxAttempts

\* The attempt about to be counted is not the last one.
MayRetry(m) == attempts[m] + 1 < MaxAttempts

\* settle_harness_failure: one more attempt, terminal when it was the last or
\* the failure is permanent; otherwise the row outlives its back-off.
SettleFailure(m) ==
    /\ Called(m, "failing", "idle", "failed")
    /\ IF m \notin Pending
       THEN UNCHANGED <<table, failure>>
       ELSE /\ attempts' = [attempts EXCEPT ![m] = @ + 1]
            /\ \/ /\ terminal' = terminal \cup {m}
                  /\ backoff' = backoff \ {m}
                  /\ UNCHANGED ttl
               \/ /\ MayRetry(m)
                  /\ backoff' = backoff \cup {m}
                  /\ ttl' = [ttl EXCEPT ![m] = IF m \in Deadlined THEN @ ELSE Ttl]
                  /\ UNCHANGED terminal
            /\ UNCHANGED <<row, stamped, pruned>>
    /\ UNCHANGED <<senders, dedup, answered>>

-----------------------------------------------------------------------------
(* Crash, restart, time *)

Crash ==
    /\ phase = "up" /\ faults < MaxFaults
    /\ phase' = "down" /\ faults' = faults + 1
    /\ turn' = [m \in Message |-> "idle"]
    /\ sweep' = {}
    /\ UNCHANGED <<senders, table, dedup, failure, answered>>

\* The startup sweep reads the pending rows, then looks at them one by one.
Restart ==
    /\ phase = "down"
    /\ phase' = "starting" /\ sweep' = Live
    /\ UNCHANGED <<senders, table, dedup, failure, turn, extra>>

\* Mutant: the sweep looks for rows with a failure record.
StrandedFailed == {m \in stamped : attempts[m] > 0}

\* _settle_stranded_rows: fetched, and not failed.
Stranded == {m \in stamped : attempts[m] = 0}

\* A stranded row is acknowledged as settle_hint_for says.
Sweep(m) ==
    /\ phase = "starting" /\ m \in sweep
    /\ \/ m \in Stranded /\ AckRow(m)
       \/ m \notin Stranded \ Requests /\ UNCHANGED <<row, stamped, ttl>>
    /\ \/ sweep' = sweep \ {m} /\ phase' = phase
       \* the acknowledgement is answered late: the sweep gives the rest up
       \/ m \in Stranded /\ sweep' = Stranded \cap (sweep \ {m}) /\ phase' = "up"
    /\ UNCHANGED <<senders, pruned, dedup, failure, turn, extra>>

\* A read, or an acknowledgement that was not executed, fails: this row and
\* the rest are given up.
SweepFails ==
    /\ phase = "starting" /\ sweep # {}
    /\ sweep' = Stranded \cap sweep /\ phase' = "up"
    /\ UNCHANGED <<senders, table, dedup, failure, turn, extra>>

Started ==
    /\ phase = "starting" /\ sweep = {}
    /\ phase' = "up"
    /\ UNCHANGED <<senders, table, dedup, failure, turn, sweep, extra>>

Less(f) == [x \in DOMAIN f |-> IF f[x] = 0 THEN 0 ELSE f[x] - 1]

\* A turn whose result is being settled.
Settling(m) == turn[m] \notin {"idle", "offered", "running"}

\* Half a day passes: copies and back-offs do not last that long (a copy not
\* taken by then is lost), and the startup, a settlement and the maintenance of
\* a running daemon are over first.
Tick ==
    /\ phase # "starting" /\ \A m \in Message : ~ Settling(m)
    /\ phase = "up" => Overdue = {}
    /\ GiveUp
    /\ life' = Less(life) /\ ttl' = Less(ttl) /\ window' = Less(window)
    /\ wire' = {} /\ backoff' = {}
    /\ UNCHANGED <<row, stamped, pruned, keys, record, attempts,
                   terminal, bridge, extra>>

-----------------------------------------------------------------------------
Next ==
    \/ \E m \in Message :
          \/ Submit(m) \/ Put(m) \/ Confirm(m)
          \/ Duplicate(m) \/ TerminalDuplicate(m) \/ Refuse(m) \/ Reject(m)
          \/ Accept(m) \/ Collide(m)
          \/ Ack(m) \/ Fetch(m) \/ BackoffOver(m)
          \/ Offer(m) \/ Taken(m) \/ NotTaken(m) \/ Progress(m) \/ Finish(m)
          \/ Interrupt(m) \/ ReadOriginal(m) \/ Stamp(m) \/ Hint(m)
          \/ AckTurn(m) \/ SettleFailure(m) \/ Sweep(m)
    \/ Prune \/ Crash \/ Restart \/ SweepFails \/ Started \/ Tick

Spec == Init /\ [][Next]_vars

\* Time passes, and the maintenance of a running daemon goes on; the daemon is
\* started again; the turns of its workers end and are settled.
Fairness ==
    /\ WF_vars(Tick) /\ WF_vars(Prune)
    /\ WF_vars(Restart \/ Started \/ \E m \in Message :
                  \/ Sweep(m) \/ Finish(m) \/ ReadOriginal(m)
                  \/ Stamp(m) \/ Hint(m) \/ AckTurn(m) \/ SettleFailure(m))

FairSpec == Spec /\ Fairness

-----------------------------------------------------------------------------
(* Properties *)

Ordinary == Message \ Deadlined

\* Every variable stays in its type; what is swept, backs off or is answered
\* has a row or had one.
TypeOK ==
    /\ sending \in [Message -> {"new", "sending", "confirmed", "expired"}]
    /\ life \in [Message -> Nat] /\ wire \subseteq Message
    /\ row \in [Message -> {"none", "pending", "consumed"}]
    /\ ttl \in [Message -> Nat]
    /\ stamped \subseteq Message /\ pruned \subseteq Message
    /\ keys \subseteq Message \cup Key
    /\ window \in [Message \cup Key -> 0..Window]
    /\ record \in [Message -> {"none", "refused", "fetched"}]
    /\ attempts \in [Message -> 0..MaxAttempts]
    /\ terminal \subseteq Message /\ backoff \subseteq Message
    /\ turn \in [Message -> {"idle", "offered", "running", "ok", "stamping",
                             "hinting", "acking", "failed", "failing"}]
    /\ phase \in {"up", "down", "starting"} /\ sweep \subseteq Message
    /\ faults \in 0..MaxFaults
    /\ answered \subseteq Message

\* A copy of an ordinary message that arrives while its row waits finds a
\* tombstone: receive never runs into the UNIQUE message id (receive.py:125),
\* as the sender stops repeating it before the dedup window ends.
CopyIsAnswered ==
    \A m \in wire \ Deadlined :
        m \in Pending => KeysOf(m) \cap LiveKeys # {}

\* A message whose turn was completed, which failed for good, or of which the
\* sender was told that it expired, is not offered to a worker again, whatever
\* is redelivered, retried or restarted.
NotRunAgain ==
    [][\A m \in Ordinary :
          turn[m] = "idle" /\ turn'[m] = "offered"
              => m \notin answered \cup terminal \cup pruned]_vars

\* A message with nothing to reply to, whose turn was completed, is being
\* settled as long as it has time left, or is left to the sweep of a restart:
\* a crash between the stamp and the acknowledgement strands no row.
NoStrandedAnswer ==
    \A m \in (answered \cap Ordinary) \ Requests :
        m \in Live /\ phase = "up" /\ m \notin sweep
            => Settling(m)

\* A row that waits leaves the inbox in the end: consumed, or swept after its
\* deadline, though it failed for good or its turn was lost.
RowLeaves == \A m \in Message : []<>(row[m] # "pending")

\* The inbox as the senders see it.  That a message ends once is promised of
\* ordinary messages only: the id of a deadlined one may be taken again once
\* its tombstone is gone.
Committed == {m \in Message : row[m] # "none" \/ m \in pruned \cup terminal}

Confirmed == {m \in Message : sending[m] = "confirmed"}

Fate == [m \in Message |-> IF m \in Deadlined THEN "open"
                           ELSE IF m \in terminal THEN "failed"
                           ELSE IF m \in pruned THEN "expired"
                           ELSE IF row[m] = "consumed" THEN "consumed"
                           ELSE "open"]

Delivery == INSTANCE DurableDelivery WITH
    Message <- Message,
    KeyOf <- KeyOf,
    committed <- Committed,
    confirmed <- Confirmed,
    outcome <- Fate

\* The inbox implements it: a receipt only for a committed message, and one
\* end for each, through redelivery, expiry, failures and restarts.
DeliveryImplemented == Delivery!Spec
=============================================================================
