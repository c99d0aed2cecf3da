-------------------------- MODULE DeliveryCustody --------------------------
(***************************************************************************)
(* The sender's half of the durable inbox: the outbox table of one daemon, *)
(* the state actor that owns it, the I/O worker that performs the native   *)
(* deliveries, and the receipts and handoffs by which the worker settles a *)
(* finished delivery with an actor that may have been restarted meanwhile. *)
(*                                                                         *)
(* Clocks are abstracted to two facts of a row: it is due                  *)
(* (next_attempt_ms <= now) and it is expired (now >= expires_at_ms).      *)
(***************************************************************************)
EXTENDS Naturals, FiniteSets

CONSTANTS
    Msg,          \* message ids
    RecipientOf,  \* [Msg -> recipient actor]
    Reply,        \* messages whose submit has a durable receipt (replies)
    OnlineOnly,   \* messages of lifecycle ONLINE_ONLY
    SubmitReq,    \* I/O requests issued by a submit command
    RetryReq,     \* I/O requests issued by the retry pump
    Modes,        \* how a message may be submitted: "direct", "defer", "hold"
    Outcomes,     \* bound: the I/O outcomes explored for each message
    Mortal,       \* bound: messages that may expire, be pruned or discarded
    Wakeable,     \* bound: recipients that may come online
    BusyReads,    \* bound: may the worker fail to read the outbox in 50 ms?
    MaxItems,     \* hold_policy.max_items: rows the outbox may keep
    HandoffCap,   \* capacity of the durable-handoff set
    MaxSubmits,   \* bound: [Msg -> submit commands]
    MaxGen        \* bound: incarnations of the actor (restarts + 1)

Req == SubmitReq \cup RetryReq
Gen == 1..MaxGen

\* How a native delivery may end.
Answers == {"delivered", "custody", "offline", "noack", "failed"}

ASSUME KindsAssumption == SubmitReq \cap RetryReq = {}
ASSUME MessagesAssumption == Reply \subseteq Msg /\ OnlineOnly \subseteq Msg
ASSUME BoundsAssumption ==
    /\ BusyReads \in BOOLEAN
    /\ MaxItems \in Nat \ {0} /\ HandoffCap \in Nat
    /\ MaxSubmits \in [Msg -> Nat \ {0}] /\ MaxGen \in Nat \ {0}
    /\ Modes \subseteq {"direct", "defer", "hold"}
    /\ Outcomes \in [Msg -> SUBSET Answers]

VARIABLES
    \* the outbox table: rows present, and what is known of each
    outbox, due, tried, held, expired,
    \* durable verdicts: terminal record, and receipt of a reply's submit
    status, receipt,
    \* the world and history: committed by the recipient, taken by a mailbox,
    \* submit commands issued, and wakes no later claim has used
    delivered, inMailbox, submitted, awake,
    \* the actor's incarnation and its in-memory claims (_pending_io)
    gen, running, pend, wakes,
    \* coordinator: handoffs, completion receipts, completions in the mailbox
    handoffs, token, tokenGen, mail,
    \* worker: each request's progress, its content and its outcome
    stage, items, reqGen, ahead, outcome, seen, stranded

rows   == <<outbox, due, tried, held, expired>>
ledger == <<status, receipt>>
world  == <<delivered, inMailbox, submitted, awake>>
actor  == <<gen, running, pend, wakes>>
coord  == <<handoffs, token, tokenGen, mail>>
worker == <<stage, items, reqGen, ahead, outcome, seen, stranded>>
vars   == <<rows, ledger, world, actor, coord, worker>>

-----------------------------------------------------------------------------
(* Verdicts *)

Rank == [none |-> 0, expired |-> 1, fetched |-> 2]

\* Mutant: a plain upsert, whatever the record says already.
RecordAnyway(S, verdict) ==
    [m \in Msg |-> IF m \in S THEN verdict ELSE status[m]]

\* The terminal record is written over a weaker one only.
Record(S, verdict) ==
    [m \in Msg |-> IF m \in S /\ Rank[verdict] > Rank[status[m]]
                   THEN verdict ELSE status[m]]

\* The table after a command: what is known of a row goes with the row.
Table(kept, d, t, h, e, w) ==
    /\ outbox' = kept
    /\ due' = d \cap kept /\ tried' = t \cap kept \cap Reply
    /\ held' = h \cap kept /\ expired' = e \cap kept
    /\ awake' = w \cap kept

\* What a deferral leaves due: next_attempt_ms is capped by expires_at_ms.
Uncapped(S) == {}    \* mutant: the backoff is not capped
StillDue(S) == S \cap expired

\* Rows an online wake may make due: not held by a link, not expired.
RousedHeld(S) == S \ expired    \* mutant: the link hold is not looked at
Rousable(S) == S \ (held \cup expired)

\* _outbox_to_dlq: the rows leave with an EXPIRED record.
ToDlq(S) ==
    /\ Table(outbox \ S, due, tried, held, expired, awake)
    /\ status' = Record(S, "expired")

-----------------------------------------------------------------------------
(* Claims *)

\* A reply is submitted under one stable correlation; any other submit and
\* any retry tick has a correlation of its own.
Correlation(r) ==
    IF r \in SubmitReq /\ items[r] \subseteq Reply THEN items[r] ELSE {r}

\* _reconcile_handoffs: the claims left once the handed-off ones are dropped.
LiveUnreconciled == pend    \* mutant: handoffs are never reconciled
Live == {r \in pend : Correlation(r) \notin handoffs}

ClaimedBy(claims) == UNION {items[r] : r \in claims}

Lanes(r) == {RecipientOf[m] : m \in items[r]}

\* Requests the worker has taken and not settled: their lanes are busy.
Working == {r \in Req : stage[r] \notin {"free", "queued"}}

\* A request whose identity may be used again.
Idle(r) == /\ stage[r] = "free" /\ r \notin Live
           /\ ~ \E c \in mail : c[1] = r

\* The actor's memory after a command that leaves `claims' pending, with the
\* wakes w; a request nobody refers to any more is forgotten.
Memory(claims, w) ==
    /\ pend' = claims
    /\ handoffs' = {}
    /\ wakes' = [r \in Req |-> IF r \in claims THEN w[r] ELSE {}]
    /\ items' = [r \in Req |-> IF r \in claims \/ stage[r] # "free"
                               THEN items[r] ELSE {}]

ActorOnly == UNCHANGED <<gen, running, token, tokenGen, mail,
                         stage, reqGen, ahead, outcome, seen, stranded>>

\* Every command starts by reconciling; this one claims nothing.
Reconcile == running /\ Memory(Live, wakes) /\ ActorOnly

\* _request_io with a worker that has credit: claim, then enqueue.
Request(r, S) ==
    /\ Idle(r)
    /\ pend' = Live \cup {r}
    /\ handoffs' = {}
    /\ wakes' = [q \in Req |-> IF q \in Live THEN wakes[q] ELSE {}]
    /\ items' = [q \in Req |-> IF q = r THEN S
                               ELSE IF q \in Live \/ stage[q] # "free"
                                    THEN items[q] ELSE {}]
    /\ stage' = [stage EXCEPT ![r] = "queued"]
    /\ reqGen' = [reqGen EXCEPT ![r] = gen]
    /\ ahead' = [ahead EXCEPT ![r] = {q \in Req : stage[q] = "queued"}]
    /\ token' = [token EXCEPT ![r] = "none"]
    /\ UNCHANGED <<gen, running, tokenGen, mail, outcome, seen, stranded>>

-----------------------------------------------------------------------------
(* Settling a dispatch: what a completion does to the rows of its items.   *)

\* The outcomes that prove the recipient committed the message.
ConfirmedByAttempt == {"delivered", "noack"}    \* mutant: an attempt is enough
ConfirmedElsewhere == {}    \* mutant: the completion leaves no record
Confirmed == {"delivered"}

\* A submit completion persists a receipt (INSERT OR IGNORE); a retry advances
\* a queued one, if the row is still here.
Writable(r, m) == IF r \in SubmitReq THEN receipt[m] = "none"
                  ELSE receipt[m] = "queued" /\ m \in outbox

Verdict(r, m) ==
    IF m \notin outbox \/ outcome[r][m] \in {"delivered", "custody"} THEN "ok"
    ELSE IF outcome[r][m] = "offline" /\ m \in OnlineOnly THEN "failed"
    ELSE "queued"

\* Apply the outcomes of r to the items S; W are the wakes retained for r.
Apply(r, S, W) ==
    LET present == S \cap outbox
        Got(k)  == {m \in present : outcome[r][m] \in k}
        gone    == Got({"delivered", "custody"})
                     \cup (Got({"offline"}) \cap OnlineOnly)
        kept    == outbox \ gone
        later   == present \ gone
    IN  /\ Table(kept,
                 (due \ later) \cup StillDue(later) \cup Rousable(W),
                 tried \cup Got({"noack", "failed"}), held, expired, awake)
        /\ status' = Record(Got(Confirmed), "fetched")
        /\ receipt' = [m \in Reply |-> IF m \in S /\ Writable(r, m)
                                       THEN Verdict(r, m) ELSE receipt[m]]

-----------------------------------------------------------------------------
(* Commands of the actor that change the outbox.                           *)

\* hold_policy.max_items: a row too many evicts the oldest.  Insertion order
\* is not kept here, so any other row may be the oldest.
Evictions(m) ==
    IF m \notin outbox /\ Cardinality(outbox) >= MaxItems
    THEN {{old} : old \in outbox} ELSE {{}}

\* _insert_outbox (INSERT OR IGNORE) and, when the worker has refused the
\* request that follows, the deferral of the row.
Insert(m, hold, refused) ==
    /\ submitted[m] < MaxSubmits[m]
    /\ submitted' = [submitted EXCEPT ![m] = @ + 1]
    /\ \E evicted \in Evictions(m) :
          LET fresh == {m} \ outbox
              ready == IF hold THEN due ELSE due \cup fresh
          IN  /\ Table((outbox \cup {m}) \ evicted,
                       IF refused THEN (ready \ {m}) \cup StillDue({m}) ELSE ready,
                       IF refused THEN tried \cup {m} ELSE tried,
                       IF hold THEN held \cup fresh ELSE held,
                       expired, awake \ {m})
              /\ status' = Record(evicted, "expired")
    /\ UNCHANGED <<delivered, inMailbox>>

\* A reply whose receipt exists joins it, one whose submit is pending is
\* rejected (CORRELATION_IN_FLIGHT); neither changes a row.
Submittable(m) ==
    m \in Reply => /\ receipt[m] = "none"
                   /\ \A r \in Live \cap SubmitReq : items[r] # {m}

QueuedReceipt(m) ==
    receipt' = [n \in Reply |-> IF n = m /\ receipt[n] = "none"
                                THEN "queued" ELSE receipt[n]]

\* A deferred or held submit only enters durable state.
SubmitQueued(m, mode) ==
    /\ mode \in Modes \ {"direct"}
    /\ Submittable(m)
    /\ Reconcile
    /\ Insert(m, mode = "hold", FALSE)
    /\ QueuedReceipt(m)

\* A direct submit inserts the row and requests its delivery ...
SubmitDirect(m, r) ==
    /\ running /\ "direct" \in Modes
    /\ Submittable(m)
    /\ Request(r, {m})
    /\ Insert(m, FALSE, FALSE)
    /\ UNCHANGED receipt

\* ... or defers it when the worker has no credit left (DISPATCH_IO_OVERLOADED).
SubmitRefused(m) ==
    /\ "direct" \in Modes
    /\ Submittable(m)
    /\ Reconcile
    /\ Insert(m, FALSE, TRUE)
    /\ QueuedReceipt(m)

\* The retry pump's tick: expired rows go to the DLQ, and the receipt of a
\* reply never attempted is settled with them; the other due rows nobody has
\* claimed become one request.  Expired rows another request claims are left.
Ready == due \ ClaimedBy(Live)

Expire(dead) ==
    /\ status' = Record(dead, "expired")
    /\ receipt' = [m \in Reply |->
                     IF m \in dead \ tried /\ receipt[m] = "queued"
                     THEN "failed" ELSE receipt[m]]

ClaimRetry(r) ==
    LET work == Ready \ expired  dead == Ready \cap expired
    IN  /\ running
        /\ work # {}
        /\ Request(r, work)
        /\ Expire(dead)
        /\ Table(outbox \ dead, due, tried, held, expired, awake \ work)
        /\ UNCHANGED <<delivered, inMailbox, submitted>>

\* The same tick when nothing is left to send, or the worker refuses it.
TickOnly ==
    LET work == Ready \ expired  dead == Ready \cap expired
    IN  /\ Ready # {}
        /\ Reconcile
        /\ Expire(dead)
        /\ Table(outbox \ dead, due \ work, tried \cup work, held, expired,
                 awake \ work)
        /\ UNCHANGED <<delivered, inMailbox, submitted>>

\* WakeOutboxRecipient: rows of a recipient that came online are due at once;
\* a row in flight remembers the wake until its completion is applied.
Wake(recipient) ==
    LET of(S) == {m \in S : RecipientOf[m] = recipient}
        woken == Rousable(of(outbox))
    IN  /\ running
        /\ recipient \in Wakeable /\ of(outbox) # {}
        /\ Memory(Live, [r \in Req |-> wakes[r] \cup of(items[r])])
        /\ ActorOnly
        /\ Table(outbox, due \cup woken, tried, held, expired, awake \cup woken)
        /\ UNCHANGED <<ledger, delivered, inMailbox, submitted>>

\* RetireOutboxReceipt: the recipient's fetch receipt arrived; a message a
\* mailbox took may have reached the recipient through it.
Retire(m) ==
    /\ m \in outbox \cap (delivered \cup inMailbox)
    /\ Reconcile
    /\ Table(outbox \ {m}, due, tried, held, expired, awake)
    /\ status' = Record({m}, "fetched")
    /\ delivered' = delivered \cup {m}
    /\ UNCHANGED <<receipt, inMailbox, submitted>>

\* PruneOutbox: rows to recipients proved undeliverable, and expired rows.
Prune(recipients) ==
    LET dead == {m \in outbox : RecipientOf[m] \in recipients} \cup expired
    IN  /\ dead # {} /\ dead \subseteq Mortal
        /\ Reconcile
        /\ ToDlq(dead)
        /\ UNCHANGED <<receipt, delivered, inMailbox, submitted>>

\* UpdateLinkLedger: a link that opened releases a held row ...
Release(m) ==
    /\ m \in held \ expired
    /\ Reconcile
    /\ Table(outbox, due \cup {m}, tried, held \ {m}, expired, awake)
    /\ UNCHANGED <<ledger, delivered, inMailbox, submitted>>

\* ... one that failed, or a cancelled conversation, discards the row.
Discard(m) ==
    /\ m \in outbox \cap Mortal
    /\ Reconcile
    /\ ToDlq({m})
    /\ UNCHANGED <<receipt, delivered, inMailbox, submitted>>

\* Any other command only reconciles the handoffs.
OtherCommand ==
    /\ handoffs # {}
    /\ Reconcile
    /\ UNCHANGED <<rows, ledger, world>>

-----------------------------------------------------------------------------
(* Completions reach the actor as commands <<request, generation>>: the     *)
(* completion itself when that is the generation of the request, and a     *)
(* ReassociateIoCompletion when a restart came between.                     *)

\* A finished request's receipt is settled as long as a command carries it;
\* a request that uses the identity again has a receipt of its own.
SettledToken(r, box) == IF \E c \in box : c[1] = r THEN "settled" ELSE "none"

Foreign(c) == c[2] # reqGen[c[1]]

\* _pop_current_completion, or the fence and kinds of a reassociation.
Current(c) == IF Foreign(c) THEN c[2] = gen /\ c[1] \in SubmitReq
              ELSE c[1] \in Live

\* A reassociated completion takes over the claim of its correlation.
ClaimsAfter(c) == IF Foreign(c)
                  THEN {q \in Live : Correlation(q) # Correlation(c[1])}
                  ELSE Live \ {c[1]}

WakesForgotten(c) == {}    \* mutant: the claim's wakes are not applied
WakesFor(c) == IF Foreign(c) THEN {} ELSE wakes[c[1]]

HandleCompletion(c) ==
    /\ running /\ c \in mail
    /\ token[c[1]] # "settled" /\ Current(c)
    /\ Memory(ClaimsAfter(c), wakes)
    /\ Apply(c[1], items[c[1]], WakesFor(c))
    /\ token' = [token EXCEPT ![c[1]] = "settled"]
    /\ mail' = mail \ {c}
    /\ UNCHANGED <<delivered, inMailbox, submitted, gen, running, tokenGen,
                   stage, reqGen, ahead, outcome, seen, stranded>>

\* A settled completion is ignored; one that matches no claim is refused.
DropCompletion(c) ==
    /\ running /\ c \in mail
    /\ \/ /\ token[c[1]] = "settled"
          /\ token' = IF stage[c[1]] = "free"
                      THEN [token EXCEPT ![c[1]] = SettledToken(c[1], mail \ {c})]
                      ELSE token
       \/ /\ token[c[1]] # "settled" /\ ~ Current(c)
          /\ token' = [token EXCEPT ![c[1]] = "retry"]
    /\ Memory(Live, wakes)
    /\ mail' = mail \ {c}
    /\ UNCHANGED <<rows, ledger, world, gen, running, tokenGen,
                   stage, reqGen, ahead, outcome, seen, stranded>>

-----------------------------------------------------------------------------
(* Failures.  A command that raises ends the generation: its claims and the *)
(* mailbox are lost, every transaction it committed stays.                  *)

Fail ==
    /\ running /\ gen < MaxGen
    /\ gen' = gen + 1 /\ running' = FALSE
    /\ Memory({}, wakes)
    /\ mail' = {}
    /\ token' = [r \in Req |-> IF stage[r] = "free" THEN "none" ELSE token[r]]
    /\ UNCHANGED <<tokenGen, stage, reqGen, ahead, outcome, seen, stranded>>

\* A command that fails before it commits anything.
Crash == Fail /\ UNCHANGED <<rows, ledger, world>>

\* A submit that fails after its insert, before its receipt or its request.
CrashInSubmit(m, mode) ==
    /\ mode \in Modes
    /\ Submittable(m)
    /\ Fail
    /\ Insert(m, mode = "hold", FALSE)
    /\ UNCHANGED receipt

\* A completion that fails with only some of its items applied.
CrashInCompletion(c) ==
    /\ c \in mail /\ token[c[1]] # "settled" /\ Current(c)
    /\ Fail
    /\ \E S \in SUBSET items[c[1]] : Apply(c[1], S, {})
    /\ UNCHANGED <<delivered, inMailbox, submitted>>

\* The guardian starts the next generation.
Restart ==
    /\ ~ running
    /\ running' = TRUE
    /\ UNCHANGED <<rows, ledger, world, gen, pend, wakes, coord, worker>>

\* The daemon process dies and comes back: only the database survives.
DaemonRestart ==
    /\ gen < MaxGen
    /\ gen' = gen + 1 /\ running' = TRUE
    /\ pend' = {} /\ handoffs' = {} /\ mail' = {} /\ stranded' = {}
    /\ wakes' = [r \in Req |-> {}] /\ items' = [r \in Req |-> {}]
    /\ ahead' = [r \in Req |-> {}]
    /\ token' = [r \in Req |-> "none"] /\ tokenGen' = [r \in Req |-> 0]
    /\ stage' = [r \in Req |-> "free"] /\ reqGen' = [r \in Req |-> 0]
    /\ seen' = [r \in Req |-> 0]
    /\ outcome' = [r \in Req |-> [m \in Msg |-> "none"]]
    /\ UNCHANGED <<rows, ledger, world>>

-----------------------------------------------------------------------------
(* The I/O worker and its completion protocol.                             *)

WorkerOnly == UNCHANGED <<rows, ledger, gen, running, pend, wakes>>

\* Those that keep r waiting: requests taken and not settled, and the ones
\* queued before it.
BlockedByIO(r) ==    \* mutant: lanes are free once the I/O is over
    {q \in Req : stage[q] = "active"} \cup ahead[r]
Blockers(r) == Working \cup ahead[r]

\* _take_ready: no busy lane, and no earlier request waiting for one of ours.
Take(r) ==
    /\ stage[r] = "queued"
    /\ \A q \in Blockers(r) : Lanes(q) \cap Lanes(r) = {}
    /\ stage' = [stage EXCEPT ![r] = "active"]
    /\ ahead' = [q \in Req |-> IF q = r THEN {} ELSE ahead[q] \ {r}]
    /\ WorkerOnly
    /\ UNCHANGED <<world, coord, items, reqGen, outcome, seen, stranded>>

\* Deliver the items.  The recipient may commit a message whose ack is lost,
\* a mailbox may take one whose custody ack is lost, and an exception leaves
\* the fate of every item unknown.
Execute(r) ==
    /\ stage[r] = "active"
    /\ \E o \in [items[r] -> Answers], reached, taken \in SUBSET items[r] :
          /\ \A m \in items[r] :
                /\ o[m] \in Outcomes[m]
                /\ "custody" \notin Outcomes[m] => m \notin taken
                /\ o[m] = "delivered" => m \in delivered \cup reached
                /\ o[m] = "custody" => m \in inMailbox \cup taken
                /\ o[m] = "offline" => m \notin reached
                /\ o[m] = "delivered" => m \notin taken
                /\ o[m] = "failed" => \A n \in items[r] : o[n] = "failed"
          /\ delivered' = delivered \cup reached
          /\ inMailbox' = inMailbox \cup taken
          /\ outcome' = [outcome EXCEPT ![r] =
                [m \in Msg |-> IF m \in items[r] THEN o[m] ELSE "none"]]
    /\ stage' = [stage EXCEPT ![r] = "settling"]
    /\ WorkerOnly
    /\ UNCHANGED <<submitted, awake, coord, items, reqGen, ahead, seen, stranded>>

\* The worker is done with r: its credit and its lanes are free again.
Finish(r) ==
    /\ stage' = [stage EXCEPT ![r] = "free"]
    /\ items' = [items EXCEPT ![r] = IF r \in pend THEN @ ELSE {}]
    /\ outcome' = [outcome EXCEPT ![r] = [m \in Msg |-> "none"]]
    /\ seen' = [seen EXCEPT ![r] = 0]
    /\ stranded' = stranded \ {r}
    /\ token' = [token EXCEPT ![r] = SettledToken(r, mail)]
    /\ reqGen' = [reqGen EXCEPT ![r] = 0]
    /\ tokenGen' = [tokenGen EXCEPT ![r] = 0]
    /\ UNCHANGED ahead

\* Where a posting that was not accepted goes on: a stranded completion is
\* posted again by an idle thread; otherwise the posting thread tries again
\* (overloaded, before its deadline) or turns to the durable handoff.
NotAccepted(r, closed) ==
    /\ \E next \in IF r \in stranded THEN {"settling"}
                   ELSE IF closed THEN {"handing"} ELSE {"settling", "handing"} :
          stage' = [stage EXCEPT ![r] = next]
    /\ UNCHANGED <<items, reqGen, ahead, outcome, seen, stranded>>

\* _on_io_completion reads the generation; a retry's completion of another
\* generation is not reassociated but closed.
Snapshot(r) ==
    /\ stage[r] = "settling"
    /\ IF gen # reqGen[r] /\ r \in RetryReq
       THEN r \notin stranded /\ NotAccepted(r, TRUE)
       ELSE /\ stage' = [stage EXCEPT ![r] = "posting"]
            /\ seen' = [seen EXCEPT ![r] = gen]
            /\ UNCHANGED <<items, reqGen, ahead, outcome, stranded>>
    /\ WorkerOnly
    /\ UNCHANGED <<world, coord>>

\* The claim of the completion receipt is new: nobody posted it, the last
\* post was refused, or it was posted to another generation.
NewClaim(r) == \/ token[r] \in {"none", "retry"}
               \/ token[r] = "pending" /\ tokenGen[r] # seen[r]

TellAccepted(r) ==
    /\ stage[r] = "posting" /\ NewClaim(r)
    /\ running
    /\ mail' = mail \cup {<<r, seen[r]>>}
    /\ token' = [token EXCEPT ![r] = "pending"]
    /\ tokenGen' = [tokenGen EXCEPT ![r] = seen[r]]
    /\ stage' = [stage EXCEPT ![r] = "waiting"]
    /\ WorkerOnly
    /\ UNCHANGED <<world, handoffs, items, reqGen, ahead, outcome, seen, stranded>>

\* The mailbox is full, or the actor is between two generations.
TellRefused(r) ==
    /\ stage[r] = "posting" /\ NewClaim(r)
    /\ token' = [token EXCEPT ![r] = "retry"]
    /\ tokenGen' = [tokenGen EXCEPT ![r] = seen[r]]
    /\ NotAccepted(r, ~ running)
    /\ WorkerOnly
    /\ UNCHANGED <<world, handoffs, mail>>

\* A completion posted to this generation already is only waited for.
Rejoin(r) ==
    /\ stage[r] = "posting" /\ token[r] = "pending" /\ tokenGen[r] = seen[r]
    /\ stage' = [stage EXCEPT ![r] = "waiting"]
    /\ WorkerOnly
    /\ UNCHANGED <<world, coord, items, reqGen, ahead, outcome, seen, stranded>>

\* The receipt says the actor processed the completion.
Accepted(r) ==
    /\ stage[r] \in {"posting", "waiting"} /\ token[r] = "settled"
    /\ Finish(r)
    /\ WorkerOnly
    /\ UNCHANGED <<world, handoffs, mail>>

\* The receipt says it was refused, or the wait for it timed out.
Unanswered(r) ==
    /\ stage[r] = "waiting" /\ token[r] # "settled"
    /\ NotAccepted(r, token[r] = "retry")
    /\ WorkerOnly
    /\ UNCHANGED <<world, coord>>

\* _record_durable_handoff: every row is still in the outbox, so a later claim
\* will deliver it again and this completion may be forgotten.
Handoff(r) ==
    /\ stage[r] = "handing"
    /\ items[r] \subseteq outbox
    /\ \/ Correlation(r) \in handoffs
       \/ Cardinality(handoffs) < HandoffCap
    /\ handoffs' = handoffs \cup {Correlation(r)}
    /\ Finish(r)
    /\ WorkerOnly
    /\ UNCHANGED <<world, mail>>

\* A row is gone, the handoff set is full, or the outbox could not be read in
\* 50 ms: the completion stays with the worker, and so do its lanes.
Strand(r) ==
    /\ stage[r] = "handing"
    /\ \/ ~ items[r] \subseteq outbox
       \/ Cardinality(handoffs) >= HandoffCap
       \/ BusyReads
    /\ stranded' = stranded \cup {r}
    /\ stage' = [stage EXCEPT ![r] = "settling"]
    /\ WorkerOnly
    /\ UNCHANGED <<world, coord, items, reqGen, ahead, outcome, seen>>

-----------------------------------------------------------------------------
(* Time *)

Elapse(m) ==
    /\ m \in outbox \ (due \cup held)
    /\ due' = due \cup {m}
    /\ UNCHANGED <<outbox, tried, held, expired, ledger, world, actor, coord, worker>>

\* next_attempt_ms never passes expires_at_ms: an expired row is due.
Lapse(m) ==
    /\ m \in (outbox \cap Mortal) \ expired
    /\ expired' = expired \cup {m} /\ due' = due \cup {m}
    /\ UNCHANGED <<outbox, tried, held, ledger, world, actor, coord, worker>>

-----------------------------------------------------------------------------

Init ==
    /\ outbox = {} /\ due = {} /\ tried = {} /\ held = {} /\ expired = {}
    /\ status = [m \in Msg |-> "none"] /\ receipt = [m \in Reply |-> "none"]
    /\ delivered = {} /\ inMailbox = {} /\ awake = {}
    /\ submitted = [m \in Msg |-> 0]
    /\ gen = 1 /\ running = TRUE /\ pend = {} /\ handoffs = {} /\ mail = {}
    /\ stranded = {}
    /\ wakes = [r \in Req |-> {}] /\ items = [r \in Req |-> {}]
    /\ ahead = [r \in Req |-> {}]
    /\ token = [r \in Req |-> "none"] /\ tokenGen = [r \in Req |-> 0]
    /\ stage = [r \in Req |-> "free"] /\ reqGen = [r \in Req |-> 0]
    /\ seen = [r \in Req |-> 0]
    /\ outcome = [r \in Req |-> [m \in Msg |-> "none"]]

Tick == TickOnly \/ \E r \in RetryReq : ClaimRetry(r)

CommandStep ==
    \/ \E m \in Msg : \/ \E mode \in Modes : SubmitQueued(m, mode)
                      \/ \E r \in SubmitReq : SubmitDirect(m, r)
                      \/ SubmitRefused(m)
                      \/ Retire(m) \/ Release(m) \/ Discard(m)
    \/ \E m \in Msg : Wake(RecipientOf[m])
    \/ \E R \in SUBSET {RecipientOf[m] : m \in Msg} : Prune(R)
    \/ Tick \/ OtherCommand
    \/ \E c \in mail : HandleCompletion(c) \/ DropCompletion(c)

WorkerStep(r) ==
    \/ Take(r) \/ Execute(r) \/ Snapshot(r) \/ TellAccepted(r) \/ TellRefused(r)
    \/ Rejoin(r) \/ Accepted(r) \/ Unanswered(r) \/ Handoff(r) \/ Strand(r)

FailureStep ==
    \/ Crash \/ Restart \/ DaemonRestart
    \/ \E m \in Msg, mode \in Modes : CrashInSubmit(m, mode)
    \/ \E c \in mail : CrashInCompletion(c)

Next ==
    \/ CommandStep
    \/ \E r \in Req : WorkerStep(r)
    \/ FailureStep
    \/ \E m \in Msg : Elapse(m) \/ Lapse(m)

Spec == Init /\ [][Next]_vars

-----------------------------------------------------------------------------
(* Properties *)

RowsOK ==
    /\ outbox \subseteq Msg /\ due \subseteq outbox /\ tried \subseteq outbox
    /\ held \subseteq outbox /\ expired \subseteq due

LedgerOK ==
    /\ status \in [Msg -> {"none", "expired", "fetched"}]
    /\ receipt \in [Reply -> {"none", "queued", "ok", "failed"}]

WorldOK ==
    /\ delivered \subseteq Msg /\ inMailbox \subseteq Msg
    /\ submitted \in [Msg -> Nat] /\ awake \subseteq outbox

ActorOK ==
    /\ gen \in Gen /\ running \in BOOLEAN
    /\ pend \subseteq Req /\ wakes \in [Req -> SUBSET Msg]

CoordOK ==
    /\ handoffs \subseteq SUBSET (Req \cup Msg)
    /\ token \in [Req -> {"none", "pending", "retry", "settled"}]
    /\ tokenGen \in [Req -> 0..MaxGen] /\ mail \subseteq Req \X Gen

WorkerOK ==
    /\ stage \in [Req -> {"free", "queued", "active", "settling", "posting",
                          "waiting", "handing"}]
    /\ items \in [Req -> SUBSET Msg] /\ reqGen \in [Req -> 0..MaxGen]
    /\ ahead \in [Req -> SUBSET Req]
    /\ outcome \in [Req -> [Msg -> {"none", "delivered", "custody", "offline",
                                    "noack", "failed"}]]
    /\ stranded \subseteq Req

\* A posting or waiting request was posted to a generation that exists.
PostOK ==
    /\ seen \in [Req -> 0..MaxGen]
    /\ \A r \in Req : stage[r] \in {"posting", "waiting"} => seen[r] \in Gen

\* Type correctness of the whole state; the expired rows are due, so that the
\* retry pump finds them.
TypeOK == RowsOK /\ LedgerOK /\ WorldOK /\ ActorOK /\ CoordOK /\ WorkerOK /\ PostOK

\* No silent loss: a submitted message is in the outbox, or its terminal
\* record says what became of it, or a mailbox has taken it over, or it was
\* ONLINE_ONLY -- whatever crashes, refused completions and handoffs occur.
NoSilentLoss ==
    \A m \in Msg : submitted[m] > 0 =>
        m \in outbox \cup inMailbox \cup OnlineOnly \/ status[m] # "none"

\* A FETCHED record at the sender is never a guess: the recipient committed
\* the message.
FetchedIsTrue == \A m \in Msg : status[m] = "fetched" => m \in delivered

\* A claim keeps a row from the retry pump, so it must be backed: the worker
\* still works on the request, or its handoff waits to release the claim.
ClaimsBacked ==
    \A r \in pend : stage[r] # "free" \/ Correlation(r) \in handoffs

\* FIFO custody per recipient: the worker never works on two requests that
\* have a recipient in common, not even across restarts of the actor.
LaneSerial ==
    \A r, q \in Working : r # q => Lanes(r) \cap Lanes(q) = {}

\* A held row stays away from the network until its link releases it, whatever
\* wakes, retry ticks and restarts occur meanwhile.
HeldStaysHome ==
    \A m \in held : m \notin delivered \cup inMailbox \cup ClaimedBy(Live)

\* A wake outlives the I/O it overlaps: a row woken while in flight is due
\* again once the older result has been applied (until a later claim takes it).
WakeKept == awake \ (held \cup expired) \subseteq due

\* Evidence is kept: a settled receipt is never rewritten, and a FETCHED record
\* never gives way to a later expiry or eviction.
EvidenceKept ==
    [][/\ \A m \in Reply : receipt[m] \in {"ok", "failed"} => receipt'[m] = receipt[m]
       /\ \A m \in Msg : status[m] = "fetched" => status'[m] = "fetched"]_vars

-----------------------------------------------------------------------------
(* Liveness *)

\* The pump ticks for ever, the actor drains its mailbox and is restarted, the
\* transport's calls end, and time passes.  A completion posted again and
\* again is not refused for ever, since the mailbox it waits for is drained.
Fairness ==
    /\ WF_vars(Tick) /\ WF_vars(Restart)
    /\ \A m \in Msg : WF_vars(Lapse(m))
    /\ \A c \in Req \X Gen : WF_vars(HandleCompletion(c) \/ DropCompletion(c))
    /\ \A r \in Req :
          /\ WF_vars(Take(r)) /\ WF_vars(Execute(r)) /\ WF_vars(Snapshot(r))
          /\ SF_vars(TellAccepted(r)) /\ WF_vars(TellRefused(r))
          /\ WF_vars(Rejoin(r) \/ Accepted(r)) /\ WF_vars(Unanswered(r))
          /\ WF_vars(Handoff(r) \/ Strand(r))

FairSpec == Spec /\ Fairness

\* Unacked rows are retried until they expire, and then leave the outbox.
EveryRowLeaves == \A m \in Mortal : m \in outbox ~> m \notin outbox
=============================================================================
