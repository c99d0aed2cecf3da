# Formal model of HyprialOS

HyprialOS is a decentralised, durable messaging layer for AI agents: a daemon
per machine keeps an inbox and an outbox for the agents it hosts, moves messages
to the daemons of the recipients, and runs its own subsystems as actors. This
directory holds TLA+ modules for the parts of the daemon whose correctness
depends on the order of events, TLC configurations that check them on small
instances, and proofs that TLAPS checks for every value of the constants.

Paths below are relative to the repository root; `inbox/` stands for
`src/hyprial/daemon/impl/inbox/` and `actor_runtime/` for
`src/hyprial/kernel/impl/actor_runtime/`.

## 1. Inventory

### The system

| component | state it keeps | operations | hard behaviour |
|---|---|---|---|
| actor runtime (`actor_runtime/`: guardian, pykka backend, scheduler) | a record per child: state, generation, endpoint, failures, tokens of commands not yet begun; per endpoint a thread, a mailbox and an admission gate; restart timers | tell, begin, complete, fail, schedule, restart, stop, drain, reset | handlers are built and threads stopped outside the guardian's lock; a stop may time out; the gate and the mailbox are two things |
| effect lane (`actor_runtime/effects.py`) | credits, submitted tokens, request queue, worker threads | reserve, submit, cancel, execute, post, acknowledge, close | completions are posted again until acknowledged; owners fail; close races submission |
| sender's delivery custody (`inbox/actor`, `inbox/service/delivery`) | outbox table, terminal records, receipts of replies, in-memory claims, receipts and handoffs of completions, the I/O pool's queue and lanes | submit, retry, wake, hold and release, native delivery, completion, handoff, prune, retire, discard, restart | native I/O outlives actor generations; several transactions per command; wakes and expiry race results |
| recipient inbox (`inbox/service/delivery`, `inbox/service/projection.py`, `runtime/results.py`) | inbox rows, dedup keys, failure settlements, the bridge's claims | receive, fetch, ack, settle, refresh, prune, sweep | redelivery after lost acknowledgements, dedup windows, capacity, settlements that time out though executed |
| delivery status and pull (`inbox/links/pull.py`, `inbox/tracking`) | terminal records of both sides | record, pull, answer | records arrive out of order from several nodes |
| send links (`inbox/service/link_ledger.py`, `links/`) | link files, ledger rows, holds, the gate's memory of windows | admit, hold, release, fail, censor, reclaim, drain, rebuild | passes work on snapshots while calls, deliveries and acknowledgements go on |
| batches (`inbox/batch`) | batch claims and cursors | claim, extend, settle | a consumer fails between claim and settlement |
| session actor (`session_actor/`) | leases and generations of harness sessions | acquire, attach, renew, terminate | a late event of an earlier generation |
| turns of a harness process (`harnesses/turn_delivery/turn`, `harnesses/streaming`) | admissions, the turn actor's queue and attempts, relay, one-slot queue, the pump's request, aborted generations | submit, start, complete, fail and decide, steer, abort, recover, drain, close | the actor fails under a native turn and is rebuilt beside it; completions of old generations; a full relay |
| harness actor and connectors (`harnesses/`) | reservations, results, processes of agent programs | offer, claim, settle, start, interrupt | a process dies under a turn; a result is settled twice |
| worker transfer (`transfer/`) | journal of a cold migration | stage, cut over, land, clean up | a crash between any two steps on either machine |
| lifecycle process manager (`lifecycle_manager/`, `lifecycle/`) | journal of multi-step operations | start, step, compensate, resume | resumption after a restart |
| desired state, state persistence | versioned documents, one writer | read, commit, roll back | a stale writer; a commit whose answer is lost |
| PAC reactor (`pac/`) | graph files, flags, runs | edit, raise a flag, react | an edit under a running graph |
| dispatch, route registration, correlation | offers, holds, progress, routes, cadences | offer, accept, hold, register | an offer answered late |
| management authority (`operations/`) | adapter-removal lease | begin, commit, roll back, end, abandon | a caller that times out under its own lease |
| processes (`processes/`) | child processes, orphans, results | spawn, reap, settle | a result without its process, and the reverse |
| forwarding, service connect | mappings, slots, sidecar process | map, unmap, supervise | the sidecar restarts under a mapping |
| organisation, orgfs | CRDT documents, checkouts, blobs | edit, merge, project, check out | concurrent edits (a library's concern), checkout conflicts |
| transport, network | zenoh sessions, presence tokens | open, publish, query, watch | session loss |
| agents, users, provider authentication | registry, generations, decisions | register, attach, decide | generation fences |
| routines (`biz/impl/routine`) | schedules, runs | fire, run, settle | a run that outlives its schedule |
| adapters (lark), squire, IPC, MCP, CLI, GUI, upgrade | state of external services, requests, files | | mostly I/O |
| tailnet sidecar (Go) | network membership | join, leave, serve | |

### How they interact

Callers (IPC, MCP, other actors) hand commands to an actor through the runtime
(`tell`). An actor decides alone, on its own thread, and gives blocking work to
an effect lane or, for message delivery, to its I/O pool; the result comes back
to it as a command. When an actor raises, its generation ends, what waited in
its mailbox is given back, and a timer starts the next generation, which reads
its tables again. So most of the modelled parts are protocols between a thread that
may vanish and threads that do not know yet.

A message passes through four of them: the sender's custody keeps it and repeats it
until the recipient's inbox has committed it; the inbox offers it to a worker, whose
turn answers it; the bridge settles the answer with the inbox; and if the answer is a
reply over a send-link, the link's gate decides whether it is sent now, held, or
refused, and the link service settles the request with it.

### What makes each modelled part correct

* runtime: at most one thread works for a child; an admitted command is begun
  once or given back once; a failed child is restarted unless it was stopped.
* effect lane: a request is executed once and holds its credit until its owner
  has handled the completion; a closed lane ends.
* sender's custody: a message is never lost without a record; a FETCHED record
  is the truth; a row's claim is backed by work; one recipient's deliveries are
  serial; every row leaves the outbox.
* recipient's inbox: a receipt is signed only for a committed message; a message ends
  once; an answered message is not run again; every row leaves.
* send-link ledger: a live ledger row stands for a request in the inbox; what is
  drained is not answered later; a settled request frees its seat; a held reply is
  decided.
* turns: the turn the actor believes in is held in exactly one place; a delivery
  the gate remembers is somewhere it will be answered from; the native queries of
  a turn are bounded; an admitted delivery is answered.

## 2. Modules

| module | models | proofs |
|---|---|---|
| `ActorRuntime` | `guardian.py`, `backends/pykka.py`, `scheduler.py` | `ActorRuntimeProofs`, `RuntimeAuthorityProofs`, `RuntimeCustodyProofs` |
| `CommandCustody` | the abstract promise of the runtime, refined by `ActorRuntime` | `RuntimeCustodyProofs!CustodyImplemented` |
| `EffectLane` | `effects.py` | `EffectLaneProofs` |
| `DeliveryCustody` | the sender's half of the durable inbox | `DeliveryCustodyProofs` |
| `RecipientInbox` | the recipient's half, the harness bridge that settles turns with it, and the senders' repetition over a network that loses, delays and repeats | `RecipientInboxProofs` |
| `DurableDelivery` | the abstract promise of the inbox, refined by `RecipientInbox` | `RecipientInboxProofs!DeliveryIsDurable` |
| `ReplyLedger` | requests, replies and the ledger of a send-link: the inbox actor, the gate, `message.reply` and the passes of the link service | `ReplyLedgerProofs` |
| `TurnPump` | `turn_runtime.py`, and the pump of `streaming/process.py` with `turn_io.py` and `failure.py` | `TurnPumpProofs` |
| `MC...` | instances for TLC: values of constants that a cfg cannot write, symmetry | |

### ActorRuntime

`state`, `generation`, `endpoint`, `failures` and `neverBegun` are the fields of
`_ChildRecord`; `telling` is the guardian's lock while `tell` holds it across the
gate (`Reserve`) and the mailbox (`Put`). An endpoint of generation g has `alive`,
`closed` and `queued` (the gate), `inbox`, `phase` and `current`. A dispatched
command goes through `Begin` (gate), `Started` (the guardian's token is returned,
the handler runs) and `Complete` or `Raise`. A failure is `Raise` (the thread
library ends the thread), `CloseGate` (`on_failure`) and `ChildFailed` (the
guardian's fenced bookkeeping). A restart is `Schedule`, `Fire`, `CheckRestart`,
`Build` or `BuildFails`, and `Publish`; everything between the lock regions
interleaves with the rest. Stop and drain are threads of their own: `StopBegin`
or `DrainBegin`, `DrainPolled`, `Signal`, `Confirmed` or `TimeOut`, `Capture`.

Abstractions: one child stands for all of them, as they share only the draining
flag; the failure window is a nondeterministic forgetting of failures; back-off
times are the timer's arbitrary delay; exceptions of the undelivered sink,
snapshots and published events are left out, and so is the scheduler's
`shutdown`, which the runtime does not call. That a stop which timed out keeps
its endpoint is the code's design (`tests/kernel/actors/runtime/test_runtime.py:377`).
The promises are those of
`docs/design/kernel-isolation-and-rust-core-survey-2026-10-23.md:132-142`.

### EffectLane

`pending` holds the tokens with a credit (a token leaves it exactly when its
receipt event is set), `submitted` and `requests` are the lane's set and queue.
A worker is at `phase[w]` with `work[w]`. `Take` and `LookUp` are two steps
because the code releases the condition between them. `Post` may put one
completion into the owner's mailbox several times; `Handle` and `Acknowledge`
are the owner's handler, with `OwnerFails` possible between them. `submit` is
`Reserve` followed by `Submit`. Tokens are fresh, as the owners' operation ids.

### DeliveryCustody

The outbox is the set `outbox` with the facts of each row that decisions depend
on: `due` (next attempt reached), `tried`, `held` (link hold) and `expired`
(TTL passed). `status` is the terminal record of the message at the sender
(none, expired, fetched), `receipt` the durable receipt of a reply's submit.
`pend` and `wakes` are `_pending_io` of the running generation; `handoffs`,
`token`, `tokenGen` and `mail` are the coordinator's durable handoffs, its
completion receipts and the completions in the actor's mailbox. A request's
`stage` follows its thread of the I/O pool: queued, active (native I/O),
settling, posting, waiting for the receipt, handing off. Each mailbox command is
one action together with the reconciliation of handoffs that `_handle` does
first; commands that write in several transactions have a crash action in
between (`CrashInSubmit`, `CrashInCompletion`).

Abstractions: a clock is a flag per row; every row may be the oldest one when
the capacity evicts; the purge of old terminal records is left out; the DLQ
table is folded into status "expired"; a reply's correlation is the reply
itself; progress, alarms and notices only consume credits, so a refusal of the
pool is nondeterministic; the idle worker takes any ready request; the check and
the record of a handoff are one step; the retry claim limit is not reached;
`tried` is kept for replies only. The rows of the mailbox side (`custody` table),
the drain and the close of the pool are not modelled. The recipient is the set of
messages it has committed.

### RecipientInbox

`sending`, `life` and `wire` are the senders' rows, the time they have left, and the
copies under way; `row`, `stamped`, `ttl` and `pruned` the inbox table
(`fetched_at_ms` is `stamped`); `keys`, `window` and `record` the dedup table and the
recipient's terminal record; `attempts`, `terminal` and `backoff` the failure
settlements. `receive` has five outcomes, one action each: `Duplicate`,
`TerminalDuplicate`, `Refuse`, `Reject` (capacity) and `Accept`; `Collide` is the
sixth, an insertion under a UNIQUE id that exists. `turn[m]` is where a message is
with the harness bridge: offered, running, finished, failed, and the steps of
`_settle_claimed_result_member`: reading the original, stamping it, acknowledging it,
settling a failure. A call to the inbox actor may time out at its caller although it
is executed (`Called`); a timed-out step is claimed and settled again. `Crash` ends
the daemon at any step and `Restart`, `Sweep` and `Started` are the startup sweep of
rows that were stamped and not acknowledged. An acknowledgement of it that is answered
late (`Sweep`), and a read or an acknowledgement that is refused (`SweepFails`), end
it; the variable `sweep` remembers the rows it has given up, which `NoStrandedAnswer`
leaves out. `settle_hint_for` keeps a pending request or, when the gate has marked it
as drained, has it acknowledged: `Hint` and `Sweep` allow both.

Abstractions: a clock tick is half a day, so that the TTL (12 h) is one tick and the
dedup window (24 h) two; whatever lasts seconds ends within the tick: copies not taken
are lost, a sender without time gives up, and `Tick` waits for a startup, a settlement
and the maintenance of a running daemon (a daemon that is down sweeps nothing). One
copy is on its way at a time. The senders are the abstract custody: `DeliveryCustody` has the detail. A
`HYPRIAL_HOLD_TTL_MS` above 24 h, which `inbox/links/pull.py:179-190` accepts, would
break `ClocksAssumption`. Messages with a producer deadline (workflow requests,
`pac/workflows/runtime/types.py:82`) may outlive the dedup window: `Collide` is theirs,
and the promises below are made for the others. Bounds: `MaxTurns` messages have a
worker at a time, the agent itself fetches `Pulled` and settles `SelfSettled`, and
`MaxFaults` counts crashes, interrupted turns and late answers. Not modelled: `fail()`, which only the self-test calls, batches, forwarding
and workflow outcomes, retention, the sweep's limit of 256 rows (`runtime/results.py:34`;
a failing read of the sweep skips one recipient, and `SweepFails` all that is left).

### ReplyLedger

One agent's requests from one peer. `original`, `ledger`, `reply` and `receipt` are the
database: the inbox row, its inbound row of `link_ledger`, the outbox row of its reply
and the reply's receipt. `pending`, `censored`, `admitted`, `settled`, `drained`,
`pendingDrain` and `held` are the fields of the gate's `_ActorState`. `link` is what the
link files say: open, away (a copy is missing) or reclaimed. `call` is where
`message.reply` is, one step per transaction or lock region: `Read`, `Decide` (the
gate), a submit (`Join`, `Conflict`, `SubmitHeld`, `SubmitAllowed`), `Note`
(`gate.submitted`) and `Finish` (the acknowledgement). A pass of the link service goes
`Snapshot`, `Merge`, an optional reclaim (`ReclaimRead`, `ReclaimMark`,
`ReclaimDrain`), `Control` (censoring), `EvaluateHolds`, `Apply` and `Learn`; everything
else interleaves with its steps. `aged` is the set of ledger rows whose `expires_at_ms`
has passed (`Age`): the snapshot of a pass and that of `Rebuild` leave them out
(`inbox/authority/read.py:587-596`), and an open row settles as expired only then
(`Expire`). A drain or a censoring gives its row a new TTL. An update of the database is answered, or executed and
answered too late, or refused. `Rebuild` is the start of the link service, after a
daemon that ended at any step, also between the row of a submit and its receipt.

Abstractions: the snapshots of a pass are read together; a reclaim happens at one place
of the pass (one for an eviction within the evaluation of the holds,
`links/service/holds.py:206`, is left out: after it a release already decided meets the
consumed original in the database, as after any drain); the first delivery attempt
belongs to the submit (its crash windows are `DeliveryCustody`'s); thresholds are
arbitrary, so any request may be past its own.
Outbound requests and their window, minting and shrinking, controller values, the files
and their synchronisation, task bindings, the bypass, reservations and the purge of the
ledger are not modelled.

### TurnPump

Four threads meet here: callers (`Admit`, `Tell`, `AskSteer`, `AskClose`,
`Drain`), the relay (`Deliver`), the turn actor, and the pump, beside the native
client's callbacks and timers (`AbortDone`, `SteerDone`). `remembered` is the
admission gate; `submitting` are the submits between `remember` and `tell`.
`current`, `pending`, `attempts`, `shutting`, `recovering` and `recovery` are the
fields of one `_TurnShard`, `inFlight` and `results` those of `_TurnProjection`.
`slot` is `_io_requests`; `pc`, `work` and `decision` are where `_run` is, its
`current` with `current_fence`, and its failure waiter's outcome; `activeGen`,
`active`, `aborted` and `aborts` are `_active_generation`, whether
`_active_delivery_id` is set, `_aborted_generations`, and the aborts whose `ready`
has not been called, latched or interrupting. `work[..].tries` counts queries, and
`folded` remembers what a steer has folded: both are history. The actor's own life
is `status`: `Raise`, `Failed` (CHILD_FAILED), `Build` (the factory), `Run`
(published) and `Announce` (CHILD_RESTARTED); `ActorRuntime` models it in full.

Abstractions: results have no status, and interruptions, which only change it, are
left out; so are versions, progress and observers. A submit may pass the `running`
test at one moment and be admitted later, so `Admit` asks only for a living pump.
Popping a result and releasing it are one step. One steer and one close at a time
are under way. A completion a steer did not consume changes nothing and is left
out. Whether a failure may be retried (credentials, workflows) and whether a
delivery is still authorised are nondeterministic. The failure window of the
supervision does not forget. A decision may time out at any time. After the pump's
end the process is replaced, and the actor's further failures are left out. The
drain of the runtime and the reclaim after a stop are not modelled.

## 3. Runs

| run | instance | shows |
|---|---|---|
| `runtime` | 3 commands, mailbox of 2, 1 restart, 4 generations, one stop and one drain | all safety properties, the refinement and the liveness of the runtime |
| `lane` | 3 requests, 2 workers, 2 credits, mailbox of 2, 1 owner failure | the effect lane, safety and liveness |
| `custody_restart` | a reply (mortal, submitted twice) and a message to one recipient, 2 submits and a retry request, 2 generations | no silent loss, backed claims, serial lanes, truthful and stable records and receipts around failures and daemon restarts |
| `custody_links` | 2 messages, holds, deferrals, wakes, mailbox, 1 generation | holds, wakes and the liveness of the outbox |
| `inbox` | a note the agent may fetch and an order (a request with a producer deadline) it may settle, one idempotency key, 2 rows of capacity, 1 turn at a time, 2 attempts, 1 fault (crash, interruption or late answer), TTL of 1 tick, window of 2 | safety, the refinement of `DurableDelivery`, and the end of every row |
| `replies` | 1 request and its reply, 1 daemon restart, a link that opens, goes and is reclaimed at will | safety and liveness of the ledger and of held replies |
| `turns` | 2 deliveries, gate and mailbox of 2, relay of 1, 1 attempt, 1 restart, steers | where turns and deliveries are, around a failure of the actor |
| `turns_end` | 1 delivery submitted again and again, relay of 2, 2 attempts, 1 restart, a close | bounded queries, decisions, and the end of every turn |
| `lane_leak`, `turns_rerun`, `reply_lost`, `reply_censored` | the smallest instances that show the findings | see below |

Why these bounds: two messages of one recipient are the smallest number that
share a lane; a submit and a retry request are the two kinds of claims, and two
submit requests are needed for a resubmission to overlap its first one; a second
generation is what it takes for a result to be late. The outcomes of native
deliveries are bounded per message: the reply of `custody_restart` is delivered while
its neighbour, which contends for the lane, is delivered or not acknowledged;
`custody_links` has offline recipients, mailboxes and exceptions for both. In the runtime,
three commands fill a mailbox of two while one is in hand, and four generations let a
reset follow an exhausted restart budget. In the lane, three requests exceed two
credits, and a mailbox of two lets a completion be behind its own duplicate. In the
inbox, two messages with one key are twins and duplicates of each other; the order's
deadline is the one that outlasts the window, and with a capacity of two its copies
meet both a full inbox and their own row; two attempts are a retry and a final failure;
one fault, whichever it is, reaches every step of a settlement. The requests of one peer share nothing but the link and the passes, so
one request with its reply is enough for the ledger, and one restart meets every step
of a pass and of a call. In the turns, a second delivery is what a steer, a queue and a
mixed-up completion need; a relay of one is full whenever a completion is under way;
the second generation is again the one that meets late answers; and `turns_end` gives
up the second delivery for a second attempt, as the attempts of two deliveries share
nothing. Deadlock is not checked where the system really comes to rest: no message
left, lane closed, child stopped, pump idle. The ledger's link never rests, and its
runs check deadlock.

### Findings

The four `violation` runs state what a comment, a document or a test says and find it
refuted by what the code does:

* `lane_leak`: a retry request that overlaps a restart of the actor, and one of
  whose rows has left the outbox meanwhile, is neither accepted nor handed off
  (`inbox/actor/coordinator.py:327`, `:384`); its I/O thread keeps the recipient's
  lane for ever and later messages wait behind it, past their TTL.
* `turns_rerun`: the actor fails while the pump holds a request and waits to
  connect again; the abort times out and the delivery is published as failed, and
  then the pump runs it (`turn_io.py:366`, `process.py:615`), against the name of
  the test `test_actor_crash_aborts_generation_and_never_restarts_same_turn`.
* `reply_lost`: an agent repeats a reply that is held, after the link has opened and
  before a pass releases it. It is told that the reply is replied and the original is
  acknowledged (`application/messaging/inbox_surface/send.py:961`), whereupon the next
  pass finds the original consumed and fails the held reply, against the comment at
  `send.py:923`.
* `reply_censored`: a held reply to a request that has been censored meanwhile is
  failed by the next pass although the request is still pending (`links/service/holds.py:178`
  asks with a view that leaves censored requests out), against
  `docs/design/send-links-impl/wp2.md:245` and `:309`. A reply to a request that was
  never injected, which the gate admits from the inbox row, ends the same way.

Further divergences met while modelling have no run of their own; where a property
would run into one, its statement excuses the case by name and the hazard's note says
so:

* a reply's receipt stays "queued" for ever when its row leaves by any way but a
  completion (against `submit.py:196-204`), and a reply discarded while its direct
  submit is in flight is receipted as sent;
* a wake kept with a claim is lost with the actor's generation (so `WakeKept` is
  checked within one);
* a reply is sent twice when the daemon ends between its row and its receipt and the
  agent repeats it while the retry pump sends the first one; the peer drops the copy
  by its key;
* a reply admitted just before a reclaim drains its request is sent all the same, and
  a held reply is released although the turns of its original have failed for good;
* a censoring, a task binding or the release of an outbound row whose update fails is
  not repeated, since memory has moved before the commit (against `wp2.md:799`);
* a request that ages out keeps its seat in `pending_inbound`: the row of the ledger
  settles as expired when its `expires_at_ms` has passed
  (`inbox/service/projection.py:155-182`, `link_ledger.py:237-243`), and from then on the
  snapshot of a pass leaves it out, so that the "expired" branch of `_reconcile`
  (`links/service/reclaim.py:219`) is not reached for it; nor is a row noticed that was
  settled otherwise but aged before the next pass. The seat is given back only by
  censoring, a reclaim or a restart of the daemon, against
  `docs/design/send-links-impl/wp2.md:523` and `:575`. The test of the branch
  (`tests/daemon/links/service/test_rework.py:346`) has an inbox that does not filter.
  `SeatFreed` excuses these rows by name (`Unnoticed`);
* a failed turn whose settlement times out though executed counts as two attempts, and
  the startup sweep gives up at the first read or acknowledgement that fails and leaves
  that row, unless it was acknowledged all the same, and the rows behind it to their
  TTL, so that their senders are told they expired;
* a delivery folded into the running turn by a steer gets no result and keeps its place
  of the gate until the process is rebuilt (`turn_runtime.py:230`, `:542`);
* a recovery notice dropped while the turn actor is not yet published, or refused by a
  full relay, is never sent again; one that waits for the native turn to exist is lost
  when the interrupt of that turn raises (`InterruptRaises`: `process.py:632-648` has
  popped the callback, and `:776-787` finds none); and a turn answered but not drained runs again after
  a failure (`OncePerAdmission` speaks of the first generation).

### Fairness

Threads that can run, run: weak fairness of the steps of workers, handlers,
timers, of the pump's tick and of the link service's passes, which the code repeats for
ever. Native calls end, as their timeouts make them. Strong fairness is assumed where
the code retries against something that is busy from time to time: a completion that is
posted every few milliseconds is not refused for ever (`Post` of the lane, the relay's
`Deliver`), and of the updates the link service sends, one after another, some are
answered. A tick of half a day comes in the end (weak fairness: only a startup, a
settlement or an overdue row holds it back, and a running daemon ends these). For the
turns, a client that is connected again and again gets to a
native turn in the end (strong fairness of `Ask` or `Answer`; otherwise a pump
reconnects for ever, which the code permits and no budget bounds), and a turn that
exists ends or fails. Nothing makes a caller submit, a copy arrive, an agent reply, a
link open, a wake come, a stop be asked for or a clock be late. Failures are bounded in
number, so the liveness properties speak of a system that eventually stays up.

## 4. Proofs

All proofs hold for every value of the constants; the assumptions are the
`ASSUME`s of the modules, which every run evaluates.

* `DeliveryCustodyProofs`: `TypeCorrect` (the type invariant, with `expired`
  within `due`, is inductive), `NothingLostSilently` (`NoSilentLoss` is inductive
  given types: rows leave the outbox only by actions that write a record, give
  the message to a mailbox or belong to ONLINE_ONLY messages), `FetchedTruthful`
  (strengthened by the outcomes of the requests: a request whose outcome is
  "delivered" has reached the recipient) and `EvidenceNeverRewritten`, an action
  property that needs the types only. `ClaimsAreBacked` carries that the
  receipt of a live claim is not settled (`ClaimsUnsettled`), so that a worker lets go
  of it only by a handoff. `LanesStaySerial` is inductive given the types: only taking
  a request adds to the lanes in use, and it looks at them. Two theorems have a
  condition, and TLC finds the counterexample without it:
  * `HeldRowsStayHome` speaks of executions in which no id is submitted twice
    (`submitted[m] <= 1`, as in `custody_links`): a direct submit of an id
    that is held already is requested though held. That a held row is not due
    (`HeldNotDue`) and that nothing has sent it (`HeldUnsent`) are inductive together.
  * `WakesOutliveIO` speaks of the first generation of the actor (`gen = 1`, as in
    `custody_links`): wakes are kept in its memory, and a failure loses them (see the
    divergences above).
* `EffectLaneProofs`: `TypeCorrect`, `ExecutedOnce` and `CreditsUntilAcknowledged`.
  A request is run once because it is in one place: what is queued has not run
  (`QueueUnrun`), what a worker holds is held by it alone and is no longer queued
  (`HandsOK`, `HandsApart`), and what has run stays submitted until it is acknowledged,
  as everything posted has run (`RanKept`, `PostedRan`). `CreditsCounted` bounds the
  credits, a cardinality of which the induction needs that it is of a finite set.
* `TurnPumpProofs`: all the safety properties of the turns. Each rests on `HeldInv`,
  which says where the turn of the running generation is. That it is in one place
  is not inductive alone; it needs that
  - nothing belongs to a generation to come, the pump works on one request, and a
    generation just built has no turn anywhere (`Past`, `OneAtWork`, `Fresh`);
  - a failed actor has let go of everything, and only its generation is aborted
    (`Settled`, `NotAborted`);
  - the places exclude each other, and hold the turn the actor knows (`Apart`,
    `Known`);
  - the question about a failure is under way exactly as long as the pump waits for
    the decision (`QuestionWaits`, `QuestionAsked`): otherwise an old decision could
    leave the pump with a turn that the actor has started again.

  From it follow `OnePlace` and `NoVainWait`. `NothingLost` adds that an enqueue
  command is about one delivery (`TellsOne`) and that the gate's memory is found by an
  actor that is running or just built (`Remembered`). `QueriesBounded` relates two
  counters no code compares, the actor's attempts and the pump's queries: the actor has
  counted every query of its turn but the one being made (`TriesCounted`).
  `OneTurnEach` needs that the sets of deliveries being told, queued, running and
  answered are disjoint (`Separate`), hold each once (`Once`) and are remembered by
  the gate (`Backed`), which is what makes the gate refuse a second admission.
* `RecipientInboxProofs`: besides the types, the invariant says that a copy on the wire
  has a sender that still repeats it (`WireAlive`, `SentFirst`), that a tombstone or a
  record stands for a committed message (`KeysBacked`), that the tombstone of a
  committed message outlasts its sender (`WindowKept`: this is where the TTL must be
  shorter than the window), that a message ends once (`EndsOnce`), and that an answered
  message is stamped, has no failed attempt left to retry (`AnsweredKept`) and is being
  settled or left to the sweep (`SweepKept`). It gives `CopiesAnswered`,
  `NothingStranded`, `NeverRunAgain` and `DeliveryIsDurable`, the refinement of
  `DurableDelivery` for any messages, keys, lifetimes, capacities and numbers of
  crashes.
* `ReplyLedgerProofs`: `LedgerIsBacked` and `DrainedStaysUnanswered`. Neither is
  inductive alone: a pull writes its ledger row in a second step, so the request it is
  about to stamp must still be pending (`StampedPending`), and a release looks at the
  inbox row, so a drained request must be consumed or gone (`DrainedOver`).
* `ActorRuntimeProofs`: `TypeCorrect`.
* `RuntimeAuthorityProofs`: the invariant `Authority`. One thread at a time is not
  inductive; what has to be carried is that at most one restart is under way and
  only for the current generation (`OneRestart`), that generations not built yet
  have no thread (`Unbuilt`), which endpoint the record names in which state
  (`Record`), and that a stray thread, left by a stop that timed out, is still the
  record's endpoint (`Hands`).
* `RuntimeCustodyProofs`: on top of it, who holds the token of each command
  (`Tokens`) and that a living mailbox holds only commands with a token, once
  (`Mail`). They give `OneAuthorityHolds`, `RestartOwedHolds`, `TokensBackedHolds`
  and `CustodyImplemented`, the refinement of `CommandCustody`.

The inductive invariants were checked with TLC before they were proved: those of
`TurnPumpProofs` on the instances of the runs `turns` and `turns_end`, and `HeldInv` also
with two deliveries, two attempts, a relay of two, one restart and a close; those of
`DeliveryCustodyProofs` with one message, two submits and two generations; that of
`EffectLaneProofs` on the instance of the run `lane`.

Queues are filtered with `Keeping`, a recursive function over the positions of a
sequence, since the provers have no theory of `SelectSeq`. What it keeps is proved by
induction, without the library's induction theorems, whose operator parameter no
backend instantiates: a set of naturals has a least element (`Smallest`, from the
well-foundedness of the order), so a set that holds 0 and the successor of each of its
members up to n holds all of them (`Induct`).

Only model-checked: all liveness properties (`EveryRowLeaves`, `CommandsSettle`,
`RestartsHappen`, `RequestsSettle`, `WorkersLeave`, `RowLeaves`, `SeatFreed`,
`DrainLands`, `HeldIsDecided`, `Answered`), which rest on fairness and `ENABLED`. Every
invariant and every action property of a passing run has a theorem.

## 5. Not modelled, and the plan

In this order:

1. Proofs: an abstract specification of the turns (a delivery is admitted, run,
   answered once) that `TurnPump` refines in its first generation, and one of the
   effect lane.
2. `TurnDelivery`: the harness actor's reservations, between the bridge of
   `RecipientInbox` and the admissions of `TurnPump`.
3. The outbound half of the send links: windows, minting and shrinking, and the two
   sides' files.
4. `TerminalStatus` (records of several nodes) and `BatchCursor`.
5. The session actor, the lifecycle process manager and the worker transfer, each
   with crashes between its journalled steps.
6. The management lease, forwarding, PAC and routines.

Out of reach or of no interest to a model: the vendored CRDT and network
libraries, vendor protocols of harnesses and adapters, CLI and GUI, packaging.
`PROJECT.json` lists every component, with the reason where it is left out.
