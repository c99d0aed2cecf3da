------------------------------ MODULE TurnPump ------------------------------
(***************************************************************************)
(* The turns of one harness process: the admission gate its callers pass,  *)
(* the turn actor with its generations, the relay that returns completions *)
(* to it, and the pump thread that runs one turn at a time natively.       *)
(*                                                                         *)
(* The actor starts a turn by putting a request into a slot; the pump      *)
(* answers through the relay.  When the actor fails, the native turn is    *)
(* aborted and the next generation, built from what the gate remembers,    *)
(* waits for that abort before it starts anything.                         *)
(*                                                                         *)
(* The status of a result is left out, and so is the interruption of a     *)
(* turn, which only changes that status.                                   *)
(***************************************************************************)
EXTENDS Naturals, Sequences, FiniteSets

CONSTANTS
    Delivery,
    Capacity,     \* of the gate and of the mailbox
    RelaySize,    \* completions in the relay, with the one being told
    MaxAttempts,  \* max_delivery_attempts
    MaxRestarts,  \* of the supervision policy: the next failure quarantines
    Requested     \* bound: the callers' other requests, of "steer" and "close"

ASSUME LimitsAssumption ==
    /\ Capacity \in Nat \ {0} /\ RelaySize \in Nat \ {0}
    /\ MaxAttempts \in Nat \ {0} /\ MaxRestarts \in Nat

Gen == 1..(MaxRestarts + 1)

VARIABLES
    \* the callers and the gate: its commands in order, and those being told
    remembered, submitting, closing,
    \* the actor of the runtime; announce: CHILD_RESTARTED is still to come
    status, announce, generation, mailbox,
    \* the turn shard
    current, pending, attempts, shutting, recovering, recovery,
    \* its projection
    inFlight, results,
    \* _recovery_ready
    ready,
    relay,
    \* the one-slot queue, and the pump: where it is, its request with the
    \* queries made for it, and the decision it has been given
    slot, pc, work, decision, stopping,
    \* _active_generation, _active_delivery_id, _aborted_generations, the
    \* aborts under way, the steers asked of the native client, and whether that
    \* client was stopped by force
    activeGen, active, aborted, aborts, steering, killed,
    \* deliveries folded into another turn (history)
    folded

callers == <<remembered, submitting, closing>>
actor   == <<status, announce, generation, mailbox>>
shard   == <<current, pending, attempts, shutting, recovering, recovery>>
facts   == <<inFlight, results>>
io      == <<slot, pc, work, decision, stopping>>
native  == <<activeGen, active, aborted, aborts, steering, killed>>
vars == <<callers, actor, shard, facts, ready, relay, io, native, folded>>

\* A command of the mailbox or a completion: its kind, the generation it is
\* for, the delivery it is about, and an answer.
Msg(kind, g, on, yes) == [kind |-> kind, gen |-> g, on |-> on, yes |-> yes]

Request(g, d) == [gen |-> g, on |-> {d}]
Stop == [gen |-> 0, on |-> {}]

Elements(q) == {q[i] : i \in 1..Len(q)}

\* The elements of q that are in S, in their order.
Keeping(q, S) ==
    LET kept[i \in 0..Len(q)] ==
            IF i = 0 THEN <<>>
            ELSE IF q[i] \in S THEN Append(kept[i - 1], q[i]) ELSE kept[i - 1]
    IN  kept[Len(q)]

Alive == status = "running"
MailboxRoom == Len(mailbox) < Capacity
RelayRoomForOne == Len(relay) <= RelaySize    \* mutant: off by one
RelayRoom == Len(relay) < RelaySize

-----------------------------------------------------------------------------
(* The callers                                                             *)

\* reserve: an id the gate knows is refused, and so is one too many.
RefusedWhenFull(d) == closing \/ Len(remembered) >= Capacity    \* mutant
Refused(d) == closing \/ d \in Elements(remembered) \/ Len(remembered) >= Capacity

\* release: the id and its command are forgotten.
Kept(d) == remembered    \* mutant: never released
Without(d) == Keeping(remembered, Delivery \ {d})

\* submit of a delivery: it is reserved and remembered ...
Admit(d) ==
    /\ pc # "dead" /\ ~ stopping
    /\ d \notin submitting /\ ~ Refused(d)
    /\ remembered' = Append(remembered, d)
    /\ submitting' = submitting \cup {d}
    /\ UNCHANGED <<closing, actor, shard, facts, ready, relay, io, native, folded>>

\* ... and told to the actor; a refused tell gives the place back.
Tell(d) ==
    /\ d \in submitting
    /\ submitting' = submitting \ {d}
    /\ \/ /\ Alive /\ MailboxRoom
          /\ mailbox' = Append(mailbox, Msg("enqueue", 0, {d}, TRUE))
          /\ UNCHANGED remembered
       \/ /\ ~ (Alive /\ MailboxRoom)
          /\ remembered' = Without(d)
          /\ UNCHANGED mailbox
    /\ UNCHANGED <<closing, status, announce, generation, shard, facts, ready,
                   relay, io, native, folded>>

\* steer, of a delivery the caller has handed over.  One at a time (bound).
AskSteer(d) ==
    /\ "steer" \in Requested /\ d \in Elements(remembered)
    /\ Alive /\ MailboxRoom
    /\ steering = {}
    /\ \A i \in 1..Len(mailbox) : mailbox[i].kind \notin {"steer", "steered"}
    /\ \A i \in 1..Len(relay) : relay[i].kind # "steered"
    /\ mailbox' = Append(mailbox, Msg("steer", 0, {d}, TRUE))
    /\ UNCHANGED <<callers, status, announce, generation, shard, facts, ready, relay, io,
                   native, folded>>

\* stop: the gate closes, and the close command is told; when the mailbox is
\* full it is told again.  One at a time (bound).
AskClose ==
    /\ "close" \in Requested
    /\ ~ stopping
    /\ \A i \in 1..Len(mailbox) : mailbox[i].kind # "close"
    /\ closing' = TRUE
    /\ mailbox' = IF Alive /\ MailboxRoom THEN Append(mailbox, Msg("close", 0, {}, TRUE))
                  ELSE mailbox
    /\ UNCHANGED <<remembered, submitting, status, announce, generation, shard,
                   facts, ready, relay, io, native, folded>>

\* drain_results: a result is taken out and its delivery released.
Drain ==
    /\ results # <<>>
    /\ results' = Tail(results)
    /\ remembered' = Without(Head(results))
    /\ UNCHANGED <<submitting, closing, actor, shard, inFlight, ready, relay, io, native,
                   folded>>

-----------------------------------------------------------------------------
(* The relay and the recovery                                              *)

\* The relay's thread tells its oldest completion; a closed actor drops it.
Deliver ==
    /\ relay # <<>>
    /\ Alive => MailboxRoom
    /\ relay' = Tail(relay)
    /\ mailbox' = IF Alive THEN Append(mailbox, Head(relay)) ELSE mailbox
    /\ UNCHANGED <<callers, status, announce, generation, shard, facts, ready, io, native,
                   folded>>

\* _release_recovery_if_ready: what is ready is submitted to the relay once a
\* newer generation is built, and kept while that is not so or the relay full.
Recover(r) ==
    \/ /\ \E a \in r : generation > a.gen /\ RelayRoom
                       /\ relay' = Append(relay, Msg("ready", generation, a.on, TRUE))
       /\ ready' = {}
    \/ /\ \A a \in r : ~ (generation > a.gen /\ RelayRoom)
       /\ ready' = r
       /\ UNCHANGED relay

\* The callback of an abort.
Ready(a) == Recover({[gen |-> a.gen, on |-> a.on]})

-----------------------------------------------------------------------------
(* The turn actor                                                          *)

\* The actor begins the command at the head of its mailbox.
Receive(kind) ==
    /\ Alive /\ mailbox # <<>> /\ Head(mailbox).kind = kind
    /\ mailbox' = Tail(mailbox)

\* No turn is left, for the shard and for its projection.
NoTurn == current' = {} /\ inFlight' = {}

\* _start of the first of q, or nothing to start.  A slot that is taken raises,
\* after the projection was set.
Start(q, blocked) ==
    \/ /\ q = <<>> \/ blocked
       /\ pending' = q /\ NoTurn
       /\ UNCHANGED <<slot, status>>
    \/ /\ q # <<>> /\ ~ blocked
       /\ pending' = Tail(q) /\ current' = {Head(q)} /\ inFlight' = {Head(q)}
       /\ slot' = IF slot = <<>> THEN <<Request(generation, Head(q))>> ELSE slot
       /\ status' = IF slot = <<>> THEN status ELSE "failing"

\* _enqueue
Enqueue ==
    /\ Receive("enqueue")
    /\ \E d \in Head(mailbox).on :
       \/ /\ shutting
          /\ UNCHANGED <<current, pending, inFlight, slot, status>>
       \/ /\ ~ shutting /\ (recovering \/ current # {})
          /\ pending' = Append(pending, d)
          /\ UNCHANGED <<current, inFlight, slot, status>>
       \/ /\ ~ shutting /\ ~ recovering /\ current = {}
          /\ Start(<<d>> \o pending, FALSE)
    /\ UNCHANGED <<callers, announce, generation, attempts, shutting, recovering, recovery,
                   results, ready, relay, pc, work, decision, stopping, native,
                   folded>>

\* The fence of a completion: this generation's, and of the current turn.
UnfencedGeneration(m) == m.on = current    \* mutant: a late generation is let in
Fenced(m) == m.gen = generation /\ m.on = current

\* _complete
Complete ==
    /\ Receive("completed")
    /\ LET m == Head(mailbox) IN
       \/ /\ ~ Fenced(m)
          /\ UNCHANGED <<status, current, pending, attempts, facts, slot>>
       \/ /\ Fenced(m)
          /\ \E d \in m.on :
                /\ results' = Append(results, d)
                /\ attempts' = [attempts EXCEPT ![d] = 0]
          /\ Start(pending, shutting)
    /\ UNCHANGED <<callers, announce, generation, shutting, recovering, recovery, ready,
                   relay, pc, work, decision, stopping, native, folded>>

\* The pump waits for the decision about this failure.
AwaitedIfRetriable(m) ==    \* mutant: a final failure answers nobody
    /\ m.yes /\ pc = "failing" /\ decision = "none"
    /\ \E w \in work : w.gen = m.gen /\ w.on = m.on
Awaited(m) ==
    /\ pc = "failing" /\ decision = "none"
    /\ \E w \in work : w.gen = m.gen /\ w.on = m.on

RetriesOneMore(m, n) == m.yes /\ n <= MaxAttempts    \* mutant: off by one
Retries(m, n) == m.yes /\ n < MaxAttempts

\* _io_failed: the turn is retried, or abandoned with a result.
Fail ==
    /\ Receive("failed")
    /\ LET m == Head(mailbox) IN
       \/ /\ ~ Fenced(m)
          /\ UNCHANGED <<status, current, pending, attempts, facts, slot, decision>>
       \/ /\ Fenced(m)
          /\ \E d \in m.on :
             \/ /\ Retries(m, attempts[d] + 1)
                /\ attempts' = [attempts EXCEPT ![d] = @ + 1]
                /\ decision' = IF Awaited(m) THEN "retry" ELSE decision
                /\ UNCHANGED <<status, current, pending, facts, slot>>
             \/ /\ ~ Retries(m, attempts[d] + 1)
                /\ attempts' = [attempts EXCEPT ![d] = 0]
                /\ decision' = IF Awaited(m) THEN "abandon" ELSE decision
                /\ results' = Append(results, d)
                /\ Start(pending, shutting)
    /\ UNCHANGED <<callers, announce, generation, shutting, recovering, recovery, ready,
                   relay, pc, work, stopping, native, folded>>

\* _steer: a queued delivery, while another one is running natively.
Steer ==
    /\ Receive("steer")
    /\ LET on == Head(mailbox).on IN
       steering' = IF /\ current # {} /\ ~ shutting
                      /\ on # current /\ on \subseteq Elements(pending)
                      /\ active /\ \A w \in work : w.on # on
                   THEN steering \cup {[gen |-> generation, on |-> on]}
                   ELSE steering
    /\ UNCHANGED <<callers, status, announce, generation, shard, facts, ready, relay, io,
                   activeGen, active, aborted, aborts, killed, folded>>

\* _steer_completed, of a message the native turn has consumed.
Steered ==
    /\ Receive("steered")
    /\ LET m == Head(mailbox) IN
       \/ /\ m.gen # generation
          /\ UNCHANGED <<pending, folded>>
       \/ /\ m.gen = generation
          /\ pending' = Keeping(pending, Delivery \ m.on)
          /\ folded' = folded \cup (m.on \cap Elements(pending))
    /\ UNCHANGED <<callers, status, announce, generation, current, attempts, shutting,
                   recovering, recovery, facts, ready, relay, io, native>>

\* _recovery_ready: the turn that was in flight has failed, the others queue up
\* before those admitted meanwhile.
Recovered ==
    /\ Receive("ready")
    /\ LET m == Head(mailbox) IN
       \/ /\ m.gen # generation \/ ~ recovering
          /\ UNCHANGED <<status, current, pending, recovering, recovery, facts, slot>>
       \/ /\ m.gen = generation /\ recovering
          /\ recovering' = FALSE /\ recovery' = <<>>
          /\ results' = results \o Keeping(recovery, m.on)
          /\ Start(Keeping(recovery, Delivery \ m.on) \o pending, shutting)
    /\ UNCHANGED <<callers, announce, generation, attempts, shutting, ready, relay, pc,
                   work, decision, stopping, native, folded>>

\* _close: the pump is stopped; a free slot gets the stop mark.
Close ==
    /\ Receive("close")
    /\ shutting' = TRUE /\ stopping' = TRUE
    /\ slot' = IF slot = <<>> /\ ~ shutting THEN <<Stop>> ELSE slot
    /\ UNCHANGED <<callers, status, announce, generation, current, pending, attempts,
                   recovering, recovery, facts, ready, relay, pc, work, decision,
                   native, folded>>

\* The handler raises, before or after any command.  (Bound: not after the end
\* of the pump, when the process is replaced.)
Raise ==
    /\ Alive /\ pc # "dead"
    /\ status' = "failing"
    /\ UNCHANGED <<callers, announce, generation, mailbox, shard, facts, ready, relay, io,
                   native, folded>>

\* CHILD_FAILED: the mailbox is lost, the turn in flight is taken from the
\* projection, and its generation is aborted: at once when the pump does not
\* work for it, otherwise by an interrupt of the native turn, or as soon as
\* there is one to interrupt.
Failed ==
    /\ status = "failing"
    /\ status' = IF generation > MaxRestarts THEN "quarantined" ELSE "pending"
    /\ mailbox' = <<>> /\ inFlight' = {}
    /\ aborted' = aborted \cup {generation}
    /\ \/ /\ activeGen # generation
          /\ Recover({[gen |-> generation, on |-> inFlight]})
          /\ UNCHANGED aborts
       \/ /\ activeGen = generation
          /\ aborts' = aborts \cup {[gen |-> generation, on |-> inFlight,
                                     how |-> IF active THEN "interrupt" ELSE "latched"]}
          /\ UNCHANGED <<ready, relay>>
    /\ current' = {} /\ pending' = <<>> /\ attempts' = [d \in Delivery |-> 0]
    /\ shutting' = FALSE /\ recovering' = FALSE /\ recovery' = <<>>
    /\ UNCHANGED <<callers, announce, generation, results, io, activeGen, active, steering,
                   killed, folded>>

\* The next generation: its handler is built from what the gate remembers ...
RebuiltFromNothing == <<>>    \* mutant
Rebuilt == remembered

Build ==
    /\ status = "pending" /\ ~ announce
    /\ status' = "built" /\ generation' = generation + 1
    /\ inFlight' = {}
    /\ recovery' = Rebuilt /\ recovering' = (Rebuilt # <<>>)
    /\ UNCHANGED <<callers, announce, mailbox, current, pending, attempts, shutting, results,
                   ready, relay, io, native, folded>>

\* ... then it is running ...
Run ==
    /\ status = "built"
    /\ status' = "running" /\ announce' = TRUE
    /\ UNCHANGED <<callers, generation, mailbox, shard, facts, ready, relay, io, native,
                   folded>>

\* ... and CHILD_RESTARTED looks whether the recovery is ready.
Announce ==
    /\ announce
    /\ announce' = FALSE
    /\ Recover(ready)
    /\ UNCHANGED <<callers, status, generation, mailbox, shard, facts, io, native, folded>>

-----------------------------------------------------------------------------
(* The pump                                                                *)

\* The client connects; a pump told to stop ends.
Connect ==
    /\ pc = "connecting"
    /\ \/ /\ stopping /\ pc' = "dead" /\ work' = {}
       \/ /\ ~ stopping /\ pc' = (IF work = {} THEN "idle" ELSE "checking")
          /\ UNCHANGED work
    /\ killed' = FALSE
    /\ UNCHANGED <<callers, actor, shard, facts, ready, relay, slot, decision, stopping,
                   activeGen, active, aborted, aborts, steering, folded>>

\* It can never connect: a permanent start failure.
NeverConnects ==
    /\ pc = "connecting" /\ ~ stopping
    /\ pc' = "dead" /\ work' = {} /\ stopping' = TRUE
    /\ UNCHANGED <<callers, actor, shard, facts, ready, relay, slot, decision, native,
                   folded>>

\* Where the pump goes when it has no request.
Again == IF stopping THEN "dead" ELSE "idle"

\* A request is taken from the slot, and left out if its generation is aborted.
Take ==
    /\ pc = "idle" /\ slot # <<>>
    /\ slot' = <<>>
    /\ LET r == Head(slot) IN
       \/ /\ r = Stop
          /\ pc' = "dead"
          /\ UNCHANGED <<work, activeGen, aborted>>
       \/ /\ r # Stop /\ r.gen \in aborted
          /\ pc' = Again /\ activeGen' = 0 /\ aborted' = aborted \ {r.gen}
          /\ UNCHANGED work
       \/ /\ r # Stop /\ r.gen \notin aborted
          /\ pc' = "checking" /\ activeGen' = r.gen
          /\ work' = {[gen |-> r.gen, on |-> r.on, tries |-> 0]}
          /\ UNCHANGED aborted
    /\ UNCHANGED <<callers, actor, shard, facts, ready, relay, decision, stopping, active,
                   aborts, steering, killed, folded>>

\* While the authority of the delivery is unavailable the pump waits, and looks
\* whether it is to stop.
StopsWaiting ==
    /\ pc = "checking" /\ stopping
    /\ pc' = "dead" /\ work' = {}
    /\ UNCHANGED <<callers, actor, shard, facts, ready, relay, slot, decision,
                   stopping, native, folded>>

\* The native query begins ...
Ask ==
    /\ pc = "checking"
    /\ pc' = "asking"
    /\ work' = {[w EXCEPT !.tries = @ + 1] : w \in work}
    /\ UNCHANGED <<callers, actor, shard, facts, ready, relay, slot, decision, stopping,
                   native, folded>>

\* ... and the turn exists: an abort that waited for it is done now.
Asked ==
    /\ pc = "asking" /\ ~ killed
    /\ pc' = "running" /\ active' = TRUE
    /\ LET waiting == {a \in aborts : a.how = "latched" /\ \A w \in work : w.gen = a.gen} IN
       /\ aborts' = aborts \ waiting
       /\ \/ \E a \in waiting : Ready(a)
          \/ waiting = {} /\ UNCHANGED <<ready, relay>>
    /\ UNCHANGED <<callers, actor, shard, facts, slot, work, decision, stopping,
                   activeGen, aborted, steering, killed, folded>>

\* That abort interrupts the turn first.  If the interrupt raises, the abort is
\* no longer kept anywhere: the request is dropped and nobody is told.
InterruptRaises ==
    /\ pc = "asking" /\ ~ killed /\ \A w \in work : w.gen \in aborted
    /\ LET waiting == {a \in aborts : a.how = "latched" /\ \A w \in work : w.gen = a.gen} IN
       waiting # {} /\ aborts' = aborts \ waiting
    /\ pc' = "connecting" /\ work' = {}
    /\ active' = FALSE /\ activeGen' = 0
    /\ aborted' = aborted \ {w.gen : w \in work}
    /\ UNCHANGED <<callers, actor, shard, facts, ready, relay, slot, decision, stopping,
                   steering, killed, folded>>

\* The turn ends, or is found withdrawn before it begins: a completion is
\* submitted; a relay that refuses it ends the pump.
Answer ==
    /\ pc \in {"checking", "running"}
    /\ \/ /\ RelayRoom
          /\ \E w \in work : relay' = Append(relay, Msg("completed", w.gen, w.on, TRUE))
          /\ pc' = "finished"
          /\ UNCHANGED <<work, stopping>>
       \/ /\ ~ RelayRoom
          /\ pc' = "dead" /\ work' = {} /\ stopping' = TRUE
          /\ UNCHANGED relay
    /\ UNCHANGED <<callers, actor, shard, facts, ready, slot, decision, native, folded>>

\* The pump forgets its request and takes the abort of its generation back.
Clear ==
    /\ pc = "finished"
    /\ pc' = Again /\ work' = {}
    /\ active' = FALSE /\ activeGen' = 0
    /\ aborted' = aborted \ {w.gen : w \in work}
    /\ UNCHANGED <<callers, actor, shard, facts, ready, relay, slot, decision,
                   stopping, aborts, steering, killed, folded>>

\* An exception of the client, when the generation of the request is aborted:
\* the request is dropped and the abort is done.
ErrorWhenAborted ==
    /\ pc \in {"connecting", "checking", "asking", "running"}
    /\ work # {} /\ \A w \in work : w.gen \in aborted
    /\ pc' = "connecting" /\ work' = {}
    /\ active' = FALSE /\ activeGen' = 0
    /\ aborted' = aborted \ {w.gen : w \in work}
    /\ LET waiting == {a \in aborts : a.how = "latched" /\ \A w \in work : w.gen = a.gen} IN
       /\ aborts' = aborts \ waiting
       /\ \/ \E a \in waiting : Ready(a)
          \/ waiting = {} /\ UNCHANGED <<ready, relay>>
    /\ UNCHANGED <<callers, actor, shard, facts, slot, decision, stopping, steering,
                   killed, folded>>

\* Before the query: the request is kept and the client connects again.
ErrorBeforeTurn ==
    /\ pc = "checking" /\ \A w \in work : w.gen \notin aborted
    /\ pc' = "connecting"
    /\ UNCHANGED <<callers, actor, shard, facts, ready, relay, slot, work, decision,
                   stopping, native, folded>>

\* After it: the actor is asked what to do.  It may not retry a workflow's turn
\* or a credential failure.  A relay that refuses the question ends the pump.
ErrorInTurn ==
    /\ pc \in {"asking", "running"} /\ \A w \in work : w.gen \notin aborted
    /\ \/ /\ RelayRoom
          /\ \E w \in work, retriable \in BOOLEAN :
                relay' = Append(relay, Msg("failed", w.gen, w.on, retriable))
          /\ pc' = "failing" /\ decision' = "none"
          /\ UNCHANGED work
       \/ /\ ~ RelayRoom
          /\ pc' = "dead" /\ work' = {}
          /\ UNCHANGED <<relay, decision>>
    /\ UNCHANGED <<callers, actor, shard, facts, ready, slot, stopping, native, folded>>

\* The decision: the request is kept for another query, or dropped.
Decided ==
    /\ pc = "failing" /\ decision # "none"
    /\ pc' = "connecting" /\ decision' = "none"
    /\ work' = IF decision = "retry" THEN work ELSE {}
    /\ active' = FALSE
    /\ UNCHANGED <<callers, actor, shard, facts, ready, relay, slot, stopping,
                   activeGen, aborted, aborts, steering, killed, folded>>

\* No decision in time: the pump ends.
Undecided ==
    /\ pc = "failing" /\ decision = "none"
    /\ pc' = "dead" /\ work' = {}
    /\ UNCHANGED <<callers, actor, shard, facts, ready, relay, slot, decision,
                   stopping, native, folded>>

\* The interrupt of an aborted turn has returned, or the time is up for a turn
\* that has not begun: its client, if it has one, is stopped by force.
AbortDone(a) ==
    /\ a \in aborts
    /\ aborts' = aborts \ {a}
    /\ killed' = (killed \/ (a.how = "latched" /\ pc \in {"checking", "asking"}))
    /\ Ready(a)
    /\ UNCHANGED <<callers, actor, shard, facts, io, activeGen, active, aborted, steering,
                   folded>>

\* The native client answers a steer: the message was consumed, or was not.  A
\* relay that refuses the completion loses it.
SteerDone(s) ==
    /\ s \in steering
    /\ steering' = steering \ {s}
    /\ \/ RelayRoom /\ relay' = Append(relay, Msg("steered", s.gen, s.on, TRUE))
       \/ UNCHANGED relay
    /\ UNCHANGED <<callers, actor, shard, facts, ready, io, activeGen, active, aborted,
                   aborts, killed, folded>>
-----------------------------------------------------------------------------

Init ==
    /\ remembered = <<>> /\ submitting = {} /\ closing = FALSE
    /\ status = "running" /\ announce = FALSE /\ generation = 1 /\ mailbox = <<>>
    /\ current = {} /\ pending = <<>> /\ attempts = [d \in Delivery |-> 0]
    /\ shutting = FALSE /\ recovering = FALSE /\ recovery = <<>>
    /\ inFlight = {} /\ results = <<>> /\ ready = {} /\ relay = <<>>
    /\ slot = <<>> /\ pc = "connecting" /\ work = {}
    /\ decision = "none" /\ stopping = FALSE
    /\ activeGen = 0 /\ active = FALSE /\ aborted = {} /\ aborts = {} /\ steering = {}
    /\ killed = FALSE /\ folded = {}

CallerStep ==
    \/ \E d \in Delivery : Admit(d) \/ Tell(d) \/ AskSteer(d)
    \/ AskClose \/ Drain

Handle == Enqueue \/ Complete \/ Fail \/ Steer \/ Steered \/ Recovered \/ Close

ActorStep == Handle \/ Raise \/ Failed \/ Build \/ Run \/ Announce

PumpStep ==
    \/ Connect \/ NeverConnects \/ Take \/ StopsWaiting \/ Ask \/ Asked \/ InterruptRaises
    \/ Answer \/ Clear \/ ErrorWhenAborted \/ ErrorBeforeTurn \/ ErrorInTurn \/ Decided \/ Undecided

NativeStep ==
    \/ \E a \in aborts : AbortDone(a)
    \/ \E s \in steering : SteerDone(s)

Next == CallerStep \/ Deliver \/ ActorStep \/ PumpStep \/ NativeStep

Spec == Init /\ [][Next]_vars

-----------------------------------------------------------------------------
(* Properties *)

Messages ==
    [kind : {"enqueue", "completed", "failed", "steer", "steered", "ready", "close"},
     gen : 0..(MaxRestarts + 1), on : SUBSET Delivery, yes : BOOLEAN]

Requests == [gen : 0..(MaxRestarts + 1), on : SUBSET Delivery]

ActorOK ==
    /\ status \in {"running", "failing", "pending", "built", "quarantined"}
    /\ announce \in BOOLEAN /\ generation \in Gen
    /\ mailbox \in Seq(Messages) /\ Len(mailbox) <= Capacity
    /\ current \subseteq Delivery /\ pending \in Seq(Delivery)
    /\ attempts \in [Delivery -> 0..MaxAttempts]
    /\ shutting \in BOOLEAN /\ recovering \in BOOLEAN /\ recovery \in Seq(Delivery)
    /\ inFlight \subseteq Delivery /\ results \in Seq(Delivery)
    /\ ready \subseteq Requests

PumpOK ==
    /\ slot \in Seq(Requests) /\ Len(slot) <= 1
    /\ pc \in {"connecting", "idle", "checking", "asking", "running", "finished", "failing", "dead"}
    /\ work \subseteq [gen : Gen, on : SUBSET Delivery, tries : Nat]
    /\ pc \in {"checking", "asking", "running", "finished", "failing"} => work # {}
    /\ decision \in {"none", "retry", "abandon"} /\ stopping \in BOOLEAN
    /\ activeGen \in 0..(MaxRestarts + 1) /\ active \in BOOLEAN /\ aborted \subseteq Gen

\* Type correctness.
TypeOK ==
    /\ remembered \in Seq(Delivery) /\ Len(remembered) <= Capacity
    /\ submitting \subseteq Delivery /\ closing \in BOOLEAN
    /\ ActorOK /\ PumpOK
    /\ relay \in Seq(Messages) /\ Len(relay) <= RelaySize
    /\ aborts \subseteq [gen : Gen, on : SUBSET Delivery, how : {"latched", "interrupt"}]
    /\ steering \subseteq Requests /\ killed \in BOOLEAN /\ folded \subseteq Delivery

\* Where the turn of this generation is: in the slot, at the pump, or in an
\* answer on its way to the actor.
InSlot == {i \in 1..Len(slot) : slot[i].gen = generation}
AtPump ==
    {w \in work : /\ w.gen = generation
                  /\ \/ pc \in {"connecting", "checking", "asking", "running"}
                     \/ pc = "failing" /\ decision = "retry"}
IsAnswer(m) == m.kind \in {"completed", "failed"} /\ m.gen = generation
InRelay == {i \in 1..Len(relay) : IsAnswer(relay[i])}
InMailbox == {i \in 1..Len(mailbox) : IsAnswer(mailbox[i])}

Holders ==
    Cardinality(InSlot) + Cardinality(AtPump) + Cardinality(InRelay) + Cardinality(InMailbox)

Concerned ==
    {slot[i].on : i \in InSlot} \cup {w.on : w \in AtPump}
    \cup {relay[i].on : i \in InRelay} \cup {mailbox[i].on : i \in InMailbox}

\* The turn the actor believes to be running is in exactly one place: its
\* request in the slot, its work at the pump, or its answer in the relay or the
\* mailbox.  No turn is there when the actor has none, so that nothing is ever
\* settled by the answer of another start, and only the end of the pump loses it.
\* The projection shows that turn, and an idle one shows none.
TurnHeldOnce ==
    Alive =>
        /\ Concerned \subseteq {current}
        /\ inFlight = current
        /\ Holders <= 1
        /\ Holders = 0 => current = {} \/ pc = "dead"

\* A delivery the gate has remembered is somewhere it will be answered from:
\* being told, in the mailbox, queued, running, to be recovered, or answered.
\* (A delivery folded into another turn has no answer of its own, and neither
\* has one that waits in a quarantined or closing actor.)
Whereabouts ==
    submitting \cup current \cup Elements(pending) \cup Elements(recovery) \cup Elements(results)
    \cup UNION {mailbox[i].on : i \in {j \in 1..Len(mailbox) : mailbox[j].kind = "enqueue"}}

NothingForgotten ==
    Alive /\ ~ shutting => Elements(remembered) \subseteq Whereabouts \cup folded

\* Until the first failure of the actor a delivery is in one of those places
\* only: no admission leads to two turns, nor to two results.
Occurrences(d) ==
    Cardinality({i \in 1..Len(pending) : pending[i] = d})
    + Cardinality({i \in 1..Len(results) : results[i] = d})
    + Cardinality({i \in 1..Len(mailbox) : mailbox[i].kind = "enqueue" /\ d \in mailbox[i].on})
    + Cardinality({s \in {submitting, current} : d \in s})

OncePerAdmission ==
    generation = 1 /\ Alive => \A d \in Delivery : Occurrences(d) <= 1

\* A start of a turn makes at most MaxAttempts native queries, whatever
\* reconnections, lost decisions and failures of the actor come in between.
AttemptsBounded == \A w \in work : w.tries <= MaxAttempts

\* A pump that waits for a decision is not waiting in vain: while the actor of its
\* generation runs, the question is on its way.  (Otherwise its wait times out,
\* and the pump ends.)
DecisionUnderWay ==
    Alive /\ pc = "failing" /\ decision = "none" /\ (\E w \in work : w.gen = generation)
        => InRelay # {} \/ InMailbox # {}

-----------------------------------------------------------------------------
(* Liveness *)

\* The threads run; the daemon drains the results; a client connects, answers
\* or fails in the end; and what is retried while a queue is full gets its turn.
Fairness ==
    /\ \A d \in Delivery : WF_vars(Tell(d))
    /\ WF_vars(Drain) /\ SF_vars(Deliver)
    /\ WF_vars(Handle) /\ WF_vars(Failed) /\ WF_vars(Build) /\ WF_vars(Run)
    /\ WF_vars(Announce)
    /\ WF_vars(Connect) /\ WF_vars(Take) /\ SF_vars(Ask \/ Answer)
    /\ WF_vars(Asked \/ InterruptRaises \/ ErrorInTurn \/ ErrorWhenAborted)
    /\ WF_vars(Answer \/ ErrorInTurn)
    /\ WF_vars(Clear) /\ WF_vars(Decided) /\ WF_vars(Undecided)
    /\ WF_vars(\E a \in aborts : AbortDone(a))

FairSpec == Spec /\ Fairness

\* The recovery waits for a notice that is nowhere any more.
RecoveryLost ==
    /\ Alive /\ recovering /\ ~ announce /\ aborts = {}
    /\ \A i \in 1..Len(relay) : relay[i].kind # "ready"
    /\ \A i \in 1..Len(mailbox) : mailbox[i].kind # "ready"

\* An admitted delivery is answered and released in the end, unless it is folded
\* into another turn, its process is stopped or its pump has ended, or the actor
\* is quarantined or has lost its recovery.
Answered ==
    \A d \in Delivery :
        d \in Elements(remembered) ~>
            \/ d \notin Elements(remembered) \/ d \in folded
            \/ closing \/ pc = "dead" \/ status = "quarantined" \/ RecoveryLost

-----------------------------------------------------------------------------
(* What the code's own texts say *)

\* "Never restarts same turn": no native turn begins for a delivery whose result
\* is published and waits to be drained.
AnsweredNotRun ==
    [][pc = "asking" /\ pc' = "running"
        => \A w \in work : w.on \cap Elements(results) = {}]_vars
=============================================================================
