---------------------------- MODULE ReplyLedger ----------------------------
(***************************************************************************)
(* Replies of one agent to one peer over a send-link: the requests in the  *)
(* inbox, the durable link ledger and the replies in the outbox (one       *)
(* SQLite database, changed only by the inbox actor), the link gate's      *)
(* memory of them, the message.reply calls on the IPC threads, and the     *)
(* passes of the link service, which works on snapshots of the database    *)
(* and sends back one update per pass.                                     *)
(***************************************************************************)
EXTENDS Naturals, FiniteSets

CONSTANTS
    Request,      \* requests the peer sends; a reply is named by its request
    MaxRestarts   \* bound: restarts of the daemon

ASSUME BoundsAssumption == MaxRestarts \in Nat

VARIABLES
    \* inbox: absent, pending, terminal (its turns failed), consumed, gone
    original,
    \* link_ledger: the inbound row of the request, and whether it is past its
    \* expires_at_ms, when the link service does not see it any more
    ledger, aged,
    \* outbox: the row of the reply, and where it went: none, held, queued,
    \* sent, expired (its TTL), refused (failed by the link service)
    reply,
    \* actor_submission_receipts: none, queued, sent
    receipt,
    \* the inbox actor is between admitting a pull and stamping it
    pulling,
    \* the link as the files show it: open, away (a copy is missing), reclaimed
    link,
    \* gate memory (_ActorState): pending_inbound, censored_inbound, admitted,
    \* settled, drained, pending_drain, held
    pending, censored, admitted, settled, drained, pendingDrain, held,
    \* message.reply: its step, and "the original was pending when read"
    call, live,
    \* the service thread: its step, the snapshots and the update in hand
    step, snap, update,
    \* bound
    restarts

inbox  == <<original, ledger, aged, reply, receipt, pulling>>
seats  == <<pending, censored, admitted, settled>>
gate   == <<seats, drained, pendingDrain, held>>
caller == <<call, live>>
thread == <<step, snap, update>>
vars   == <<inbox, link, gate, caller, thread, restarts>>

Live    == {"open", "censored"}
Settled == {"closed", "acked", "expired", "drained"}

\* The row still stands in the inbox table, not consumed.
Unconsumed(m) == original[m] \in {"pending", "terminal"}

NoSnap   == [ledger |-> [m \in Request |-> "none"], held |-> {}]
NoUpdate == [release |-> {}, fail |-> {}, drain |-> {}, censor |-> {}]

Init ==
    /\ original = [m \in Request |-> "absent"]
    /\ ledger = [m \in Request |-> "none"] /\ aged = {}
    /\ reply = [m \in Request |-> "none"]
    /\ receipt = [m \in Request |-> "none"] /\ pulling = {}
    /\ link = "open"
    /\ pending = {} /\ censored = {} /\ admitted = {} /\ settled = {}
    /\ drained = {} /\ pendingDrain = {} /\ held = {}
    /\ call = [m \in Request |-> "idle"] /\ live = {}
    /\ step = "idle" /\ snap = NoSnap /\ update = NoUpdate
    /\ restarts = 0

\* The ledger with the live rows of the requests S moved to state.
Moved(S, state) ==
    [m \in Request |->
        IF m \in S /\ ledger[m] \in Live THEN state ELSE ledger[m]]

\* service.ack: consumes a pending row, never one that failed for good.
Ack(S) ==
    LET done == {m \in S : original[m] = "pending"}
    IN  /\ original' = [m \in Request |->
                IF m \in done THEN "consumed" ELSE original[m]]
        /\ ledger' = Moved(done, "acked")

-----------------------------------------------------------------------------
(* The inbox actor *)

Arrive(m) ==
    /\ original[m] = "absent" /\ pulling = {}
    /\ original' = [original EXCEPT ![m] = "pending"]
    /\ UNCHANGED <<ledger, aged, reply, receipt, pulling, link, gate, caller,
                   thread, restarts>>

\* admit_dispatch: admitted before, settled, or over an open link.
MayPull(m) ==
    \/ m \in admitted
    \/ m \in settled \ drained
    \/ m \notin settled /\ link = "open"

PullAdmit(m) ==
    /\ original[m] = "pending" /\ pulling = {} /\ MayPull(m)
    \* a row that has its ledger row is stamped without further ado
    /\ pulling' = IF ledger[m] = "none" THEN {m} ELSE {}
    /\ IF m \in admitted \cup settled
       THEN UNCHANGED <<admitted, pending>>
       ELSE admitted' = admitted \cup {m} /\ pending' = pending \cup {m}
    /\ UNCHANGED <<original, ledger, aged, reply, receipt, link, censored, settled,
                   drained, pendingDrain, held, caller, thread, restarts>>

\* The ledger row is written with the stamp; only then is the gate told.
PullStamp(m) ==
    /\ m \in pulling
    /\ pulling' = {}
    /\ IF ledger[m] = "none"
       THEN /\ ledger' = [ledger EXCEPT ![m] = "open"]
            /\ admitted' = admitted \cup {m} /\ pending' = pending \cup {m}
       ELSE UNCHANGED <<ledger, admitted, pending>>
    /\ UNCHANGED <<original, aged, reply, receipt, link, censored, settled, drained,
                   pendingDrain, held, caller, thread, restarts>>

\* message.ack, or a turn that needs no reply.
AckOnly(m) ==
    /\ original[m] = "pending" /\ pulling = {}
    /\ Ack({m})
    /\ UNCHANGED <<aged, reply, receipt, pulling, link, gate, caller, thread,
                   restarts>>

\* Its turns failed for good: the row stays, but nothing is owed any more.
GiveUp(m) ==
    /\ original[m] = "pending" /\ ledger[m] # "none" /\ pulling = {}
    /\ original' = [original EXCEPT ![m] = "terminal"]
    /\ UNCHANGED <<ledger, aged, reply, receipt, pulling, link, gate, caller,
                   thread, restarts>>

Prune(m) ==     \* mutant: the rows go, the ledger is not told
    /\ Unconsumed(m) /\ pulling = {}
    /\ ledger[m] = "open" => m \in aged
    /\ original' = [original EXCEPT ![m] = "gone"]
    /\ UNCHANGED <<ledger, aged, reply, receipt, pulling, link, gate, caller,
                   thread, restarts>>
Expire(m) ==
    /\ Unconsumed(m) /\ pulling = {}
    \* the ledger row ages with the request, or later if it is censored
    /\ ledger[m] = "open" => m \in aged
    /\ original' = [original EXCEPT ![m] = "gone"]
    /\ ledger' = Moved({m}, "expired")
    /\ UNCHANGED <<aged, reply, receipt, pulling, link, gate, caller, thread,
                   restarts>>

\* The expires_at_ms of the ledger row passes: the request's own, or a TTL from
\* the update that censored or drained it.
Age(m) ==
    /\ ledger[m] # "none" /\ m \notin aged
    /\ aged' = aged \cup {m}
    /\ UNCHANGED <<original, ledger, reply, receipt, pulling, link, gate, caller,
                   thread, restarts>>

\* The retry pump sends a reply that is not held; its receipt is advanced and
\* the original acknowledged.
SendQueued(m) ==
    /\ reply[m] = "queued" /\ pulling = {}
    /\ reply' = [reply EXCEPT ![m] = "sent"]
    /\ receipt' = IF receipt[m] = "queued" THEN [receipt EXCEPT ![m] = "sent"]
                                           ELSE receipt
    /\ Ack({m})
    /\ UNCHANGED <<aged, pulling, link, gate, caller, thread, restarts>>

\* The TTL of the reply; its receipt stays as it is.
ExpireReply(m) ==
    /\ reply[m] \in {"held", "queued"} /\ pulling = {}
    /\ reply' = [reply EXCEPT ![m] = "expired"]
    /\ UNCHANGED <<original, ledger, aged, receipt, pulling, link, gate, caller,
                   thread, restarts>>

-----------------------------------------------------------------------------
(* message.reply *)

\* The call is over: an error, or an answer that says the reply is queued.
Return(m) ==
    /\ call' = [call EXCEPT ![m] = "idle"]
    /\ live' = live \ {m}

\* The original is pending; or it is retained and a receipt can be joined.
Read(m) ==
    /\ call[m] = "idle"
    /\ \/ original[m] = "pending"
       \/ original[m] \in {"terminal", "consumed"} /\ receipt[m] # "none"
    /\ call' = [call EXCEPT ![m] = "read"]
    /\ live' = IF original[m] = "pending" THEN live \cup {m} ELSE live \ {m}
    /\ UNCHANGED <<inbox, link, gate, thread, restarts>>

\* admit_send: the gate's memory, or else the inbox row, has the request.
Replyable(m) == m \in pending \cup censored \/ Unconsumed(m)

Decide(m) ==
    /\ call[m] = "read"
    /\ IF m \in drained \/ ~Replyable(m) \/ link = "reclaimed" THEN Return(m)
       ELSE /\ call' = [call EXCEPT ![m] =
                           IF link = "open" THEN "allow" ELSE "hold"]
            /\ UNCHANGED live
    /\ UNCHANGED <<inbox, link, gate, thread, restarts>>

\* _insert_outbox: INSERT OR IGNORE, so a held row that is there stays held.
Inserted(m, state) ==
    IF reply[m] \in {"held", "queued"} THEN reply
                                       ELSE [reply EXCEPT ![m] = state]

\* A submit that finds a receipt answers from it and inserts nothing.
JoinReplacing(m) ==     \* mutant: it replaces the row that is held
    /\ call[m] \in {"allow", "hold"} /\ receipt[m] # "none" /\ pulling = {}
    /\ IF call[m] = "hold" THEN Return(m) /\ UNCHANGED reply
       ELSE /\ call' = [call EXCEPT ![m] = "submitted"] /\ UNCHANGED live
            /\ reply' = IF reply[m] = "held" THEN [reply EXCEPT ![m] = "queued"]
                                            ELSE reply
    /\ UNCHANGED <<original, ledger, aged, receipt, pulling, link, gate, thread,
                   restarts>>
Join(m) ==
    /\ call[m] \in {"allow", "hold"} /\ receipt[m] # "none" /\ pulling = {}
    /\ IF call[m] = "hold" THEN Return(m)
       ELSE call' = [call EXCEPT ![m] = "submitted"] /\ UNCHANGED live
    /\ UNCHANGED <<inbox, link, gate, thread, restarts>>

\* The receipt is for another text: refused, but an answered original is
\* acknowledged.
Conflict(m) ==
    /\ call[m] \in {"allow", "hold"} /\ receipt[m] # "none" /\ pulling = {}
    /\ Ack(IF receipt[m] = "sent" THEN {m} \cap live ELSE {})
    /\ Return(m)
    /\ UNCHANGED <<aged, reply, receipt, pulling, link, gate, thread, restarts>>

SubmitHeld(m) ==
    /\ call[m] = "hold" /\ receipt[m] = "none" /\ pulling = {}
    /\ reply' = Inserted(m, "held")
    /\ receipt' = [receipt EXCEPT ![m] = "queued"]
    /\ Return(m)
    /\ UNCHANGED <<original, ledger, aged, pulling, link, gate, thread, restarts>>

\* The row and the close of the request are one transaction; the first
\* attempt at delivery follows, and its outcome is the receipt.
SubmitAllowed(m) ==
    /\ call[m] = "allow" /\ receipt[m] = "none" /\ pulling = {}
    /\ ledger' = Moved({m}, "closed")
    /\ \E result \in {"queued", "sent"} :
          /\ reply' = IF result = "sent" THEN [reply EXCEPT ![m] = "sent"]
                                         ELSE Inserted(m, "queued")
          /\ receipt' = [receipt EXCEPT ![m] = result]
    /\ call' = [call EXCEPT ![m] = "submitted"]
    /\ UNCHANGED <<original, aged, pulling, link, gate, live, thread, restarts>>

\* gate.submitted frees the seat (once: a call that comes so far is the last).
Note(m) ==
    /\ call[m] = "submitted"
    /\ pending' = pending \ {m} /\ censored' = censored \ {m}
    /\ call' = [call EXCEPT ![m] = "noted"]
    /\ UNCHANGED <<inbox, link, admitted, settled, drained, pendingDrain, held,
                   live, thread, restarts>>

\* The agent is told that its reply is replied, and does not call again.
Finish(m) ==
    /\ call[m] = "noted" /\ pulling = {}
    /\ Ack({m} \cap live)
    /\ call' = [call EXCEPT ![m] = "done"]
    /\ live' = live \ {m}
    /\ UNCHANGED <<aged, reply, receipt, pulling, link, gate, thread, restarts>>

\* The submit was executed, but its caller has timed out.
TimeOut(m) ==
    /\ call[m] = "submitted"
    /\ Return(m)
    /\ UNCHANGED <<inbox, link, gate, thread, restarts>>

-----------------------------------------------------------------------------
(* A pass of the link service *)

\* link_ledger_snapshot leaves out the rows that are past their time;
\* link_held_outbox leaves out none.
Snapshot ==
    /\ step = "idle"
    /\ snap' = [ledger |-> [m \in Request |->
                              IF m \in aged THEN "none" ELSE ledger[m]],
                held |-> {m \in Request : reply[m] = "held"}]
    /\ step' = "merge"
    /\ UNCHANGED <<inbox, link, gate, caller, update, restarts>>

\* _merge_held and _reconcile.
Known(states) == {m \in Request : snap.ledger[m] \in states}

MergeOpen ==    \* mutant: rows that are settled do not free their seat
    /\ step = "merge"
    /\ held' = snap.held
    /\ admitted' = admitted \cup Known({"open"})
    /\ pending' = pending \cup Known({"open"})
    /\ censored' = (censored \ Known(Settled)) \cup Known({"censored"})
    /\ settled' = settled \cup Known(Settled)
    /\ drained' = drained \cup Known({"drained"})
    /\ snap' = NoSnap /\ step' = "links"
    /\ UNCHANGED <<inbox, link, pendingDrain, caller, update, restarts>>
MergeLedger ==  \* mutant: the held rows of the snapshot are not taken over
    /\ step = "merge"
    /\ admitted' = (admitted \ Known(Settled)) \cup Known({"open"})
    /\ pending' = (pending \ Known(Settled)) \cup Known({"open"})
    /\ censored' = (censored \ Known(Settled)) \cup Known({"censored"})
    /\ settled' = settled \cup Known(Settled)
    /\ drained' = drained \cup Known({"drained"})
    /\ snap' = NoSnap /\ step' = "links"
    /\ UNCHANGED <<inbox, link, held, pendingDrain, caller, update, restarts>>
Merge ==
    /\ step = "merge"
    /\ held' = snap.held
    /\ admitted' = (admitted \ Known(Settled)) \cup Known({"open"})
    /\ pending' = (pending \ Known(Settled)) \cup Known({"open"})
    /\ censored' = (censored \ Known(Settled)) \cup Known({"censored"})
    /\ settled' = settled \cup Known(Settled)
    /\ drained' = drained \cup Known({"drained"})
    /\ snap' = NoSnap /\ step' = "links"
    /\ UNCHANGED <<inbox, link, pendingDrain, caller, update, restarts>>

\* _reclaim: the live rows are read first (inbound_live), ...
ReclaimRead ==
    /\ step = "links" /\ link # "reclaimed"
    /\ update' = [update EXCEPT !.drain =
            {m \in Request : original[m] = "pending"}]
    /\ step' = "mark"
    /\ UNCHANGED <<inbox, link, gate, caller, snap, restarts>>

\* ... then what the gate knows is added and marked as drained, ...
ReclaimUnmarked ==      \* mutant: the residue is not marked
    /\ step = "mark"
    /\ LET residue == update.drain \cup pending \cup censored
       IN  /\ update' = [update EXCEPT !.drain = residue]
           /\ pendingDrain' = pendingDrain \cup residue
           /\ admitted' = admitted \ residue /\ pending' = pending \ residue
           /\ censored' = censored \ residue
    /\ link' = "reclaimed" /\ step' = "drain"
    /\ UNCHANGED <<inbox, settled, drained, held, caller, snap, restarts>>
ReclaimMark ==
    /\ step = "mark"
    /\ LET residue == update.drain \cup pending \cup censored
       IN  /\ update' = [update EXCEPT !.drain = residue]
           /\ drained' = drained \cup residue
           /\ pendingDrain' = pendingDrain \cup residue
           /\ admitted' = admitted \ residue /\ pending' = pending \ residue
           /\ censored' = censored \ residue
    /\ link' = "reclaimed" /\ step' = "drain"
    /\ UNCHANGED <<inbox, settled, held, caller, snap, restarts>>

\* _drain_one_locked: a live ledger row, or an inbox row the ledger never saw.
Drainable(S) ==
    {m \in S : \/ ledger[m] \in Live \cup {"drained"}
               \/ ledger[m] = "none" /\ original[m] \notin {"absent", "gone"}}

\* What an update makes of the database: one transaction on the inbox actor.
Execute(u) ==
    LET released == {m \in u.release : reply[m] = "held" /\ Unconsumed(m)}
        refused  == {m \in u.release \cup u.fail : reply[m] = "held"} \ released
        gone     == Drainable(u.drain)
    IN  /\ original' = [m \in Request |->
                IF m \in released \/ (m \in gone /\ original[m] # "gone")
                THEN "consumed" ELSE original[m]]
        /\ reply' = [m \in Request |-> IF m \in released THEN "queued"
                                       ELSE IF m \in refused THEN "refused"
                                       ELSE reply[m]]
        /\ ledger' = [m \in Request |->
                IF m \in released /\ ledger[m] \in Live THEN "closed"
                ELSE IF m \in gone THEN "drained"
                ELSE IF m \in u.censor /\ ledger[m] = "open" THEN "censored"
                ELSE ledger[m]]
        \* a drain or a censoring gives the row a whole TTL again
        /\ aged' = aged \ (gone \cup {m \in u.censor : ledger'[m] = "censored"
                                                     /\ ledger[m] = "open"})

\* An update is executed and answered; executed, but its answer is late; or
\* refused. The service takes the last two for a failure.
Outcome == {"answered", "unseen", "refused"}

\* ... and only then the database is told; what fails stays in pending_drain.
ReclaimDrain(outcome) ==
    /\ step = "drain" /\ pulling = {}
    /\ IF outcome = "refused" THEN UNCHANGED <<original, ledger, aged, reply>>
                              ELSE Execute(update)
    /\ pendingDrain' = IF outcome = "answered"
                       THEN pendingDrain \ update.drain ELSE pendingDrain
    /\ update' = NoUpdate /\ step' = "control"
    /\ UNCHANGED <<receipt, pulling, link, seats, drained, held, caller,
                   snap, restarts>>

\* _run_controllers: requests past their threshold give up their seats.
Control ==
    /\ step \in {"links", "control"}
    \* a request that is just being admitted cannot be past it
    /\ \E late \in SUBSET (pending \ (censored \cup pulling)) :
          /\ censored' = censored \cup late
          /\ pending' = pending \ late /\ admitted' = admitted \ late
          /\ update' = [update EXCEPT !.censor = late]
    /\ step' = "holds"
    /\ UNCHANGED <<inbox, link, settled, drained, pendingDrain, held,
                   caller, snap, restarts>>

\* _evaluate_holds asks the policy again, this time with pending_inbound only;
\* drains that failed are sent again with the update.
EvaluateOnce ==     \* mutant: a drain that failed is not sent again
    /\ step = "holds"
    /\ LET fails == {m \in held : m \in drained \/ m \notin pending
                                  \/ link = "reclaimed"}
       IN  update' = [update EXCEPT
                !.fail = fails,
                !.release = IF link = "open" THEN held \ fails ELSE {}]
    /\ step' = "apply"
    /\ UNCHANGED <<inbox, link, gate, caller, snap, restarts>>
EvaluateHolds ==
    /\ step = "holds"
    /\ LET fails == {m \in held : m \in drained \/ m \notin pending
                                  \/ link = "reclaimed"}
       IN  update' = [update EXCEPT
                !.fail = fails,
                !.release = IF link = "open" THEN held \ fails ELSE {},
                !.drain = pendingDrain]
    /\ step' = "apply"
    /\ UNCHANGED <<inbox, link, gate, caller, snap, restarts>>

Apply(outcome) ==
    /\ step = "apply" /\ pulling = {}
    /\ IF outcome = "refused" THEN UNCHANGED <<original, ledger, aged, reply>>
                              ELSE Execute(update)
    /\ IF outcome = "answered"
       THEN /\ step' = "learn"
            \* the answer: rows released, rows failed, requests drained
            /\ update' =
                [release |-> {m \in update.release : reply'[m] = "queued"},
                 fail |-> {m \in update.release \cup update.fail :
                               reply[m] = "held" /\ reply'[m] = "refused"},
                 drain |-> Drainable(update.drain), censor |-> {}]
       ELSE step' = "idle" /\ update' = NoUpdate
    /\ UNCHANGED <<receipt, pulling, link, gate, caller, snap, restarts>>

\* _merge_apply.
Learn ==
    /\ step = "learn"
    /\ pending' = pending \ update.release
    /\ censored' = censored \ update.release
    /\ held' = held \ (update.release \cup update.fail)
    /\ pendingDrain' = pendingDrain \ update.drain
    /\ update' = NoUpdate /\ step' = "idle"
    /\ UNCHANGED <<inbox, link, admitted, settled, drained, caller,
                   snap, restarts>>

-----------------------------------------------------------------------------
(* The link files, and the daemon *)

LinkMoves ==
    /\ \/ link = "open" /\ link' = "away"
       \/ link # "open" /\ link' = "open"
       \/ link = "reclaimed" /\ link' = "away"
    /\ UNCHANGED <<inbox, gate, caller, thread, restarts>>

\* _rebuild: the gate's memory is read back from the same snapshot.
In(states) == {m \in Request \ aged : ledger'[m] \in states}

Rebuild ==
    /\ pending' = In({"open"}) /\ admitted' = In({"open"})
    /\ censored' = In({"censored"}) /\ settled' = In(Settled)
    /\ drained' = In({"drained"}) /\ pendingDrain' = {}
    /\ held' = {m \in Request : reply'[m] = "held"}
    /\ link' = IF link = "reclaimed" THEN "away" ELSE link
    /\ call' = [m \in Request |-> "idle"] /\ live' = {}
    /\ step' = "idle" /\ snap' = NoSnap /\ update' = NoUpdate
    /\ pulling' = {}
    /\ restarts < MaxRestarts /\ restarts' = restarts + 1

Restart ==
    /\ UNCHANGED <<original, ledger, aged, reply, receipt>>
    /\ Rebuild

\* The row of a submit is committed and its receipt is not.
RestartInSubmit(m) ==
    /\ call[m] \in {"allow", "hold"} /\ receipt[m] = "none" /\ pulling = {}
    /\ reply' = Inserted(m, IF call[m] = "hold" THEN "held" ELSE "queued")
    /\ ledger' = IF call[m] = "allow" THEN Moved({m}, "closed") ELSE ledger
    /\ UNCHANGED <<original, aged, receipt>>
    /\ Rebuild

Inbox(m) ==
    \/ Arrive(m) \/ PullAdmit(m) \/ PullStamp(m) \/ AckOnly(m) \/ GiveUp(m)
    \/ Expire(m) \/ Age(m) \/ SendQueued(m) \/ ExpireReply(m)
Reply(m) ==
    \/ Read(m) \/ Decide(m) \/ Join(m) \/ Conflict(m) \/ SubmitHeld(m)
    \/ SubmitAllowed(m) \/ Note(m) \/ Finish(m) \/ TimeOut(m)
Pass ==
    \/ Snapshot \/ Merge \/ ReclaimRead \/ ReclaimMark
    \/ \E outcome \in Outcome : ReclaimDrain(outcome) \/ Apply(outcome)
    \/ Control \/ EvaluateHolds \/ Learn

Next ==
    \/ \E m \in Request : Inbox(m) \/ Reply(m) \/ RestartInSubmit(m)
    \/ Pass \/ LinkMoves \/ Restart

Spec == Init /\ [][Next]_vars

\* The inbox actor and the service thread run on, and updates are not refused
\* for ever. Nothing is assumed of agents, peers, links or the sends.
FairSpec ==
    /\ Spec
    /\ WF_vars(Pass)
    /\ WF_vars(\E m \in Request : PullStamp(m))
    /\ SF_vars(Apply("answered"))

-----------------------------------------------------------------------------
(* Properties *)

Ledger == {"none"} \cup Live \cup Settled

InboxOK ==
    /\ original \in [Request ->
            {"absent", "pending", "terminal", "consumed", "gone"}]
    /\ ledger \in [Request -> Ledger] /\ aged \subseteq Request
    /\ reply \in [Request ->
            {"none", "held", "queued", "sent", "expired", "refused"}]
    /\ receipt \in [Request -> {"none", "queued", "sent"}]
    /\ pulling \subseteq Request

GateOK ==
    /\ link \in {"open", "away", "reclaimed"}
    /\ pending \subseteq Request /\ censored \subseteq Request
    /\ admitted \subseteq Request /\ settled \subseteq Request
    /\ drained \subseteq Request /\ held \subseteq Request
    /\ pendingDrain \subseteq drained

CallOK ==
    /\ call \in [Request ->
            {"idle", "read", "allow", "hold", "submitted", "noted", "done"}]
    /\ live \subseteq Request

ThreadOK ==
    /\ step \in {"idle", "merge", "links", "mark", "drain", "control",
                "holds", "apply", "learn"}
    /\ snap \in [ledger : [Request -> Ledger], held : SUBSET Request]
    /\ update \in [release : SUBSET Request, fail : SUBSET Request,
                   drain : SUBSET Request, censor : SUBSET Request]

\* Every field keeps its range; a drain that is to be repeated is of a request
\* the gate has marked as drained, so that no new reply to it is admitted.
TypeOK ==
    /\ InboxOK /\ GateOK /\ CallOK /\ ThreadOK
    /\ restarts \in 0..MaxRestarts

\* A live ledger row, which a restart turns into a seat or a censored record,
\* stands for a request that is still in the inbox: whatever consumes, drains
\* or prunes the request settles its ledger row in the same transaction.
LedgerBacked ==
    \A m \in Request : ledger[m] \in Live => Unconsumed(m)

\* The held reply to a request that has been drained is never released: not
\* by an update that was decided before, nor by one repeated after a failure
\* or a restart. (A submit that has no receipt yet may still send it.)
DrainedNotReleased ==
    [][\A m \in Request :
         ledger[m] = "drained" /\ reply[m] = "held" /\ receipt[m] # "none"
            => reply'[m] \in {"held", "refused", "expired"}]_vars

\* The row has aged out of the snapshots before a pass has seen it settled.
Unnoticed(m) == m \in aged \ settled

\* A settled request gives up its seat in the window for good, although a
\* pass may merge a snapshot that was taken while it was open; unless its row
\* ages out of the snapshots before a pass has seen it settled.
SeatFreed ==
    \A m \in Request :
        <>[](ledger[m] \in Settled /\ ~Unnoticed(m)) => <>[](m \notin pending)

\* What a reclaim has marked as drained becomes settled in the ledger, though
\* the update fails; unless the daemon restarts or the request is pruned first.
DrainLands ==
    \A m \in Request :
        []<>(m \in drained => ledger[m] \in Settled \/ original[m] = "gone")

\* Over a link that stays open, no reply stays held: it is released or fails.
HeldIsDecided ==
    \A m \in Request : <>[](link = "open") => []<>(reply[m] # "held")

\* send.py: "A held reply must not acknowledge the original". An agent that is
\* told its reply is replied has a reply that is not held nor refused.
RepliedIsOnItsWay ==
    \A m \in Request : call[m] = "done" => reply[m] \notin {"held", "refused"}

\* wp2.md 3.1: a request that is censored and still pending can be replied to.
\* The link service fails no held reply to a request that is injected, in the
\* inbox and not drained.
CensoredStaysReplyable ==
    [][\A m \in Request :
         (/\ reply[m] = "held" /\ reply'[m] = "refused"
          /\ original[m] = "pending" /\ ledger[m] \in Live)
            => m \in drained]_vars
=============================================================================
