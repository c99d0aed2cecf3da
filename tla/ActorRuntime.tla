---------------------------- MODULE ActorRuntime ----------------------------
(***************************************************************************)
(* The actor runtime of the daemon: the guardian's record of one child,    *)
(* the endpoints (thread, mailbox and admission gate) of its generations,  *)
(* the restart timer, and the threads that tell, stop, reset and drain it. *)
(*                                                                         *)
(* Children share only the draining flag, so one child stands for all.     *)
(* The guardian's lock makes its steps atomic; a tell holds it across two  *)
(* steps, since the gate and the mailbox are not protected by it.          *)
(***************************************************************************)
EXTENDS Naturals, Sequences

CONSTANTS
    Cmd,          \* commands, each told once
    Stop,         \* the stop message of the thread library
    Capacity,     \* mailbox_capacity
    MaxRestarts,  \* max_restarts of the supervision policy
    MaxGen        \* bound: generations

Gen == 1..MaxGen

ASSUME StopAssumption == Stop \notin Cmd
ASSUME LimitsAssumption ==
    Capacity \in Nat \ {0} /\ MaxRestarts \in Nat /\ MaxGen \in Nat \ {0}

VARIABLES
    \* the guardian: the child's record, the draining flag, and the command for
    \* which a teller holds the lock
    state, generation, endpoint, failures, neverBegun, draining, telling,
    \* the scheduler's entry, the restarts still to be scheduled, the restart
    \* a timer callback works on and how far it is
    timer, owed, restarting, step,
    \* the endpoint of each generation: its thread, gate, mailbox and command
    alive, closed, queued, inbox, phase, current,
    \* the stopping and the draining thread, and the endpoint each waits for
    pc, target,
    \* commands taken from the record to be given to the undelivered sink
    handing,
    \* what became of the commands
    accepted, begun, returned

record    == <<state, generation, endpoint, failures, neverBegun>>
guardian  == <<record, draining, telling>>
scheduler == <<timer, owed, restarting, step>>
gates     == <<closed, queued>>
threads   == <<alive, inbox, phase, current>>
stoppers  == <<pc, target>>
world     == <<accepted, begun, returned>>
vars == <<guardian, scheduler, gates, threads, stoppers, handing, world>>

Custody == INSTANCE CommandCustody WITH Cmd <- Cmd, accepted <- accepted,
                                        begun <- begun, returned <- returned

Unlocked == telling = {}

Elements(q) == {q[i] : i \in 1..Len(q)}

Busy(g) == phase[g] \in {"begun", "running"}

\* load: nothing queued and nothing in flight.
Unloaded(g) == queued[g] = 0 /\ ~ Busy(g)

-----------------------------------------------------------------------------
(* Telling                                                                 *)

\* The gate has room for one more.
Room(g) == queued[g] < Capacity

\* tell: under the lock, the token is recorded and a place reserved.  A tell
\* that is refused (closed, overloaded) changes nothing.
Reserve(c) ==
    /\ Unlocked /\ c \notin accepted
    /\ ~ draining /\ state = "running" /\ endpoint # 0
    /\ ~ closed[endpoint] /\ Room(endpoint)
    /\ telling' = {c}
    /\ neverBegun' = neverBegun \cup {c}
    /\ queued' = [queued EXCEPT ![endpoint] = @ + 1]
    /\ UNCHANGED <<state, generation, endpoint, failures, draining, scheduler,
                   closed, threads, stoppers, handing, world>>

\* A counter decrement that stops at zero.
Unclamped(n) == n - 1    \* mutant: it does not stop
Less(n) == IF n = 0 THEN 0 ELSE n - 1

\* The message is posted, or the actor died meanwhile and the gate is closed.
Put(c) ==
    /\ c \in telling
    /\ telling' = {}
    /\ \/ /\ alive[endpoint] = "alive"
          /\ inbox' = [inbox EXCEPT ![endpoint] = Append(@, c)]
          /\ accepted' = accepted \cup {c}
          /\ UNCHANGED <<neverBegun, gates>>
       \/ /\ alive[endpoint] # "alive"
          /\ queued' = [queued EXCEPT ![endpoint] = Less(@)]
          /\ closed' = [closed EXCEPT ![endpoint] = TRUE]
          /\ neverBegun' = neverBegun \ {c}
          /\ UNCHANGED <<inbox, accepted>>
    /\ UNCHANGED <<state, generation, endpoint, failures, draining, scheduler,
                   alive, phase, current, stoppers, handing, begun, returned>>

-----------------------------------------------------------------------------
(* The actor's thread                                                      *)

\* on_receive, the gate's part: queued becomes in flight.
Begin(g) ==
    /\ alive[g] = "alive" /\ phase[g] = "idle"
    /\ inbox[g] # <<>> /\ Head(inbox[g]) # Stop
    /\ inbox' = [inbox EXCEPT ![g] = Tail(@)]
    /\ current' = [current EXCEPT ![g] = {Head(inbox[g])}]
    /\ queued' = [queued EXCEPT ![g] = Less(@)]
    /\ phase' = [phase EXCEPT ![g] = "begun"]
    /\ UNCHANGED <<guardian, scheduler, closed, alive, stoppers, handing, world>>

\* _command_started gives the token back; then the handler is called.
TokenKept(c) == neverBegun    \* mutant: the token stays with the guardian
TokenReturned(c) == neverBegun \ c

Started(g) ==
    /\ phase[g] = "begun" /\ Unlocked
    /\ neverBegun' = TokenReturned(current[g])
    /\ begun' = begun \cup current[g]
    /\ phase' = [phase EXCEPT ![g] = "running"]
    /\ UNCHANGED <<state, generation, endpoint, failures, draining, telling,
                   scheduler, gates, alive, inbox, current, stoppers, handing,
                   accepted, returned>>

\* The handler returns, or rejects the command with an expected error.
Complete(g) ==
    /\ phase[g] = "running"
    /\ phase' = [phase EXCEPT ![g] = "idle"]
    /\ current' = [current EXCEPT ![g] = {}]
    /\ UNCHANGED <<guardian, scheduler, gates, alive, inbox, stoppers, handing, world>>

\* Any other exception ends the thread; its mailbox is dropped ...
Raise(g) ==
    /\ phase[g] = "running" /\ generation < MaxGen
    /\ alive' = [alive EXCEPT ![g] = "dead"]
    /\ phase' = [phase EXCEPT ![g] = "raised"]
    /\ current' = [current EXCEPT ![g] = {}]
    /\ UNCHANGED <<guardian, scheduler, gates, inbox, stoppers, handing, world>>

\* ... on_failure closes the gate and forgets what was queued ...
CloseGate(g) ==
    /\ phase[g] = "raised"
    /\ closed' = [closed EXCEPT ![g] = TRUE]
    /\ queued' = [queued EXCEPT ![g] = 0]
    /\ phase' = [phase EXCEPT ![g] = "closed"]
    /\ UNCHANGED <<guardian, scheduler, alive, inbox, current, stoppers, handing, world>>

\* The admitted commands nobody has begun, when the record lets go of its
\* endpoint.
NothingUndelivered == {}    \* mutant: they are dropped
Undelivered == neverBegun

\* _process_failure, once its fence has let it in: the never-begun commands
\* are taken out, and the child restarts, is quarantined, or stays stopped.
\* Failures outside the window are forgotten: the recent ones are counted.
Failure ==
    /\ endpoint' = 0
    /\ handing' = handing \cup Undelivered
    /\ neverBegun' = {}
    /\ \E recent \in 0..failures :
          /\ failures' = recent + 1
          /\ \/ /\ draining
                /\ state' = "stopped"
                /\ UNCHANGED <<generation, owed>>
             \/ /\ ~ draining /\ recent >= MaxRestarts
                /\ state' = "quarantined"
                /\ UNCHANGED <<generation, owed>>
             \/ /\ ~ draining /\ recent < MaxRestarts /\ generation < MaxGen
                /\ state' = "restart_pending"
                /\ generation' = generation + 1
                /\ owed' = [owed EXCEPT !["failure"] = generation + 1]

\* ... and _child_failed reports the failure, unless it is of another
\* generation or the child is no longer running.
ChildFailed(g) ==
    /\ phase[g] = "closed" /\ Unlocked
    /\ phase' = [phase EXCEPT ![g] = "gone"]
    /\ IF generation = g /\ state = "running" THEN Failure
       ELSE UNCHANGED <<record, owed, handing>>
    /\ UNCHANGED <<draining, telling, timer, restarting, step, gates, alive, inbox,
                   current, stoppers, world>>

\* The stop message ends the thread; what is behind it is dropped.
StopReceived(g) ==
    /\ alive[g] = "alive" /\ phase[g] = "idle"
    /\ inbox[g] # <<>> /\ Head(inbox[g]) = Stop
    /\ alive' = [alive EXCEPT ![g] = "dead"]
    /\ UNCHANGED <<guardian, scheduler, gates, inbox, phase, current, stoppers,
                   handing, world>>

\* _notify_undelivered: the sink gets a command back.
Report(c) ==
    /\ c \in handing
    /\ handing' = handing \ {c}
    /\ returned' = returned \cup {c}
    /\ UNCHANGED <<guardian, scheduler, gates, threads, stoppers, accepted, begun>>

-----------------------------------------------------------------------------
(* Restarting                                                              *)

\* schedule: a new entry replaces the old one.  The thread that handles a
\* failure has given the undelivered commands to the sink before.
Schedule(why) ==
    /\ owed[why] # 0
    /\ why = "failure" => handing = {}
    /\ timer' = owed[why]
    /\ owed' = [owed EXCEPT ![why] = 0]
    /\ UNCHANGED <<guardian, restarting, step, gates, threads, stoppers, handing, world>>

\* _fire: a cancelled or replaced entry does not get here.
Fire ==
    /\ timer # 0 /\ step = "none"
    /\ restarting' = timer /\ step' = "fired"
    /\ timer' = 0
    /\ UNCHANGED <<guardian, owed, gates, threads, stoppers, handing, world>>

\* The restart is no longer wanted.
Stale(g) == draining \/ generation # g \/ state # "restart_pending"

\* _restart, the look before the handler is built.
CheckRestart ==
    /\ step = "fired" /\ Unlocked
    /\ step' = IF Stale(restarting) THEN "none" ELSE "building"
    /\ restarting' = IF Stale(restarting) THEN 0 ELSE restarting
    /\ UNCHANGED <<guardian, timer, owed, gates, threads, stoppers,
                   handing, world>>

\* The handler and its endpoint are built without the lock ...
Build ==
    /\ step = "building"
    /\ step' = "built"
    /\ alive' = [alive EXCEPT ![restarting] = "alive"]
    /\ UNCHANGED <<guardian, timer, owed, restarting, gates, inbox, phase, current,
                   stoppers, handing, world>>

\* ... or the handler's factory raises, which counts as a failure too.
ExpectsRunning == "running"    \* mutant: reported like the failure of a child
Expected == "restart_pending"

BuildFails ==
    /\ step = "building" /\ Unlocked
    /\ generation < MaxGen
    /\ step' = "none" /\ restarting' = 0
    /\ IF generation = restarting /\ state = Expected THEN Failure
       ELSE UNCHANGED <<record, owed, handing>>
    /\ UNCHANGED <<draining, telling, timer, gates, threads, stoppers, world>>

\* The endpoint becomes the child's, or is stopped when it came too late.
Publish ==
    /\ step = "built" /\ Unlocked
    /\ step' = "none" /\ restarting' = 0
    /\ \/ /\ ~ Stale(restarting)
          /\ endpoint' = restarting /\ state' = "running"
          /\ UNCHANGED <<closed, inbox>>
       \/ /\ Stale(restarting)
          /\ closed' = [closed EXCEPT ![restarting] = TRUE]
          /\ inbox' = [inbox EXCEPT ![restarting] = Append(@, Stop)]
          /\ UNCHANGED <<endpoint, state>>
    /\ UNCHANGED <<generation, failures, neverBegun, draining, telling, timer, owed,
                   queued, alive, phase, current, stoppers, handing, world>>

-----------------------------------------------------------------------------
(* Stopping, resetting and draining                                        *)

\* stop, under the lock.
StopBegin ==
    /\ pc["stop"] = "idle" /\ Unlocked
    /\ generation < MaxGen
    /\ generation' = generation + 1 /\ state' = "stopped"
    /\ timer' = 0
    /\ target' = [target EXCEPT !["stop"] = endpoint]
    /\ pc' = [pc EXCEPT !["stop"] = IF endpoint = 0 THEN "idle" ELSE "signal"]
    /\ UNCHANGED <<endpoint, failures, neverBegun, draining, telling, owed, restarting,
                   step, gates, threads, handing, world>>

\* drain, under the lock: no tell is admitted from here on.
DrainBegin ==
    /\ pc["drain"] = "idle" /\ Unlocked
    /\ draining' = TRUE
    /\ closed' = [g \in Gen |-> closed[g] \/ g = endpoint]
    /\ timer' = 0
    /\ pc' = [pc EXCEPT !["drain"] = "polling"]
    /\ UNCHANGED <<record, telling, owed, restarting, step, queued, threads, target,
                   handing, world>>

\* The polling ends: an idle endpoint is stopped, a busy one is left alone.
DrainPolled ==
    /\ pc["drain"] = "polling"
    /\ target' = [target EXCEPT !["drain"] = endpoint]
    /\ \E next \in IF endpoint # 0 /\ Unloaded(endpoint) THEN {"signal"} ELSE {"idle"} :
          pc' = [pc EXCEPT !["drain"] = next]
    /\ UNCHANGED <<guardian, scheduler, gates, threads, handing, world>>

\* backend.stop: close the gate and post one stop message, unless it is dead.
Signal(t) ==
    /\ pc[t] = "signal"
    /\ closed' = [closed EXCEPT ![target[t]] = TRUE]
    /\ \/ /\ alive[target[t]] = "dead"
          /\ pc' = [pc EXCEPT ![t] = "capture"]
          /\ UNCHANGED inbox
       \/ /\ alive[target[t]] = "alive"
          /\ pc' = [pc EXCEPT ![t] = "wait"]
          /\ inbox' = [inbox EXCEPT ![target[t]] =
                          IF Stop \in Elements(@) THEN @ ELSE Append(@, Stop)]
    /\ UNCHANGED <<guardian, scheduler, queued, alive, phase, current, target,
                   handing, world>>

\* The stop is confirmed ...
Confirmed(t) ==
    /\ pc[t] = "wait" /\ alive[target[t]] = "dead"
    /\ pc' = [pc EXCEPT ![t] = "capture"]
    /\ UNCHANGED <<guardian, scheduler, gates, threads, target, handing, world>>

\* ... or times out: the endpoint stays for a later stop or drain.
TimeOut(t) ==
    /\ pc[t] = "wait"
    /\ pc' = [pc EXCEPT ![t] = "idle"]
    /\ UNCHANGED <<guardian, scheduler, gates, threads, target, handing, world>>

\* A confirmed stop takes the commands the thread never began.
Capture(t) ==
    /\ pc[t] = "capture" /\ Unlocked
    /\ pc' = [pc EXCEPT ![t] = "idle"]
    /\ \/ /\ endpoint = target[t]
          /\ endpoint' = 0
          /\ state' = IF t = "drain" THEN "stopped" ELSE state
          /\ handing' = handing \cup Undelivered
          /\ neverBegun' = {}
       \/ /\ endpoint # target[t]
          /\ UNCHANGED <<endpoint, state, handing, neverBegun>>
    /\ UNCHANGED <<generation, failures, draining, telling, scheduler, gates, threads,
                   target, world>>

\* reset: only a quarantined child gets a fresh budget and another start.
ResettableStopped == state \in {"quarantined", "stopped"}    \* mutant
Resettable == state = "quarantined"

Reset ==
    /\ Unlocked /\ ~ draining /\ Resettable
    /\ generation < MaxGen
    /\ failures' = 0
    /\ generation' = generation + 1 /\ state' = "restart_pending"
    /\ owed' = [owed EXCEPT !["reset"] = generation + 1]
    /\ UNCHANGED <<endpoint, neverBegun, draining, telling, timer, restarting, step,
                   gates, threads, stoppers, handing, world>>

-----------------------------------------------------------------------------

Init ==
    /\ state = "running" /\ generation = 1 /\ endpoint = 1 /\ failures = 0
    /\ neverBegun = {} /\ draining = FALSE /\ telling = {}
    /\ timer = 0 /\ owed = [why \in {"failure", "reset"} |-> 0]
    /\ restarting = 0 /\ step = "none"
    /\ alive = [g \in Gen |-> IF g = 1 THEN "alive" ELSE "none"]
    /\ closed = [g \in Gen |-> FALSE] /\ queued = [g \in Gen |-> 0]
    /\ inbox = [g \in Gen |-> <<>>] /\ phase = [g \in Gen |-> "idle"]
    /\ current = [g \in Gen |-> {}]
    /\ pc = [t \in {"stop", "drain"} |-> "idle"]
    /\ target = [t \in {"stop", "drain"} |-> 0]
    /\ handing = {} /\ accepted = {} /\ begun = {} /\ returned = {}

ActorStep(g) ==
    \/ Begin(g) \/ Started(g) \/ Complete(g) \/ Raise(g)
    \/ CloseGate(g) \/ ChildFailed(g) \/ StopReceived(g)

RestartStep ==
    \/ \E why \in {"failure", "reset"} : Schedule(why)
    \/ Fire \/ CheckRestart \/ Build \/ BuildFails \/ Publish

StopStep ==
    \/ StopBegin \/ DrainBegin \/ DrainPolled \/ Reset
    \/ \E t \in {"stop", "drain"} :
          Signal(t) \/ Confirmed(t) \/ TimeOut(t) \/ Capture(t)

Next ==
    \/ \E c \in Cmd : Reserve(c) \/ Put(c) \/ Report(c)
    \/ \E g \in Gen : ActorStep(g)
    \/ RestartStep
    \/ StopStep

Spec == Init /\ [][Next]_vars

-----------------------------------------------------------------------------
(* Properties *)

Messages == Cmd \cup {Stop}

GuardianOK ==
    /\ state \in {"running", "restart_pending", "quarantined", "stopped"}
    /\ generation \in Gen /\ endpoint \in 0..MaxGen /\ failures \in Nat
    /\ neverBegun \subseteq Cmd /\ draining \in BOOLEAN /\ telling \subseteq Cmd

SchedulerOK ==
    /\ timer \in 0..MaxGen /\ owed \in [{"failure", "reset"} -> 0..MaxGen]
    /\ step \in {"none", "fired", "building", "built"}
    /\ restarting \in IF step = "none" THEN {0} ELSE Gen

EndpointsOK ==
    /\ alive \in [Gen -> {"none", "alive", "dead"}]
    /\ closed \in [Gen -> BOOLEAN] /\ queued \in [Gen -> Nat]
    /\ inbox \in [Gen -> Seq(Messages)]
    /\ phase \in [Gen -> {"idle", "begun", "running", "raised", "closed", "gone"}]
    /\ current \in [Gen -> SUBSET Cmd]

StoppersOK ==
    /\ pc \in [{"stop", "drain"} -> {"idle", "polling", "signal", "wait", "capture"}]
    /\ target \in [{"stop", "drain"} -> 0..MaxGen]
    /\ \A t \in {"stop", "drain"} : pc[t] \in {"signal", "wait", "capture"} => target[t] # 0

\* Type correctness; the counters of the gates never go below zero.
TypeOK ==
    /\ GuardianOK /\ SchedulerOK /\ EndpointsOK /\ StoppersOK
    /\ handing \subseteq Cmd
    /\ accepted \subseteq Cmd /\ begun \subseteq Cmd /\ returned \subseteq Cmd

\* Every admitted command is begun once or given back once, never both.
CustodyKept == Custody!Spec

\* One authority: two generations never have a command in hand at once, also
\* while a stop that timed out leaves an old thread behind.
OneAuthority == \A g, h \in Gen : Busy(g) /\ Busy(h) => g = h

\* Custody is never orphaned: the guardian holds the token of every command it
\* has admitted and nobody has begun, and while it holds any it has the
\* endpoint whose end gives them back.
TokensBacked ==
    /\ accepted \subseteq begun \cup returned \cup handing \cup neverBegun
    /\ neverBegun \subseteq accepted \cup telling
    /\ endpoint = 0 => neverBegun = {}

\* A pending restart is always owed by somebody: a timer, the callback at work,
\* or the thread about to schedule it.
RestartOwed ==
    state = "restart_pending" =>
        \/ draining
        \/ generation \in {timer, restarting, owed["failure"], owed["reset"]}

-----------------------------------------------------------------------------
(* Liveness *)

\* Handlers and factories end, timers fire, sinks are called, and no thread of
\* the runtime stops half-way.
Fairness ==
    /\ \A c \in Cmd : WF_vars(Put(c)) /\ WF_vars(Report(c))
    /\ \A g \in Gen :
          /\ WF_vars(Begin(g)) /\ WF_vars(Started(g)) /\ WF_vars(Complete(g) \/ Raise(g))
          /\ WF_vars(CloseGate(g)) /\ WF_vars(ChildFailed(g)) /\ WF_vars(StopReceived(g))
    /\ \A why \in {"failure", "reset"} : WF_vars(Schedule(why))
    /\ WF_vars(Fire) /\ WF_vars(CheckRestart) /\ WF_vars(Publish)
    /\ WF_vars(Build \/ BuildFails)
    /\ \A t \in {"stop", "drain"} : WF_vars(Signal(t)) /\ WF_vars(Confirmed(t))
                                    /\ WF_vars(Capture(t))

FairSpec == Spec /\ Fairness

\* An admitted command is begun or given back, unless the child is stopped by
\* hand: a stop that timed out leaves its commands to a later stop or drain.
CommandsSettle ==
    \A c \in Cmd : c \in accepted ~> c \in begun \cup returned \/ state = "stopped"

\* A restart that is scheduled takes place, fails, or is called off.
RestartsHappen ==
    \A g \in Gen : (state = "restart_pending" /\ generation = g)
        ~> (draining \/ state # "restart_pending" \/ generation # g)
=============================================================================
