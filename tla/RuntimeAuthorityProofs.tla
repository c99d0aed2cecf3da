------------------------ MODULE RuntimeAuthorityProofs ------------------------
(***************************************************************************)
(* One authority over a child: the invariant Authority, and that every     *)
(* step of ActorRuntime keeps it.  The record knows one endpoint; a thread *)
(* it does not know is a stray that has no command and gets none.  A       *)
(* generation is built once, by the one restart under way, and a stop only *)
(* waits for an endpoint the record had.                                   *)
(*                                                                         *)
(* The effect lemmas say, endpoint by endpoint, what an action does to the *)
(* functions of the state; the preservation lemmas have a step per action. *)
(***************************************************************************)
EXTENDS ActorRuntimeProofs

USE StopAssumption, LimitsAssumption DEF Gen

\* At most one restart is under way, for a generation never built before; it
\* is the one a pending child waits for.
Underway == {timer, restarting, owed["failure"], owed["reset"]}

OneRestart ==
    /\ timer # 0 => restarting = 0 /\ owed["failure"] = 0 /\ owed["reset"] = 0
    /\ restarting # 0 => owed["failure"] = 0 /\ owed["reset"] = 0
    /\ owed["failure"] # 0 => owed["reset"] = 0
    /\ state \in {"running", "quarantined"} => \A r \in Underway : r = 0
    /\ \A r \in Underway : r <= generation
    /\ state = "restart_pending" =>
          (\A r \in Underway : r \in {0, generation}) /\ (draining \/ generation \in Underway)

\* A generation is built once, by the restart under way for it.
Unbuilt ==
    /\ \A g \in Gen : g \in Underway \/ g > generation =>
          alive[g] = "none" \/ (g = restarting /\ step = "built")
    /\ \A g \in Gen : alive[g] = "none" => inbox[g] = <<>> /\ phase[g] = "idle"
    /\ step = "built" => /\ alive[restarting] = "alive" /\ inbox[restarting] = <<>>
                         /\ restarting # endpoint

\* The endpoint of the record.
Record ==
    /\ \A g \in Gen : g = endpoint => alive[g] # "none"
    /\ \A g \in Gen : \A t \in {"stop", "drain"} : g = target[t] => alive[g] # "none"
    /\ state = "running" => endpoint = generation
    /\ state \in {"restart_pending", "quarantined"} => endpoint = 0
    /\ pc["stop"] \in {"signal", "wait", "capture"} => state = "stopped"
    /\ \A g \in Gen : \A t \in {"stop", "drain"} :
          pc[t] = "capture" /\ g = target[t] => alive[g] = "dead"

\* An endpoint the record does not know: nobody stops it, and it has no command.
Stray(g) ==
    /\ phase[g] = "idle"
    /\ inbox[g] = <<>> \/ Head(inbox[g]) = Stop
    /\ \A t \in {"stop", "drain"} : target[t] # g

\* Only the child's own endpoint can have a command in hand, and only alive.
Hands ==
    /\ \A g \in Gen : alive[g] = "alive" => g = endpoint \/ Stray(g)
    /\ \A g \in Gen : phase[g] \in {"begun", "running"} => alive[g] = "alive"
    /\ \A g \in Gen : phase[g] \in {"raised", "closed", "gone"} => alive[g] = "dead"

Authority == TypeOK /\ OneRestart /\ Unbuilt /\ Record /\ Hands

LEMMA Numbers ==
  ASSUME TypeOK
  PROVE  /\ generation \in Gen /\ endpoint \in 0..MaxGen
         /\ step # "none" => restarting \in Gen
         /\ timer \in 0..MaxGen /\ restarting \in 0..MaxGen
         /\ owed["failure"] \in 0..MaxGen /\ owed["reset"] \in 0..MaxGen
         /\ \A t \in {"stop", "drain"} : target[t] \in 0..MaxGen
  BY DEF TypeOK, GuardianOK, SchedulerOK, StoppersOK

-----------------------------------------------------------------------------
(* Steps that change nothing a part is about                               *)

LEMMA OneRestartFrame ==
  ASSUME OneRestart, UNCHANGED <<timer, owed, restarting, state, generation, draining>>
  PROVE  OneRestart'
  BY DEF OneRestart, Underway

LEMMA UnbuiltFrame ==
  ASSUME Unbuilt,
         UNCHANGED <<timer, owed, restarting, step, generation, alive, inbox, phase, endpoint>>
  PROVE  Unbuilt'
  BY DEF Unbuilt, Underway

LEMMA RecordFrame ==
  ASSUME Record, UNCHANGED <<state, generation, endpoint, alive, pc, target>>
  PROVE  Record'
  BY DEF Record

LEMMA HandsFrame ==
  ASSUME Hands, UNCHANGED <<alive, phase, inbox, endpoint, target>>
  PROVE  Hands'
  BY DEF Hands, Stray

-----------------------------------------------------------------------------
(* What the actions do to an endpoint                                      *)

Frame == <<state, generation, endpoint, draining, timer, owed, restarting, step, pc, target>>

LEMMA PutEffect ==
  ASSUME TypeOK, NEW c \in Cmd, Put(c)
  PROVE  /\ \/ inbox' = inbox
            \/ /\ endpoint \in Gen /\ alive[endpoint] = "alive"
               /\ \A h \in Gen : h # endpoint => inbox'[h] = inbox[h]
         /\ UNCHANGED Frame /\ UNCHANGED <<alive, phase>>
<1>1. endpoint \in 0..MaxGen
  BY DEF TypeOK, GuardianOK
<1>2. ASSUME inbox' # inbox
      PROVE  endpoint \in Gen /\ alive[endpoint] = "alive"
  BY <1>1, <1>2 DEF Put, TypeOK, EndpointsOK
<1> QED BY <1>2 DEF Put, TypeOK, EndpointsOK, scheduler, stoppers, Frame

LEMMA BeginEffect ==
  ASSUME TypeOK, NEW g \in Gen, Begin(g)
  PROVE  /\ alive[g] = "alive" /\ phase[g] = "idle" /\ inbox[g] # <<>> /\ Head(inbox[g]) # Stop
         /\ \A h \in Gen : /\ h # g => inbox'[h] = inbox[h]
                           /\ phase'[h] = IF h = g THEN "begun" ELSE phase[h]
         /\ UNCHANGED Frame /\ UNCHANGED alive
  BY DEF Begin, TypeOK, EndpointsOK, guardian, record, scheduler, stoppers, Frame

LEMMA RaiseEffect ==
  ASSUME TypeOK, NEW g \in Gen, Raise(g)
  PROVE  /\ phase[g] = "running"
         /\ \A h \in Gen : /\ alive'[h] = IF h = g THEN "dead" ELSE alive[h]
                           /\ phase'[h] = IF h = g THEN "raised" ELSE phase[h]
         /\ UNCHANGED Frame /\ UNCHANGED inbox
  BY DEF Raise, TypeOK, EndpointsOK, guardian, record, scheduler, stoppers, Frame

LEMMA StopReceivedEffect ==
  ASSUME TypeOK, NEW g \in Gen, StopReceived(g)
  PROVE  /\ alive[g] = "alive" /\ phase[g] = "idle" /\ inbox[g] # <<>>
         /\ \A h \in Gen : alive'[h] = IF h = g THEN "dead" ELSE alive[h]
         /\ UNCHANGED Frame /\ UNCHANGED <<inbox, phase>>
  BY DEF StopReceived, TypeOK, EndpointsOK, guardian, record, scheduler, stoppers, Frame

LEMMA BuildEffect ==
  ASSUME TypeOK, Build
  PROVE  /\ restarting \in Gen /\ step = "building" /\ step' = "built"
         /\ \A h \in Gen : alive'[h] = IF h = restarting THEN "alive" ELSE alive[h]
         /\ UNCHANGED <<state, generation, endpoint, draining, timer, owed, restarting,
                        inbox, phase, pc, target>>
  BY DEF Build, TypeOK, EndpointsOK, SchedulerOK, guardian, record, stoppers

\* What a failure does to the record, whoever reports it.
LEMMA FailureEffect ==
  ASSUME TypeOK, Failure
  PROVE  /\ endpoint' = 0
         /\ \/ state' \in {"stopped", "quarantined"} /\ UNCHANGED <<generation, owed>>
            \/ /\ state' = "restart_pending" /\ generation' = generation + 1
               /\ generation' \in Gen
               /\ owed'["failure"] = generation' /\ owed'["reset"] = owed["reset"]
  BY DEF Failure, TypeOK, GuardianOK, SchedulerOK

LEMMA ChildFailedEffect ==
  ASSUME TypeOK, NEW g \in Gen, ChildFailed(g)
  PROVE  /\ phase[g] = "closed"
         /\ \A h \in Gen : phase'[h] = IF h = g THEN "gone" ELSE phase[h]
         /\ \/ generation = g /\ state = "running" /\ Failure
            \/ UNCHANGED <<state, generation, endpoint, owed>>
         /\ UNCHANGED <<draining, timer, restarting, step, alive, inbox, pc, target>>
  BY DEF ChildFailed, TypeOK, EndpointsOK, record, stoppers

LEMMA BuildFailsEffect ==
  ASSUME TypeOK, BuildFails
  PROVE  /\ restarting \in Gen /\ step = "building" /\ step' = "none" /\ restarting' = 0
         /\ \/ generation = restarting /\ state = "restart_pending" /\ Failure
            \/ /\ generation # restarting \/ state # "restart_pending"
               /\ UNCHANGED <<state, generation, endpoint, owed>>
         /\ UNCHANGED <<draining, timer, alive, inbox, phase, pc, target>>
  BY DEF BuildFails, Expected, TypeOK, SchedulerOK, record, threads, stoppers

LEMMA SignalEffect ==
  ASSUME TypeOK, NEW t \in {"stop", "drain"}, Signal(t)
  PROVE  /\ target[t] \in Gen /\ pc[t] = "signal"
         /\ \/ alive[target[t]] = "dead" /\ pc'[t] = "capture" /\ inbox' = inbox
            \/ /\ alive[target[t]] = "alive" /\ pc'[t] = "wait"
               /\ \A h \in Gen : h # target[t] => inbox'[h] = inbox[h]
         /\ \A u \in {"stop", "drain"} : u # t => pc'[u] = pc[u]
         /\ UNCHANGED <<state, generation, endpoint, draining, timer, owed, restarting,
                        step, alive, phase, target>>
  BY DEF Signal, TypeOK, EndpointsOK, StoppersOK, guardian, record, scheduler, threads

LEMMA PublishEffect ==
  ASSUME TypeOK, Publish
  PROVE  /\ step = "built" /\ restarting \in Gen /\ step' = "none" /\ restarting' = 0
         /\ \/ /\ ~ draining /\ generation = restarting /\ state = "restart_pending"
               /\ endpoint' = restarting /\ state' = "running" /\ inbox' = inbox
            \/ /\ \A h \in Gen : h # restarting => inbox'[h] = inbox[h]
               /\ inbox'[restarting] = Append(inbox[restarting], Stop)
               /\ UNCHANGED <<endpoint, state>>
         /\ UNCHANGED <<generation, draining, timer, owed, alive, phase, pc, target>>
  BY DEF Publish, Stale, TypeOK, EndpointsOK, SchedulerOK, stoppers

LEMMA CaptureEffect ==
  ASSUME TypeOK, NEW t \in {"stop", "drain"}, Capture(t)
  PROVE  /\ pc[t] = "capture" /\ target[t] \in Gen
         /\ \/ /\ endpoint = target[t] /\ endpoint' = 0
               /\ state' = IF t = "drain" THEN "stopped" ELSE state
            \/ UNCHANGED <<endpoint, state>>
         /\ \A u \in {"stop", "drain"} : pc'[u] = IF u = t THEN "idle" ELSE pc[u]
         /\ UNCHANGED <<generation, draining, timer, owed, restarting, step,
                        alive, inbox, phase, target>>
  BY DEF Capture, TypeOK, StoppersOK, scheduler, threads

LEMMA StartedEffect ==
  ASSUME TypeOK, NEW g \in Gen, Started(g) \/ Complete(g)
  PROVE  /\ phase[g] \in {"begun", "running"} /\ phase'[g] \in {"running", "idle"}
         /\ \A h \in Gen : h # g => phase'[h] = phase[h]
         /\ UNCHANGED Frame /\ UNCHANGED <<alive, inbox>>
  BY DEF Started, Complete, TypeOK, EndpointsOK, guardian, record, scheduler, stoppers, Frame

LEMMA CloseGateEffect ==
  ASSUME TypeOK, NEW g \in Gen, CloseGate(g)
  PROVE  /\ phase[g] = "raised"
         /\ \A h \in Gen : phase'[h] = IF h = g THEN "closed" ELSE phase[h]
         /\ UNCHANGED Frame /\ UNCHANGED <<alive, inbox>>
  BY DEF CloseGate, TypeOK, EndpointsOK, guardian, record, scheduler, stoppers, Frame

LEMMA ResetEffect ==
  ASSUME TypeOK, Reset
  PROVE  /\ state = "quarantined" /\ state' = "restart_pending"
         /\ generation' = generation + 1 /\ generation' \in Gen
         /\ owed'["reset"] = generation' /\ owed'["failure"] = owed["failure"]
         /\ UNCHANGED <<endpoint, draining, timer, restarting, step, alive, inbox, phase,
                        pc, target>>
  BY DEF Reset, Resettable, TypeOK, GuardianOK, SchedulerOK, threads, stoppers

LEMMA StopBeginEffect ==
  ASSUME TypeOK, StopBegin
  PROVE  /\ state' = "stopped" /\ timer' = 0
         /\ generation' = generation + 1 /\ generation' \in Gen
         /\ target'["stop"] = endpoint /\ target'["drain"] = target["drain"]
         /\ pc'["stop"] \in {"idle", "signal"} /\ pc'["drain"] = pc["drain"]
         /\ UNCHANGED <<endpoint, draining, owed, restarting, step, alive, inbox, phase>>
  BY DEF StopBegin, TypeOK, GuardianOK, StoppersOK, threads

LEMMA DrainPolledEffect ==
  ASSUME TypeOK, DrainPolled
  PROVE  /\ target'["drain"] = endpoint /\ target'["stop"] = target["stop"]
         /\ pc'["drain"] \in {"idle", "signal"} /\ pc'["stop"] = pc["stop"]
         /\ UNCHANGED <<state, generation, endpoint, draining, timer, owed, restarting,
                        step, alive, inbox, phase>>
  BY DEF DrainPolled, TypeOK, StoppersOK, guardian, record, scheduler, threads

LEMMA ConfirmedEffect ==
  ASSUME TypeOK, NEW t \in {"stop", "drain"}, Confirmed(t)
  PROVE  /\ pc[t] = "wait" /\ pc'[t] = "capture" /\ alive[target[t]] = "dead"
         /\ \A u \in {"stop", "drain"} : u # t => pc'[u] = pc[u]
         /\ UNCHANGED <<state, generation, endpoint, draining, timer, owed, restarting,
                        step, alive, inbox, phase, target>>
  BY DEF Confirmed, TypeOK, StoppersOK, guardian, record, scheduler, threads

LEMMA OneRestartKept ==
  ASSUME Authority, TypeOK', [Next]_vars
  PROVE  OneRestart'
<1>1. ASSUME NEW c \in Cmd, Reserve(c) PROVE OneRestart'
  BY <1>1, OneRestartFrame DEF Reserve, Authority, scheduler, threads, stoppers, world
<1>2. ASSUME NEW c \in Cmd, Put(c) PROVE OneRestart'
  BY <1>2, OneRestartFrame DEF Put, Authority, scheduler, gates, stoppers
<1>3. ASSUME NEW c \in Cmd, Report(c) PROVE OneRestart'
  BY <1>3, OneRestartFrame DEF Report, Authority, guardian, scheduler, gates, threads,
     stoppers, record
<1>4. ASSUME NEW g \in Gen, Begin(g) PROVE OneRestart'
  BY <1>4, OneRestartFrame DEF Begin, Authority, guardian, scheduler, stoppers, world,
     record
<1>5. ASSUME NEW g \in Gen, Started(g) PROVE OneRestart'
  BY <1>5, OneRestartFrame DEF Started, Authority, scheduler, gates, stoppers
<1>6. ASSUME NEW g \in Gen, Complete(g) PROVE OneRestart'
  BY <1>6, OneRestartFrame DEF Complete, Authority, guardian, scheduler, gates,
     stoppers, world, record
<1>7. ASSUME NEW g \in Gen, Raise(g) PROVE OneRestart'
  BY <1>7, OneRestartFrame DEF Raise, Authority, guardian, scheduler, gates, stoppers,
     world, record
<1>8. ASSUME NEW g \in Gen, CloseGate(g) PROVE OneRestart'
  BY <1>8, OneRestartFrame DEF CloseGate, Authority, guardian, scheduler, stoppers,
     world, record
<1>9. ASSUME NEW g \in Gen, ChildFailed(g) PROVE OneRestart'
  BY <1>9, ChildFailedEffect, FailureEffect, Numbers DEF Authority, OneRestart,
     Underway
<1>10. ASSUME NEW g \in Gen, StopReceived(g) PROVE OneRestart'
  BY <1>10, OneRestartFrame DEF StopReceived, Authority, guardian, scheduler, gates,
     stoppers, world, record
<1>11. ASSUME NEW why \in {"failure", "reset"}, Schedule(why) PROVE OneRestart'
  BY <1>11 DEF Schedule, Authority, OneRestart, Underway, Unbuilt, Record, TypeOK,
     GuardianOK, SchedulerOK, guardian, gates, threads, stoppers, world, record
<1>12. CASE Fire
  BY <1>12 DEF Fire, Authority, OneRestart, Underway, guardian, gates, threads,
     stoppers, world, record
<1>13. CASE CheckRestart
  BY <1>13 DEF CheckRestart, Stale, Authority, OneRestart, Underway, guardian, gates,
     threads, stoppers, world, record
<1>14. CASE Build
  BY <1>14, OneRestartFrame DEF Build, Authority, guardian, gates, stoppers, world,
     record
<1>15. CASE BuildFails
  BY <1>15, BuildFailsEffect, FailureEffect, Numbers DEF Authority, OneRestart,
     Underway
<1>16. CASE Publish
  BY <1>16 DEF Publish, Stale, Authority, OneRestart, Underway, stoppers, world
<1>17. CASE StopBegin
  BY <1>17 DEF StopBegin, Authority, OneRestart, Underway, Unbuilt, Record, TypeOK,
     GuardianOK, SchedulerOK, gates, threads, world
<1>18. CASE DrainBegin
  BY <1>18 DEF DrainBegin, Authority, OneRestart, Underway, record, threads, world
<1>19. CASE DrainPolled
  BY <1>19, OneRestartFrame DEF DrainPolled, Authority, guardian, scheduler, gates,
     threads, world, record
<1>20. CASE Reset
  BY <1>20, ResetEffect, Numbers DEF Authority, OneRestart, Underway
<1>21. ASSUME NEW t \in {"stop", "drain"}, Signal(t) PROVE OneRestart'
  BY <1>21, OneRestartFrame DEF Signal, Authority, guardian, scheduler, world, record
<1>22. ASSUME NEW t \in {"stop", "drain"}, Confirmed(t) PROVE OneRestart'
  BY <1>22, OneRestartFrame DEF Confirmed, Authority, guardian, scheduler, gates,
     threads, world, record
<1>23. ASSUME NEW t \in {"stop", "drain"}, TimeOut(t) PROVE OneRestart'
  BY <1>23, OneRestartFrame DEF TimeOut, Authority, guardian, scheduler, gates,
     threads, world, record
<1>24. ASSUME NEW t \in {"stop", "drain"}, Capture(t) PROVE OneRestart'
  BY <1>24 DEF Capture, Authority, OneRestart, Underway, scheduler, gates, threads,
     world
<1>25. CASE UNCHANGED vars
  BY <1>25, OneRestartFrame DEF vars, Authority, record, guardian, scheduler, gates,
     threads, stoppers, world
<1> QED BY <1>1, <1>2, <1>3, <1>4, <1>5, <1>6, <1>7, <1>8, <1>9, <1>10, <1>11,
        <1>12, <1>13, <1>14, <1>15, <1>16, <1>17, <1>18, <1>19, <1>20, <1>21, <1>22,
        <1>23, <1>24, <1>25 DEF Next, ActorStep, RestartStep, StopStep

LEMMA UnbuiltKept ==
  ASSUME Authority, TypeOK', [Next]_vars
  PROVE  Unbuilt'
<1>1. ASSUME NEW c \in Cmd, Reserve(c) PROVE Unbuilt'
  BY <1>1, UnbuiltFrame DEF Reserve, Authority, scheduler, threads, stoppers, world
<1>2. ASSUME NEW c \in Cmd, Put(c) PROVE Unbuilt'
  BY <1>2, PutEffect, Numbers DEF Authority, Unbuilt, Underway, Frame
<1>3. ASSUME NEW c \in Cmd, Report(c) PROVE Unbuilt'
  BY <1>3, UnbuiltFrame DEF Report, Authority, guardian, scheduler, gates, threads,
     stoppers, record
<1>4. ASSUME NEW g \in Gen, Begin(g) PROVE Unbuilt'
  BY <1>4, BeginEffect, Numbers DEF Authority, Unbuilt, Underway, Frame
<1>5. ASSUME NEW g \in Gen, Started(g) PROVE Unbuilt'
  BY <1>5, StartedEffect, Numbers DEF Authority, Unbuilt, Underway, Frame
<1>6. ASSUME NEW g \in Gen, Complete(g) PROVE Unbuilt'
  BY <1>6, StartedEffect, Numbers DEF Authority, Unbuilt, Underway, Frame
<1>7. ASSUME NEW g \in Gen, Raise(g) PROVE Unbuilt'
  BY <1>7, RaiseEffect, Numbers, SMTT(30) DEF Authority, OneRestart, Underway, Unbuilt, Record,
     Hands, Stray, Frame
<1>8. ASSUME NEW g \in Gen, CloseGate(g) PROVE Unbuilt'
  BY <1>8, CloseGateEffect, Numbers DEF Authority, Unbuilt, Underway, Frame
<1>9. ASSUME NEW g \in Gen, ChildFailed(g) PROVE Unbuilt'
  BY <1>9, ChildFailedEffect, FailureEffect, Numbers, SMTT(30) DEF Authority, Unbuilt, Underway
<1>10. ASSUME NEW g \in Gen, StopReceived(g) PROVE Unbuilt'
  BY <1>10, StopReceivedEffect, Numbers, SMTT(30) DEF Authority, Unbuilt, Underway, Frame
<1>11. ASSUME NEW why \in {"failure", "reset"}, Schedule(why) PROVE Unbuilt'
  BY <1>11 DEF Schedule, Authority, Unbuilt, Underway, guardian, gates, threads,
     stoppers, world, record
<1>12. CASE Fire
  BY <1>12 DEF Fire, Authority, Unbuilt, Underway, guardian, gates, threads, stoppers,
     world, record
<1>13. CASE CheckRestart
  BY <1>13 DEF CheckRestart, Stale, Authority, Unbuilt, Underway, guardian, gates,
     threads, stoppers, world, record
<1>14. CASE Build
  BY <1>14, BuildEffect, Numbers DEF Authority, OneRestart, Underway, Unbuilt, Record
<1>15. CASE BuildFails
  BY <1>15, BuildFailsEffect, FailureEffect, Numbers DEF Authority, Unbuilt, Underway
<1>16. CASE Publish
  BY <1>16, PublishEffect, Numbers DEF Authority, OneRestart, Unbuilt, Underway
<1>17. CASE StopBegin
  BY <1>17, StopBeginEffect, Numbers DEF Authority, OneRestart, Unbuilt, Underway
<1>18. CASE DrainBegin
  BY <1>18 DEF DrainBegin, Authority, Unbuilt, Underway, record, threads, world
<1>19. CASE DrainPolled
  BY <1>19, DrainPolledEffect, Numbers DEF Authority, Unbuilt, Underway
<1>20. CASE Reset
  BY <1>20, ResetEffect, Numbers DEF Authority, Unbuilt, Underway
<1>21. ASSUME NEW t \in {"stop", "drain"}, Signal(t) PROVE Unbuilt'
  BY <1>21, SignalEffect, Numbers DEF Authority, OneRestart, Underway, Unbuilt, Record,
     Hands, Stray
<1>22. ASSUME NEW t \in {"stop", "drain"}, Confirmed(t) PROVE Unbuilt'
  BY <1>22, ConfirmedEffect, Numbers DEF Authority, Unbuilt, Underway
<1>23. ASSUME NEW t \in {"stop", "drain"}, TimeOut(t) PROVE Unbuilt'
  BY <1>23, UnbuiltFrame DEF TimeOut, Authority, guardian, scheduler, gates, threads,
     world, record
<1>24. ASSUME NEW t \in {"stop", "drain"}, Capture(t) PROVE Unbuilt'
  BY <1>24, CaptureEffect, Numbers DEF Authority, Unbuilt, Underway
<1>25. CASE UNCHANGED vars
  BY <1>25, UnbuiltFrame DEF vars, Authority, record, guardian, scheduler, gates,
     threads, stoppers, world
<1> QED BY <1>1, <1>2, <1>3, <1>4, <1>5, <1>6, <1>7, <1>8, <1>9, <1>10, <1>11,
        <1>12, <1>13, <1>14, <1>15, <1>16, <1>17, <1>18, <1>19, <1>20, <1>21, <1>22,
        <1>23, <1>24, <1>25 DEF Next, ActorStep, RestartStep, StopStep

LEMMA RecordKept ==
  ASSUME Authority, TypeOK', [Next]_vars
  PROVE  Record'
<1>1. ASSUME NEW c \in Cmd, Reserve(c) PROVE Record'
  BY <1>1, RecordFrame DEF Reserve, Authority, scheduler, threads, stoppers, world
<1>2. ASSUME NEW c \in Cmd, Put(c) PROVE Record'
  BY <1>2, PutEffect, Numbers DEF Authority, Record, Frame
<1>3. ASSUME NEW c \in Cmd, Report(c) PROVE Record'
  BY <1>3, RecordFrame DEF Report, Authority, guardian, scheduler, gates, threads,
     stoppers, record
<1>4. ASSUME NEW g \in Gen, Begin(g) PROVE Record'
  BY <1>4, BeginEffect, Numbers, SMTT(30) DEF Authority, Record, Frame
<1>5. ASSUME NEW g \in Gen, Started(g) PROVE Record'
  BY <1>5, StartedEffect, Numbers DEF Authority, Record, Frame
<1>6. ASSUME NEW g \in Gen, Complete(g) PROVE Record'
  BY <1>6, StartedEffect, Numbers DEF Authority, Record, Frame
<1>7. ASSUME NEW g \in Gen, Raise(g) PROVE Record'
  BY <1>7, RaiseEffect, Numbers DEF Authority, Record, Frame
<1>8. ASSUME NEW g \in Gen, CloseGate(g) PROVE Record'
  BY <1>8, CloseGateEffect, Numbers DEF Authority, Record, Frame
<1>9. ASSUME NEW g \in Gen, ChildFailed(g) PROVE Record'
  BY <1>9, ChildFailedEffect, FailureEffect, Numbers DEF Authority, Record
<1>10. ASSUME NEW g \in Gen, StopReceived(g) PROVE Record'
  BY <1>10, StopReceivedEffect, Numbers, SMTT(30) DEF Authority, Unbuilt, Record, Frame
<1>11. ASSUME NEW why \in {"failure", "reset"}, Schedule(why) PROVE Record'
  BY <1>11, RecordFrame DEF Schedule, Authority, guardian, gates, threads, stoppers,
     world, record
<1>12. CASE Fire
  BY <1>12, RecordFrame DEF Fire, Authority, guardian, gates, threads, stoppers,
     world, record
<1>13. CASE CheckRestart
  BY <1>13, RecordFrame DEF CheckRestart, Authority, guardian, gates, threads,
     stoppers, world, record
<1>14. CASE Build
  BY <1>14, BuildEffect, Numbers DEF Authority, OneRestart, Underway, Unbuilt, Record
<1>15. CASE BuildFails
  BY <1>15, BuildFailsEffect, FailureEffect, Numbers DEF Authority, Record
<1>16. CASE Publish
  BY <1>16, PublishEffect, Numbers DEF Authority, Unbuilt, Record
<1>17. CASE StopBegin
  BY <1>17, StopBeginEffect, Numbers DEF Authority, Record
<1>18. CASE DrainBegin
  BY <1>18 DEF DrainBegin, Authority, Record, record, threads, world
<1>19. CASE DrainPolled
  BY <1>19, DrainPolledEffect, Numbers DEF Authority, Record
<1>20. CASE Reset
  BY <1>20, ResetEffect, Numbers DEF Authority, Record
<1>21. ASSUME NEW t \in {"stop", "drain"}, Signal(t) PROVE Record'
  BY <1>21, SignalEffect, Numbers DEF Authority, Record
<1>22. ASSUME NEW t \in {"stop", "drain"}, Confirmed(t) PROVE Record'
  BY <1>22, ConfirmedEffect, Numbers DEF Authority, Record
<1>23. ASSUME NEW t \in {"stop", "drain"}, TimeOut(t) PROVE Record'
  BY <1>23 DEF TimeOut, Authority, Record, guardian, scheduler, gates, threads, world,
     record
<1>24. ASSUME NEW t \in {"stop", "drain"}, Capture(t) PROVE Record'
  BY <1>24, CaptureEffect, Numbers DEF Authority, Record
<1>25. CASE UNCHANGED vars
  BY <1>25, RecordFrame DEF vars, Authority, record, guardian, scheduler, gates,
     threads, stoppers, world
<1> QED BY <1>1, <1>2, <1>3, <1>4, <1>5, <1>6, <1>7, <1>8, <1>9, <1>10, <1>11,
        <1>12, <1>13, <1>14, <1>15, <1>16, <1>17, <1>18, <1>19, <1>20, <1>21, <1>22,
        <1>23, <1>24, <1>25 DEF Next, ActorStep, RestartStep, StopStep

LEMMA HandsKept ==
  ASSUME Authority, TypeOK', [Next]_vars
  PROVE  Hands'
<1>1. ASSUME NEW c \in Cmd, Reserve(c) PROVE Hands'
  BY <1>1, HandsFrame DEF Reserve, Authority, scheduler, threads, stoppers, world
<1>2. ASSUME NEW c \in Cmd, Put(c) PROVE Hands'
  BY <1>2, PutEffect, Numbers DEF Authority, Hands, Stray, Frame
<1>3. ASSUME NEW c \in Cmd, Report(c) PROVE Hands'
  BY <1>3, HandsFrame DEF Report, Authority, guardian, scheduler, gates, threads,
     stoppers, record
<1>4. ASSUME NEW g \in Gen, Begin(g) PROVE Hands'
  <2>1. g = endpoint
    BY <1>4, BeginEffect DEF Authority, Hands, Stray
  <2>2. /\ UNCHANGED <<alive, endpoint, target>>
        /\ alive[g] = "alive" /\ phase'[g] = "begun"
        /\ \A h \in Gen : h # g => UNCHANGED <<inbox[h], phase[h]>>
    BY <1>4, BeginEffect DEF Authority, Frame
  <2> QED BY <2>1, <2>2 DEF Authority, Hands, Stray
<1>5. ASSUME NEW g \in Gen, Started(g) PROVE Hands'
  <2>1. alive[g] = "alive" /\ g = endpoint
    BY <1>5, StartedEffect DEF Authority, Hands, Stray
  <2>2. /\ UNCHANGED <<alive, inbox>> /\ UNCHANGED <<endpoint, target>>
        /\ phase'[g] \in {"running", "idle"}
        /\ \A h \in Gen : h # g => UNCHANGED phase[h]
    BY <1>5, StartedEffect DEF Authority, Frame
  <2> QED BY <2>1, <2>2 DEF Authority, Hands, Stray
<1>6. ASSUME NEW g \in Gen, Complete(g) PROVE Hands'
  <2>1. alive[g] = "alive" /\ g = endpoint
    BY <1>6, StartedEffect DEF Authority, Hands, Stray
  <2>2. /\ UNCHANGED <<alive, inbox>> /\ UNCHANGED <<endpoint, target>>
        /\ phase'[g] \in {"running", "idle"}
        /\ \A h \in Gen : h # g => UNCHANGED phase[h]
    BY <1>6, StartedEffect DEF Authority, Frame
  <2> QED BY <2>1, <2>2 DEF Authority, Hands, Stray
<1>7. ASSUME NEW g \in Gen, Raise(g) PROVE Hands'
  BY <1>7, RaiseEffect, Numbers, SMTT(30) DEF Authority, Hands, Stray, Frame
<1>8. ASSUME NEW g \in Gen, CloseGate(g) PROVE Hands'
  BY <1>8, CloseGateEffect, Numbers, SMTT(30) DEF Authority, Hands, Stray, Frame
<1>9. ASSUME NEW g \in Gen, ChildFailed(g) PROVE Hands'
  BY <1>9, ChildFailedEffect, FailureEffect, Numbers, SMTT(30) DEF Authority, Record, Hands,
     Stray
<1>10. ASSUME NEW g \in Gen, StopReceived(g) PROVE Hands'
  <2>1. /\ UNCHANGED <<endpoint, target, inbox, phase>> /\ phase[g] = "idle"
        /\ alive'[g] = "dead" /\ \A h \in Gen : h # g => alive'[h] = alive[h]
    BY <1>10, StopReceivedEffect DEF Authority, Frame
  <2>2. \A h \in Gen : Stray(h) => Stray(h)'
    BY <2>1 DEF Stray
  <2> QED BY <2>1, <2>2 DEF Authority, Hands
<1>11. ASSUME NEW why \in {"failure", "reset"}, Schedule(why) PROVE Hands'
  BY <1>11, HandsFrame DEF Schedule, Authority, guardian, gates, threads, stoppers,
     world, record
<1>12. CASE Fire
  BY <1>12, HandsFrame DEF Fire, Authority, guardian, gates, threads, stoppers, world,
     record
<1>13. CASE CheckRestart
  BY <1>13, HandsFrame DEF CheckRestart, Authority, guardian, gates, threads,
     stoppers, world, record
<1>14. CASE Build
  <2>1. restarting \in Gen /\ alive[restarting] = "none"
    <3>1. restarting \in Gen /\ step = "building" /\ restarting \in Underway
      BY <1>14, BuildEffect DEF Authority, Underway
    <3> QED BY <3>1 DEF Authority, Unbuilt
  <2>2. phase[restarting] = "idle" /\ inbox[restarting] = <<>>
    BY <2>1 DEF Authority, Unbuilt
  <2>3. \A t \in {"stop", "drain"} : target[t] # restarting
    BY <2>1 DEF Authority, Record
  <2>4. ASSUME NEW h \in Gen, h = restarting
        PROVE  Stray(h)' /\ phase'[h] = "idle" /\ endpoint' = endpoint
    BY <1>14, <2>2, <2>3, <2>4, BuildEffect DEF Authority, Stray
  <2>5. /\ UNCHANGED <<inbox, phase, endpoint, target>>
        /\ \A h \in Gen : h # restarting => UNCHANGED alive[h]
    BY <1>14, BuildEffect DEF Authority
  <2>6. ASSUME NEW h \in Gen, h # restarting
        PROVE  UNCHANGED <<alive[h], phase[h], endpoint>> /\ (Stray(h) => Stray(h)')
    BY <2>5, <2>6 DEF Stray
  <2> QED BY <2>1, <2>4, <2>6 DEF Authority, Hands
<1>15. CASE BuildFails
  BY <1>15, BuildFailsEffect, FailureEffect, Numbers DEF Authority, Record, Hands,
     Stray
<1>16. CASE Publish
  BY <1>16, PublishEffect, Numbers DEF Authority, Unbuilt, Record, Hands, Stray
<1>17. CASE StopBegin
  BY <1>17, StopBeginEffect, Numbers DEF Authority, Hands, Stray
<1>18. CASE DrainBegin
  BY <1>18, HandsFrame DEF DrainBegin, Authority, record, threads, world
<1>19. CASE DrainPolled
  BY <1>19, DrainPolledEffect, Numbers DEF Authority, Hands, Stray
<1>20. CASE Reset
  BY <1>20, ResetEffect, Numbers DEF Authority, Hands, Stray
<1>21. ASSUME NEW t \in {"stop", "drain"}, Signal(t) PROVE Hands'
  BY <1>21, SignalEffect, Numbers DEF Authority, Hands, Stray
<1>22. ASSUME NEW t \in {"stop", "drain"}, Confirmed(t) PROVE Hands'
  BY <1>22, ConfirmedEffect, Numbers DEF Authority, Hands, Stray
<1>23. ASSUME NEW t \in {"stop", "drain"}, TimeOut(t) PROVE Hands'
  BY <1>23, HandsFrame DEF TimeOut, Authority, guardian, scheduler, gates, threads,
     world, record
<1>24. ASSUME NEW t \in {"stop", "drain"}, Capture(t) PROVE Hands'
  BY <1>24, CaptureEffect, Numbers DEF Authority, Record, Hands, Stray
<1>25. CASE UNCHANGED vars
  BY <1>25, HandsFrame DEF vars, Authority, record, guardian, scheduler, gates,
     threads, stoppers, world
<1> QED BY <1>1, <1>2, <1>3, <1>4, <1>5, <1>6, <1>7, <1>8, <1>9, <1>10, <1>11,
        <1>12, <1>13, <1>14, <1>15, <1>16, <1>17, <1>18, <1>19, <1>20, <1>21, <1>22,
        <1>23, <1>24, <1>25 DEF Next, ActorStep, RestartStep, StopStep

======================================================================
