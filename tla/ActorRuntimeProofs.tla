------------------------- MODULE ActorRuntimeProofs -------------------------
(***************************************************************************)
(* Proofs about ActorRuntime, for every set of commands, mailbox capacity, *)
(* restart budget and number of generations.                               *)
(***************************************************************************)
EXTENDS ActorRuntime, TLAPS

USE StopAssumption, LimitsAssumption DEF Gen

-----------------------------------------------------------------------------
(* Type correctness                                                        *)

LEMMA LessType == \A n \in Nat : Less(n) \in Nat
  BY DEF Less

\* A failure leaves a well-typed record.
LEMMA FailureType ==
  ASSUME TypeOK, Failure
  PROVE  /\ state' \in {"running", "restart_pending", "quarantined", "stopped"}
         /\ generation' \in Gen /\ endpoint' \in 0..MaxGen /\ failures' \in Nat
         /\ neverBegun' \subseteq Cmd /\ handing' \subseteq Cmd
         /\ owed' \in [{"failure", "reset"} -> 0..MaxGen]
<1>1. PICK recent \in 0..failures :
        /\ failures' = recent + 1
        /\ \/ /\ draining
              /\ state' = "stopped"
              /\ UNCHANGED <<generation, owed>>
           \/ /\ ~ draining /\ recent >= MaxRestarts
              /\ state' = "quarantined"
              /\ UNCHANGED <<generation, owed>>
           \/ /\ ~ draining /\ recent < MaxRestarts /\ generation < MaxGen
              /\ state' = "restart_pending"
              /\ generation' = generation + 1
              /\ owed' = [owed EXCEPT !["failure"] = generation + 1]
  BY DEF Failure
<1>2. failures' \in Nat /\ generation' \in Gen /\ generation + 1 \in Nat
  BY <1>1 DEF TypeOK, GuardianOK
<1>3. owed' \in [{"failure", "reset"} -> 0..MaxGen]
  BY <1>1 DEF TypeOK, GuardianOK, SchedulerOK
<1>4. neverBegun' \subseteq Cmd /\ handing' \subseteq Cmd /\ endpoint' \in 0..MaxGen
  BY DEF Failure, Undelivered, TypeOK, GuardianOK
<1> QED BY <1>1, <1>2, <1>3, <1>4

LEMMA NextType == TypeOK /\ [Next]_vars => TypeOK'
<1> SUFFICES ASSUME TypeOK, [Next]_vars PROVE TypeOK'
  OBVIOUS
<1> USE DEF TypeOK, GuardianOK, SchedulerOK, EndpointsOK, StoppersOK
<1>1. ASSUME NEW c \in Cmd, Reserve(c) PROVE TypeOK'
  BY <1>1 DEF Reserve, scheduler, threads, stoppers, world
<1>2. ASSUME NEW c \in Cmd, Put(c) PROVE TypeOK'
  <2>1. CASE alive[endpoint] = "alive"
    <3>1. endpoint \in Gen => Append(inbox[endpoint], c) \in Seq(Messages)
      BY DEF Messages
    <3>2. inbox' \in [Gen -> Seq(Messages)]
      BY <1>2, <2>1, <3>1, ZenonT(40) DEF Put
    <3> QED BY <1>2, <2>1, <3>2 DEF Put, scheduler, stoppers, gates
  <2>2. CASE alive[endpoint] # "alive"
    <3>1. queued' \in [Gen -> Nat]
      <4>1. queued' = [queued EXCEPT ![endpoint] = Less(queued[endpoint])]
        BY <1>2, <2>2 DEF Put
      <4>2. \A g \in Gen : Less(queued[g]) \in Nat
        BY LessType
      <4> QED BY <4>1, <4>2
    <3>2. UNCHANGED <<inbox, accepted>> /\ closed' \in [Gen -> BOOLEAN]
      BY <1>2, <2>2 DEF Put
    <3>3. neverBegun' \subseteq Cmd /\ telling' = {}
      BY <1>2, <2>2 DEF Put
    <3>4. UNCHANGED <<state, generation, endpoint, failures, draining, scheduler,
                      alive, phase, current, stoppers, handing, begun, returned>>
      BY <1>2 DEF Put
    <3> QED BY <3>1, <3>2, <3>3, <3>4 DEF scheduler, stoppers
  <2> QED BY <2>1, <2>2
<1>3. ASSUME NEW c \in Cmd, Report(c) PROVE TypeOK'
  BY <1>3 DEF Report, guardian, record, scheduler, gates, threads, stoppers
<1>4. ASSUME NEW g \in Gen, Begin(g) PROVE TypeOK'
  <2>1. Head(inbox[g]) \in Cmd /\ Tail(inbox[g]) \in Seq(Messages)
    BY <1>4 DEF Begin, Messages
  <2>2. EndpointsOK'
    BY <1>4, <2>1, LessType DEF Begin
  <2> QED BY <1>4, <2>2 DEF Begin, guardian, record, scheduler, stoppers, world
<1>5. ASSUME NEW g \in Gen, Started(g) PROVE TypeOK'
  BY <1>5 DEF Started, TokenReturned, scheduler, gates, stoppers
<1>6. ASSUME NEW g \in Gen, Complete(g) \/ Raise(g) PROVE TypeOK'
  <2>1. CASE Complete(g)
    BY <2>1 DEF Complete, guardian, record, scheduler, gates, stoppers, world
  <2>2. CASE Raise(g)
    BY <2>2 DEF Raise, guardian, record, scheduler, gates, stoppers, world
  <2> QED BY <1>6, <2>1, <2>2
<1>7. ASSUME NEW g \in Gen, CloseGate(g) PROVE TypeOK'
  BY <1>7 DEF CloseGate, guardian, record, scheduler, stoppers, world
<1>8. ASSUME NEW g \in Gen, ChildFailed(g) PROVE TypeOK'
  BY <1>8, FailureType DEF ChildFailed, record, gates, stoppers, world
<1>9. ASSUME NEW g \in Gen, StopReceived(g) PROVE TypeOK'
  BY <1>9 DEF StopReceived, guardian, record, scheduler, gates, stoppers, world
<1>10. ASSUME NEW why \in {"failure", "reset"}, Schedule(why) PROVE TypeOK'
  BY <1>10 DEF Schedule, guardian, record, gates, threads, stoppers, world
<1>11. CASE Fire \/ CheckRestart
  <2>1. CASE Fire
    BY <2>1 DEF Fire, guardian, record, gates, threads, stoppers, world
  <2>2. CASE CheckRestart
    BY <2>2 DEF CheckRestart, guardian, record, gates, threads, stoppers, world
  <2> QED BY <1>11, <2>1, <2>2
<1>12. CASE Build
  BY <1>12 DEF Build, guardian, record, gates, stoppers, world
<1>13. CASE BuildFails
  BY <1>13, FailureType DEF BuildFails, record, gates, threads, stoppers, world
<1>14. CASE Publish
  <2>1. restarting \in Gen => Append(inbox[restarting], Stop) \in Seq(Messages)
    BY DEF Messages
  <2>2. restarting \in Gen
    BY <1>14 DEF Publish
  <2>3. CASE Stale(restarting)
    <3>1. /\ closed' = [closed EXCEPT ![restarting] = TRUE]
          /\ inbox' = [inbox EXCEPT ![restarting] = Append(@, Stop)]
          /\ UNCHANGED <<endpoint, state>>
      BY <1>14, <2>3 DEF Publish
    <3>2. inbox' \in [Gen -> Seq(Messages)]
      BY <2>1, <2>2, <3>1
    <3> QED BY <1>14, <2>2, <3>1, <3>2 DEF Publish, stoppers, world
  <2>4. CASE ~ Stale(restarting)
    <3>1. endpoint' = restarting /\ state' = "running" /\ UNCHANGED <<closed, inbox>>
      BY <1>14, <2>4 DEF Publish
    <3> QED BY <1>14, <2>2, <3>1, SMTT(30) DEF Publish, stoppers, world
  <2> QED BY <2>3, <2>4
<1>15. CASE StopBegin
  <2>1. StoppersOK'
    BY <1>15 DEF StopBegin
  <2>2. generation' \in Gen
    BY <1>15 DEF StopBegin
  <2> QED BY <1>15, <2>1, <2>2, SMTT(30) DEF StopBegin, gates, threads, world
<1>16. CASE DrainBegin
  BY <1>16 DEF DrainBegin, record, threads, world
<1>17. CASE DrainPolled
  BY <1>17 DEF DrainPolled, guardian, record, scheduler, gates, threads, world
<1>18. CASE Reset
  <2>1. generation' \in Gen /\ owed' \in [{"failure", "reset"} -> 0..MaxGen]
    BY <1>18 DEF Reset
  <2> QED BY <1>18, <2>1 DEF Reset, gates, threads, stoppers, world
<1>19. ASSUME NEW t \in {"stop", "drain"}, Signal(t) PROVE TypeOK'
  <2> target[t] \in Gen
    BY <1>19 DEF Signal
  <2>1. inbox' \in [Gen -> Seq(Messages)]
    <3>1. \/ inbox' = inbox
          \/ inbox' = [inbox EXCEPT ![target[t]] = Append(inbox[target[t]], Stop)]
      BY <1>19, ZenonT(40) DEF Signal
    <3>2. Append(inbox[target[t]], Stop) \in Seq(Messages)
      BY DEF Messages
    <3> QED BY <3>1, <3>2, ZenonT(40)
  <2>2. closed' \in [Gen -> BOOLEAN]
    BY <1>19 DEF Signal
  <2>3. StoppersOK'
    BY <1>19 DEF Signal
  <2>4. UNCHANGED <<guardian, scheduler, queued, alive, phase, current, handing, world>>
    BY <1>19 DEF Signal
  <2> QED BY <2>1, <2>2, <2>3, <2>4 DEF guardian, record, scheduler, world
<1>20. ASSUME NEW t \in {"stop", "drain"}, Confirmed(t) \/ TimeOut(t) PROVE TypeOK'
  <2>1. StoppersOK'
    BY <1>20 DEF Confirmed, TimeOut
  <2> QED BY <1>20, <2>1, ZenonT(40) DEF Confirmed, TimeOut, guardian, record, scheduler, gates,
                             threads, world
<1>21. ASSUME NEW t \in {"stop", "drain"}, Capture(t) PROVE TypeOK'
  BY <1>21 DEF Capture, Undelivered, scheduler, gates, threads, world
<1>22. CASE UNCHANGED vars
  BY <1>22 DEF vars, guardian, record, scheduler, gates, threads, stoppers, world
<1> QED
  BY <1>1, <1>2, <1>3, <1>4, <1>5, <1>6, <1>7, <1>8, <1>9, <1>10, <1>11, <1>12,
     <1>13, <1>14, <1>15, <1>16, <1>17, <1>18, <1>19, <1>20, <1>21, <1>22
     DEF Next, ActorStep, RestartStep, StopStep

LEMMA InitType == Init => TypeOK
<1>1. ASSUME Init PROVE TypeOK
  <2>1. GuardianOK
    <3>1. /\ state = "running" /\ generation = 1 /\ endpoint = 1 /\ failures = 0
          /\ neverBegun = {} /\ draining = FALSE /\ telling = {}
      BY <1>1 DEF Init
    <3>2. MaxGen \in Nat /\ 1 <= MaxGen
      BY LimitsAssumption
    <3>3. 1 \in Gen /\ 1 \in 0..MaxGen
      BY <3>2
    <3>4. generation \in Gen /\ endpoint \in 0..MaxGen /\ failures \in Nat
      BY <3>1, <3>3
    <3>5. neverBegun \subseteq Cmd /\ draining \in BOOLEAN /\ telling \subseteq Cmd
      BY <3>1
    <3> QED BY <3>1, <3>4, <3>5 DEF GuardianOK
  <2>2. SchedulerOK
    BY <1>1 DEF Init, SchedulerOK
  <2>3. EndpointsOK
    <3>1. <<>> \in Seq(Messages)
      OBVIOUS
    <3> QED BY <1>1, <3>1 DEF Init, EndpointsOK
  <2>4. StoppersOK
    BY <1>1 DEF Init, StoppersOK
  <2> QED BY <1>1, <2>1, <2>2, <2>3, <2>4 DEF Init, TypeOK
<1> QED BY <1>1

\* The runtime's state is well typed whatever fails, stops and restarts; the
\* counters of the gates never go below zero.
THEOREM TypeCorrect == Spec => []TypeOK
  BY InitType, NextType, PTL DEF Spec

=============================================================================
