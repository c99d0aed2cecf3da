------------------------- MODULE RuntimeCustodyProofs -------------------------
(***************************************************************************)
(* Custody of the commands: the tokens of the guardian agree with what is  *)
(* in the mailboxes of living threads (Tokens, Mail), whatever fails; and  *)
(* so the runtime implements CommandCustody.                               *)
(***************************************************************************)
EXTENDS RuntimeAuthorityProofs

USE StopAssumption, LimitsAssumption DEF Gen

\* Tokens, and the commands taken from the record, are of open commands only.
Tokens ==
    /\ \A c, d \in telling : c = d
    /\ telling \subseteq neverBegun \ accepted
    /\ neverBegun \subseteq accepted \cup telling
    /\ neverBegun \cap (begun \cup returned \cup handing) = {}
    /\ handing \subseteq accepted \ (begun \cup returned)
    /\ begun \cup returned \subseteq accepted /\ begun \cap returned = {}
    /\ accepted \subseteq begun \cup returned \cup handing \cup neverBegun
    /\ endpoint = 0 => neverBegun = {}

\* The command a thread has taken but not started.
InHand(g) == IF phase[g] = "begun" THEN current[g] ELSE {}

\* A living thread's mailbox holds each command once, and with its token.
Mail ==
    /\ \A g \in Gen : alive[g] = "alive" =>
          \A i \in 1..Len(inbox[g]) : inbox[g][i] # Stop =>
                /\ g = endpoint
                /\ inbox[g][i] \in neverBegun \ (telling \cup InHand(g))
    /\ \A g \in Gen : alive[g] = "alive" =>
          \A i, j \in 1..Len(inbox[g]) :
                inbox[g][i] = inbox[g][j] /\ inbox[g][i] # Stop => i = j
    /\ \A g \in Gen : phase[g] = "begun" =>
          \E c \in neverBegun \ telling : current[g] = {c}

CustodyInv == Authority /\ Tokens /\ Mail

LEMMA TokensFrame ==
  ASSUME Tokens,
         UNCHANGED <<telling, neverBegun, endpoint, handing, accepted, begun, returned>>
  PROVE  Tokens'
  BY DEF Tokens

LEMMA MailFrame ==
  ASSUME Mail, UNCHANGED <<telling, neverBegun, endpoint, alive, inbox, phase, current>>
  PROVE  Mail'
  BY DEF Mail, InHand

LEMMA TokensKept ==
  ASSUME CustodyInv, TypeOK', [Next]_vars
  PROVE  Tokens'
<1>1. ASSUME NEW c \in Cmd, Reserve(c) PROVE Tokens'
  BY <1>1 DEF Reserve, CustodyInv, Tokens, Unlocked, scheduler, threads, stoppers,
     world
<1>2. ASSUME NEW c \in Cmd, Put(c) PROVE Tokens'
  BY <1>2 DEF Put, CustodyInv, Tokens, Unlocked, scheduler, gates, stoppers
<1>3. ASSUME NEW c \in Cmd, Report(c) PROVE Tokens'
  BY <1>3 DEF Report, CustodyInv, Tokens, Unlocked, guardian, scheduler, gates,
     threads, stoppers, record
<1>4. ASSUME NEW g \in Gen, Begin(g) PROVE Tokens'
  BY <1>4, TokensFrame DEF Begin, CustodyInv, guardian, scheduler, stoppers, world,
     record
<1>5. ASSUME NEW g \in Gen, Started(g) PROVE Tokens'
  BY <1>5 DEF Started, CustodyInv, Tokens, Mail, TypeOK, GuardianOK, Undelivered,
     TokenReturned, Unlocked, scheduler, gates, stoppers
<1>6. ASSUME NEW g \in Gen, Complete(g) PROVE Tokens'
  BY <1>6, TokensFrame DEF Complete, CustodyInv, guardian, scheduler, gates, stoppers,
     world, record
<1>7. ASSUME NEW g \in Gen, Raise(g) PROVE Tokens'
  BY <1>7, TokensFrame DEF Raise, CustodyInv, guardian, scheduler, gates, stoppers,
     world, record
<1>8. ASSUME NEW g \in Gen, CloseGate(g) PROVE Tokens'
  BY <1>8, TokensFrame DEF CloseGate, CustodyInv, guardian, scheduler, stoppers,
     world, record
<1>9. ASSUME NEW g \in Gen, ChildFailed(g) PROVE Tokens'
  BY <1>9 DEF ChildFailed, Failure, CustodyInv, Tokens, Mail, TypeOK, GuardianOK,
     Undelivered, TokenReturned, Unlocked, record, gates, stoppers, world
<1>10. ASSUME NEW g \in Gen, StopReceived(g) PROVE Tokens'
  BY <1>10, TokensFrame DEF StopReceived, CustodyInv, guardian, scheduler, gates,
     stoppers, world, record
<1>11. ASSUME NEW why \in {"failure", "reset"}, Schedule(why) PROVE Tokens'
  BY <1>11, TokensFrame DEF Schedule, CustodyInv, guardian, gates, threads, stoppers,
     world, record
<1>12. CASE Fire
  BY <1>12, TokensFrame DEF Fire, CustodyInv, guardian, gates, threads, stoppers,
     world, record
<1>13. CASE CheckRestart
  BY <1>13, TokensFrame DEF CheckRestart, CustodyInv, guardian, gates, threads,
     stoppers, world, record
<1>14. CASE Build
  BY <1>14, TokensFrame DEF Build, CustodyInv, guardian, gates, stoppers, world,
     record
<1>15. CASE BuildFails
  BY <1>15 DEF BuildFails, Failure, Expected, CustodyInv, Tokens, Mail, TypeOK,
     GuardianOK, Undelivered, TokenReturned, Unlocked, record, gates, threads,
     stoppers, world
<1>16. CASE Publish
  BY <1>16 DEF Publish, Stale, CustodyInv, Tokens, Mail, TypeOK, GuardianOK,
     Undelivered, TokenReturned, Unlocked, stoppers, world
<1>17. CASE StopBegin
  BY <1>17, TokensFrame DEF StopBegin, CustodyInv, gates, threads, world
<1>18. CASE DrainBegin
  BY <1>18, TokensFrame DEF DrainBegin, CustodyInv, record, threads, world
<1>19. CASE DrainPolled
  BY <1>19, TokensFrame DEF DrainPolled, CustodyInv, guardian, scheduler, gates,
     threads, world, record
<1>20. CASE Reset
  BY <1>20, TokensFrame DEF Reset, CustodyInv, gates, threads, stoppers, world
<1>21. ASSUME NEW t \in {"stop", "drain"}, Signal(t) PROVE Tokens'
  BY <1>21, TokensFrame DEF Signal, CustodyInv, guardian, scheduler, world, record
<1>22. ASSUME NEW t \in {"stop", "drain"}, Confirmed(t) PROVE Tokens'
  BY <1>22, TokensFrame DEF Confirmed, CustodyInv, guardian, scheduler, gates,
     threads, world, record
<1>23. ASSUME NEW t \in {"stop", "drain"}, TimeOut(t) PROVE Tokens'
  BY <1>23, TokensFrame DEF TimeOut, CustodyInv, guardian, scheduler, gates, threads,
     world, record
<1>24. ASSUME NEW t \in {"stop", "drain"}, Capture(t) PROVE Tokens'
  BY <1>24 DEF Capture, CustodyInv, Tokens, Mail, TypeOK, GuardianOK, Undelivered,
     TokenReturned, Unlocked, scheduler, gates, threads, world
<1>25. CASE UNCHANGED vars
  BY <1>25, TokensFrame DEF vars, CustodyInv, record, guardian, scheduler, gates,
     threads, stoppers, world
<1> QED BY <1>1, <1>2, <1>3, <1>4, <1>5, <1>6, <1>7, <1>8, <1>9, <1>10, <1>11,
        <1>12, <1>13, <1>14, <1>15, <1>16, <1>17, <1>18, <1>19, <1>20, <1>21, <1>22,
        <1>23, <1>24, <1>25 DEF Next, ActorStep, RestartStep, StopStep

-----------------------------------------------------------------------------
(* What the actions do to a mailbox                                        *)

Letters(g) == 1..Len(inbox[g])

LEMMA MailTypes ==
  ASSUME TypeOK, NEW g \in Gen
  PROVE  /\ inbox[g] \in Seq(Messages) /\ Len(inbox[g]) \in Nat
         /\ \A i \in Letters(g) : inbox[g][i] \in Messages
  BY DEF TypeOK, EndpointsOK, Letters

LEMMA Taken ==
  ASSUME NEW q \in Seq(Messages), q # <<>>
  PROVE  /\ 1 \in 1..Len(q) /\ Head(q) = q[1]
         /\ \A i \in 1..Len(Tail(q)) : /\ Tail(q)[i] = q[i + 1]
                                       /\ i + 1 \in 1..Len(q) /\ i + 1 # 1
         /\ \A i, j \in 1..Len(Tail(q)) : i + 1 = j + 1 => i = j
  OBVIOUS

\* The thread's mailbox gets a message at its end.
Appends(g, m) ==
    /\ inbox'[g] = Append(inbox[g], m)
    /\ \A h \in Gen : h # g => inbox'[h] = inbox[h]

LEMMA Appended ==
  ASSUME TypeOK, NEW g \in Gen, NEW m \in Messages, Appends(g, m)
  PROVE  /\ \A i \in 1..Len(inbox'[g]) :
               \/ i \in 1..Len(inbox[g]) /\ inbox'[g][i] = inbox[g][i]
               \/ i = Len(inbox[g]) + 1 /\ inbox'[g][i] = m
         /\ Len(inbox[g]) + 1 \notin 1..Len(inbox[g])
<1>1. inbox[g] \in Seq(Messages)
  BY MailTypes
<1> QED BY <1>1 DEF Appends

LEMMA ReserveMail ==
  ASSUME TypeOK, NEW c \in Cmd, Reserve(c)
  PROVE  /\ telling = {} /\ c \notin accepted
         /\ telling' = {c} /\ neverBegun' = neverBegun \cup {c}
         /\ UNCHANGED <<inbox, alive, phase, current, endpoint>>
  BY DEF Reserve, Unlocked, threads

LEMMA PutMail ==
  ASSUME CustodyInv, NEW c \in Cmd, Put(c)
  PROVE  /\ endpoint \in Gen /\ c \in telling /\ telling' = {}
         /\ \/ alive[endpoint] = "alive" /\ Appends(endpoint, c) /\ UNCHANGED neverBegun
            \/ inbox' = inbox /\ neverBegun' = neverBegun \ {c}
         /\ UNCHANGED <<alive, phase, current, endpoint>>
<1>1. endpoint \in Gen
  BY DEF CustodyInv, Authority, Tokens, Put, TypeOK, GuardianOK
<1> QED BY <1>1 DEF Put, CustodyInv, Authority, TypeOK, EndpointsOK, Appends

LEMMA BeginMail ==
  ASSUME TypeOK, NEW g \in Gen, Begin(g)
  PROVE  /\ alive[g] = "alive" /\ phase[g] = "idle"
         /\ inbox[g] # <<>> /\ Head(inbox[g]) # Stop
         /\ inbox'[g] = Tail(inbox[g]) /\ current'[g] = {Head(inbox[g])}
         /\ phase'[g] = "begun"
         /\ \A h \in Gen : h # g => /\ inbox'[h] = inbox[h] /\ current'[h] = current[h]
                                    /\ phase'[h] = phase[h]
         /\ UNCHANGED <<telling, neverBegun, alive, endpoint>>
  BY DEF Begin, TypeOK, EndpointsOK, guardian, record

LEMMA BuildMail ==
  ASSUME TypeOK, Build
  PROVE  /\ restarting \in Gen /\ step = "building"
         /\ \A h \in Gen : alive'[h] = IF h = restarting THEN "alive" ELSE alive[h]
         /\ UNCHANGED <<telling, neverBegun, inbox, phase, current, endpoint>>
  BY DEF Build, TypeOK, EndpointsOK, SchedulerOK, guardian, record

LEMMA PublishMail ==
  ASSUME TypeOK, Publish
  PROVE  /\ restarting \in Gen /\ step = "built"
         /\ \/ state = "restart_pending" /\ endpoint' = restarting /\ UNCHANGED inbox
            \/ endpoint' = endpoint /\ Appends(restarting, Stop)
         /\ UNCHANGED <<telling, neverBegun, alive, phase, current>>
  BY DEF Publish, Stale, TypeOK, EndpointsOK, SchedulerOK, Appends

LEMMA SignalMail ==
  ASSUME TypeOK, NEW t \in {"stop", "drain"}, Signal(t)
  PROVE  /\ target[t] \in Gen
         /\ inbox' = inbox \/ Appends(target[t], Stop)
         /\ UNCHANGED <<telling, neverBegun, alive, phase, current, endpoint>>
<1>1. target[t] \in Gen
  BY DEF Signal, TypeOK, StoppersOK
<1>2. inbox' = inbox \/ inbox' = [inbox EXCEPT ![target[t]] = Append(@, Stop)]
              \/ inbox' = [inbox EXCEPT ![target[t]] = @]
  BY DEF Signal
<1>3. inbox' = [inbox EXCEPT ![target[t]] = @] => inbox' = inbox
  BY <1>1 DEF TypeOK, EndpointsOK
<1>4. UNCHANGED <<telling, neverBegun, alive, phase, current, endpoint>>
  BY DEF Signal, guardian, record
<1> QED BY <1>1, <1>2, <1>3, <1>4 DEF TypeOK, EndpointsOK, Appends

\* The record lets go of its endpoint: a failure, or a confirmed stop.
LetGo ==
    /\ telling = {} /\ neverBegun' = {} /\ endpoint' = 0

LEMMA ChildFailedMail ==
  ASSUME TypeOK, NEW g \in Gen, ChildFailed(g)
  PROVE  /\ phase[g] = "closed"
         /\ \A h \in Gen : phase'[h] = IF h = g THEN "gone" ELSE phase[h]
         /\ \/ generation = g /\ state = "running" /\ LetGo
            \/ UNCHANGED <<neverBegun, endpoint>>
         /\ UNCHANGED <<telling, alive, inbox, current>>
  BY DEF ChildFailed, Failure, LetGo, Unlocked, TypeOK, EndpointsOK, record

LEMMA BuildFailsMail ==
  ASSUME TypeOK, BuildFails
  PROVE  /\ \/ state = "restart_pending" /\ LetGo
            \/ UNCHANGED <<neverBegun, endpoint>>
         /\ UNCHANGED <<telling, alive, inbox, phase, current>>
  BY DEF BuildFails, Expected, Failure, LetGo, Unlocked, record, threads

LEMMA CaptureMail ==
  ASSUME TypeOK, NEW t \in {"stop", "drain"}, Capture(t)
  PROVE  /\ target[t] \in Gen /\ pc[t] = "capture"
         /\ \/ endpoint = target[t] /\ LetGo
            \/ UNCHANGED <<neverBegun, endpoint>>
         /\ UNCHANGED <<telling, alive, inbox, phase, current>>
  BY DEF Capture, LetGo, Unlocked, TypeOK, StoppersOK, threads

\* When the record lets go of an endpoint that is not alive, no mailbox of a
\* living thread holds a command, and no thread has one in hand.
LEMMA LetGoKeepsMail ==
  ASSUME CustodyInv, LetGo, UNCHANGED <<alive, inbox>>,
         \A g \in Gen : phase'[g] = "begun" => phase[g] = "begun",
         endpoint \in Gen => alive[endpoint] # "alive"
  PROVE  Mail'
<1>1. \A g \in Gen : alive[g] = "alive" => \A i \in 1..Len(inbox[g]) : inbox[g][i] = Stop
  BY DEF CustodyInv, Mail
<1>2. \A g \in Gen : phase[g] # "begun"
  BY DEF CustodyInv, Authority, Hands, Stray
<1> QED BY <1>1, <1>2 DEF Mail, CustodyInv

LEMMA MailKept ==
  ASSUME CustodyInv, TypeOK', [Next]_vars
  PROVE  Mail'
<1>1. ASSUME NEW c \in Cmd, Reserve(c) PROVE Mail'
  BY <1>1, ReserveMail DEF CustodyInv, Authority, Tokens, Mail, InHand
<1>2. ASSUME NEW c \in Cmd, Put(c) PROVE Mail'
  <2>1. CASE inbox' = inbox /\ neverBegun' = neverBegun \ {c}
    BY <1>2, <2>1, PutMail DEF CustodyInv, Mail, InHand
  <2>2. CASE Appends(endpoint, c) /\ alive[endpoint] = "alive" /\ UNCHANGED neverBegun
    <3>1. inbox[endpoint] \in Seq(Messages) /\ c \in Messages
      BY <1>2, PutMail DEF CustodyInv, Authority, TypeOK, EndpointsOK, Messages
    <3>2. c \in neverBegun /\ c # Stop
      BY <1>2, PutMail DEF CustodyInv, Tokens
    <3>3. \A i \in 1..Len(inbox[endpoint]) : inbox[endpoint][i] # c
      BY <1>2, <2>2, PutMail, <3>2 DEF CustodyInv, Mail
    <3>4. c \notin InHand(endpoint)
      BY <1>2, <2>2, PutMail, <3>2 DEF CustodyInv, Mail, InHand
    <3>5. \A i \in 1..Len(inbox'[endpoint]) :
             \/ i \in 1..Len(inbox[endpoint]) /\ inbox'[endpoint][i] = inbox[endpoint][i]
             \/ i = Len(inbox[endpoint]) + 1 /\ inbox'[endpoint][i] = c
      BY <1>2, <2>2, <3>1, PutMail, Appended DEF CustodyInv, Authority
    <3>6. ASSUME NEW g \in Gen, alive[g] = "alive"
          PROVE  (\A i \in 1..Len(inbox[g]) : inbox[g][i] # Stop =>
                     /\ g = endpoint
                     /\ inbox[g][i] \in neverBegun \ (telling \cup InHand(g)))'
      <4>1. CASE g = endpoint
        BY <1>2, <2>2, <3>2, <3>4, <3>5, <3>6, <4>1, PutMail DEF CustodyInv, Mail, InHand
      <4>2. CASE g # endpoint
        <5>1. inbox'[g] = inbox[g]
          BY <2>2, <4>2 DEF Appends
        <5> QED BY <1>2, <2>2, <3>6, <4>2, <5>1, PutMail DEF CustodyInv, Mail, InHand
      <4> QED BY <4>1, <4>2
    <3>7. ASSUME NEW g \in Gen, alive[g] = "alive"
          PROVE  (\A i, j \in 1..Len(inbox[g]) :
                     inbox[g][i] = inbox[g][j] /\ inbox[g][i] # Stop => i = j)'
      <4>1. CASE g = endpoint
        BY <2>2, <3>3, <3>5, <3>7, <4>1 DEF CustodyInv, Mail
      <4>2. CASE g # endpoint
        <5>1. inbox'[g] = inbox[g]
          BY <2>2, <4>2 DEF Appends
        <5> QED BY <3>7, <5>1 DEF CustodyInv, Mail
      <4> QED BY <4>1, <4>2
    <3> QED BY <1>2, <2>2, <3>6, <3>7, PutMail DEF CustodyInv, Mail
  <2> QED BY <1>2, <2>1, <2>2, PutMail
<1>3. ASSUME NEW c \in Cmd, Report(c) PROVE Mail'
  BY <1>3, MailFrame DEF Report, CustodyInv, guardian, scheduler, gates, threads,
     stoppers, record
<1>4. ASSUME NEW g \in Gen, Begin(g) PROVE Mail'
  <2>1. /\ inbox[g] \in Seq(Messages) /\ inbox[g] # <<>> /\ Head(inbox[g]) # Stop
        /\ inbox'[g] = Tail(inbox[g])
    BY <1>4, BeginMail, MailTypes DEF CustodyInv, Authority
  <2>2. Head(inbox[g]) \in neverBegun \ telling /\ g = endpoint
    BY <1>4, <2>1, Taken, BeginMail DEF CustodyInv, Authority, Mail
  <2>3. \A i \in 1..Len(inbox'[g]) : /\ inbox'[g][i] = inbox[g][i + 1]
                                     /\ i + 1 \in 1..Len(inbox[g]) /\ i + 1 # 1
    BY <2>1, Taken
  <2>4. \A i \in 1..Len(inbox'[g]) : inbox'[g][i] # Head(inbox[g])
    <3>1. 1 \in 1..Len(inbox[g]) /\ Head(inbox[g]) = inbox[g][1]
      BY <2>1, Taken
    <3> QED BY <1>4, <2>1, <2>3, <3>1, BeginMail DEF CustodyInv, Authority, Mail
  <2>5. (\A i \in 1..Len(inbox[g]) : inbox[g][i] # Stop =>
             g = endpoint /\ inbox[g][i] \in neverBegun \ (telling \cup InHand(g)))'
    <3>1. alive[g] = "alive" /\ InHand(g)' = {Head(inbox[g])}
          /\ UNCHANGED <<telling, neverBegun, endpoint>>
      BY <1>4, BeginMail DEF CustodyInv, Authority, InHand
    <3>2. \A i \in 1..Len(inbox[g]) : inbox[g][i] # Stop => inbox[g][i] \in neverBegun \ telling
      BY <3>1 DEF CustodyInv, Mail
    <3> QED BY <2>2, <2>3, <2>4, <3>1, <3>2
  <2>6. (\A i, j \in 1..Len(inbox[g]) :
             inbox[g][i] = inbox[g][j] /\ inbox[g][i] # Stop => i = j)'
    <3>1. \A i, j \in 1..Len(inbox'[g]) : i + 1 = j + 1 => i = j
      BY <2>1, Taken
    <3>2. \A i, j \in 1..Len(inbox[g]) :
             inbox[g][i] = inbox[g][j] /\ inbox[g][i] # Stop => i = j
      BY <1>4, BeginMail DEF CustodyInv, Authority, Mail
    <3> QED BY <2>3, <3>1, <3>2
  <2>7. ASSUME NEW h \in Gen, h # g
        PROVE  UNCHANGED <<inbox[h], phase[h], InHand(h), telling, neverBegun, alive,
                           endpoint>>
    BY <1>4, <2>7, BeginMail DEF CustodyInv, Authority, InHand
  <2>8. (\A h \in Gen : phase[h] = "begun" => \E c \in neverBegun \ telling : current[h] = {c})'
    BY <1>4, <2>2, BeginMail DEF CustodyInv, Authority, Mail
  <2>9. ASSUME NEW h \in Gen, alive'[h] = "alive"
        PROVE  (/\ \A i \in 1..Len(inbox[h]) : inbox[h][i] # Stop =>
                      h = endpoint /\ inbox[h][i] \in neverBegun \ (telling \cup InHand(h))
                /\ \A i, j \in 1..Len(inbox[h]) :
                      inbox[h][i] = inbox[h][j] /\ inbox[h][i] # Stop => i = j)'
    <3>1. CASE h = g
      BY <2>5, <2>6, <3>1
    <3>2. CASE h # g
      BY <2>7, <2>9, <3>2 DEF CustodyInv, Mail
    <3> QED BY <3>1, <3>2
  <2> QED BY <2>8, <2>9 DEF Mail
<1>5. ASSUME NEW g \in Gen, Started(g) PROVE Mail'
  <2>1. PICK c \in neverBegun \ telling : current[g] = {c}
    BY <1>5 DEF Started, CustodyInv, Mail
  <2>2. /\ phase[g] = "begun" /\ neverBegun' = neverBegun \ {c}
        /\ \A h \in Gen : phase'[h] = IF h = g THEN "running" ELSE phase[h]
        /\ UNCHANGED <<telling, alive, inbox, current, endpoint>>
    BY <1>5, <2>1 DEF Started, TokenReturned, CustodyInv, Authority, TypeOK, EndpointsOK
  <2>3. \A h \in Gen : phase[h] = "begun" => h = endpoint
    BY DEF CustodyInv, Authority, Hands, Stray
  <2>4. g = endpoint /\ c \in InHand(g)
    BY <1>5, <2>1, <2>2, <2>3 DEF InHand
  <2>5. \A h \in Gen : phase'[h] # "begun"
    BY <1>5, <2>2, <2>3, <2>4
  <2>6. ASSUME NEW h \in Gen, alive[h] = "alive"
        PROVE  (\A i \in 1..Len(inbox[h]) : inbox[h][i] # Stop =>
                   h = endpoint /\ inbox[h][i] \in neverBegun \ (telling \cup InHand(h)))'
    BY <2>2, <2>4, <2>5, <2>6 DEF CustodyInv, Mail, InHand
  <2> QED BY <2>2, <2>5, <2>6 DEF CustodyInv, Mail
<1>6. ASSUME NEW g \in Gen, Complete(g) PROVE Mail'
  BY <1>6 DEF Complete, CustodyInv, Mail, InHand, guardian, scheduler, gates,
     stoppers, world, record
<1>7. ASSUME NEW g \in Gen, Raise(g) PROVE Mail'
  BY <1>7 DEF Raise, CustodyInv, Mail, InHand, guardian, scheduler, gates, stoppers,
     world, record
<1>8. ASSUME NEW g \in Gen, CloseGate(g) PROVE Mail'
  BY <1>8 DEF CloseGate, CustodyInv, Mail, InHand, guardian, scheduler, stoppers,
     world, record
<1>9. ASSUME NEW g \in Gen, ChildFailed(g) PROVE Mail'
  <2>1. CASE generation = g /\ state = "running" /\ LetGo
    <3>1. alive[endpoint] # "alive"
      BY <1>9, <2>1, ChildFailedMail DEF CustodyInv, Authority, Record, Hands
    <3> QED BY <1>9, <2>1, <3>1, ChildFailedMail, LetGoKeepsMail DEF CustodyInv, Authority
  <2>2. CASE UNCHANGED <<neverBegun, endpoint>>
    BY <1>9, <2>2, ChildFailedMail DEF CustodyInv, Authority, Mail, InHand
  <2> QED BY <1>9, <2>1, <2>2, ChildFailedMail DEF CustodyInv, Authority
<1>10. ASSUME NEW g \in Gen, StopReceived(g) PROVE Mail'
  BY <1>10 DEF StopReceived, CustodyInv, Mail, InHand, guardian, scheduler, gates,
     stoppers, world, record
<1>11. ASSUME NEW why \in {"failure", "reset"}, Schedule(why) PROVE Mail'
  BY <1>11, MailFrame DEF Schedule, CustodyInv, guardian, gates, threads, stoppers,
     world, record
<1>12. CASE Fire
  BY <1>12, MailFrame DEF Fire, CustodyInv, guardian, gates, threads, stoppers, world,
     record
<1>13. CASE CheckRestart
  BY <1>13, MailFrame DEF CheckRestart, CustodyInv, guardian, gates, threads,
     stoppers, world, record
<1>14. CASE Build
  <2>1. inbox[restarting] = <<>>
    BY <1>14, BuildMail DEF CustodyInv, Authority, Unbuilt, Underway
  <2> QED BY <1>14, <2>1, BuildMail DEF CustodyInv, Authority, Mail, InHand
<1>15. CASE BuildFails
  <2>1. CASE state = "restart_pending" /\ LetGo
    BY <1>15, <2>1, BuildFailsMail, LetGoKeepsMail DEF CustodyInv, Authority, Record
  <2>2. CASE UNCHANGED <<neverBegun, endpoint>>
    BY <1>15, <2>2, BuildFailsMail DEF CustodyInv, Authority, Mail, InHand
  <2> QED BY <1>15, <2>1, <2>2, BuildFailsMail DEF CustodyInv, Authority
<1>16. CASE Publish
  <2>1. inbox[restarting] = <<>>
    BY <1>16, PublishMail DEF CustodyInv, Authority, Unbuilt
  <2>2. CASE state = "restart_pending" /\ endpoint' = restarting /\ UNCHANGED inbox
    BY <1>16, <2>1, <2>2, PublishMail DEF CustodyInv, Authority, Record, Mail, InHand
  <2>3. CASE endpoint' = endpoint /\ Appends(restarting, Stop)
    <3>1. inbox'[restarting] = Append(<<>>, Stop)
      BY <2>1, <2>3 DEF Appends
    <3>2. Len(inbox'[restarting]) = 1 /\ inbox'[restarting][1] = Stop
      BY <3>1
    <3> QED BY <1>16, <2>3, <3>2, PublishMail DEF CustodyInv, Authority, Appends, Mail, InHand
  <2> QED BY <1>16, <2>2, <2>3, PublishMail DEF CustodyInv, Authority
<1>17. CASE StopBegin
  BY <1>17, MailFrame DEF StopBegin, CustodyInv, gates, threads, world
<1>18. CASE DrainBegin
  BY <1>18, MailFrame DEF DrainBegin, CustodyInv, record, threads, world
<1>19. CASE DrainPolled
  BY <1>19, MailFrame DEF DrainPolled, CustodyInv, guardian, scheduler, gates,
     threads, world, record
<1>20. CASE Reset
  BY <1>20, MailFrame DEF Reset, CustodyInv, gates, threads, stoppers, world
<1>21. ASSUME NEW t \in {"stop", "drain"}, Signal(t) PROVE Mail'
  <2>1. CASE inbox' = inbox
    BY <1>21, <2>1, SignalMail DEF CustodyInv, Authority, Mail, InHand
  <2>2. CASE Appends(target[t], Stop)
    <3>1. target[t] \in Gen /\ Stop \in Messages
      BY <1>21, SignalMail DEF CustodyInv, Authority, Messages
    <3>2. \A i \in 1..Len(inbox'[target[t]]) :
             \/ /\ i \in 1..Len(inbox[target[t]])
                /\ inbox'[target[t]][i] = inbox[target[t]][i]
             \/ inbox'[target[t]][i] = Stop
      BY <2>2, <3>1, Appended DEF CustodyInv, Authority
    <3>3. ASSUME NEW g \in Gen, alive[g] = "alive"
          PROVE  (/\ \A i \in 1..Len(inbox[g]) : inbox[g][i] # Stop =>
                        /\ g = endpoint
                        /\ inbox[g][i] \in neverBegun \ (telling \cup InHand(g))
                  /\ \A i, j \in 1..Len(inbox[g]) :
                        inbox[g][i] = inbox[g][j] /\ inbox[g][i] # Stop => i = j)'
      <4>1. UNCHANGED <<telling, neverBegun, endpoint, InHand(g)>>
        BY <1>21, SignalMail DEF CustodyInv, Authority, InHand
      <4>2. \A i \in 1..Len(inbox'[g]) : inbox'[g][i] # Stop =>
               i \in 1..Len(inbox[g]) /\ inbox'[g][i] = inbox[g][i]
        BY <2>2, <3>2 DEF Appends
      <4> QED BY <3>3, <4>1, <4>2 DEF CustodyInv, Mail
    <3> QED BY <1>21, <3>3, SignalMail DEF CustodyInv, Authority, Mail
  <2> QED BY <1>21, <2>1, <2>2, SignalMail DEF CustodyInv, Authority
<1>22. ASSUME NEW t \in {"stop", "drain"}, Confirmed(t) PROVE Mail'
  BY <1>22, MailFrame DEF Confirmed, CustodyInv, guardian, scheduler, gates, threads,
     world, record
<1>23. ASSUME NEW t \in {"stop", "drain"}, TimeOut(t) PROVE Mail'
  BY <1>23, MailFrame DEF TimeOut, CustodyInv, guardian, scheduler, gates, threads,
     world, record
<1>24. ASSUME NEW t \in {"stop", "drain"}, Capture(t) PROVE Mail'
  <2>1. CASE endpoint = target[t] /\ LetGo
    <3>1. alive[endpoint] # "alive"
      BY <1>24, <2>1, CaptureMail DEF CustodyInv, Authority, Record
    <3> QED BY <1>24, <2>1, <3>1, CaptureMail, LetGoKeepsMail DEF CustodyInv, Authority
  <2>2. CASE UNCHANGED <<neverBegun, endpoint>>
    BY <1>24, <2>2, CaptureMail DEF CustodyInv, Authority, Mail, InHand
  <2> QED BY <1>24, <2>1, <2>2, CaptureMail DEF CustodyInv, Authority
<1>25. CASE UNCHANGED vars
  BY <1>25, MailFrame DEF vars, CustodyInv, record, guardian, scheduler, gates,
     threads, stoppers, world
<1> QED BY <1>1, <1>2, <1>3, <1>4, <1>5, <1>6, <1>7, <1>8, <1>9, <1>10, <1>11,
        <1>12, <1>13, <1>14, <1>15, <1>16, <1>17, <1>18, <1>19, <1>20, <1>21, <1>22,
        <1>23, <1>24, <1>25 DEF Next, ActorStep, RestartStep, StopStep

-----------------------------------------------------------------------------
(* The invariant holds *)

LEMMA InitHolds == Init => CustodyInv
<1> SUFFICES ASSUME Init PROVE CustodyInv
  OBVIOUS
<1>1. TypeOK
  BY InitType
<1>2. /\ state = "running" /\ generation = 1 /\ endpoint = 1 /\ step = "none"
      /\ timer = 0 /\ restarting = 0 /\ owed["failure"] = 0 /\ owed["reset"] = 0
      /\ \A g \in Gen : /\ alive[g] = IF g = 1 THEN "alive" ELSE "none"
                        /\ inbox[g] = <<>> /\ phase[g] = "idle"
      /\ \A t \in {"stop", "drain"} : pc[t] = "idle" /\ target[t] = 0
  BY DEF Init
<1>3. OneRestart /\ Unbuilt
  BY <1>2 DEF OneRestart, Unbuilt, Underway
<1>4. Record /\ Hands
  BY <1>2 DEF Record, Hands, Stray
<1>5. Tokens
  BY DEF Init, Tokens
<1>6. Mail
  <2>1. \A g \in Gen : Len(inbox[g]) = 0
    BY <1>2
  <2> QED BY <1>2, <2>1 DEF Mail
<1> QED BY <1>1, <1>3, <1>4, <1>5, <1>6 DEF CustodyInv, Authority

LEMMA StepKeeps == CustodyInv /\ [Next]_vars => CustodyInv'
<1> SUFFICES ASSUME CustodyInv, [Next]_vars PROVE CustodyInv'
  OBVIOUS
<1>1. Authority /\ TypeOK'
  BY NextType DEF CustodyInv, Authority
<1>2. OneRestart' /\ Unbuilt' /\ Record' /\ Hands'
  BY <1>1, OneRestartKept, UnbuiltKept, RecordKept, HandsKept
<1>3. Tokens' /\ Mail'
  BY <1>1, TokensKept, MailKept
<1> QED BY <1>1, <1>2, <1>3 DEF CustodyInv, Authority

LEMMA Invariance == Spec => []CustodyInv
  BY InitHolds, StepKeeps, PTL DEF Spec

\* However a stop times out, a child fails or a restart comes too late, two
\* generations of the child never have a command in hand at once.
THEOREM OneAuthorityHolds == Spec => []OneAuthority
<1>1. CustodyInv => OneAuthority
  BY DEF CustodyInv, Authority, Hands, Stray, OneAuthority, Busy
<1> QED BY Invariance, <1>1, PTL

\* A child waiting for its restart has a restart under way, unless it drains.
THEOREM RestartOwedHolds == Spec => []RestartOwed
<1>1. CustodyInv => RestartOwed
  BY DEF CustodyInv, Authority, OneRestart, Underway, RestartOwed
<1> QED BY Invariance, <1>1, PTL

\* The guardian never loses the token of an admitted command nobody has begun,
\* and never keeps one without the endpoint whose end gives it back.
THEOREM TokensBackedHolds == Spec => []TokensBacked
<1>1. CustodyInv => TokensBacked
  BY DEF CustodyInv, Tokens, TokensBacked
<1> QED BY Invariance, <1>1, PTL

-----------------------------------------------------------------------------
(* The runtime implements the custody of commands                          *)

LEMMA StepImplements ==
  ASSUME CustodyInv, [Next]_vars
  PROVE  [Custody!Next]_<<accepted, begun, returned>>
<1>1. ASSUME NEW c \in Cmd, Put(c) PROVE Custody!Accept(c) \/ UNCHANGED world
  BY <1>1 DEF Put, Custody!Accept, CustodyInv, Tokens, world
<1>2. ASSUME NEW g \in Gen, Started(g) PROVE \E c \in Cmd : Custody!Begin(c)
  <2>1. PICK c \in neverBegun \ telling : current[g] = {c}
    BY <1>2 DEF Started, CustodyInv, Mail
  <2>2. c \in Cmd /\ c \in accepted \ (begun \cup returned)
    BY <2>1 DEF CustodyInv, Tokens, Authority, TypeOK, GuardianOK
  <2> QED BY <1>2, <2>1, <2>2 DEF Started, Custody!Begin, Custody!Open
<1>3. ASSUME NEW c \in Cmd, Report(c) PROVE Custody!Return(c)
  BY <1>3 DEF Report, Custody!Return, Custody!Open, CustodyInv, Tokens
<1>4. ASSUME NEW c \in Cmd, Reserve(c) PROVE UNCHANGED world
  BY <1>4 DEF Reserve
<1>5. ASSUME NEW g \in Gen, ActorStep(g), ~ Started(g) PROVE UNCHANGED world
  BY <1>5 DEF ActorStep, Begin, Complete, Raise, CloseGate, ChildFailed, StopReceived
<1>6. ASSUME RestartStep PROVE UNCHANGED world
  BY <1>6 DEF RestartStep, Schedule, Fire, CheckRestart, Build, BuildFails, Publish
<1>7. ASSUME StopStep PROVE UNCHANGED world
  BY <1>7 DEF StopStep, StopBegin, DrainBegin, DrainPolled, Reset, Signal, Confirmed,
              TimeOut, Capture
<1>8. ASSUME UNCHANGED vars PROVE UNCHANGED world
  BY <1>8 DEF vars
<1>9. UNCHANGED world => UNCHANGED <<accepted, begun, returned>>
  BY DEF world
<1> QED BY <1>1, <1>2, <1>3, <1>4, <1>5, <1>6, <1>7, <1>8, <1>9
        DEF Next, Custody!Next

\* Whatever fails, stops, restarts or drains: an admitted command is begun once
\* or given back once, never both.
THEOREM CustodyImplemented == Spec => CustodyKept
<1>1. Init => Custody!Init
  BY DEF Init, Custody!Init
<1>2. CustodyInv /\ [Next]_vars => [Custody!Next]_<<accepted, begun, returned>>
  BY StepImplements
<1> QED BY Invariance, <1>1, <1>2, PTL DEF Spec, CustodyKept, Custody!Spec, Custody!custody
=============================================================================
