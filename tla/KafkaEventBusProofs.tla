------------------------ MODULE KafkaEventBusProofs ------------------------
(***************************************************************************)
(* Proofs about KafkaEventBus for every set of handlers, every number of   *)
(* messages and restarts, and every timing that satisfies                  *)
(* TimingAssumption.                                                       *)
(*                                                                         *)
(* IInv strengthens the safety properties to one inductive invariant: what *)
(* the stage says about the message in work (StageInv), how much silence   *)
(* the timers still permit (TimingInv), where the invocations that still   *)
(* run can come from (RunningInv), how dead letters and deliveries relate  *)
(* (DeadLetterInv) and what ended the deliveries so far (DeliveriesInv).   *)
(***************************************************************************)
EXTENDS KafkaEventBus, TLAPS

\* TypeOK alone is not inductive: a dead letter is filed under cur.
TypeInv == TypeOK /\ (stage # "idle" => cur # 0)

\* The message in work is the next one to commit; its results mean what
\* they say, and once they are all there a failure among them is reported.
StageInv ==
    /\ stage = "idle" => cur = 0
    /\ stage # "idle" => /\ cur = committed + 1
                         /\ cur \in Offsets
                         /\ log[cur] = "event"
                         /\ \A h \in Handler : outcome[h] # "none"
                         /\ \A h \in Handler : outcome[h] = "ok" => h \in done[cur]
    /\ stage \in {"dlq", "ending"} => \A h \in Handler : outcome[h] # "pending"
    /\ stage = "ending" => (FirstFailure => Reported(cur))

\* Every pending timer fires before the silence exceeds TimeoutTicks, and
\* after that only a failure, whose dead letter is sent, adds to it.
TimingInv ==
    /\ stage = "idle" => sinceBeat = 0
    /\ stage = "handling" => sinceBeat <= TimeoutTicks
    /\ \A h \in Handler : Pending(h) => sinceBeat + left[h] <= TimeoutTicks
    /\ stage = "dlq" => FirstFailure
    /\ stage = "ending" => FirstFailure \/ sinceBeat <= TimeoutTicks

\* An invocation that still runs is unsettled or timed out in the delivery in
\* work, or it belongs to a delivery that was reported.
InWork(i) ==
    /\ i[2] = cur
    /\ i[3] = deliveries[cur]
    /\ outcome[i[1]] \in {"pending", "timeout"}

RunningInv ==
    \A i \in running :
        /\ i[3] <= deliveries[i[2]]
        /\ i[2] <= committed + 1
        /\ InWork(i) \/ Reported(i[2])

\* Every delivery but one was ended by a restart or by a refused commit, and
\* the latter presupposes a dead letter; the one in work is the exception.
DeliveriesInv ==
    \A o \in Offsets :
        ~Reported(o) => deliveries[o] <= IF o = cur \/ o <= committed THEN 1 + crashes ELSE crashes

\* While the message in work is not reported, its delivery is not yet
\* matched by a dead letter.
DeadLetterInv ==
    /\ \A o \in Offsets : dlq[o] <= deliveries[o]
    /\ stage \in {"handling", "dlq"} => dlq[cur] < deliveries[cur]

IInv ==
    /\ TypeInv /\ StageInv /\ TimingInv /\ RunningInv
    /\ DeadLetterInv /\ DeliveriesInv /\ NoSilentLoss

----------------------------------------------------------------------------
\* The timeout of runWithTimoutAndKeepAlive is a number below the session
\* timeout.
LEMMA TimeoutTicksNat == TimeoutTicks \in Nat /\ TimeoutTicks < SessionTimeout
  BY TimingAssumption DEF TimeoutTicks

\* The start of the application satisfies every part of the invariant.
THEOREM InitIInv == Init => IInv
  <1> SUFFICES ASSUME Init PROVE IInv
    OBVIOUS
  <1> USE DEF Init, IdleDelivery
  <1>1. TypeInv
    <2>1. log \in Seq(Content) /\ Len(log) = 0
      OBVIOUS
    <2>2. /\ outcome \in [Handler -> Outcomes]
          /\ left \in [Handler -> 0..TimeoutTicks]
          /\ keepAlives \in [Handler -> 0..MaxKeepAlives]
      BY BoundsAssumption, TimeoutTicksNat DEF Outcomes
    <2>3. /\ dlq \in [Offsets -> Nat]
          /\ deliveries \in [Offsets -> Nat]
          /\ done \in [Offsets -> SUBSET Handler]
      OBVIOUS
    <2>4. /\ boot \in {"off", "consumer", "producer", "up"}
          /\ consuming \in BOOLEAN
          /\ producing \in BOOLEAN
          /\ running \subseteq Handler \X Offsets \X Nat
          /\ dlqLost \subseteq Offsets
          /\ unhandled \subseteq Offsets
          /\ stage \in Stages
      BY DEF Stages
    <2>5. /\ committed \in 0..Len(log)
          /\ cur \in 0..Len(log)
          /\ Len(log) <= MaxMessages
          /\ sinceBeat \in 0..SessionTimeout
          /\ crashes \in Nat /\ refusals \in Nat /\ crashes + refusals <= MaxRedeliveries
      BY <2>1, BoundsAssumption, TimingAssumption
    <2> QED
      BY <2>1, <2>2, <2>3, <2>4, <2>5 DEF TypeInv, TypeOK
  <1>2. StageInv
    BY DEF StageInv
  <1>3. TimingInv
    BY DEF TimingInv, Pending
  <1>4. RunningInv
    BY DEF RunningInv
  <1>5. DeadLetterInv
    BY DEF DeadLetterInv, Offsets
  <1>6. NoSilentLoss
    BY DEF NoSilentLoss
  <1>7. DeliveriesInv
    BY DEF DeliveriesInv, Offsets
  <1> QED
    BY <1>1, <1>2, <1>3, <1>4, <1>5, <1>6, <1>7 DEF IInv

----------------------------------------------------------------------------
(* Type correctness.                                                       *)

\* Every step keeps the types.
LEMMA TypeNext == TypeInv /\ [Next]_vars => TypeInv'
  <1> SUFFICES ASSUME TypeInv, [Next]_vars PROVE TypeInv'
    OBVIOUS
  <1> USE BoundsAssumption, TimingAssumption, TimeoutTicksNat
      DEF TypeInv, TypeOK, lifecycle, broker, delivery, history, counts
  <1>1. CASE Boot
    BY <1>1 DEF Boot, StartConsumer, StartConsumerFails, ConnectProducer, RegisterHandlers
  <1>2. CASE Crash
    <2>1. /\ outcome' \in [Handler -> Outcomes]
          /\ left' \in [Handler -> 0..TimeoutTicks]
          /\ keepAlives' \in [Handler -> 0..MaxKeepAlives]
      BY <1>2 DEF Crash, ResetDelivery, Outcomes
    <2>2. /\ cur' \in 0..Len(log')
          /\ sinceBeat' \in 0..SessionTimeout
          /\ crashes' \in Nat /\ crashes' + refusals' <= MaxRedeliveries
      BY <1>2 DEF Crash, ResetDelivery
    <2> QED
      BY <1>2, <2>1, <2>2 DEF Crash, ResetDelivery, Stages
  <1>3. ASSUME NEW content \in Content, Publish(content) PROVE TypeInv'
    <2>1. log' \in Seq(Content) /\ Len(log') = Len(log) + 1 /\ Len(log') <= MaxMessages
      BY <1>3 DEF Publish
    <2>2. committed' \in 0..Len(log') /\ cur' \in 0..Len(log')
      BY <1>3, <2>1 DEF Publish
    <2> QED
      BY <1>3, <2>1, <2>2 DEF Publish
  <1>4. CASE DropMalformed \/ DropUnhandled
    <2>1. Next_offset \in 0..Len(log) /\ Next_offset \in Offsets
      BY <1>4 DEF DropMalformed, DropUnhandled, MessageWaits, Next_offset, Offsets
    <2> QED
      BY <1>4, <2>1 DEF DropMalformed, DropUnhandled
  <1>5. CASE Deliver
    <2>1. Next_offset \in 1..Len(log) /\ Next_offset \in Offsets
      BY <1>5 DEF Deliver, MessageWaits, Next_offset, Offsets
    <2>2. /\ outcome' \in [Handler -> Outcomes]
          /\ left' \in [Handler -> 0..TimeoutTicks]
          /\ keepAlives' \in [Handler -> 0..MaxKeepAlives]
      BY <1>5 DEF Deliver, Outcomes
    <2>3. running' \subseteq Handler \X Offsets \X Nat
      <3>1. deliveries[Next_offset] + 1 \in Nat
        BY <2>1
      <3> QED
        BY <1>5, <2>1, <3>1 DEF Deliver
    <2>4. deliveries' \in [Offsets -> Nat]
      BY <1>5, <2>1 DEF Deliver
    <2>5. cur' \in 0..Len(log') /\ cur' # 0 /\ stage' \in Stages /\ sinceBeat' \in 0..SessionTimeout
      BY <1>5, <2>1 DEF Deliver, Stages
    <2> QED
      BY <1>5, <2>2, <2>3, <2>4, <2>5 DEF Deliver
  <1>6. ASSUME NEW h \in Handler, KeepAlive(h) PROVE TypeInv'
    <2>1. keepAlives' \in [Handler -> 0..MaxKeepAlives]
      <3>1. keepAlives[h] + 1 \in 0..MaxKeepAlives
        BY <1>6 DEF KeepAlive
      <3> QED
        BY <1>6, <3>1 DEF KeepAlive
    <2>2. left' \in [Handler -> 0..TimeoutTicks]
      <3>1. TimeoutTicks \in 0..TimeoutTicks
        OBVIOUS
      <3> QED
        BY <1>6, <3>1 DEF KeepAlive
    <2>3. sinceBeat' \in 0..SessionTimeout
      BY <1>6 DEF KeepAlive
    <2> QED
      BY <1>6, <2>1, <2>2, <2>3 DEF KeepAlive
  <1>7. ASSUME NEW h \in Handler, TimerFires(h) PROVE TypeInv'
    <2>1. /\ outcome' \in [Handler -> Outcomes]
          /\ left' \in [Handler -> 0..TimeoutTicks]
          /\ keepAlives' \in [Handler -> 0..MaxKeepAlives]
      BY <1>7 DEF TimerFires, Settle, Outcomes, Failed
    <2> QED
      BY <1>7, <2>1 DEF TimerFires
  <1>8. ASSUME NEW i \in running, NEW result \in {"ok", "error"}, HandlerReturns(i, result)
        PROVE TypeInv'
    <2>1. i[1] \in Handler /\ i[2] \in Offsets
      OBVIOUS
    <2>2. /\ outcome' \in [Handler -> Outcomes]
          /\ left' \in [Handler -> 0..TimeoutTicks]
          /\ keepAlives' \in [Handler -> 0..MaxKeepAlives]
      <3>1. CASE UNCHANGED <<outcome, left, keepAlives>>
        BY <3>1
      <3>2. CASE Settle(i[1], result)
        <4>1. 0 \in 0..TimeoutTicks /\ 0 \in 0..MaxKeepAlives /\ result \in Outcomes
          BY DEF Outcomes, Failed
        <4> QED
          BY <2>1, <3>2, <4>1 DEF Settle
      <3> QED
        BY <1>8, <3>1, <3>2 DEF HandlerReturns
    <2>3. done' \in [Offsets -> SUBSET Handler]
      BY <1>8, <2>1 DEF HandlerReturns
    <2>4. running' \subseteq Handler \X Offsets \X Nat
      BY <1>8 DEF HandlerReturns
    <2> QED
      BY <1>8, <2>2, <2>3, <2>4 DEF HandlerReturns
  <1>9. CASE Tick
    <2>1. left' \in [Handler -> 0..TimeoutTicks]
      <3>1. CASE left' = left
        BY <3>1
      <3>2. CASE /\ \A h \in Handler : Pending(h) => left[h] > 0
                 /\ left' = [h \in Handler |-> IF Pending(h) THEN left[h] - 1 ELSE left[h]]
        <4>1. ASSUME NEW h \in Handler
              PROVE (IF Pending(h) THEN left[h] - 1 ELSE left[h]) \in 0..TimeoutTicks
          BY <3>2
        <4> QED
          BY <3>2, <4>1
      <3> QED
        BY <1>9, <3>1, <3>2 DEF Tick
    <2>2. sinceBeat' \in 0..SessionTimeout
      BY <1>9 DEF Tick
    <2> QED
      BY <1>9, <2>1, <2>2 DEF Tick
  <1>10. CASE AllSettled
    BY <1>10 DEF AllSettled, Stages
  <1>11. ASSUME NEW accepted \in BOOLEAN, SendDeadLetter(accepted) PROVE TypeInv'
    <2>1. dlq' \in [Offsets -> Nat] /\ dlqLost' \subseteq Offsets
      <3>1. cur \in Offsets
        BY <1>11 DEF SendDeadLetter, Offsets
      <3> QED
        BY <1>11, <3>1 DEF SendDeadLetter
    <2> QED
      BY <1>11, <2>1 DEF SendDeadLetter, Stages
  <1>12. CASE Commit
    <2>1. /\ outcome' \in [Handler -> Outcomes]
          /\ left' \in [Handler -> 0..TimeoutTicks]
          /\ keepAlives' \in [Handler -> 0..MaxKeepAlives]
      BY <1>12 DEF Commit, ResetDelivery, Outcomes
    <2>2. /\ cur' \in 0..Len(log')
          /\ committed' \in 0..Len(log')
          /\ sinceBeat' \in 0..SessionTimeout
      BY <1>12 DEF Commit, ResetDelivery
    <2> QED
      BY <1>12, <2>1, <2>2 DEF Commit, ResetDelivery, Stages
  <1>13. CASE UNCHANGED vars
    BY <1>13 DEF vars
  <1>14. CASE CommitRefused
    <2>1. /\ outcome' \in [Handler -> Outcomes]
          /\ left' \in [Handler -> 0..TimeoutTicks]
          /\ keepAlives' \in [Handler -> 0..MaxKeepAlives]
      BY <1>14 DEF CommitRefused, ResetDelivery, Outcomes
    <2>2. /\ cur' \in 0..Len(log')
          /\ sinceBeat' \in 0..SessionTimeout
          /\ refusals' \in Nat /\ crashes' + refusals' <= MaxRedeliveries
      BY <1>14 DEF CommitRefused, ResetDelivery
    <2> QED
      BY <1>14, <2>1, <2>2 DEF CommitRefused, ResetDelivery, Stages
  <1> HIDE DEF TypeInv, TypeOK
  <1> QED
    BY <1>1, <1>2, <1>3, <1>4, <1>5, <1>6, <1>7, <1>8, <1>9, <1>10, <1>11, <1>12, <1>13,
       <1>14
       DEF Next, Consume, Return, Proceed

----------------------------------------------------------------------------
(* The conjuncts of IInv, one lemma each, one step per action.             *)

\* Every step keeps the stage of eachMessage consistent with the message in
\* work and with what its handlers have settled.
LEMMA StageNext == IInv /\ [Next]_vars => StageInv'
  <1> SUFFICES ASSUME IInv, [Next]_vars PROVE StageInv'
    OBVIOUS
  <1>0. TypeOK /\ StageInv
    BY DEF IInv, TypeInv
  <1> USE <1>0 DEF StageInv, Reported, FirstFailure
  <1>1. CASE Boot
    BY <1>1 DEF Boot, StartConsumer, StartConsumerFails, ConnectProducer, RegisterHandlers,
                broker, delivery, history
  <1>2. CASE Crash
    BY <1>2 DEF Crash, ResetDelivery
  <1>3. ASSUME NEW content \in Content, Publish(content) PROVE StageInv'
    <2>1. stage # "idle" => log'[cur] = log[cur]
      BY <1>3 DEF Publish, TypeOK, Offsets
    <2> QED
      BY <1>3, <2>1 DEF Publish, delivery, history
  <1>4. CASE DropMalformed \/ DropUnhandled
    BY <1>4 DEF DropMalformed, DropUnhandled, MessageWaits, delivery
  <1>5. CASE Deliver
    <2>1. Next_offset \in Offsets
      BY <1>5, BoundsAssumption DEF Deliver, MessageWaits, Next_offset, Offsets, TypeOK
    <2> QED
      BY <1>5, <2>1 DEF Deliver, broker, Next_offset
  <1>6. ASSUME NEW h \in Handler, KeepAlive(h) PROVE StageInv'
    BY <1>6 DEF KeepAlive, broker, history
  <1>7. ASSUME NEW h \in Handler, TimerFires(h) PROVE StageInv'
    BY <1>7 DEF TimerFires, Settle, Pending, broker, history, TypeOK
  <1>8. ASSUME NEW i \in running, NEW result \in {"ok", "error"}, HandlerReturns(i, result)
        PROVE StageInv'
    <2>1. \A o \in Offsets : done[o] \subseteq done'[o]
      BY <1>8 DEF HandlerReturns, TypeOK
    <2>2. CASE outcome' = outcome
      BY <1>8, <2>1, <2>2 DEF HandlerReturns, broker
    <2>3. CASE Unsettled(i) /\ outcome' = [outcome EXCEPT ![i[1]] = result]
      <3>1. i[1] \in Handler /\ i[2] \in Offsets
        BY DEF TypeOK
      <3> QED
        BY <1>8, <2>1, <2>3, <3>1 DEF HandlerReturns, Unsettled, Pending, broker, TypeOK
    <2> QED
      BY <1>8, <2>2, <2>3 DEF HandlerReturns, Settle
  <1>9. CASE Tick
    BY <1>9 DEF Tick, broker, history
  <1>10. CASE AllSettled
    BY <1>10 DEF AllSettled, Pending, Failed, broker, history
  <1>11. ASSUME NEW accepted \in BOOLEAN, SendDeadLetter(accepted) PROVE StageInv'
    BY <1>11 DEF SendDeadLetter, TypeOK
  <1>12. CASE Commit
    BY <1>12 DEF Commit, ResetDelivery
  <1>13. CASE UNCHANGED vars
    BY <1>13 DEF vars, broker, delivery, history
  <1>14. CASE CommitRefused
    BY <1>14 DEF CommitRefused, ResetDelivery
  <1> HIDE DEF StageInv
  <1> QED
    BY <1>1, <1>2, <1>3, <1>4, <1>5, <1>6, <1>7, <1>8, <1>9, <1>10, <1>11, <1>12, <1>13,
       <1>14
       DEF Next, Consume, Return, Proceed

\* Every step keeps the ticks since the last heartbeat below what the timers
\* leave, unless a failure is being reported.
LEMMA TimingNext == IInv /\ [Next]_vars => TimingInv'
  <1> SUFFICES ASSUME IInv, [Next]_vars PROVE TimingInv'
    OBVIOUS
  <1>0. TypeOK /\ TimingInv
    BY DEF IInv, TypeInv
  <1> USE <1>0, TimeoutTicksNat, TimingAssumption DEF TimingInv, Pending, FirstFailure
  <1>1. CASE Boot
    BY <1>1 DEF Boot, StartConsumer, StartConsumerFails, ConnectProducer, RegisterHandlers, delivery
  <1>2. CASE Crash
    BY <1>2 DEF Crash, ResetDelivery
  <1>3. ASSUME NEW content \in Content, Publish(content) PROVE TimingInv'
    BY <1>3 DEF Publish, delivery
  <1>4. CASE DropMalformed \/ DropUnhandled
    BY <1>4 DEF DropMalformed, DropUnhandled, delivery
  <1>5. CASE Deliver
    BY <1>5 DEF Deliver
  <1>6. ASSUME NEW h \in Handler, KeepAlive(h) PROVE TimingInv'
    BY <1>6 DEF KeepAlive, TypeOK
  <1>7. ASSUME NEW h \in Handler, TimerFires(h) PROVE TimingInv'
    BY <1>7 DEF TimerFires, Settle, TypeOK
  <1>8. ASSUME NEW i \in running, NEW result \in {"ok", "error"}, HandlerReturns(i, result)
        PROVE TimingInv'
    <2>1. CASE UNCHANGED <<outcome, left>>
      BY <1>8, <2>1 DEF HandlerReturns
    <2>2. CASE Unsettled(i) /\ Settle(i[1], result)
      <3>1. i[1] \in Handler
        BY DEF TypeOK
      <3> QED
        BY <1>8, <2>2, <3>1 DEF HandlerReturns, Unsettled, Settle, TypeOK
    <2> QED
      BY <1>8, <2>1, <2>2 DEF HandlerReturns
  <1>9. CASE Tick
    <2>1. CASE stage = "handling"
      <3>1. PICK h \in Handler : Pending(h) /\ left[h] > 0
        BY <1>9, <2>1 DEF Tick
      <3>2. sinceBeat < TimeoutTicks
        BY <3>1 DEF TypeOK
      <3>3. sinceBeat' = sinceBeat + 1
        BY <1>9, <3>2 DEF Tick, TypeOK
      <3>4. ASSUME NEW i \in Handler, Pending(i)
            PROVE sinceBeat' + left'[i] <= TimeoutTicks
        <4>1. left' = [g \in Handler |-> IF Pending(g) THEN left[g] - 1 ELSE left[g]]
          BY <1>9, <2>1 DEF Tick
        <4>2. left'[i] = left[i] - 1
          BY <3>4, <4>1 DEF TypeOK
        <4>3. sinceBeat + left[i] <= TimeoutTicks /\ sinceBeat \in Nat /\ left[i] \in Nat
          BY <2>1, <3>4 DEF TypeOK
        <4> HIDE <1>0 DEF TimingInv, Pending
        <4> QED
          BY <3>3, <4>2, <4>3
      <3> QED
        BY <1>9, <2>1, <3>2, <3>3, <3>4 DEF Tick, TypeOK
    <2>2. CASE stage = "dlq"
      BY <1>9, <2>2 DEF Tick, TypeOK
    <2> QED
      BY <1>9, <2>1, <2>2 DEF Tick
  <1>10. CASE AllSettled
    BY <1>10 DEF AllSettled, TypeOK
  <1>11. ASSUME NEW accepted \in BOOLEAN, SendDeadLetter(accepted) PROVE TimingInv'
    BY <1>11 DEF SendDeadLetter, TypeOK
  <1>12. CASE Commit
    BY <1>12 DEF Commit, ResetDelivery
  <1>13. CASE UNCHANGED vars
    BY <1>13 DEF vars, delivery
  <1>14. CASE CommitRefused
    BY <1>14 DEF CommitRefused, ResetDelivery
  <1> HIDE DEF TimingInv
  <1> QED
    BY <1>1, <1>2, <1>3, <1>4, <1>5, <1>6, <1>7, <1>8, <1>9, <1>10, <1>11, <1>12, <1>13,
       <1>14
       DEF Next, Consume, Return, Proceed

\* Every step keeps the invocations that outlive their message reported.
LEMMA RunningNext == IInv /\ [Next]_vars => RunningInv'
  <1> SUFFICES ASSUME IInv, [Next]_vars, NEW i \in running'
               PROVE /\ i[3] <= deliveries'[i[2]]
                     /\ i[2] <= committed' + 1
                     /\ InWork(i)' \/ Reported(i[2])'
    BY DEF RunningInv
  <1> DEFINE Kept == /\ i[3] <= deliveries'[i[2]]
                     /\ i[2] <= committed' + 1
                     /\ InWork(i)' \/ Reported(i[2])'
  <1>0. TypeOK /\ StageInv /\ RunningInv
    BY DEF IInv, TypeInv
  <1> USE <1>0
  \* Most steps leave i where it was, or with its message out of work.
  <1>a. ASSUME i \in running, UNCHANGED <<deliveries, committed, dlq, dlqLost>>,
               UNCHANGED <<cur, outcome>>
        PROVE Kept
    BY <1>a DEF RunningInv, InWork, Reported
  <1>b. ASSUME i \in running, stage = "idle" PROVE Reported(i[2])
    BY <1>b DEF RunningInv, InWork, StageInv, TypeOK, Offsets
  <1>1. CASE Boot
    BY <1>1, <1>a DEF Boot, StartConsumer, StartConsumerFails, ConnectProducer, RegisterHandlers,
                broker, delivery, history
  <1>2. CASE Crash
    BY <1>2 DEF Crash
  <1>3. ASSUME NEW content \in Content, Publish(content) PROVE Kept
    BY <1>3, <1>a DEF Publish, delivery, history
  <1>4. CASE DropMalformed \/ DropUnhandled
    <2>1. i \in running /\ stage = "idle" /\ UNCHANGED <<deliveries, dlq, dlqLost>>
      BY <1>4 DEF DropMalformed, DropUnhandled, MessageWaits, history
    <2>2. i[2] <= committed + 1 /\ committed' = committed + 1 /\ i[2] \in Nat /\ committed \in Nat
      BY <1>4, <2>1 DEF DropMalformed, DropUnhandled, Next_offset, RunningInv, TypeOK, Offsets
    <2>3. i[2] <= committed' + 1
      BY <2>2
    <2> QED
      BY <1>b, <2>1, <2>3 DEF RunningInv, Reported
  <1>5. CASE Deliver
    <2>1. Next_offset \in Offsets /\ committed' = committed /\ stage = "idle"
      BY <1>5, BoundsAssumption DEF Deliver, MessageWaits, Next_offset, Offsets, TypeOK, broker
    <2>2. CASE i \in running
      <3>1. i[2] \in Offsets /\ i[3] \in Nat
        BY <2>2 DEF TypeOK
      <3>2. i[3] <= deliveries[i[2]] /\ deliveries[i[2]] \in Nat /\ deliveries[Next_offset] \in Nat
        BY <2>1, <2>2, <3>1 DEF RunningInv, TypeOK
      <3>3. i[3] <= deliveries'[i[2]]
        BY <1>5, <2>1, <3>1, <3>2, SMTT(30) DEF Deliver, TypeOK
      <3> QED
        BY <1>5, <1>b, <2>1, <2>2, <3>3 DEF Deliver, RunningInv, Reported, broker
    <2>3. CASE i \in Handler \X {Next_offset} \X {deliveries[Next_offset] + 1}
      <3>1. i[1] \in Handler /\ i[2] = Next_offset /\ i[3] = deliveries[Next_offset] + 1
        BY <2>3
      <3>2. deliveries'[Next_offset] = deliveries[Next_offset] + 1 /\ cur' = Next_offset
        BY <1>5, <2>1 DEF Deliver, TypeOK
      <3>3. outcome'[i[1]] = "pending"
        BY <1>5, <3>1 DEF Deliver
      <3>4. deliveries[Next_offset] \in Nat /\ committed \in Nat
        BY <2>1 DEF TypeOK
      <3> QED
        BY <2>1, <3>1, <3>2, <3>3, <3>4 DEF InWork, Next_offset
    <2> QED
      BY <1>5, <2>2, <2>3 DEF Deliver
  <1>6. ASSUME NEW h \in Handler, KeepAlive(h) PROVE Kept
    BY <1>6, <1>a DEF KeepAlive, broker, history
  <1>7. ASSUME NEW h \in Handler, TimerFires(h) PROVE Kept
    BY <1>7 DEF TimerFires, Settle, RunningInv, InWork, Reported, broker, history, TypeOK
  <1>8. ASSUME NEW k \in running, NEW result \in {"ok", "error"}, HandlerReturns(k, result)
        PROVE Kept
    <2>1. i \in running /\ i # k /\ UNCHANGED <<deliveries, committed, dlq, dlqLost, cur>>
      BY <1>8 DEF HandlerReturns, broker
    <2>2. CASE InWork(i)
      <3>1. /\ i[1] \in Handler /\ i = <<i[1], i[2], i[3]>>
            /\ k[1] \in Handler /\ k = <<k[1], k[2], k[3]>>
        BY <2>1, SMTT(30) DEF TypeOK
      <3>2. CASE Unsettled(k) /\ Settle(k[1], result)
        <4>1. k[1] # i[1]
          BY <2>1, <2>2, <3>1, <3>2 DEF InWork, Unsettled
        <4> QED
          BY <2>1, <2>2, <3>1, <3>2, <4>1 DEF Settle, InWork, RunningInv, TypeOK
      <3>3. CASE UNCHANGED outcome
        BY <1>a, <2>1, <3>3
      <3> QED
        BY <1>8, <3>2, <3>3 DEF HandlerReturns
    <2>3. CASE Reported(i[2])
      BY <2>1, <2>3 DEF RunningInv, Reported
    <2> QED
      BY <2>1, <2>2, <2>3 DEF RunningInv
  <1>9. CASE Tick
    BY <1>9, <1>a DEF Tick, broker, history
  <1>10. CASE AllSettled
    BY <1>10, <1>a DEF AllSettled, broker, history
  <1>11. ASSUME NEW accepted \in BOOLEAN, SendDeadLetter(accepted) PROVE Kept
    BY <1>11 DEF SendDeadLetter, RunningInv, InWork, Reported, TypeOK
  <1>c. ASSUME i \in running, stage = "ending" PROVE Reported(i[2])
    BY <1>c DEF RunningInv, InWork, StageInv, FirstFailure, Failed, TypeOK
  <1>12. CASE Commit
    <2>1. /\ committed' = committed + 1 /\ i \in running
          /\ UNCHANGED <<deliveries, dlq, dlqLost>>
      BY <1>12 DEF Commit, StageInv, history
    <2>2. i[2] <= committed + 1 /\ i[2] \in Nat /\ committed \in Nat
      BY <2>1 DEF RunningInv, TypeOK, Offsets
    <2>3. i[2] <= committed' + 1
      BY <2>1, <2>2
    <2>4. Reported(i[2])
      BY <1>12, <1>c, <2>1 DEF Commit
    <2> QED
      BY <2>1, <2>3, <2>4 DEF RunningInv, Reported
  <1>13. CASE UNCHANGED vars
    BY <1>13, <1>a DEF vars, broker, delivery, history
  <1>14. CASE CommitRefused
    BY <1>14, <1>c DEF CommitRefused, RunningInv, Reported, broker, history
  <1> QED
    BY <1>1, <1>2, <1>3, <1>4, <1>5, <1>6, <1>7, <1>8, <1>9, <1>10, <1>11, <1>12, <1>13,
       <1>14
       DEF Next, Consume, Return, Proceed

\* Every step keeps the dead letters of a message within its deliveries.
LEMMA DeadLetterNext == IInv /\ [Next]_vars => DeadLetterInv'
  <1> SUFFICES ASSUME IInv, [Next]_vars PROVE DeadLetterInv'
    OBVIOUS
  <1>0. TypeOK /\ StageInv /\ DeadLetterInv
    BY DEF IInv, TypeInv
  <1> USE <1>0 DEF DeadLetterInv
  <1>1. CASE Boot
    BY <1>1 DEF Boot, StartConsumer, StartConsumerFails, ConnectProducer, RegisterHandlers,
                broker, delivery, history
  <1>2. CASE Crash
    BY <1>2 DEF Crash, ResetDelivery, broker, history
  <1>3. ASSUME NEW content \in Content, Publish(content) PROVE DeadLetterInv'
    BY <1>3 DEF Publish, delivery, history
  <1>4. CASE DropMalformed \/ DropUnhandled
    BY <1>4 DEF DropMalformed, DropUnhandled, delivery, history
  <1>5. CASE Deliver
    <2>1. Next_offset \in Offsets
      BY <1>5, BoundsAssumption DEF Deliver, MessageWaits, Next_offset, Offsets, TypeOK
    <2> QED
      BY <1>5, <2>1 DEF Deliver, broker, TypeOK
  <1>6. ASSUME NEW h \in Handler, KeepAlive(h) PROVE DeadLetterInv'
    BY <1>6 DEF KeepAlive, broker, history
  <1>7. ASSUME NEW h \in Handler, TimerFires(h) PROVE DeadLetterInv'
    BY <1>7 DEF TimerFires, Settle, broker, history
  <1>8. ASSUME NEW i \in running, NEW result \in {"ok", "error"}, HandlerReturns(i, result)
        PROVE DeadLetterInv'
    BY <1>8 DEF HandlerReturns, broker
  <1>9. CASE Tick
    BY <1>9 DEF Tick, broker, history
  <1>10. CASE AllSettled
    BY <1>10 DEF AllSettled, broker, history
  <1>11. ASSUME NEW accepted \in BOOLEAN, SendDeadLetter(accepted) PROVE DeadLetterInv'
    <2>1. cur \in Offsets /\ dlq[cur] < deliveries[cur]
      BY <1>11 DEF SendDeadLetter, StageInv
    <2> QED
      BY <1>11, <2>1 DEF SendDeadLetter, TypeOK
  <1>12. CASE Commit
    BY <1>12 DEF Commit, ResetDelivery, history
  <1>13. CASE UNCHANGED vars
    BY <1>13 DEF vars, broker, delivery, history
  <1>14. CASE CommitRefused
    BY <1>14 DEF CommitRefused, ResetDelivery, broker, history
  <1> HIDE DEF DeadLetterInv
  <1> QED
    BY <1>1, <1>2, <1>3, <1>4, <1>5, <1>6, <1>7, <1>8, <1>9, <1>10, <1>11, <1>12, <1>13,
       <1>14
       DEF Next, Consume, Return, Proceed

\* No step commits an event that is not accounted for.
LEMMA NoSilentLossNext == IInv /\ [Next]_vars => NoSilentLoss'
  <1> SUFFICES ASSUME IInv, [Next]_vars, NEW o \in 1..committed', log'[o] = "event"
               PROVE AccountedFor(o)'
    BY DEF NoSilentLoss
  <1>0. TypeOK /\ StageInv /\ NoSilentLoss /\ TypeOK'
    BY TypeNext DEF IInv, TypeInv
  <1>1. o \in Offsets
    BY <1>0, BoundsAssumption DEF TypeOK, Offsets
  \* What was accounted for stays so: all four sources only grow.
  <1>2. ASSUME AccountedFor(o) PROVE AccountedFor(o)'
    <2> USE <1>0, <1>1, <1>2 DEF AccountedFor, Reported
    <2>1. ASSUME NEW i \in running, NEW result \in {"ok", "error"}, HandlerReturns(i, result)
          PROVE AccountedFor(o)'
      BY <2>1 DEF HandlerReturns, broker, TypeOK
    <2>2. ASSUME NEW accepted \in BOOLEAN, SendDeadLetter(accepted) PROVE AccountedFor(o)'
      BY <2>2 DEF SendDeadLetter, TypeOK
    <2>3. CASE UNCHANGED <<dlq, done, dlqLost>> /\ unhandled \subseteq unhandled'
      BY <2>3
    <2>4. CASE Boot \/ Crash \/ Consume \/ Tick \/ AllSettled \/ Commit \/ CommitRefused \/ UNCHANGED vars
      BY <2>3, <2>4 DEF Boot, StartConsumer, StartConsumerFails, ConnectProducer, RegisterHandlers,
            Crash, Consume, DropMalformed, DropUnhandled, Deliver, Tick, AllSettled, Commit,
            CommitRefused, vars, broker, history
    <2>5. CASE (\E content \in Content : Publish(content))
               \/ \E h \in Handler : KeepAlive(h) \/ TimerFires(h)
      BY <2>3, <2>5 DEF Publish, KeepAlive, TimerFires, broker, history
    <2> HIDE DEF AccountedFor
    <2> QED
      BY <2>1, <2>2, <2>4, <2>5 DEF Next, Return, Proceed
  <1>3. ASSUME o <= committed, log'[o] = log[o] PROVE AccountedFor(o)'
    <2>1. o \in 1..committed
      BY <1>0, <1>1, <1>3 DEF TypeOK, Offsets
    <2>2. AccountedFor(o)
      BY <1>0, <1>3, <2>1 DEF NoSilentLoss
    <2> QED
      BY <1>2, <2>2
  <1>4. ASSUME committed' = committed, log' = log PROVE AccountedFor(o)'
    BY <1>3, <1>4, <1>0, SMTT(30) DEF TypeOK
  <1>5. CASE DropMalformed
    BY <1>0, <1>3, <1>5, SMTT(30) DEF DropMalformed, Next_offset, TypeOK
  <1>6. CASE DropUnhandled
    <2>1. CASE o = Next_offset
      BY <1>6, <2>1 DEF DropUnhandled, AccountedFor
    <2> QED
      BY <1>0, <1>3, <1>6, <2>1, SMTT(30) DEF DropUnhandled, Next_offset, TypeOK
  <1>7. CASE Commit
    <2>1. CASE o = cur
      <3>1. CASE FirstFailure
        BY <1>0, <1>2, <1>7, <2>1, <3>1 DEF Commit, StageInv, Reported, AccountedFor
      <3>2. CASE ~FirstFailure
        <4>1. \A h \in Handler : outcome[h] = "ok"
          BY <1>0, <1>7, <3>2 DEF Commit, StageInv, FirstFailure, TypeOK, Outcomes
        <4>2. done[o] = Handler
          BY <1>0, <1>1, <1>7, <2>1, <4>1 DEF Commit, StageInv, TypeOK
        <4> QED
          BY <1>2, <4>2 DEF AccountedFor
      <3> QED
        BY <3>1, <3>2
    <2>2. CASE o # cur
      BY <1>0, <1>3, <1>7, <2>2, SMTT(30) DEF Commit, StageInv, TypeOK, Offsets
    <2> QED
      BY <2>1, <2>2
  <1>8. ASSUME NEW content \in Content, Publish(content) PROVE AccountedFor(o)'
    BY <1>0, <1>3, <1>8, SMTT(30) DEF Publish, TypeOK
  <1>9. CASE Boot \/ Crash \/ Deliver \/ Return \/ Tick \/ AllSettled \/ CommitRefused
           \/ UNCHANGED vars
    BY <1>4, <1>9 DEF Boot, StartConsumer, StartConsumerFails, ConnectProducer, RegisterHandlers,
          Crash, Deliver, Return, HandlerReturns, Tick, AllSettled, CommitRefused, vars, broker
  <1>10. CASE (\E h \in Handler : KeepAlive(h) \/ TimerFires(h))
              \/ \E accepted \in BOOLEAN : SendDeadLetter(accepted)
    BY <1>4, <1>10 DEF KeepAlive, TimerFires, SendDeadLetter, broker
  <1> QED
    BY <1>5, <1>6, <1>7, <1>8, <1>9, <1>10 DEF Next, Consume, Proceed

\* Every step keeps the deliveries of an unreported message within the
\* restarts.
LEMMA DeliveriesNext == IInv /\ [Next]_vars => DeliveriesInv'
  <1> SUFFICES ASSUME IInv, [Next]_vars, NEW o \in Offsets, ~Reported(o)'
               PROVE deliveries'[o] <= IF o = cur' \/ o <= committed' THEN 1 + crashes'
                                                                  ELSE crashes'
    BY DEF DeliveriesInv
  <1> DEFINE Bounded == deliveries'[o] <= IF o = cur' \/ o <= committed' THEN 1 + crashes'
                                                                     ELSE crashes'
  <1>0. TypeOK /\ StageInv /\ TimingInv /\ DeliveriesInv
    BY DEF IInv, TypeInv
  <1>t. /\ deliveries[o] \in Nat /\ crashes \in Nat /\ committed \in Nat /\ o \in Nat /\ cur \in Nat
    BY <1>0, SMTT(30) DEF TypeOK, Offsets
  <1>d. ASSUME ~Reported(o)
        PROVE deliveries[o] <= IF o = cur \/ o <= committed THEN 1 + crashes ELSE crashes
    BY <1>0, <1>d DEF DeliveriesInv
  <1>a. ASSUME UNCHANGED <<deliveries, committed, cur, crashes, dlq, dlqLost>> PROVE Bounded
    BY <1>a, <1>d DEF Reported
  <1>1. CASE Boot \/ Tick \/ AllSettled \/ UNCHANGED vars
    BY <1>1, <1>a DEF Boot, StartConsumer, StartConsumerFails, ConnectProducer, RegisterHandlers,
                Tick, AllSettled, vars, broker, delivery, history, counts
  <1>2. CASE Crash
    BY <1>2, <1>d, <1>t DEF Crash, ResetDelivery, Reported, broker, history
  <1>3. ASSUME NEW content \in Content, Publish(content) PROVE Bounded
    BY <1>3, <1>a DEF Publish, delivery, history, counts
  <1>4. CASE DropMalformed \/ DropUnhandled
    <2>1. cur' = cur /\ crashes' = crashes /\ UNCHANGED <<deliveries, dlq, dlqLost>>
          /\ committed' = committed + 1
      BY <1>4 DEF DropMalformed, DropUnhandled, Next_offset, delivery, history, counts
    <2> QED
      BY <1>d, <1>t, <2>1 DEF Reported
  <1>5. CASE Deliver
    <2>1. /\ cur = 0 /\ o # 0 /\ cur' = committed + 1 /\ crashes' = crashes
          /\ UNCHANGED <<committed, dlq, dlqLost>>
          /\ deliveries' = [deliveries EXCEPT ![committed + 1] = @ + 1]
      BY <1>0, <1>5 DEF Deliver, MessageWaits, Next_offset, StageInv, broker, counts, Offsets
    <2>2. ~Reported(o)
      BY <2>1 DEF Reported
    <2>3. CASE o = committed + 1
      <3>1. deliveries[o] <= crashes
        BY <1>d, <1>t, <2>1, <2>2, <2>3
      <3>2. deliveries'[o] = deliveries[o] + 1
        BY <1>0, <2>1, <2>3 DEF TypeOK
      <3> QED
        BY <1>t, <2>1, <2>3, <3>1, <3>2
    <2>4. CASE o # committed + 1
      <3>1. deliveries'[o] = deliveries[o]
        BY <1>0, <2>1, <2>4 DEF TypeOK
      <3> QED
        BY <1>d, <1>t, <2>1, <2>2, <2>4, <3>1
    <2> QED
      BY <2>3, <2>4
  <1>6. ASSUME NEW h \in Handler, KeepAlive(h) \/ TimerFires(h) PROVE Bounded
    BY <1>6, <1>a DEF KeepAlive, TimerFires, broker, history, counts
  <1>7. CASE Return
    BY <1>7, <1>a DEF Return, HandlerReturns, broker, counts
  <1>8. ASSUME NEW accepted \in BOOLEAN, SendDeadLetter(accepted) PROVE Bounded
    <2>1. cur \in Offsets
      BY <1>0, <1>8 DEF SendDeadLetter, StageInv
    <2>2. Reported(cur)' /\ \A p \in Offsets : Reported(p) => Reported(p)'
      BY <1>0, <1>8, <2>1 DEF SendDeadLetter, Reported, TypeOK
    <2> QED
      BY <1>8, <1>d, <2>2 DEF SendDeadLetter, counts
  <1>9. CASE Commit
    <2>1. /\ committed' = cur /\ cur = committed + 1 /\ cur' = 0 /\ crashes' = crashes
          /\ UNCHANGED <<deliveries, dlq, dlqLost>> /\ o # 0
      BY <1>0, <1>9 DEF Commit, ResetDelivery, StageInv, history, counts, Offsets
    <2> QED
      BY <1>d, <1>t, <2>1 DEF Reported
  <1>10. CASE CommitRefused
    <2>1. /\ cur = committed + 1 /\ cur' = 0 /\ crashes' = crashes
          /\ UNCHANGED <<committed, deliveries, dlq, dlqLost>> /\ o # 0
      BY <1>0, <1>10 DEF CommitRefused, ResetDelivery, StageInv, broker, history, Offsets
    <2>2. FirstFailure
      BY <1>0, <1>10, TimeoutTicksNat, TimingAssumption DEF CommitRefused, TimingInv
    <2>3. Reported(cur)
      BY <1>0, <1>10, <2>2 DEF CommitRefused, StageInv
    <2>4. o # cur
      BY <2>1, <2>3 DEF Reported
    <2> QED
      BY <1>d, <1>t, <2>1, <2>4 DEF Reported
  <1> QED
    BY <1>1, <1>2, <1>3, <1>4, <1>5, <1>6, <1>7, <1>8, <1>9, <1>10 DEF Next, Consume, Proceed

----------------------------------------------------------------------------
(* The theorems.                                                           *)

\* IInv is inductive.
THEOREM Invariance == Spec => []IInv
  <1>1. IInv /\ [Next]_vars => IInv'
    BY TypeNext, StageNext, TimingNext, RunningNext, DeadLetterNext, DeliveriesNext,
       NoSilentLossNext DEF IInv
  <1> QED
    BY InitIInv, <1>1, PTL DEF Spec

\* Type correctness of the event bus.
THEOREM TypeCorrect == Spec => []TypeOK
  <1>1. IInv => TypeOK
    BY DEF IInv, TypeInv
  <1> QED
    BY Invariance, <1>1, PTL

\* A committed event was processed by every handler or left a trace: a dead
\* letter, a refused dead letter, or no handler to call.
THEOREM NothingLostSilently == Spec => []NoSilentLoss
  <1>1. IInv => NoSilentLoss
    BY DEF IInv
  <1> QED
    BY Invariance, <1>1, PTL

\* The timers of runWithTimoutAndKeepAlive leave the heartbeat interval and
\* the 2500 ms to the commit of a message without failures, and to the dead
\* letter of one with failures, which may take longer.
THEOREM HeartbeatsInTime == Spec => []HeartbeatInTime
  <1>1. IInv => HeartbeatInTime
    <2> SUFFICES ASSUME IInv, stage = "handling" \/ ~FirstFailure
                 PROVE sinceBeat + HeartbeatInterval + Reserve <= SessionTimeout
      BY DEF HeartbeatInTime
    <2>1. sinceBeat <= TimeoutTicks /\ sinceBeat \in Nat
      BY TimeoutTicksNat, TimingAssumption DEF IInv, TypeInv, TypeOK, TimingInv, Stages
    <2> QED
      BY <2>1, TimingAssumption DEF TimeoutTicks
  <1> QED
    BY Invariance, <1>1, PTL

\* Beyond one delivery and one for each restart, an event is delivered again
\* only after a dead letter of it was sent or lost.
THEOREM RedeliveriesAreReported == Spec => []RedeliveredOnlyAfterReport
  <1>1. IInv => RedeliveredOnlyAfterReport
    <2> SUFFICES ASSUME IInv, NEW o \in Offsets, ~Reported(o)
                 PROVE ~(deliveries[o] > 1 + crashes)
      BY DEF RedeliveredOnlyAfterReport
    <2>1. deliveries[o] \in Nat /\ crashes \in Nat
      BY DEF IInv, TypeInv, TypeOK
    <2>2. deliveries[o] <= 1 + crashes
      BY <2>1 DEF IInv, DeliveriesInv
    <2> QED
      BY <2>1, <2>2
  <1> QED
    BY Invariance, <1>1, PTL

\* The code of a handler overlaps with itself only after the earlier delivery
\* was reported.
THEOREM OverlapsAreReported == Spec => []OverlapOnlyAfterReport
  <1>1. IInv => OverlapOnlyAfterReport
    <2> SUFFICES ASSUME IInv, NEW i \in running, NEW j \in running
                 PROVE /\ i[2] < j[2] => i[2] <= committed /\ Reported(i[2])
                       /\ i[2] = j[2] /\ i[3] < j[3] => Reported(i[2])
      BY DEF OverlapOnlyAfterReport
    <2>1. TypeOK /\ StageInv /\ RunningInv
      BY DEF IInv, TypeInv
    <2>2. /\ i[2] \in Nat /\ i[3] \in Nat /\ j[2] \in Nat /\ j[3] \in Nat
          /\ committed \in Nat /\ deliveries[i[2]] \in Nat
      <3>1. i \in Handler \X Offsets \X Nat /\ j \in Handler \X Offsets \X Nat
        BY <2>1 DEF TypeOK
      <3>2. i[2] \in Offsets /\ i[3] \in Nat /\ j[2] \in Offsets /\ j[3] \in Nat
        BY <3>1
      <3>3. committed \in Nat /\ deliveries[i[2]] \in Nat
        BY <2>1, <3>2 DEF TypeOK
      <3> QED
        BY <3>2, <3>3 DEF Offsets
    <2>3. j[2] <= committed + 1 /\ j[3] <= deliveries[j[2]]
      BY <2>1 DEF RunningInv
    <2>4. InWork(i) \/ Reported(i[2])
      BY <2>1 DEF RunningInv
    <2>5. InWork(i) => i[2] = committed + 1 /\ i[3] = deliveries[i[2]]
      BY <2>1, <2>2, SMTT(30) DEF InWork, StageInv, TypeOK, Offsets
    <2> QED
      BY <2>2, <2>3, <2>4, <2>5
  <1> QED
    BY Invariance, <1>1, PTL

\* A delivery leaves at most one dead letter.
THEOREM DeadLettersMatchDeliveries == Spec => []OneDeadLetterPerDelivery
  <1>1. IInv => OneDeadLetterPerDelivery
    BY DEF IInv, DeadLetterInv, OneDeadLetterPerDelivery
  <1> QED
    BY Invariance, <1>1, PTL

============================================================================
