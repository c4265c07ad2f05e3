--------------------------- MODULE KafkaEventBus ---------------------------
(***************************************************************************)
(* The Kafka event bus of the backend (src/src/core/eventbus).             *)
(*                                                                         *)
(* One consumer reads one partition.  For every message it invokes all     *)
(* registered handlers in parallel, each under a timer that the handler    *)
(* may push back by calling keepAlive, waits until every invocation is     *)
(* settled, sends the event to the dead letter queue when one of them      *)
(* failed, and lets the client commit the offset.  What makes it hard:     *)
(*   - the timer settles an invocation but does not stop it: the handler   *)
(*     lives on beside the handlers of the next messages;                  *)
(*   - sendEvent swallows the producer's errors, so a dead letter can be   *)
(*     lost;                                                               *)
(*   - nothing limits the time a dead letter takes: it may use up the      *)
(*     session, the commit is refused and the message comes again, beside  *)
(*     whatever its timed-out handlers still do;                           *)
(*   - the consumer runs before the producer is connected and before the   *)
(*     handlers are registered;                                            *)
(*   - the process can stop between any two of these steps, and then the   *)
(*     message is delivered again.                                         *)
(* Time is counted in ticks, up to the session timeout.  A message is its  *)
(* offset; its content is either an event or something handleMessage       *)
(* refuses to decode.  An invocation is a handler, an offset and the       *)
(* number of the delivery it belongs to.                                   *)
(***************************************************************************)
EXTENDS Integers, Sequences, FiniteSets

CONSTANTS
    Handler,            \* the handlers subscribed to the event class
    MaxMessages,        \* bound: messages ever published
    MaxRedeliveries,    \* bound: restarts of the process and refused commits
    MaxKeepAlives,      \* bound: keepAlive calls of one invocation
    SessionTimeout,     \* KAFKA.SESSION_TIMEOUT
    HeartbeatInterval,  \* KAFKA.HEARTBEAT_INTERVAL
    Reserve             \* the 2500 ms that line 264 keeps back

ASSUME BoundsAssumption ==
    /\ MaxMessages \in Nat
    /\ MaxRedeliveries \in Nat
    /\ MaxKeepAlives \in Nat

ASSUME TimingAssumption ==
    /\ SessionTimeout \in Nat
    /\ HeartbeatInterval \in Nat
    /\ Reserve \in Nat
    /\ Reserve > 0
    /\ HeartbeatInterval + Reserve <= SessionTimeout

VARIABLES
    boot,        \* how far the start of the application has come
    consuming,   \* consumer.run succeeded
    producing,   \* producer.connect succeeded
    log,         \* the topic
    committed,   \* the committed offset
    cur,         \* the offset eachMessage works on, 0 for none
    stage,       \* where eachMessage is
    outcome,     \* per handler, the settled result for cur
    left,        \* per handler, ticks until its timer fires
    keepAlives,  \* per handler, keepAlive calls so far
    running,     \* the invocations whose code still executes
    sinceBeat,   \* ticks since the last heartbeat, at most SessionTimeout
    dlq,         \* per offset, its entries in the dead letter queue
    crashes,     \* restarts so far
    refusals,    \* refused commits so far
    deliveries,  \* history: per offset, how often the handlers were invoked
    done,        \* history: per offset, the handlers that succeeded on it
    dlqLost,     \* history: offsets whose dead letter was not accepted
    unhandled    \* history: offsets consumed while no handler was registered

lifecycle == <<boot, consuming, producing>>
broker    == <<log, committed, dlq>>
delivery  == <<cur, stage, outcome, left, keepAlives, sinceBeat>>
history   == <<deliveries, done, dlqLost, unhandled>>
counts    == <<crashes, refusals>>
vars      == <<lifecycle, broker, delivery, running, counts, history>>

Offsets    == 1..MaxMessages
Content    == {"event", "malformed"}
Stages     == {"idle", "handling", "dlq", "ending"}
Failed     == {"error", "timeout"}
Outcomes   == {"none", "pending", "ok"} \cup Failed

\* Mutant: the whole session is left to the handlers.
TimeoutTicks_NoReserve == SessionTimeout

\* The time an invocation may stay silent.
TimeoutTicks == SessionTimeout - HeartbeatInterval - Reserve

Registered == boot = "up"

TypeOK ==
    /\ boot \in {"off", "consumer", "producer", "up"}
    /\ consuming \in BOOLEAN
    /\ producing \in BOOLEAN
    /\ log \in Seq(Content) /\ Len(log) <= MaxMessages
    /\ committed \in 0..Len(log)
    /\ cur \in 0..Len(log)
    /\ stage \in Stages
    /\ outcome \in [Handler -> Outcomes]
    /\ left \in [Handler -> 0..TimeoutTicks]
    /\ keepAlives \in [Handler -> 0..MaxKeepAlives]
    /\ running \subseteq Handler \X Offsets \X Nat
    /\ sinceBeat \in 0..SessionTimeout
    /\ dlq \in [Offsets -> Nat]
    /\ crashes \in Nat /\ refusals \in Nat /\ crashes + refusals <= MaxRedeliveries
    /\ deliveries \in [Offsets -> Nat]
    /\ done \in [Offsets -> SUBSET Handler]
    /\ dlqLost \subseteq Offsets
    /\ unhandled \subseteq Offsets

IdleDelivery ==
    /\ cur = 0
    /\ stage = "idle"
    /\ outcome = [h \in Handler |-> "none"]
    /\ left = [h \in Handler |-> 0]
    /\ keepAlives = [h \in Handler |-> 0]
    /\ sinceBeat = 0

ResetDelivery ==
    /\ cur' = 0
    /\ stage' = "idle"
    /\ outcome' = [h \in Handler |-> "none"]
    /\ left' = [h \in Handler |-> 0]
    /\ keepAlives' = [h \in Handler |-> 0]
    /\ sinceBeat' = 0

Init ==
    /\ boot = "off" /\ consuming = FALSE /\ producing = FALSE
    /\ log = << >> /\ committed = 0 /\ dlq = [o \in Offsets |-> 0]
    /\ IdleDelivery
    /\ running = {}
    /\ crashes = 0 /\ refusals = 0
    /\ deliveries = [o \in Offsets |-> 0]
    /\ done = [o \in Offsets |-> {}]
    /\ dlqLost = {} /\ unhandled = {}

----------------------------------------------------------------------------
(* Start of the application.                                               *)

\* onModuleInit up to consumer.run: from here on messages are consumed.
StartConsumer ==
    /\ boot = "off"
    /\ boot' = "consumer"
    /\ consuming' = TRUE
    /\ UNCHANGED <<producing, broker, delivery, running, counts, history>>

\* connect, subscribe or run of the consumer throws: the error is logged and
\* the producer is never connected.
StartConsumerFails ==
    /\ boot = "off"
    /\ boot' = "producer"
    /\ UNCHANGED <<consuming, producing, broker, delivery, running, counts, history>>

\* producer.connect, which may throw; that is only logged too.
ConnectProducer ==
    /\ boot = "consumer"
    /\ boot' = "producer"
    /\ producing' \in BOOLEAN
    /\ UNCHANGED <<consuming, broker, delivery, running, counts, history>>

\* onApplicationBootstrap, which Nest runs after every onModuleInit.
RegisterHandlers ==
    /\ boot = "producer"
    /\ boot' = "up"
    /\ UNCHANGED <<consuming, producing, broker, delivery, running, counts, history>>

\* The process stops: only the broker's state survives.
Crash ==
    /\ boot # "off"
    /\ crashes + refusals < MaxRedeliveries
    /\ crashes' = crashes + 1
    /\ boot' = "off" /\ consuming' = FALSE /\ producing' = FALSE
    /\ ResetDelivery
    /\ running' = {}
    /\ UNCHANGED <<broker, refusals, history>>

----------------------------------------------------------------------------
(* Publishing.  A publish whose send fails is logged and leaves no trace,  *)
(* which is a step that changes nothing.                                   *)

Publish(content) ==
    /\ producing
    /\ Len(log) < MaxMessages
    /\ log' = Append(log, content)
    /\ UNCHANGED <<lifecycle, committed, dlq, delivery, running, counts, history>>

----------------------------------------------------------------------------
(* Consuming.                                                              *)

Next_offset == committed + 1

MessageWaits ==
    /\ consuming
    /\ stage = "idle"
    /\ committed < Len(log)

\* No event key, an unknown one, no value, or a value that is no JSON object.
DropMalformed ==
    /\ MessageWaits
    /\ log[Next_offset] = "malformed"
    /\ committed' = Next_offset
    /\ UNCHANGED <<lifecycle, log, dlq, delivery, running, counts, history>>

\* The handler map has no entry for the event class (yet).
DropUnhandled ==
    /\ MessageWaits
    /\ log[Next_offset] = "event"
    /\ ~Registered
    /\ committed' = Next_offset
    /\ unhandled' = unhandled \cup {Next_offset}
    /\ UNCHANGED <<lifecycle, log, dlq, delivery, running, counts, deliveries, done, dlqLost>>

\* heartbeat, then every handler is invoked under a timer of its own.
Deliver ==
    /\ MessageWaits
    /\ log[Next_offset] = "event"
    /\ Registered
    /\ cur' = Next_offset
    /\ stage' = "handling"
    /\ outcome' = [h \in Handler |-> "pending"]
    /\ left' = [h \in Handler |-> TimeoutTicks]
    /\ keepAlives' = [h \in Handler |-> 0]
    /\ sinceBeat' = 0
    /\ deliveries' = [deliveries EXCEPT ![Next_offset] = @ + 1]
    /\ running' = running \cup (Handler \X {Next_offset} \X {deliveries[Next_offset] + 1})
    /\ UNCHANGED <<lifecycle, broker, counts, done, dlqLost, unhandled>>

Pending(h) == stage = "handling" /\ outcome[h] = "pending"

\* Mutant: keepAlive pushes the timer back without sending a heartbeat.
KeepAlive_NoHeartbeat(h) ==
    /\ Pending(h)
    /\ keepAlives[h] < MaxKeepAlives
    /\ keepAlives' = [keepAlives EXCEPT ![h] = @ + 1]
    /\ left' = [left EXCEPT ![h] = TimeoutTicks]
    /\ UNCHANGED <<lifecycle, broker, cur, stage, outcome, sinceBeat, running,
                   counts, history>>

\* The callback handed to the handler; once the invocation is settled it
\* does nothing.
KeepAlive(h) ==
    /\ Pending(h)
    /\ keepAlives[h] < MaxKeepAlives
    /\ keepAlives' = [keepAlives EXCEPT ![h] = @ + 1]
    /\ left' = [left EXCEPT ![h] = TimeoutTicks]
    /\ sinceBeat' = 0
    /\ UNCHANGED <<lifecycle, broker, cur, stage, outcome, running, counts, history>>

\* The promise of runWithTimoutAndKeepAlive for h gets its result, for good
\* ("completed"), and its timer is cleared.
Settle(h, result) ==
    /\ outcome' = [outcome EXCEPT ![h] = result]
    /\ left' = [left EXCEPT ![h] = 0]
    /\ keepAlives' = [keepAlives EXCEPT ![h] = 0]

\* Invocation i belongs to the message in work and is not settled.
Unsettled(i) == i[2] = cur /\ i[3] = deliveries[cur] /\ Pending(i[1])

\* The handler's promise resolves or rejects (or the call throws).  The
\* invocation may have been settled by its timer, and the message in work may
\* be another one or the same in a later delivery: then nothing follows.
HandlerReturns(i, result) ==
    /\ running' = running \ {i}
    /\ IF Unsettled(i) THEN Settle(i[1], result) ELSE UNCHANGED <<outcome, left, keepAlives>>
    /\ done' = IF result = "ok" THEN [done EXCEPT ![i[2]] = @ \cup {i[1]}] ELSE done
    /\ UNCHANGED <<lifecycle, broker, cur, stage, sinceBeat, counts, deliveries, dlqLost,
                   unhandled>>

\* Mutant: the timer logs the timeout and settles nothing.
TimerFires_OnlyLogs(h) ==
    /\ Pending(h)
    /\ left[h] = 0
    /\ UNCHANGED vars

\* onTimeout: the invocation is settled but not stopped.
TimerFires(h) ==
    /\ Pending(h)
    /\ left[h] = 0
    /\ Settle(h, "timeout")
    /\ UNCHANGED <<lifecycle, broker, cur, stage, sinceBeat, running, counts, history>>

\* Time passes while handlers run or a dead letter is on its way.  A due timer
\* fires before the next tick; nothing ends a send.
Tick ==
    /\ \/ /\ \E h \in Handler : Pending(h)
          /\ \A h \in Handler : Pending(h) => left[h] > 0
          /\ left' = [h \in Handler |-> IF Pending(h) THEN left[h] - 1 ELSE left[h]]
       \/ stage = "dlq" /\ UNCHANGED left
    /\ sinceBeat' = IF sinceBeat < SessionTimeout THEN sinceBeat + 1 ELSE sinceBeat
    /\ UNCHANGED <<lifecycle, broker, cur, stage, outcome, keepAlives, running, counts, history>>

\* Mutant: only thrown errors count, the timeout is merely logged.
FirstFailure_IgnoresTimeout == \E h \in Handler : outcome[h] = "error"

\* A failure among the settled results (the errors of the handlers are Errors,
\* as line 185 demands).
FirstFailure == \E h \in Handler : outcome[h] \in Failed

\* Mutant: Promise.race instead of Promise.allSettled.
AllSettled_Race ==
    /\ stage = "handling"
    /\ \E h \in Handler : ~Pending(h)
    /\ stage' = IF FirstFailure THEN "dlq" ELSE "ending"
    /\ UNCHANGED <<lifecycle, broker, cur, outcome, left, keepAlives, sinceBeat, running,
                   counts, history>>

\* Promise.allSettled: at most one dead letter, however many handlers failed.
AllSettled ==
    /\ stage = "handling"
    /\ \A h \in Handler : ~Pending(h)
    /\ stage' = IF FirstFailure THEN "dlq" ELSE "ending"
    /\ UNCHANGED <<lifecycle, broker, cur, outcome, left, keepAlives, sinceBeat, running,
                   counts, history>>

\* Mutant: one dead letter per failed handler.
SendDeadLetter_PerHandler(accepted) ==
    /\ stage = "dlq"
    /\ accepted => producing
    /\ stage' = "ending"
    /\ dlq' = IF accepted
                 THEN [dlq EXCEPT ![cur] = @ + Cardinality({h \in Handler : outcome[h] \in Failed})]
                 ELSE dlq
    /\ dlqLost' = IF accepted THEN dlqLost ELSE dlqLost \cup {cur}
    /\ UNCHANGED <<lifecycle, log, committed, cur, outcome, left, keepAlives, sinceBeat,
                   running, counts, deliveries, done, unhandled>>

\* publishToDLQ: sendEvent never throws, so a refused send looks the same.
SendDeadLetter(accepted) ==
    /\ stage = "dlq"
    /\ accepted => producing
    /\ stage' = "ending"
    /\ dlq' = IF accepted THEN [dlq EXCEPT ![cur] = @ + 1] ELSE dlq
    /\ dlqLost' = IF accepted THEN dlqLost ELSE dlqLost \cup {cur}
    /\ UNCHANGED <<lifecycle, log, committed, cur, outcome, left, keepAlives, sinceBeat,
                   running, counts, deliveries, done, unhandled>>

\* The last heartbeat of eachMessage, after which the client commits.
Commit ==
    /\ stage = "ending"
    /\ committed' = cur
    /\ ResetDelivery
    /\ UNCHANGED <<lifecycle, log, dlq, running, counts, history>>

\* The session has run out meanwhile: the last heartbeat or the commit is
\* refused, and the message is delivered again.
CommitRefused ==
    /\ stage = "ending"
    /\ sinceBeat = SessionTimeout
    /\ crashes + refusals < MaxRedeliveries
    /\ refusals' = refusals + 1
    /\ ResetDelivery
    /\ UNCHANGED <<lifecycle, broker, running, crashes, history>>

----------------------------------------------------------------------------
Boot    == StartConsumer \/ StartConsumerFails \/ ConnectProducer \/ RegisterHandlers
Consume == DropMalformed \/ DropUnhandled \/ Deliver
Return  == \E i \in running, result \in {"ok", "error"} : HandlerReturns(i, result)
Proceed == Tick \/ AllSettled \/ Commit \/ \E accepted \in BOOLEAN : SendDeadLetter(accepted)

Next ==
    \/ Boot
    \/ Crash
    \/ \E content \in Content : Publish(content)
    \/ Consume
    \/ \E h \in Handler : KeepAlive(h) \/ TimerFires(h)
    \/ Return
    \/ Proceed
    \/ CommitRefused

Spec == Init /\ [][Next]_vars

\* The event loop and the timers make progress, and the client ends a send at
\* some time, however late; a handler need not return.
FairSpec ==
    /\ Spec
    /\ WF_vars(Consume)
    /\ WF_vars(Proceed)
    /\ \A h \in Handler : WF_vars(TimerFires(h))

----------------------------------------------------------------------------
(* Properties.                                                             *)

\* A dead letter of o is in the queue, or was refused and is only in the log.
Reported(o) == dlq[o] > 0 \/ o \in dlqLost

\* What became of the event at offset o once its offset is committed.
AccountedFor(o) ==
    \/ done[o] = Handler
    \/ Reported(o)
    \/ o \in unhandled

\* An event whose offset is committed was processed successfully by every
\* handler or was handed to the dead letter queue, across timeouts, restarts
\* and redeliveries; the only exceptions are the two the code logs and
\* forgets: a refused dead letter (sendEvent) and an event without handlers
\* (handleMessage).
NoSilentLoss == \A o \in 1..committed : log[o] = "event" => AccountedFor(o)

\* The code of one handler runs for two deliveries at once only when the
\* earlier one was reported as failed before: its dead letter was sent (or
\* lost), and if it belongs to an earlier message, that offset is committed.
\* A handler that is slow but keeps calling keepAlive is never overtaken.
OverlapOnlyAfterReport ==
    \A i, j \in running :
        i[1] = j[1] =>
            /\ i[2] < j[2] => i[2] <= committed /\ Reported(i[2])
            /\ i[2] = j[2] /\ i[3] < j[3] => Reported(i[2])

\* The timeout of runWithTimoutAndKeepAlive leaves the reserve of line 264
\* untouched: when the last handler of a message settles, however they
\* interleave their keepAlive calls, the heartbeat interval and the 2500 ms
\* are still there, and without a failure they are there for the commit.
\* With a failure the dead letter uses them up, and nothing limits it.
HeartbeatInTime ==
    stage = "handling" \/ ~FirstFailure
        => sinceBeat + HeartbeatInterval + Reserve <= SessionTimeout

\* The event whose handlers all succeed is not processed a second time behind
\* their back: beyond the first delivery and one for each restart, a message
\* comes again only after a dead letter of it was sent or lost, which is the
\* only thing that can take so long that the session ends.
RedeliveredOnlyAfterReport ==
    \A o \in Offsets : deliveries[o] > 1 + crashes => Reported(o)

\* One delivery of a message leaves at most one dead letter, even when
\* several of its handlers fail or a handler fails after it timed out.
OneDeadLetterPerDelivery == \A o \in Offsets : dlq[o] <= deliveries[o]

\* Also an event whose handler never returns is committed eventually, as
\* long as the consumer stays up: nothing but the timer guarantees it.  (A
\* message whose dead letter costs the session at every delivery would be
\* delivered for ever; MaxRedeliveries ends that.)
EventuallyCommitted ==
    \A o \in Offsets : (consuming /\ o <= Len(log)) ~> (committed >= o \/ ~consuming)

============================================================================
