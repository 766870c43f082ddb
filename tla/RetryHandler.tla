---------------------------- MODULE RetryHandler ----------------------------
(* RetryHandler of the kafka library with the consumer its processRetryEvent   *)
(* is written for: KafkaConsumer.subscribe on the retry topic. inventory-      *)
(* service only publishes to that topic (InventoryService has that half); this *)
(* module shows what the two halves do together. The handler that is retried   *)
(* and the service whose first attempt failed are the environment. The names   *)
(* that every module has are prefixed, as in Idempotency.                      *)
EXTENDS Integers, Sequences, FiniteSets

CONSTANTS
    Events,         \* the events whose first handling may fail
    MaxAttempts,    \* KAFKA_RETRY_MAX_ATTEMPTS
    BaseDelay,      \* KAFKA_RETRY_BASE_DELAY_MS
    MaxDelay,       \* KAFKA_RETRY_MAX_DELAY_MS
    MaxRejections,  \* bound: rejected sends
    MaxCrashes      \* bound: restarts of the consumer

ASSUME RetryAssumption ==
    /\ MaxAttempts \in Nat /\ BaseDelay \in Nat /\ MaxDelay \in Nat
    /\ MaxRejections \in Nat /\ MaxCrashes \in Nat

VARIABLES
    topics,         \* the retry topic and the dead letter topic
    failed,         \* the events whose first handling failed
    handled,        \* how often the retried handler succeeded with an event
    consumer,       \* position and committed offset on the retry topic, whether
                    \* a resolved offset is uncommitted, and the stage
    rejections, crashes

retryVars == <<topics, failed, handled, consumer, rejections, crashes>>

NoOffset == -1

Min2(a, b) == IF a < b THEN a ELSE b

(* the powers of two, by doubling *)
twoTo[n \in Nat] == IF n = 0 THEN 1 ELSE 2 * twoTo[n - 1]

(* A variant with a bug: the delay does not grow with the attempts.            *)
LinearDelay(retryCount) ==
    {Min2((BaseDelay * (100 + jitter)) \div 100, MaxDelay) : jitter \in {0, 10}}

(* calculateDelay: exponential, up to 10% jitter on top, capped, rounded down; *)
(* the two ends of the jitter stand for what lies between.                     *)
calculateDelay(retryCount) ==
    LET exponentialDelay == BaseDelay * twoTo[retryCount]
    IN  {Min2((exponentialDelay * (100 + jitter)) \div 100, MaxDelay) : jitter \in {0, 10}}

(* the topics after a send of the RetryHandler *)
ScheduleRetry(event, retryCount) ==
    [topics EXCEPT !.retry = Append(@, [event |-> event, retryCount |-> retryCount + 1])]

SendToDLQ(event, finalRetryCount) ==
    [topics EXCEPT !.dlq =
        Append(@, [event |-> event, finalRetryCount |-> finalRetryCount])]

HandleFailedEvent(event, retryCount) ==
    IF retryCount >= MaxAttempts THEN SendToDLQ(event, retryCount)
                                 ELSE ScheduleRetry(event, retryCount)

(* Variants with a bug each: the last retry is never made; the count is lost,  *)
(* as it would be with handleFailedEvent's default.                            *)
GivesUpEarly(message) ==
    IF message.retryCount + 1 < MaxAttempts
    THEN HandleFailedEvent(message.event, message.retryCount)
    ELSE SendToDLQ(message.event, message.retryCount)

LosesCount(message) == HandleFailedEvent(message.event, 0)

(* the catch block of processRetryEvent *)
Rescheduled(message) ==
    IF message.retryCount < MaxAttempts
    THEN HandleFailedEvent(message.event, message.retryCount)
    ELSE SendToDLQ(message.event, message.retryCount)

RetryInit ==
    /\ topics = [retry |-> <<>>, dlq |-> <<>>]
    /\ failed = {}
    /\ handled = [e \in Events |-> 0]
    /\ \E committed \in {NoOffset, 0} :
          consumer = [position |-> 0, committed |-> committed, dirty |-> FALSE,
                      stage |-> "idle"]
    /\ rejections = 0 /\ crashes = 0

Rejection ==
    /\ rejections < MaxRejections
    /\ rejections' = rejections + 1
    /\ UNCHANGED crashes

(* the service's own handler fails and hands the event over, with a count of 0 *)
FirstFailure(e) ==
    /\ e \notin failed
    /\ failed' = failed \cup {e}
    /\ topics' = HandleFailedEvent(e, 0)
    /\ UNCHANGED <<handled, consumer, rejections, crashes>>

(* ... and the send is rejected: the broker may or may not have the event *)
FirstFailureUnsent(e) ==
    /\ e \notin failed
    /\ Rejection
    /\ failed' = failed \cup {e}
    /\ topics' \in {topics, HandleFailedEvent(e, 0)}
    /\ UNCHANGED <<handled, consumer>>

RetryMessage == topics.retry[consumer.position + 1]

(* processRetryEvent begins at once: nothing waits for the message's retryAt *)
BeginRetry ==
    /\ consumer.stage = "idle"
    /\ consumer.position < Len(topics.retry)
    /\ consumer' = [consumer EXCEPT !.stage = "handling"]
    /\ UNCHANGED <<topics, failed, handled, rejections, crashes>>

(* the message is done with *)
Resolved == [consumer EXCEPT !.stage = "idle", !.position = @ + 1, !.dirty = TRUE]

HandlerSucceeds ==
    /\ consumer.stage = "handling"
    /\ handled' = [handled EXCEPT ![RetryMessage.event] = @ + 1]
    /\ consumer' = Resolved
    /\ UNCHANGED <<topics, failed, rejections, crashes>>

HandlerFails ==
    /\ consumer.stage = "handling"
    /\ consumer' = [consumer EXCEPT !.stage = "rescheduling"]
    /\ UNCHANGED <<topics, failed, handled, rejections, crashes>>

Reschedule ==
    /\ consumer.stage = "rescheduling"
    /\ topics' = Rescheduled(RetryMessage)
    /\ consumer' = Resolved
    /\ UNCHANGED <<failed, handled, rejections, crashes>>

(* A variant with a bug: the rejected send is swallowed.                       *)
RescheduleSwallowed ==
    /\ consumer.stage = "rescheduling"
    /\ Rejection
    /\ topics' \in {topics, Rescheduled(RetryMessage)}
    /\ consumer' = Resolved
    /\ UNCHANGED <<failed, handled>>

(* processRetryEvent lets the error through, subscribe rethrows it, and kafkajs *)
(* delivers the message again.                                                  *)
RescheduleRejected ==
    /\ consumer.stage = "rescheduling"
    /\ Rejection
    /\ topics' \in {topics, Rescheduled(RetryMessage)}
    /\ consumer' = [consumer EXCEPT !.stage = "idle"]
    /\ UNCHANGED <<failed, handled>>

Commit ==
    /\ consumer.dirty
    /\ consumer' = [consumer EXCEPT !.committed = consumer.position, !.dirty = FALSE]
    /\ UNCHANGED <<topics, failed, handled, rejections, crashes>>

(* fromBeginning: false - a group that never committed restarts at the end of  *)
(* the topic, whatever it had not come to yet                                  *)
RestartPosition ==
    IF consumer.committed = NoOffset THEN Len(topics.retry) ELSE consumer.committed

Crash ==
    /\ crashes < MaxCrashes
    /\ crashes' = crashes + 1
    /\ consumer' = [consumer EXCEPT !.position = RestartPosition, !.dirty = FALSE,
                                   !.stage = "idle"]
    /\ UNCHANGED <<topics, failed, handled, rejections>>

ProcessRetryEvent ==
    BeginRetry \/ HandlerSucceeds \/ HandlerFails \/ Reschedule \/ RescheduleRejected

RetryNext ==
    \/ \E e \in Events : FirstFailure(e) \/ FirstFailureUnsent(e)
    \/ ProcessRetryEvent
    \/ Commit
    \/ Crash

RetrySpec == RetryInit /\ [][RetryNext]_retryVars

(* the consumer polls, its handler returns, its sends settle *)
RetryFairSpec == RetrySpec /\ WF_retryVars(ProcessRetryEvent)

-----------------------------------------------------------------------------
(* Properties *)

Retries(e, count) ==
    {n \in DOMAIN topics.retry :
        topics.retry[n].event = e /\ topics.retry[n].retryCount = count}

Deaths(e) == {n \in DOMAIN topics.dlq : topics.dlq[n].event = e}

RetryTypeOK ==
    /\ topics \in [retry : Seq([event : Events, retryCount : 1..MaxAttempts]),
                   dlq   : Seq([event : Events, finalRetryCount : 0..MaxAttempts])]
    /\ failed \subseteq Events
    /\ handled \in [Events -> Nat]
    /\ consumer \in [position : 0..Len(topics.retry),
                     committed : 0..Len(topics.retry) \cup {NoOffset}, dirty : BOOLEAN,
                     stage : {"idle", "handling", "rescheduling"}]
    /\ rejections \in 0..MaxRejections /\ crashes \in 0..MaxCrashes

(* An event is dead only after every attempt it was entitled to went over the  *)
(* retry topic, whatever was redelivered on the way (handleFailedEvent and the *)
(* catch block of processRetryEvent count together).                           *)
DeadAfterEveryRetry ==
    \A e \in Events : Deaths(e) # {} =>
        \A count \in 1..MaxAttempts :
            \E n \in Retries(e, count) : n <= consumer.position + 1 \/ crashes > 0

(* The inductive strengthening: the message being handled is on the topic, a   *)
(* later attempt follows the earlier ones, and only what failed is on a topic. *)
MessageUnderway ==
    /\ consumer.committed <= consumer.position
    /\ consumer.stage # "idle" => consumer.position < Len(topics.retry)

AttemptsInTurn ==
    \A n \in DOMAIN topics.retry :
        \A count \in 1..(topics.retry[n].retryCount - 1) :
            \E m \in Retries(topics.retry[n].event, count) :
                m <= consumer.position + 1 \/ crashes > 0

OnlyFailed ==
    \A e \in Events \ failed :
        /\ \A n \in DOMAIN topics.retry : topics.retry[n].event # e
        /\ Deaths(e) = {}
        /\ handled[e] = 0

(* What an event can still become: the messages ahead of the position, and of  *)
(* those the ones that may yet lead to the attempt of that count, with the     *)
(* attempts of that count themselves.                                          *)
Ahead(e) == {n \in DOMAIN topics.retry : n > consumer.position /\ topics.retry[n].event = e}

UpTo(e, count) ==
    Retries(e, count) \cup {n \in Ahead(e) : topics.retry[n].retryCount < count}

AttemptsBounded ==
    crashes = 0 => \A e \in Events :
        /\ \A count \in 1..MaxAttempts : Cardinality(UpTo(e, count)) <= 1 + rejections
        /\ handled[e] + Cardinality(Deaths(e)) + Cardinality(Ahead(e)) <= 1 + rejections

(* With the types: no message counts more than MaxAttempts attempts.           *)
RetryInvariant ==
    /\ RetryTypeOK
    /\ MessageUnderway
    /\ AttemptsInTurn
    /\ OnlyFailed
    /\ AttemptsBounded
    /\ DeadAfterEveryRetry

(* Each attempt is on the topic once, and ends once - in success, in the next  *)
(* attempt or in the dead letter topic - plus once for every rejected send,    *)
(* whose event the broker may hold and which is redelivered all the same.      *)
AttemptsNotMultiplied ==
    crashes = 0 => \A e \in Events :
        /\ \A count \in 1..MaxAttempts : Cardinality(Retries(e, count)) <= 1 + rejections
        /\ handled[e] + Cardinality(Deaths(e)) <= 1 + rejections

(* A later attempt of an event is never due after a shorter delay than an      *)
(* earlier one, however the jitter falls and wherever the cap cuts in          *)
(* (calculateDelay, called with the count before the increment).               *)
BackoffGrows ==
    \A m, n \in DOMAIN topics.retry :
        topics.retry[m].retryCount < topics.retry[n].retryCount =>
            \A earlier \in calculateDelay(topics.retry[m].retryCount - 1),
               later \in calculateDelay(topics.retry[n].retryCount - 1) : earlier <= later

Ended(e) == handled[e] > 0 \/ Deaths(e) # {}

(* An event ahead of the consumer on the retry topic is handled in the end or  *)
(* dead, through rejected sends, once something consumes the topic; through    *)
(* restarts as well once the group has committed - until then a restart skips  *)
(* what lies ahead (processRetryEvent under KafkaConsumer.subscribe).          *)
RetriesEnd ==
    \A e \in Events :
        /\ \A restarts \in 0..MaxCrashes :
              (Ahead(e) # {} /\ crashes = restarts) ~> (Ended(e) \/ crashes > restarts)
        /\ (Ahead(e) # {} /\ consumer.committed # NoOffset) ~> Ended(e)
=============================================================================
