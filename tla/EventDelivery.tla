---------------------------- MODULE EventDelivery ----------------------------
(***************************************************************************)
(* Delivery of Kafka events to a consuming service (learngrid-events): the *)
(* consumer loop of kafka_consume on a topic and on its retry topic, the   *)
(* dead-letter topic and its replay, and the handlers of the three         *)
(* services that consume events.  The services also take the same events   *)
(* through a REST endpoint, whose worker is "rest".                        *)
(*                                                                         *)
(* A topic is one partition, a sequence of messages; the events of a topic *)
(* that share a key share a partition.  A consumer that is started goes    *)
(* on from the offset its group has committed, and while the group has     *)
(* committed none, from the end of the topic.                              *)
(***************************************************************************)
EXTENDS Naturals, Sequences

CONSTANTS
    Event,            \* identifiers of the events producers send
    MayBeMalformed,   \* those whose envelope may fail to validate
    Services,         \* the services that may be the one that consumes them
    MaxAttempts,      \* KAFKA_MAX_RETRY_ATTEMPTS
    MaxFaults,        \* bound on the failures of the handler and of sends
    MaxCrashes,       \* bound on the crashes of the workers
    MaxIngests,       \* bound on the events sent to the REST endpoint
    MaxReplays        \* bound on the replays from the dead-letter topic

ASSUME BoundsAssumption ==
    /\ MayBeMalformed \subseteq Event
    /\ Services \subseteq {"progress", "notification", "analytics"}
    /\ MaxAttempts \in Nat \ {0}
    /\ {MaxFaults, MaxCrashes, MaxIngests, MaxReplays} \subseteq Nat

VARIABLES
    service,     \* the consuming service
    malformed,   \* the events whose envelope does not validate
    log,         \* the messages of each topic
    committed,   \* the offset committed by the consumer group of a topic, 0: none
    worker,      \* what each worker is doing
    recorded,    \* events of which the service has stored a record
    applied,     \* how often an event has taken effect in the service
    failures,    \* history: failed runs of the handler in a consumer
    lost,        \* history: events in a message that the broker rejected
    skipped,     \* history: events in a message that a consumer started behind
    faults, crashes, ingests, replays

bounds == <<faults, crashes, ingests, replays>>
setting == <<service, malformed>>
store == <<recorded, applied>>
history == <<failures, lost, skipped>>
vars == <<setting, log, committed, worker, store, history, bounds>>

Consumer == {"base", "retry"}      \* named after the topic they read
Worker == Consumer \cup {"rest"}
Topic == Consumer \cup {"dlq"}

Message == [event : Event, attempts : Nat]

\* The steps of a worker between taking a message and committing its offset.
Step == {"check", "record", "apply", "publish", "failed", "done"}

WorkerState ==
    [pc : {"down", "idle"}, offset : Nat]
    \cup [pc : Step, offset : Nat, message : Message]

TypeOK ==
    /\ service \in Services
    /\ malformed \subseteq MayBeMalformed
    /\ log \in [Topic -> Seq(Message)]
    /\ committed \in [Consumer -> Nat]
    /\ worker \in [Worker -> WorkerState]
    /\ recorded \subseteq Event
    /\ applied \in [Event -> Nat]
    /\ failures \in [Event -> Nat]
    /\ lost \subseteq Event
    /\ skipped \subseteq Event
    /\ {faults, crashes, ingests, replays} \subseteq Nat

Init ==
    /\ service \in Services
    /\ malformed \in SUBSET MayBeMalformed
    /\ log = [t \in Topic |-> <<>>]
    /\ committed = [t \in Consumer |-> 0]
    /\ worker = [w \in Worker |->
                    [pc |-> IF w \in Consumer THEN "down" ELSE "idle", offset |-> 0]]
    /\ recorded = {}
    /\ applied = [e \in Event |-> 0]
    /\ failures = [e \in Event |-> 0]
    /\ lost = {}
    /\ skipped = {}
    /\ faults = 0 /\ crashes = 0 /\ ingests = 0 /\ replays = 0

Has(t, e) == \E i \in DOMAIN log[t] : log[t][i].event = e

At(w, pc) == worker[w].pc = pc

\* The event a worker is handling.
Current(w) == worker[w].message.event

Goto(w, pc) == worker' = [worker EXCEPT ![w].pc = pc]

Send(t, e, n) == log' = [log EXCEPT ![t] = Append(@, [event |-> e, attempts |-> n])]

-----------------------------------------------------------------------------
(* Producers and operators *)

\* publish_event, after the transaction of the producer committed.
Publish(e) ==
    /\ ~Has("base", e)
    /\ Send("base", e, 0)
    /\ UNCHANGED <<setting, committed, worker, store, history, bounds>>

\* kafka_retry_dlq: the event goes to the retry topic with a fresh count and
\* stays in the dead-letter topic.
Replay(e) ==
    /\ replays < MaxReplays
    /\ Has("dlq", e)
    /\ Send("retry", e, 0)
    /\ replays' = replays + 1
    /\ UNCHANGED <<setting, committed, worker, store, history, faults, crashes, ingests>>

-----------------------------------------------------------------------------
(* The consumer loop *)

\* Mutation of Take: the offset is committed when the message is taken.
AutoCommitTake(w) ==
    LET next == worker[w].offset + 1 IN
    /\ w \in Consumer /\ At(w, "idle")
    /\ next <= Len(log[w])
    /\ committed' = [committed EXCEPT ![w] = next]
    /\ worker' = [worker EXCEPT ![w] =
          [pc |-> "check", offset |-> @.offset, message |-> log[w][next]]]
    /\ UNCHANGED <<setting, log, store, history, bounds>>

Take(w) ==
    /\ w \in Consumer /\ At(w, "idle")
    /\ worker[w].offset < Len(log[w])
    /\ worker' = [worker EXCEPT ![w] =
          [pc |-> "check", offset |-> @.offset, message |-> log[w][@.offset + 1]]]
    /\ UNCHANGED <<setting, log, committed, store, history, bounds>>

\* A client posts the event to the service.
Ingest(e) ==
    /\ ingests < MaxIngests
    /\ At("rest", "idle") /\ e \notin malformed
    /\ ingests' = ingests + 1
    /\ worker' = [worker EXCEPT !["rest"] =
          [pc |-> "check", offset |-> 0, message |-> [event |-> e, attempts |-> 0]]]
    /\ UNCHANGED <<setting, log, committed, store, history, faults, crashes, replays>>

\* The process ends; the REST worker is at once ready for another request.
Halt(w) == worker' = [worker EXCEPT ![w] =
    [pc |-> IF w \in Consumer THEN "down" ELSE "idle",
     offset |-> IF w \in Consumer THEN committed[w] ELSE 0]]

\* KafkaConsumer is given no auto_offset_reset, whose default is "latest": a group
\* without a committed offset begins behind what the topic holds already.
Start(w) ==
    /\ w \in Consumer /\ At(w, "down")
    /\ IF committed[w] = 0
       THEN /\ worker' = [worker EXCEPT ![w] = [pc |-> "idle", offset |-> Len(log[w])]]
            /\ skipped' = skipped \cup {log[w][i].event : i \in DOMAIN log[w]}
       ELSE /\ worker' = [worker EXCEPT ![w] = [pc |-> "idle", offset |-> committed[w]]]
            /\ UNCHANGED skipped
    /\ UNCHANGED <<setting, log, committed, store, failures, lost, bounds>>

\* validate_event_envelope raises outside the try of consume_event: the loop
\* ends with the exception and nothing is committed.
Reject(w) ==
    /\ At(w, "check") /\ Current(w) \in malformed
    /\ Halt(w)
    /\ UNCHANGED <<setting, log, committed, store, history, bounds>>

\* Mutation of Exhausted: the first delivery is counted too.
EarlyExhausted(n) == n + 1 >= MaxAttempts

Exhausted(n) == n >= MaxAttempts

\* Mutation of Reroute: the exception is swallowed.
DropReroute(w) ==
    /\ w \in Consumer /\ At(w, "failed")
    /\ Goto(w, "done")
    /\ UNCHANGED <<setting, log, committed, store, history, bounds>>

\* consume_event, when the handler raised: the dead-letter topic once the
\* attempts are used up, the retry topic before.
Reroute(w) ==
    LET n == worker[w].message.attempts + 1 IN
    /\ w \in Consumer /\ At(w, "failed")
    /\ Send(IF Exhausted(n) THEN "dlq" ELSE "retry", Current(w), n)
    /\ Goto(w, "done")
    /\ UNCHANGED <<setting, committed, store, history, bounds>>

\* The producer adapter flushes and drops the future: a record that the broker
\* rejects is lost without an exception.
LoseSend(w) ==
    /\ faults < MaxFaults
    /\ w \in Consumer /\ At(w, "failed")
    /\ Goto(w, "done")
    /\ lost' = lost \cup {Current(w)}
    /\ faults' = faults + 1
    /\ UNCHANGED <<setting, log, committed, store, failures, skipped, crashes, ingests,
                   replays>>

Commit(w) ==
    LET next == worker[w].offset + 1 IN
    /\ w \in Consumer /\ At(w, "done")
    /\ committed' = [committed EXCEPT ![w] = next]
    /\ worker' = [worker EXCEPT ![w] = [pc |-> "idle", offset |-> next]]
    /\ UNCHANGED <<setting, log, store, history, bounds>>

\* The REST worker answers, with an error if the handler raised.
Respond ==
    /\ At("rest", "done") \/ At("rest", "failed")
    /\ worker' = [worker EXCEPT !["rest"] = [pc |-> "idle", offset |-> 0]]
    /\ UNCHANGED <<setting, log, committed, store, history, bounds>>

-----------------------------------------------------------------------------
(* Handlers *)

\* Mutation of AnalyticsHandle: create without looking for the event first.
CreateAnalyticsHandle(w) ==
    /\ recorded' = recorded \cup {Current(w)}
    /\ applied' = [applied EXCEPT ![Current(w)] = @ + 1]
    /\ Goto(w, "done")

\* ingest_event of analytics-service: get_or_create on the unique event_id, in
\* one transaction.
AnalyticsHandle(w) ==
    /\ recorded' = recorded \cup {Current(w)}
    /\ applied' = IF Current(w) \in recorded THEN applied
                  ELSE [applied EXCEPT ![Current(w)] = @ + 1]
    /\ Goto(w, "done")

\* The query for an earlier run that the other two services start with.
LookUp(w) ==
    /\ Goto(w, IF Current(w) \in recorded THEN "done" ELSE "record")
    /\ UNCHANGED store

Check(w) ==
    /\ At(w, "check") /\ Current(w) \notin malformed
    /\ IF service = "analytics" THEN AnalyticsHandle(w) ELSE LookUp(w)
    /\ UNCHANGED <<setting, log, committed, history, bounds>>

\* ingest_notification_event commits the notifications; nothing makes them
\* unique.
RecordNotification(w) ==
    /\ service = "notification" /\ At(w, "record")
    /\ recorded' = recorded \cup {Current(w)}
    /\ applied' = [applied EXCEPT ![Current(w)] = @ + 1]
    /\ Goto(w, "publish")
    /\ UNCHANGED <<setting, log, committed, history, bounds>>

CountFailure(w) ==
    failures' = IF w \in Consumer THEN [failures EXCEPT ![Current(w)] = @ + 1]
                ELSE failures

\* Mutation of InsertEvent: event_id is not unique.
InsertAnyEvent(w) ==
    /\ recorded' = recorded \cup {Current(w)}
    /\ Goto(w, "apply")
    /\ UNCHANGED failures

\* ProgressEvent.objects.create: event_id is unique, a second insert raises.
InsertEvent(w) ==
    IF Current(w) \in recorded
    THEN Goto(w, "failed") /\ CountFailure(w) /\ UNCHANGED recorded
    ELSE /\ recorded' = recorded \cup {Current(w)}
         /\ Goto(w, "apply")
         /\ UNCHANGED failures

\* process_progress_event has no transaction: the record is committed first,
RecordProgress(w) ==
    /\ service = "progress" /\ At(w, "record")
    /\ InsertEvent(w)
    /\ UNCHANGED <<setting, log, committed, applied, lost, skipped, bounds>>

\* ... then the lesson, video or assessment row is saved,
ApplyProgress(w) ==
    /\ At(w, "apply")
    /\ applied' = [applied EXCEPT ![Current(w)] = @ + 1]
    /\ Goto(w, "publish")
    /\ UNCHANGED <<setting, log, committed, recorded, history, bounds>>

\* ... and the course progress is recalculated and published.
PublishResult(w) ==
    /\ At(w, "publish")
    /\ Goto(w, "done")
    /\ UNCHANGED <<setting, log, committed, store, history, bounds>>

\* A query, an insert or a call fails and the handler raises.
Fail(w) ==
    /\ faults < MaxFaults
    /\ worker[w].pc \in {"check", "record", "apply", "publish"}
    /\ Current(w) \notin malformed
    /\ Goto(w, "failed")
    /\ CountFailure(w)
    /\ faults' = faults + 1
    /\ UNCHANGED <<setting, log, committed, store, lost, skipped, crashes, ingests, replays>>

\* The process dies, is stopped, or leaves the loop with an exception because the
\* message could not be sent or the offset not committed.
Crash(w) ==
    /\ crashes < MaxCrashes
    /\ ~At(w, "down")
    /\ crashes' = crashes + 1
    /\ Halt(w)
    /\ UNCHANGED <<setting, log, committed, store, history, faults, ingests, replays>>

-----------------------------------------------------------------------------

\* What a worker does by itself.
Proceed(w) ==
    \/ Start(w) \/ Take(w) \/ Check(w) \/ Reject(w)
    \/ RecordNotification(w) \/ RecordProgress(w) \/ ApplyProgress(w)
    \/ PublishResult(w) \/ Reroute(w) \/ Commit(w)

Next ==
    \/ \E e \in Event : Publish(e) \/ Replay(e) \/ Ingest(e)
    \/ \E w \in Worker : Proceed(w) \/ Fail(w) \/ LoseSend(w) \/ Crash(w)
    \/ Respond

Spec == Init /\ [][Next]_vars

\* An operator keeps a consumer of the topic and one of its retry topic running.
FairSpec == Spec /\ \A w \in Consumer : WF_vars(Proceed(w))

-----------------------------------------------------------------------------
(* Properties *)

\* An event takes effect at most once, whatever is redelivered, retried,
\* replayed or posted to the REST endpoint besides.
AppliedAtMostOnce == \A e \in Event : applied[e] <= 1

\* The services that store each event under a unique event_id achieve it;
\* notification-service only looks for an earlier notification.
UniqueEventIdAppliedAtMostOnce == service # "notification" => AppliedAtMostOnce

\* A message of e that a consumer has yet to take or to be done with.
Pending(e) ==
    \E t \in Consumer : \E i \in DOMAIN log[t] :
        i > worker[t].offset /\ log[t][i].event = e

Accounted(e) == applied[e] > 0 \/ Pending(e) \/ Has("dlq", e)

\* An event that reached the topic takes effect, waits in the topic or its
\* retry topic, or is in the dead-letter topic.  progress-service does not meet it:
\* it records the event and applies it in two commits, and a retry of what failed in
\* between is a duplicate.
NoEventLost == \A e \in Event : Has("base", e) => Accounted(e)

\* An event whose handler failed takes effect later, is to be retried, or is given up.
\* The code does not meet it: a consumer of the retry topic that is started for the first
\* time after the event got there, or again before it first committed, begins behind it.
FailuresRetried ==
    \A e \in Event \ lost : failures[e] > 0 => Accounted(e)

\* So it is, as long as the broker takes what is sent to it and no consumer starts behind
\* the event, where the record of an event and its effect are committed together: not in
\* progress-service.  Once a group has committed an offset, neither a crash nor a
\* malformed event ahead makes it pass anything over.
AtomicHandlerLosesNothing ==
    service # "progress" =>
        \A e \in Event \ (lost \cup skipped) : Has("base", e) => Accounted(e)

\* An event is given up only after the handler has failed on it as often as the
\* configuration allows.
GivenUpAfterAllAttempts ==
    \A e \in Event : Has("dlq", e) => failures[e] >= MaxAttempts

\* Every event that reached the topic takes effect, is given up, is lost by the broker or
\* passed over by a group without an offset in the end, unless a malformed one blocks the
\* topic.
EventuallySettled ==
    \A e \in Event :
        (service # "progress" /\ malformed = {} /\ Has("base", e))
            ~> (applied[e] > 0 \/ Has("dlq", e) \/ e \in lost \cup skipped)

\* The topics, offsets and counters are what the consumers take them for, and what was
\* given up had all its attempts, however crashes, retries and replays interleave.
QueuesAgree == TypeOK /\ GivenUpAfterAllAttempts

=============================================================================
