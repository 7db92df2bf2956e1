-------------------------- MODULE EventPublisher ---------------------------
(***************************************************************************)
(* EventPublisher.publish of shared/events.py: one event goes to Kafka, to *)
(* SQS and as an alert to SNS, as EVENT_BUS and the caller ask, one call   *)
(* after the other.  The first call that fails ends publish with an        *)
(* exception and leaves what the earlier ones did.  The module that owns   *)
(* the queue adds what QueueAccepts and QueueFails do to it.               *)
(***************************************************************************)
CONSTANTS
    Event,     \* calls of publish, named by the event_id each one draws
    Alerting   \* those with alert=True

ASSUME PublisherAssumption == Alerting \subseteq Event

Bus == {"disabled", "kafka", "sqs", "dual"}

VARIABLES
    bus,       \* EVENT_BUS, the same in every service
    pub,       \* pub[e]: the call publish is about to make, or how it ended
    buffered,  \* events the Kafka producer still retries in the background
    topic,     \* events on their Kafka topic
    alerted    \* events sent to the SNS topic

publisher == <<bus, pub, buffered, topic, alerted>>

ToKafka == bus \in {"kafka", "dual"}
ToQueue == bus \in {"sqs", "dual"}

PublisherTypeOK ==
    /\ bus \in Bus
    /\ pub \in [Event -> {"new", "kafka", "sqs", "sns", "ok", "error"}]
    /\ buffered \subseteq Event /\ topic \subseteq Event /\ alerted \subseteq Event

PublisherInit ==
    /\ bus \in Bus
    /\ pub = [e \in Event |-> "new"]
    /\ buffered = {} /\ topic = {} /\ alerted = {}

Step(e, from, to) == /\ pub[e] = from
                     /\ pub' = [pub EXCEPT ![e] = to]

AfterQueue(e) == IF e \in Alerting /\ bus # "disabled" THEN "sns" ELSE "ok"
AfterKafkaOnly(e) == AfterQueue(e) \* defect: the SQS copy is left out
AfterKafka(e) == IF ToQueue THEN "sqs" ELSE AfterQueue(e)

Publish(e) ==
    /\ Step(e, "new", IF ToKafka THEN "kafka" ELSE AfterKafka(e))
    /\ UNCHANGED <<bus, buffered, topic, alerted>>

\* send().get(timeout) returns: every in-sync replica has the record.
KafkaAcknowledges(e) ==
    /\ Step(e, "kafka", AfterKafka(e))
    /\ topic' = topic \cup {e}
    /\ UNCHANGED <<bus, buffered, alerted>>

\* ... or raises: refused, or timed out with the producer still retrying.
KafkaFailsOver(e) == \* defect: a failed send does not stop the SQS copy
    /\ Step(e, "kafka", AfterKafka(e))
    /\ buffered' \in {buffered, buffered \cup {e}}
    /\ UNCHANGED <<bus, topic, alerted>>

KafkaFails(e) ==
    /\ Step(e, "kafka", "error")
    /\ buffered' \in {buffered, buffered \cup {e}}
    /\ UNCHANGED <<bus, topic, alerted>>

\* What the producer still retries gets through after all, or is given up.
BackgroundSend(e) ==
    /\ e \in buffered
    /\ buffered' = buffered \ {e}
    /\ topic' \in {topic, topic \cup {e}}
    /\ UNCHANGED <<bus, pub, alerted>>

\* send_message returns, or raises.
QueueAccepts(e) ==
    /\ Step(e, "sqs", AfterQueue(e))
    /\ UNCHANGED <<bus, buffered, topic, alerted>>

QueueFails(e) ==
    /\ Step(e, "sqs", "error")
    /\ UNCHANGED <<bus, buffered, topic, alerted>>

\* sns.publish returns; no topic of that name, or a failing call, raises.
Alert(e) ==
    /\ Step(e, "sns", "ok")
    /\ alerted' = alerted \cup {e}
    /\ UNCHANGED <<bus, buffered, topic>>

AlertFails(e) ==
    /\ Step(e, "sns", "error")
    /\ alerted' \in {alerted, alerted \cup {e}}
    /\ UNCHANGED <<bus, buffered, topic>>

Broadcast(e) == Publish(e) \/ KafkaAcknowledges(e) \/ KafkaFails(e)
                   \/ BackgroundSend(e) \/ Alert(e) \/ AlertFails(e)
=============================================================================
