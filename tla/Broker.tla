------------------------------- MODULE Broker -------------------------------
(***************************************************************************)
(* RabbitMQ as the code uses it, with the topology both processes share    *)
(* (messaging/contracts/topology.ts): a topic exchange, one queue for each *)
(* consumer with its routing-key bindings, and the dead-letter queue.      *)
(*                                                                         *)
(* A queue is a bag of messages.  Retries go to the tail, a rejected       *)
(* delivery goes back to the head and a queue hands out several messages   *)
(* at a time, so no order of delivery is assumed: every order is allowed.  *)
(***************************************************************************)
EXTENDS Naturals, FiniteSets

CONSTANTS
    Events,            \* event_outbox rows, the unit of publication
    KeyOf,             \* routing key of each event
    Consumers,         \* consumers that are deployed
    InitialBindings,   \* consumers whose queue was declared by an earlier worker
    MaxRetries,        \* consumer.maxRetries
    MaxFaults          \* model bound: faults of the environment in one behaviour

VARIABLES
    ready,             \* messages waiting in the queues, a bag
    dead,              \* <<consumer, event>> that reached the dlq
    bound,             \* consumers whose queue exists and is bound
    published,         \* times the exchange accepted the event from a relay
    faults             \* faults spent so far

brokerVars == <<ready, dead, bound, published, faults>>

RoutingKeys == {"ticket.created", "ticket.updated", "ticket.assigned",
                "ticket.closed", "comment.created"}

ConsumerNames == {"notification", "audit", "analytics"}

Bindings ==
    [notification |-> RoutingKeys,
     audit        |-> RoutingKeys,      \* '#'
     analytics    |-> {"ticket.created", "ticket.assigned", "ticket.closed"}]

ASSUME BrokerAssumption ==
    /\ KeyOf \in [Events -> RoutingKeys]
    /\ Consumers \subseteq ConsumerNames
    /\ InitialBindings \subseteq Consumers
    /\ MaxRetries \in Nat
    /\ MaxFaults \in Nat

(* One row of processed_events is unique on the consumer and the event.    *)
Keys == Consumers \X Events

(* A message in a queue: the consumer that owns the queue, the event and   *)
(* the x-retry header (0 when absent).                                     *)
Messages == [consumer : Consumers, event : Events, retry : 0 .. MaxRetries]

Message(c, e, n) == [consumer |-> c, event |-> e, retry |-> n]

KeyOfMessage(m) == <<m.consumer, m.event>>

(* Consumers whose bindings match the event's routing key.                 *)
Wanted(e) == {c \in Consumers : KeyOf[e] \in Bindings[c]}

-----------------------------------------------------------------------------

(* What the exchange does with an accepted event: one copy to every bound  *)
(* queue whose binding matches.  `mandatory` is not set, so an event that  *)
(* matches no queue is accepted and dropped.                               *)
Route(e) ==
    /\ published' = [published EXCEPT ![e] = @ + 1]
    /\ ready' = [m \in Messages |->
                    IF /\ m.event = e /\ m.retry = 0
                       /\ m.consumer \in bound \cap Wanted(e)
                    THEN ready[m] + 1 ELSE ready[m]]

(* Every step that a fault of the environment causes spends one.           *)
Fault == faults < MaxFaults /\ faults' = faults + 1

(* A worker boots: golevelup asserts the queues of its @RabbitSubscribe    *)
(* handlers and binds them.  They are durable and outlive the worker.      *)
DeclareQueues ==
    /\ bound # Consumers
    /\ bound' = Consumers
    /\ UNCHANGED <<ready, dead, published, faults>>

BrokerInit ==
    /\ ready = [m \in Messages |-> 0]
    /\ dead = {}
    /\ bound = InitialBindings
    /\ published = [e \in Events |-> 0]
    /\ faults = 0

BrokerTypeOK ==
    /\ ready \in [Messages -> Nat]
    /\ dead \in SUBSET Keys
    /\ bound \in SUBSET Consumers
    /\ published \in [Events -> Nat]
    /\ faults \in 0 .. MaxFaults
=============================================================================
