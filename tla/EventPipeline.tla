--------------------------- MODULE EventPipeline ----------------------------
(***************************************************************************)
(* The write path of the platform from end to end: business transactions   *)
(* fill the outbox, the relays of the API replicas publish it, the broker  *)
(* routes it, the worker's consumers apply it, retry it or dead-letter it. *)
(***************************************************************************)
EXTENDS OutboxRelay, ConsumerRunner

vars == <<relayVars, runnerVars, brokerVars>>

Init == RelayInit /\ RunnerInit /\ BrokerInit

(* A step of one side leaves the variables of the other alone; the two     *)
(* sides meet in the variables of the broker.                              *)
Relay(A) == A /\ UNCHANGED runnerVars
Runner(A) == A /\ UNCHANGED relayVars
Boot == DeclareQueues /\ UNCHANGED <<relayVars, runnerVars>>

Next == Relay(RelayNext) \/ Runner(RunnerNext) \/ Boot

Spec == Init /\ [][Next]_vars

(* The interval keeps firing, awaits return, the worker boots and a        *)
(* stopped API process is started again.  Nothing is assumed of faults.    *)
Fairness ==
    /\ \A r \in Replicas :
          /\ WF_vars(Relay(\E t \in Ticks : Owner[t] = r /\ StartTick(t)))
          /\ WF_vars(Relay(stopped[r] /\ Restart(r)))
    /\ \A t \in Ticks : WF_vars(Relay(TickStep(t)))
    /\ \A s \in Slots : WF_vars(Runner(SlotStep(s)))
    /\ \A m \in Messages : WF_vars(Runner(\E s \in Slots : Deliver(s, m)))
    /\ WF_vars(Boot)

FairSpec == Spec /\ Fairness

-----------------------------------------------------------------------------

TypeOK == BrokerTypeOK /\ RelayTypeOK /\ RunnerTypeOK

(* "Guarantees each event is applied at most once per consumer": under     *)
(* redelivery, retries and duplicate publications the committed effects of *)
(* a consumer on an event are exactly its processed_events row.            *)
AppliedOnce ==
    \A k \in Keys : effects[k] = IF k \in processed THEN 1 ELSE 0

(* Somewhere a copy of the message for k still exists that will be         *)
(* handled: in the queue, or held for a slot that has not settled it.      *)
Outstanding(k) ==
    \E m \in Messages :
        /\ KeyOfMessage(m) = k
        /\ \/ ready[m] > 0
           \/ \E s \in Slots : msg[s] = m /\ unacked[s] /\ pc[s] # "ack"

(* "No lost events", the consumer's half: once the exchange has accepted   *)
(* an event, for every consumer whose bindings match it is applied, or     *)
(* dead-lettered, or a message for it is still outstanding.                *)
NothingLost ==
    \A e \in Events, c \in Consumers :
        published[e] > 0 /\ c \in Wanted(e) =>
            \/ <<c, e>> \in processed \cup dead
            \/ Outstanding(<<c, e>>)

(* "No lost events", the relay's half: a row is only DISPATCHED after the  *)
(* exchange accepted the event, so nothing skips publication; and "no      *)
(* phantom events": what is accepted belongs to a committed transaction.   *)
DispatchedArePublished ==
    \A e \in Events :
        /\ status[e] = "DISPATCHED" => published[e] > 0
        /\ published[e] > 0 => e \in Committed

(* With one replica, every publication of an event but the first is paid   *)
(* for by a fault: the `running` flag keeps the ticks of a process apart.  *)
RepublishedOnlyAfterFault ==
    \A e \in Events : published[e] <= faults + 1

(* A row is given up on only after maxAttempts real failures: each attempt  *)
(* recorded against it was a fault of the broker or of the database.        *)
GivesUpOnlyAfterFaults ==
    \A e \in Events : status[e] = "FAILED" => faults >= MaxAttempts

(* Every committed event leaves PENDING for good.                          *)
OutboxDrains ==
    \A e \in Events :
        status[e] = "PENDING" ~> [](status[e] \in {"DISPATCHED", "FAILED"})

(* "A poisoned message can never block the queue": in the end no message   *)
(* is waiting or held, poison or not.                                      *)
QueuesDrain ==
    <>[](/\ \A m \in Messages : ready[m] = 0
         /\ \A s \in Slots : pc[s] = "idle")

(* What comes of every message that reached a queue: its event is applied, *)
(* or in the dead-letter queue.                                            *)
Settled ==
    \A k \in Keys :
        (\E m \in Messages : KeyOfMessage(m) = k /\ ready[m] > 0)
            ~> (k \in processed \cup dead)

Delivery ==
    INSTANCE EventDelivery
        WITH Subscribers <- Wanted, committed <- Committed, times <- effects

(* The pipeline implements the abstract delivery: at most once, only after *)
(* commit, only to subscribers.                                            *)
ImplementsDelivery == Delivery!Spec
=============================================================================
