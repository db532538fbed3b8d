--------------------------- MODULE ConsumerRunner ---------------------------
(***************************************************************************)
(* The worker: ConsumerRunner.handle (consumers/consumer-runner.service.ts)*)
(* around IdempotencyService.runOnce (consumers/idempotency.service.ts).   *)
(*                                                                         *)
(* A slot is one execution of a handler.  golevelup prefetches several     *)
(* messages, so slots run concurrently, on messages of one queue too, in   *)
(* one worker process or in several.  A slot is split at every await:      *)
(* inserting the processed_events row, the projection, the commit, the     *)
(* publication of a retry or of a dead letter, the acknowledgement.        *)
(***************************************************************************)
EXTENDS Broker

CONSTANTS
    Slots,           \* concurrent handler executions
    NoMessage,       \* the slot is idle
    Poison           \* <<consumer, event>> whose projection always throws

ASSUME RunnerAssumption ==
    /\ NoMessage \notin Messages
    /\ Poison \subseteq Keys

VARIABLES
    pc,              \* where each slot is
    msg,             \* message the slot handles
    unacked,         \* the broker still holds that message for the slot
    processed,       \* processed_events
    effects          \* committed projections of each <<consumer, event>>

runnerVars == <<pc, msg, unacked, processed, effects>>

RunnerTypeOK ==
    /\ pc \in [Slots -> {"idle", "claim", "project", "commit", "failed", "ack"}]
    /\ msg \in [Slots -> Messages \cup {NoMessage}]
    /\ unacked \in [Slots -> BOOLEAN]
    /\ processed \in SUBSET Keys
    /\ effects \in [Keys -> Nat]

RunnerInit ==
    /\ pc = [s \in Slots |-> "idle"]
    /\ msg = [s \in Slots |-> NoMessage]
    /\ unacked = [s \in Slots |-> FALSE]
    /\ processed = {}
    /\ effects = [k \in Keys |-> 0]

Key(s) == KeyOfMessage(msg[s])

(* Slots whose transaction holds the uncommitted processed_events row.     *)
InTransaction(s) == pc[s] \in {"project", "commit"}

Goto(s, l) == pc' = [pc EXCEPT ![s] = l]

-----------------------------------------------------------------------------

(* The broker hands a message to a free slot.                              *)
Deliver(s, m) ==
    /\ pc[s] = "idle"
    /\ ready[m] > 0
    /\ ready' = [ready EXCEPT ![m] = @ - 1]
    /\ Goto(s, "claim")
    /\ msg' = [msg EXCEPT ![s] = m]
    /\ unacked' = [unacked EXCEPT ![s] = TRUE]
    /\ UNCHANGED <<processed, effects, dead, bound, published, faults>>

\* Mutant: look the row up first instead of relying on the unique constraint.
Claim_CheckThenAct(s) ==
    /\ pc[s] = "claim"
    /\ Key(s) \notin processed
    /\ Goto(s, "project")
    /\ UNCHANGED <<msg, unacked, processed, effects, brokerVars>>

(* tx.processedEvent.create.  The insert waits while another transaction   *)
(* holds the same key, and succeeds when no committed row has it.          *)
Claim(s) ==
    /\ pc[s] = "claim"
    /\ Key(s) \notin processed
    /\ \A t \in Slots : InTransaction(t) => Key(t) # Key(s)
    /\ Goto(s, "project")
    /\ UNCHANGED <<msg, unacked, processed, effects, brokerVars>>

(* The insert trips the unique constraint (P2002): runOnce returns false   *)
(* and the delivery is acknowledged.                                       *)
Duplicate(s) ==
    /\ pc[s] = "claim"
    /\ Key(s) \in processed
    /\ Goto(s, "ack")
    /\ UNCHANGED <<msg, unacked, processed, effects, brokerVars>>

(* work(tx) resolves.                                                      *)
Project(s) ==
    /\ pc[s] = "project"
    /\ Key(s) \notin Poison
    /\ Goto(s, "commit")
    /\ UNCHANGED <<msg, unacked, processed, effects, brokerVars>>

(* work(tx) of a poison message throws: the transaction rolls back.        *)
ProjectThrows(s) ==
    /\ pc[s] = "project"
    /\ Key(s) \in Poison
    /\ Goto(s, "failed")
    /\ UNCHANGED <<msg, unacked, processed, effects, brokerVars>>

(* The row and the projection become visible in one commit.                *)
CommitEffect(s) ==
    /\ processed' = processed \cup {Key(s)}
    /\ effects' = [effects EXCEPT ![Key(s)] = @ + 1]

Commit(s) ==
    /\ pc[s] = "commit"
    /\ CommitEffect(s)
    /\ Goto(s, "ack")
    /\ UNCHANGED <<msg, unacked, brokerVars>>

(* The database fails a step of the transaction, or reports the failure of *)
(* a commit it has in fact applied: runOnce rethrows.                      *)
TransactionFails(s) ==
    /\ pc[s] \in {"claim", "project", "commit"}
    /\ Fault
    /\ \/ pc[s] = "commit" /\ CommitEffect(s)
       \/ UNCHANGED <<processed, effects>>
    /\ Goto(s, "failed")
    /\ UNCHANGED <<msg, unacked, ready, dead, bound, published>>

-----------------------------------------------------------------------------
(* retryOrDeadLetter.                                                      *)

\* Mutant: the x-retry header is copied and not incremented.
NextAttempt_SameHeader(m) == Message(m.consumer, m.event, m.retry)

(* The message as it is published again to its own queue.                  *)
NextAttempt(m) == Message(m.consumer, m.event, m.retry + 1)

Exhausted(m) == m.retry >= MaxRetries

(* amqp.publish('', queue, event, {x-retry: attempt + 1}) resolves.        *)
Retry(s) ==
    /\ pc[s] = "failed"
    /\ ~Exhausted(msg[s])
    /\ ready' = [ready EXCEPT ![NextAttempt(msg[s])] = @ + 1]
    /\ Goto(s, "ack")
    /\ UNCHANGED <<msg, unacked, processed, effects, dead, bound, published, faults>>

\* Mutant: an exhausted message is dropped.
DeadLetter_Dropped(s) ==
    /\ pc[s] = "failed"
    /\ Exhausted(msg[s])
    /\ Goto(s, "ack")
    /\ UNCHANGED <<msg, unacked, processed, effects, brokerVars>>

(* amqp.publish(DEAD_LETTER_EXCHANGE, queue, ...) resolves.                *)
DeadLetter(s) ==
    /\ pc[s] = "failed"
    /\ Exhausted(msg[s])
    /\ dead' = dead \cup {Key(s)}
    /\ Goto(s, "ack")
    /\ UNCHANGED <<msg, unacked, processed, effects, ready, bound, published, faults>>

Release(s) ==
    /\ Goto(s, "idle")
    /\ msg' = [msg EXCEPT ![s] = NoMessage]
    /\ unacked' = [unacked EXCEPT ![s] = FALSE]

(* Bag with the messages that go back to, or into, a queue.                *)
Put(S) == [m \in Messages |-> IF m \in S THEN ready[m] + 1 ELSE ready[m]]

\* Mutant: messages are acknowledged on delivery.
GivenBack_AutoAck(s) == {}

GivenBack(s) == IF unacked[s] THEN {msg[s]} ELSE {}

(* That publish throws, before or after the broker took the copy: handle   *)
(* rejects and golevelup rejects the delivery with requeue.                *)
RetryFails(s) ==
    /\ pc[s] = "failed"
    /\ Fault
    /\ \/ ready' = Put(GivenBack(s)) /\ UNCHANGED dead
       \/ /\ ~Exhausted(msg[s])
          /\ ready' = Put(GivenBack(s) \cup {NextAttempt(msg[s])})
          /\ UNCHANGED dead
       \/ /\ Exhausted(msg[s])
          /\ ready' = Put(GivenBack(s))
          /\ dead' = dead \cup {Key(s)}
    /\ Release(s)
    /\ UNCHANGED <<processed, effects, bound, published>>

(* handle resolves and golevelup acknowledges.  Nothing is acknowledged if *)
(* the channel the message came on is gone.                                *)
Ack(s) ==
    /\ pc[s] = "ack"
    /\ Release(s)
    /\ UNCHANGED <<processed, effects, brokerVars>>

-----------------------------------------------------------------------------

(* The channel is lost: the broker puts the message back, the handler goes *)
(* on with its copy.                                                       *)
ChannelLost(s) ==
    /\ unacked[s]
    /\ Fault
    /\ ready' = Put(GivenBack(s))
    /\ unacked' = [unacked EXCEPT ![s] = FALSE]
    /\ UNCHANGED <<pc, msg, processed, effects, dead, bound, published>>

(* The worker that runs the slot dies: an open transaction rolls back and  *)
(* the broker puts an unacknowledged message back.                         *)
Crash(s) ==
    /\ pc[s] # "idle"
    /\ Fault
    /\ ready' = Put(GivenBack(s))
    /\ Release(s)
    /\ UNCHANGED <<processed, effects, dead, bound, published>>

-----------------------------------------------------------------------------

(* Steps a handler takes by itself.                                        *)
SlotStep(s) ==
    \/ Claim(s) \/ Duplicate(s) \/ Project(s) \/ ProjectThrows(s) \/ Commit(s)
    \/ Retry(s) \/ DeadLetter(s) \/ Ack(s)

RunnerNext ==
    \E s \in Slots :
        \/ \E m \in Messages : Deliver(s, m)
        \/ SlotStep(s)
        \/ TransactionFails(s) \/ RetryFails(s) \/ ChannelLost(s) \/ Crash(s)
=============================================================================
