---------------------------- MODULE OutboxRelay -----------------------------
(***************************************************************************)
(* The producer side: business transactions that insert event_outbox rows  *)
(* (messaging/event-publisher.service.ts) and the relay that forwards them *)
(* (messaging/outbox-relay.service.ts).                                    *)
(*                                                                         *)
(* A replica is one API process.  @Interval starts a tick every 3 seconds  *)
(* whether or not the last one has ended, so each replica may have several *)
(* ticks, which share the replica's `running` and `stopped` flags.  A tick *)
(* is a process of its own, split at every await of dispatchPending and    *)
(* publishRow.                                                             *)
(***************************************************************************)
EXTENDS Broker

CONSTANTS
    Replicas,        \* API processes
    Ticks,           \* ticks of the interval timers
    Owner,           \* replica each tick belongs to
    BatchSize,       \* outbox.batchSize
    MaxAttempts,     \* outbox.maxAttempts
    NoEvent          \* the tick is between two rows

ASSUME RelayAssumption ==
    /\ Owner \in [Ticks -> Replicas]
    /\ BatchSize \in Nat \ {0}
    /\ MaxAttempts \in Nat \ {0}
    /\ NoEvent \notin Events

VARIABLES
    status,          \* of the outbox row; "none", "open" and "undone" rows are not visible
    attempts,        \* event_outbox.attempts
    createdAt,       \* event_outbox.createdAt
    clock,           \* last createdAt handed out
    running,         \* OutboxRelayService.running, one flag for each replica
    stopped,         \* OutboxRelayService.stopped
    tick,            \* where each tick is
    batch,           \* rows of findMany the tick has not finished
    current,         \* row in publishRow
    seen             \* attempts of the rows as findMany returned them

rowVars == <<status, attempts, createdAt, clock>>
tickVars == <<running, stopped, tick, batch, current, seen>>
relayVars == <<rowVars, tickVars>>

\* Mutant: the poll does not wait for the transaction to commit.
Pending_Uncommitted == {e \in Events : status[e] \in {"open", "PENDING"}}

Pending == {e \in Events : status[e] = "PENDING"}
Committed == {e \in Events : status[e] \in {"PENDING", "DISPATCHED", "FAILED"}}

RelayTypeOK ==
    /\ status \in [Events -> {"none", "open", "undone",
                              "PENDING", "DISPATCHED", "FAILED"}]
    /\ attempts \in [Events -> 0 .. MaxAttempts]
    /\ createdAt \in [Events -> Nat]
    /\ clock \in Nat
    /\ running \in [Replicas -> BOOLEAN]
    /\ stopped \in [Replicas -> BOOLEAN]
    /\ tick \in [Ticks -> {"idle", "query", "rows", "mark", "failed"}]
    /\ batch \in [Ticks -> SUBSET Events]
    /\ current \in [Ticks -> Events \cup {NoEvent}]
    /\ seen \in [Ticks -> [Events -> 0 .. MaxAttempts - 1]]

NothingSeen == [e \in Events |-> 0]

RelayInit ==
    /\ status = [e \in Events |-> "none"]
    /\ attempts = [e \in Events |-> 0]
    /\ createdAt = [e \in Events |-> 0]
    /\ clock = 0
    /\ running = [r \in Replicas |-> FALSE]
    /\ stopped = [r \in Replicas |-> FALSE]
    /\ tick = [t \in Ticks |-> "idle"]
    /\ batch = [t \in Ticks |-> {}]
    /\ current = [t \in Ticks |-> NoEvent]
    /\ seen = [t \in Ticks |-> NothingSeen]

-----------------------------------------------------------------------------
(* Business transactions.                                                  *)

(* enqueue(tx, ...): the row is inserted in the caller's transaction and   *)
(* stays invisible.  Rows of one transaction, or of two at once, may get   *)
(* the same timestamp.                                                     *)
Enqueue(e) ==
    /\ status[e] = "none"
    /\ status' = [status EXCEPT ![e] = "open"]
    /\ \E now \in {clock, clock + 1} :
          /\ clock' = now
          /\ createdAt' = [createdAt EXCEPT ![e] = now]
    /\ UNCHANGED <<attempts, tickVars, brokerVars>>

(* The transaction commits: the domain change and the row appear together. *)
CommitTx(e) ==
    /\ status[e] = "open"
    /\ status' = [status EXCEPT ![e] = "PENDING"]
    /\ UNCHANGED <<attempts, createdAt, clock, tickVars, brokerVars>>

(* The transaction rolls back: neither ever appears.                       *)
RollbackTx(e) ==
    /\ status[e] = "open"
    /\ status' = [status EXCEPT ![e] = "undone"]
    /\ UNCHANGED <<attempts, createdAt, clock, tickVars, brokerVars>>

-----------------------------------------------------------------------------
(* dispatchPending.                                                        *)

\* Mutant: the running flag is not read.
StartTick_Overlapping(t) ==
    /\ tick[t] = "idle"
    /\ ~stopped[Owner[t]]
    /\ running' = [running EXCEPT ![Owner[t]] = TRUE]
    /\ tick' = [tick EXCEPT ![t] = "query"]
    /\ UNCHANGED <<stopped, batch, current, seen, rowVars, brokerVars>>

(* The interval fires.  With `running` or `stopped` set it returns at once.*)
StartTick(t) ==
    /\ tick[t] = "idle"
    /\ ~running[Owner[t]]
    /\ ~stopped[Owner[t]]
    /\ running' = [running EXCEPT ![Owner[t]] = TRUE]
    /\ tick' = [tick EXCEPT ![t] = "query"]
    /\ UNCHANGED <<stopped, batch, current, seen, rowVars, brokerVars>>

(* Row sets that findMany(PENDING, createdAt asc, take batchSize) returns. *)
Batches ==
    {B \in SUBSET Pending :
        /\ \A e \in B, f \in Pending \ B : createdAt[e] <= createdAt[f]
        /\ \/ B = Pending /\ Cardinality(B) <= BatchSize
           \/ B # Pending /\ Cardinality(B) = BatchSize}

Query(t) ==
    /\ tick[t] = "query"
    /\ \E B \in Batches :
          /\ batch' = [batch EXCEPT ![t] = B]
          /\ seen' = [seen EXCEPT ![t] =
                         [e \in Events |-> IF e \in B THEN attempts[e] ELSE 0]]
    /\ tick' = [tick EXCEPT ![t] = "rows"]
    /\ UNCHANGED <<running, stopped, current, rowVars, brokerVars>>

\* Mutant: no `finally`, the flag stays set.
Leave_StillRunning(t) ==
    /\ UNCHANGED running
    /\ tick' = [tick EXCEPT ![t] = "idle"]
    /\ batch' = [batch EXCEPT ![t] = {}]
    /\ current' = [current EXCEPT ![t] = NoEvent]
    /\ seen' = [seen EXCEPT ![t] = NothingSeen]

(* The tick leaves dispatchPending; `finally` clears the flag.             *)
Leave(t) ==
    /\ running' = [running EXCEPT ![Owner[t]] = FALSE]
    /\ tick' = [tick EXCEPT ![t] = "idle"]
    /\ batch' = [batch EXCEPT ![t] = {}]
    /\ current' = [current EXCEPT ![t] = NoEvent]
    /\ seen' = [seen EXCEPT ![t] = NothingSeen]

EndTick(t) ==
    /\ tick[t] = "rows"
    /\ batch[t] = {}
    /\ Leave(t)
    /\ UNCHANGED <<stopped, rowVars, brokerVars>>

(* findMany throws, or the update inside publishRow's catch does: the rest *)
(* of the batch is left for a later tick.                                  *)
AbortTick(t) ==
    /\ tick[t] \in {"query", "failed"}
    /\ Fault
    /\ Leave(t)
    /\ UNCHANGED <<stopped, rowVars, ready, dead, bound, published>>

-----------------------------------------------------------------------------
(* publishRow.                                                             *)

(* The next row of the batch, in the order findMany sorted it.             *)
NextRow(t, e) ==
    /\ tick[t] = "rows"
    /\ e \in batch[t]
    /\ \A f \in batch[t] : createdAt[e] <= createdAt[f]

(* amqp.publish resolves.                                                  *)
PublishRow(t, e) ==
    /\ NextRow(t, e)
    /\ Route(e)
    /\ current' = [current EXCEPT ![t] = e]
    /\ tick' = [tick EXCEPT ![t] = "mark"]
    /\ UNCHANGED <<running, stopped, batch, seen, rowVars, dead, bound, faults>>

\* Mutant: a publish that throws is swallowed, the row is marked all the same.
PublishFails_Swallowed(t, e) ==
    /\ NextRow(t, e)
    /\ Fault
    /\ Route(e) \/ UNCHANGED <<ready, published>>
    /\ current' = [current EXCEPT ![t] = e]
    /\ tick' = [tick EXCEPT ![t] = "mark"]
    /\ UNCHANGED <<running, stopped, batch, seen, rowVars, dead, bound>>

(* amqp.publish throws; the broker may have taken the message all the same *)
(* (the connection fails before the confirm arrives).                      *)
PublishFails(t, e) ==
    /\ NextRow(t, e)
    /\ Fault
    /\ Route(e) \/ UNCHANGED <<ready, published>>
    /\ current' = [current EXCEPT ![t] = e]
    /\ tick' = [tick EXCEPT ![t] = "failed"]
    /\ UNCHANGED <<running, stopped, batch, seen, rowVars, dead, bound>>

FinishRow(t) ==
    /\ batch' = [batch EXCEPT ![t] = @ \ {current[t]}]
    /\ current' = [current EXCEPT ![t] = NoEvent]
    /\ tick' = [tick EXCEPT ![t] = "rows"]
    /\ UNCHANGED <<running, stopped, seen>>

MarkDispatched(t) ==
    /\ tick[t] = "mark"
    /\ status' = [status EXCEPT ![current[t]] = "DISPATCHED"]
    /\ FinishRow(t)
    /\ UNCHANGED <<attempts, createdAt, clock, brokerVars>>

(* The update to DISPATCHED throws, before or after the database applied   *)
(* it.  The same catch handles it as if the publish had failed.            *)
MarkFails(t) ==
    /\ tick[t] = "mark"
    /\ Fault
    /\ \/ status' = [status EXCEPT ![current[t]] = "DISPATCHED"]
       \/ UNCHANGED status
    /\ tick' = [tick EXCEPT ![t] = "failed"]
    /\ UNCHANGED <<attempts, createdAt, clock, running, stopped, batch, current, seen,
                   ready, dead, bound, published>>

\* The row after the n-th failed attempt is FAILED from n = last on.
FailedFrom(t, last) ==
    /\ tick[t] = "failed"
    /\ LET n == seen[t][current[t]] + 1
       IN  /\ attempts' = [attempts EXCEPT ![current[t]] = n]
           /\ status' = [status EXCEPT ![current[t]] =
                            IF n >= last THEN "FAILED" ELSE "PENDING"]
    /\ FinishRow(t)
    /\ UNCHANGED <<createdAt, clock, brokerVars>>

\* Mutant: one attempt too few.
RecordFailure_Early(t) == FailedFrom(t, MaxAttempts - 1)

(* The catch: attempts counts from the row as findMany returned it.        *)
RecordFailure(t) == FailedFrom(t, MaxAttempts)

-----------------------------------------------------------------------------
(* The API process.                                                        *)

(* onModuleDestroy: a tick that is under way goes on.                      *)
Stop(r) ==
    /\ ~stopped[r]
    /\ Fault
    /\ stopped' = [stopped EXCEPT ![r] = TRUE]
    /\ UNCHANGED <<running, tick, batch, current, seen, rowVars,
                   ready, dead, bound, published>>

(* The process exits, at any await of its ticks, and is started again with *)
(* fresh fields: after onModuleDestroy, or by a crash.                     *)
Restart(r) ==
    /\ \/ stopped[r] /\ UNCHANGED faults
       \/ ~stopped[r] /\ Fault
    /\ stopped' = [stopped EXCEPT ![r] = FALSE]
    /\ running' = [running EXCEPT ![r] = FALSE]
    /\ tick' = [t \in Ticks |-> IF Owner[t] = r THEN "idle" ELSE tick[t]]
    /\ batch' = [t \in Ticks |-> IF Owner[t] = r THEN {} ELSE batch[t]]
    /\ current' = [t \in Ticks |-> IF Owner[t] = r THEN NoEvent ELSE current[t]]
    /\ seen' = [t \in Ticks |-> IF Owner[t] = r THEN NothingSeen ELSE seen[t]]
    /\ UNCHANGED <<rowVars, ready, dead, bound, published>>

-----------------------------------------------------------------------------

(* Steps a tick takes by itself once it has started.                       *)
TickStep(t) ==
    \/ Query(t) \/ EndTick(t) \/ MarkDispatched(t) \/ RecordFailure(t)
    \/ \E e \in Events : PublishRow(t, e)

RelayNext ==
    \/ \E e \in Events : Enqueue(e) \/ CommitTx(e) \/ RollbackTx(e)
    \/ \E t \in Ticks :
          \/ StartTick(t) \/ TickStep(t) \/ AbortTick(t) \/ MarkFails(t)
          \/ \E e \in Events : PublishFails(t, e)
    \/ \E r \in Replicas : Stop(r) \/ Restart(r)
=============================================================================
