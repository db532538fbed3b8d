------------------------ MODULE EventPipelineProofs -------------------------
(***************************************************************************)
(* What holds of the event pipeline for every set of events, consumers,    *)
(* replicas, ticks and slots, every batch size, every number of attempts   *)
(* and retries and every number of faults.                                 *)
(***************************************************************************)
EXTENDS EventPipeline, TLAPS

-----------------------------------------------------------------------------
(* Type correctness.                                                       *)

(* A tick that is marking or recording has a row in hand, and a row that   *)
(* is still PENDING can be tried again: this bounds `attempts`.            *)
RelayShape ==
    /\ \A t \in Ticks : tick[t] \in {"mark", "failed"} => current[t] \in Events
    /\ \A e \in Events : status[e] = "PENDING" => attempts[e] \in 0 .. MaxAttempts - 1
    /\ \A e \in Events : status[e] \in {"none", "open"} => attempts[e] = 0

(* A slot has a message exactly when it is at work.                        *)
RunnerShape ==
    /\ \A s \in Slots : pc[s] # "idle" => msg[s] \in Messages
    /\ \A s \in Slots : unacked[s] => pc[s] # "idle"

TypeInv == TypeOK /\ RelayShape /\ RunnerShape

LEMMA InitTypeInv == Init => TypeInv
  BY BrokerAssumption, RelayAssumption, RunnerAssumption
  DEF Init, RelayInit, RunnerInit, BrokerInit, TypeInv, TypeOK, RelayShape, RunnerShape,
      BrokerTypeOK, RelayTypeOK, RunnerTypeOK, NothingSeen

(* The exchange adds copies to queues and counts the publication.          *)
LEMMA RouteType ==
  ASSUME BrokerTypeOK, NEW e \in Events, Route(e)
  PROVE  ready' \in [Messages -> Nat] /\ published' \in [Events -> Nat]
  BY DEF BrokerTypeOK, Route

LEMMA FaultType ==
  ASSUME BrokerTypeOK, Fault
  PROVE  faults' \in 0 .. MaxFaults
  BY BrokerAssumption DEF BrokerTypeOK, Fault

LEMMA PutType ==
  ASSUME BrokerTypeOK, NEW S
  PROVE  Put(S) \in [Messages -> Nat]
  BY DEF BrokerTypeOK, Put

LEMMA RelayTypeStep ==
  ASSUME BrokerTypeOK, RelayTypeOK, RelayShape, RelayNext
  PROVE  BrokerTypeOK' /\ RelayTypeOK' /\ RelayShape'
<1> USE RelayAssumption DEF RelayTypeOK, RelayShape
<1>a. ASSUME NEW e \in Events, Enqueue(e)
      PROVE  BrokerTypeOK' /\ RelayTypeOK' /\ RelayShape'
  BY <1>a DEF Enqueue, tickVars, brokerVars, BrokerTypeOK
<1>b. ASSUME NEW e \in Events, CommitTx(e) \/ RollbackTx(e)
      PROVE  BrokerTypeOK' /\ RelayTypeOK' /\ RelayShape'
  BY <1>b DEF CommitTx, RollbackTx, tickVars, brokerVars, BrokerTypeOK
<1>c. ASSUME NEW t \in Ticks, StartTick(t)
      PROVE  BrokerTypeOK' /\ RelayTypeOK' /\ RelayShape'
  BY <1>c DEF StartTick, rowVars, brokerVars, BrokerTypeOK
<1>d. ASSUME NEW t \in Ticks, Query(t)
      PROVE  BrokerTypeOK' /\ RelayTypeOK' /\ RelayShape'
  BY <1>d DEF Query, Batches, Pending, rowVars, brokerVars, BrokerTypeOK
<1>e. ASSUME NEW t \in Ticks, EndTick(t)
      PROVE  BrokerTypeOK' /\ RelayTypeOK' /\ RelayShape'
  BY <1>e DEF EndTick, Leave, NothingSeen, rowVars, brokerVars, BrokerTypeOK
<1>f. ASSUME NEW t \in Ticks, AbortTick(t)
      PROVE  BrokerTypeOK' /\ RelayTypeOK' /\ RelayShape'
  BY <1>f, FaultType DEF AbortTick, Leave, NothingSeen, rowVars, BrokerTypeOK
<1>g. ASSUME NEW t \in Ticks, NEW e \in Events, PublishRow(t, e)
      PROVE  BrokerTypeOK' /\ RelayTypeOK' /\ RelayShape'
  BY <1>g, RouteType DEF PublishRow, rowVars, BrokerTypeOK
<1>h. ASSUME NEW t \in Ticks, NEW e \in Events, PublishFails(t, e)
      PROVE  BrokerTypeOK' /\ RelayTypeOK' /\ RelayShape'
  BY <1>h, RouteType, FaultType DEF PublishFails, rowVars, BrokerTypeOK
<1>i. ASSUME NEW t \in Ticks, MarkDispatched(t)
      PROVE  BrokerTypeOK' /\ RelayTypeOK' /\ RelayShape'
  BY <1>i DEF MarkDispatched, FinishRow, brokerVars, BrokerTypeOK
<1>j. ASSUME NEW t \in Ticks, MarkFails(t)
      PROVE  BrokerTypeOK' /\ RelayTypeOK' /\ RelayShape'
  BY <1>j, FaultType DEF MarkFails, BrokerTypeOK
<1>k. ASSUME NEW t \in Ticks, RecordFailure(t)
      PROVE  BrokerTypeOK' /\ RelayTypeOK' /\ RelayShape'
  BY <1>k DEF RecordFailure, FailedFrom, FinishRow, brokerVars, BrokerTypeOK
<1>l. ASSUME NEW r \in Replicas, Stop(r)
      PROVE  BrokerTypeOK' /\ RelayTypeOK' /\ RelayShape'
  BY <1>l, FaultType DEF Stop, rowVars, BrokerTypeOK
<1>m. ASSUME NEW r \in Replicas, Restart(r)
      PROVE  BrokerTypeOK' /\ RelayTypeOK' /\ RelayShape'
  BY <1>m, FaultType DEF Restart, NothingSeen, rowVars, BrokerTypeOK
<1> QED
  BY <1>a, <1>b, <1>c, <1>d, <1>e, <1>f, <1>g, <1>h, <1>i, <1>j, <1>k, <1>l, <1>m
  DEF RelayNext, TickStep

LEMMA RunnerTypeStep ==
  ASSUME BrokerTypeOK, RunnerTypeOK, RunnerShape, RunnerNext
  PROVE  BrokerTypeOK' /\ RunnerTypeOK' /\ RunnerShape'
<1> USE BrokerAssumption, RunnerAssumption DEF RunnerTypeOK, RunnerShape, Goto
<1>k. ASSUME NEW s \in Slots, pc[s] # "idle"
      PROVE  Key(s) \in Keys
  BY <1>k DEF Key, KeyOfMessage, Messages, Keys
<1>n. ASSUME NEW s \in Slots, pc[s] # "idle", ~Exhausted(msg[s])
      PROVE  NextAttempt(msg[s]) \in Messages
  BY <1>n DEF NextAttempt, Message, Messages, Exhausted
<1>a. ASSUME NEW s \in Slots, NEW m \in Messages, Deliver(s, m)
      PROVE  BrokerTypeOK' /\ RunnerTypeOK' /\ RunnerShape'
  BY <1>a DEF Deliver, BrokerTypeOK
<1>b. ASSUME NEW s \in Slots, Claim(s) \/ Duplicate(s) \/ Project(s) \/ ProjectThrows(s)
      PROVE  BrokerTypeOK' /\ RunnerTypeOK' /\ RunnerShape'
  BY <1>b DEF Claim, Duplicate, Project, ProjectThrows, brokerVars, BrokerTypeOK
<1>c. ASSUME NEW s \in Slots, Commit(s)
      PROVE  BrokerTypeOK' /\ RunnerTypeOK' /\ RunnerShape'
  BY <1>c, <1>k DEF Commit, CommitEffect, brokerVars, BrokerTypeOK
<1>d. ASSUME NEW s \in Slots, TransactionFails(s)
      PROVE  BrokerTypeOK' /\ RunnerTypeOK' /\ RunnerShape'
  BY <1>d, <1>k, FaultType DEF TransactionFails, CommitEffect, BrokerTypeOK
<1>e. ASSUME NEW s \in Slots, Retry(s)
      PROVE  BrokerTypeOK' /\ RunnerTypeOK' /\ RunnerShape'
  BY <1>e, <1>n DEF Retry, BrokerTypeOK
<1>f. ASSUME NEW s \in Slots, DeadLetter(s)
      PROVE  BrokerTypeOK' /\ RunnerTypeOK' /\ RunnerShape'
  BY <1>f, <1>k DEF DeadLetter, BrokerTypeOK
<1>g. ASSUME NEW s \in Slots, RetryFails(s)
      PROVE  BrokerTypeOK' /\ RunnerTypeOK' /\ RunnerShape'
  BY <1>g, <1>k, FaultType, PutType DEF RetryFails, Release, BrokerTypeOK
<1>h. ASSUME NEW s \in Slots, Ack(s)
      PROVE  BrokerTypeOK' /\ RunnerTypeOK' /\ RunnerShape'
  BY <1>h DEF Ack, Release, brokerVars, BrokerTypeOK
<1>i. ASSUME NEW s \in Slots, ChannelLost(s)
      PROVE  BrokerTypeOK' /\ RunnerTypeOK' /\ RunnerShape'
  BY <1>i, FaultType, PutType DEF ChannelLost, BrokerTypeOK
<1>j. ASSUME NEW s \in Slots, Crash(s)
      PROVE  BrokerTypeOK' /\ RunnerTypeOK' /\ RunnerShape'
  BY <1>j, FaultType, PutType DEF Crash, Release, BrokerTypeOK
<1> QED
  BY <1>a, <1>b, <1>c, <1>d, <1>e, <1>f, <1>g, <1>h, <1>i, <1>j DEF RunnerNext, SlotStep

LEMMA TypeInvStep == TypeInv /\ [Next]_vars => TypeInv'
<1> SUFFICES ASSUME TypeInv, [Next]_vars PROVE TypeInv'
  OBVIOUS
<1> USE DEF TypeInv, TypeOK
<1>1. CASE Relay(RelayNext)
  <2>1. RunnerTypeOK' /\ RunnerShape'
    BY <1>1 DEF Relay, runnerVars, RunnerTypeOK, RunnerShape
  <2> QED BY <1>1, <2>1, RelayTypeStep DEF Relay
<1>2. CASE Runner(RunnerNext)
  <2>1. RelayTypeOK' /\ RelayShape'
    BY <1>2 DEF Runner, relayVars, rowVars, tickVars, RelayTypeOK, RelayShape
  <2> QED BY <1>2, <2>1, RunnerTypeStep DEF Runner
<1>3. CASE Boot
  BY <1>3 DEF Boot, DeclareQueues, relayVars, rowVars, tickVars, runnerVars, BrokerTypeOK,
              RelayTypeOK, RelayShape, RunnerTypeOK, RunnerShape
<1>4. CASE UNCHANGED vars
  BY <1>4 DEF vars, relayVars, rowVars, tickVars, runnerVars, brokerVars, BrokerTypeOK,
              RelayTypeOK, RelayShape, RunnerTypeOK, RunnerShape
<1> QED BY <1>1, <1>2, <1>3, <1>4 DEF Next

LEMMA TypeInvariant == Spec => []TypeInv
<1>1. Init => TypeInv BY InitTypeInv
<1>2. TypeInv /\ [Next]_vars => TypeInv' BY TypeInvStep
<1> QED BY <1>1, <1>2, PTL DEF Spec

(* Every variable keeps its type: in particular `attempts` never exceeds   *)
(* maxAttempts (publishRow) and x-retry never exceeds maxRetries           *)
(* (retryOrDeadLetter).                                                    *)
THEOREM TypeCorrect == Spec => []TypeOK
BY TypeInvariant, PTL DEF TypeInv

-----------------------------------------------------------------------------
(* At most once.                                                           *)

(* While a transaction is open on a key, no other is and no row has been   *)
(* committed for it: what makes a commit the first one.                    *)
ClaimsExclusive ==
    /\ \A s \in Slots : InTransaction(s) => Key(s) \notin processed
    /\ \A s, t \in Slots :
          InTransaction(s) /\ InTransaction(t) /\ Key(s) = Key(t) => s = t

OnceInv == AppliedOnce /\ ClaimsExclusive

(* Slots other than s keep their place, their message and so their key.    *)
LEMMA OnceStep ==
  ASSUME TypeInv, OnceInv, RunnerNext
  PROVE  OnceInv'
<1> USE DEF TypeInv, TypeOK, RunnerTypeOK, RunnerShape, OnceInv, AppliedOnce,
            ClaimsExclusive, InTransaction, Key, Goto
<1>k. ASSUME NEW s \in Slots, pc[s] # "idle"
      PROVE  Key(s) \in Keys
  BY <1>k DEF KeyOfMessage, Messages, Keys
<1>a. ASSUME NEW s \in Slots, NEW m \in Messages, Deliver(s, m)
      PROVE  OnceInv'
  BY <1>a DEF Deliver
<1>b. ASSUME NEW s \in Slots, Claim(s)
      PROVE  OnceInv'
  BY <1>b DEF Claim
<1>c. ASSUME NEW s \in Slots,
             Duplicate(s) \/ Project(s) \/ ProjectThrows(s) \/ Retry(s) \/ DeadLetter(s)
      PROVE  OnceInv'
  BY <1>c DEF Duplicate, Project, ProjectThrows, Retry, DeadLetter
<1>d. ASSUME NEW s \in Slots, pc[s] = "commit", CommitEffect(s), UNCHANGED msg,
             Goto(s, "ack") \/ Goto(s, "failed")
      PROVE  OnceInv'
  <2>1. Key(s) \in Keys /\ Key(s) \notin processed
    BY <1>d, <1>k
  <2>2. AppliedOnce'
    BY <1>d, <2>1 DEF CommitEffect
  <2>3. ClaimsExclusive'
    BY <1>d, <2>1 DEF CommitEffect
  <2> QED BY <2>2, <2>3
<1>e. ASSUME NEW s \in Slots, Commit(s)
      PROVE  OnceInv'
  BY <1>d, <1>e DEF Commit
<1>f. ASSUME NEW s \in Slots, TransactionFails(s)
      PROVE  OnceInv'
  <2>1. CASE pc[s] = "commit" /\ CommitEffect(s)
    BY <1>d, <1>f, <2>1 DEF TransactionFails
  <2>2. CASE UNCHANGED <<processed, effects>>
    BY <1>f, <2>2 DEF TransactionFails
  <2> QED BY <1>f, <2>1, <2>2 DEF TransactionFails
<1>g. ASSUME NEW s \in Slots, Ack(s) \/ RetryFails(s) \/ Crash(s) \/ ChannelLost(s)
      PROVE  OnceInv'
  BY <1>g DEF Ack, RetryFails, Crash, ChannelLost, Release
<1> QED
  BY <1>a, <1>b, <1>c, <1>e, <1>f, <1>g DEF RunnerNext, SlotStep

LEMMA OnceInvariant == Spec => []OnceInv
<1>1. Init => OnceInv
  BY DEF Init, RunnerInit, OnceInv, AppliedOnce, ClaimsExclusive, InTransaction
<1>2. TypeInv /\ OnceInv /\ [Next]_vars => OnceInv'
  <2> SUFFICES ASSUME TypeInv, OnceInv, [Next]_vars PROVE OnceInv'
    OBVIOUS
  <2>1. CASE RunnerNext
    BY <2>1, OnceStep
  <2>2. CASE UNCHANGED runnerVars
    BY <2>2 DEF runnerVars, OnceInv, AppliedOnce, ClaimsExclusive, InTransaction, Key
  <2> QED BY <2>1, <2>2 DEF Next, Relay, Runner, Boot, vars, runnerVars
<1> QED BY <1>1, <1>2, TypeInvariant, PTL DEF Spec

(* However often an event is published, redelivered or retried, a consumer *)
(* commits its projection at most once, exactly when its processed_events  *)
(* row is there (IdempotencyService.runOnce).                              *)
THEOREM AtMostOnce == Spec => []AppliedOnce
BY OnceInvariant, PTL DEF OnceInv

-----------------------------------------------------------------------------
(* Nothing is lost.                                                        *)

(* An accepted event keeps a message, a row or a dead letter for every     *)
(* subscriber whose queue was bound.  NothingLost is inductive once the    *)
(* queues are known to be bound.                                           *)
LossInv == bound = Consumers /\ NothingLost

(* What a step must do to keep key k covered: bring it to its end, or      *)
(* leave some message for it outstanding.                                  *)
Covered(k) == k \in processed \cup dead \/ Outstanding(k)

LEMMA RunnerKeepsCovered ==
  ASSUME TypeInv, RunnerNext, NEW k \in Keys, Covered(k)
  PROVE  Covered(k)'
<1> USE DEF TypeInv, TypeOK, BrokerTypeOK, RunnerTypeOK, RunnerShape, Covered,
            Outstanding, Goto, Key
<1>1. CASE k \in processed \cup dead
  <2>1. processed \subseteq processed' /\ dead \subseteq dead'
    BY DEF RunnerNext, SlotStep, Deliver, Claim, Duplicate, Project, ProjectThrows, Commit,
           CommitEffect, TransactionFails, Retry, DeadLetter, RetryFails, Ack,
           ChannelLost, Crash, brokerVars
  <2> QED BY <1>1, <2>1
<1>2. CASE k \notin processed \cup dead
  <2> PICK m \in Messages :
        /\ KeyOfMessage(m) = k
        /\ \/ ready[m] > 0
           \/ \E s \in Slots : msg[s] = m /\ unacked[s] /\ pc[s] # "ack"
    BY <1>2
  <2>a. ASSUME NEW s \in Slots, NEW n \in Messages, Deliver(s, n)
        PROVE  Covered(k)'
    <3>1. CASE n = m
      BY <2>a, <3>1 DEF Deliver
    <3>2. CASE n # m
      BY <2>a, <3>2 DEF Deliver
    <3> QED BY <3>1, <3>2
  <2>b. ASSUME NEW s \in Slots, Claim(s) \/ Project(s) \/ ProjectThrows(s)
        PROVE  Covered(k)'
    BY <2>b DEF Claim, Project, ProjectThrows, brokerVars
  <2>c. ASSUME NEW s \in Slots, Duplicate(s)
        PROVE  Covered(k)'
    BY <1>2, <2>c DEF Duplicate, brokerVars
  <2>d. ASSUME NEW s \in Slots, Commit(s)
        PROVE  Covered(k)'
    BY <2>d DEF Commit, CommitEffect, brokerVars
  <2>e. ASSUME NEW s \in Slots, TransactionFails(s)
        PROVE  Covered(k)'
    BY <2>e DEF TransactionFails, CommitEffect
  <2>f. ASSUME NEW s \in Slots, Retry(s)
        PROVE  Covered(k)'
    <3>1. /\ NextAttempt(msg[s]) \in Messages
          /\ KeyOfMessage(NextAttempt(msg[s])) = Key(s)
      BY <2>f, BrokerAssumption
      DEF Retry, NextAttempt, Message, Messages, Exhausted, KeyOfMessage
    <3>2. ready'[NextAttempt(msg[s])] > 0
      BY <2>f, <3>1 DEF Retry
    <3>3. \A n \in Messages : ready[n] > 0 => ready'[n] > 0
      BY <2>f, <3>1 DEF Retry
    <3> QED BY <2>f, <3>1, <3>2, <3>3 DEF Retry
  <2>g. ASSUME NEW s \in Slots, DeadLetter(s)
        PROVE  Covered(k)'
    BY <2>g DEF DeadLetter
  <2>h. ASSUME NEW s \in Slots, NEW S, ready' = Put(S), GivenBack(s) \subseteq S,
               \A t \in Slots \ {s} : msg'[t] = msg[t] /\ unacked'[t] = unacked[t]
                                      /\ pc'[t] = pc[t]
        PROVE  Covered(k)'
    <3>1. \A n \in Messages : ready[n] > 0 => ready'[n] > 0
      BY <2>h DEF Put
    <3>2. ASSUME msg[s] = m, unacked[s] PROVE ready'[m] > 0
      BY <2>h, <3>2 DEF Put, GivenBack
    <3> QED BY <2>h, <3>1, <3>2
  <2>i. ASSUME NEW s \in Slots, RetryFails(s)
        PROVE  Covered(k)'
    <3> PICK S : ready' = Put(S) /\ GivenBack(s) \subseteq S
      BY <2>i DEF RetryFails
    <3> QED BY <2>h, <2>i DEF RetryFails, Release
  <2>j. ASSUME NEW s \in Slots, ChannelLost(s)
        PROVE  Covered(k)'
    BY <2>h, <2>j DEF ChannelLost
  <2>l. ASSUME NEW s \in Slots, Crash(s)
        PROVE  Covered(k)'
    BY <2>h, <2>l DEF Crash, Release
  <2>m. ASSUME NEW s \in Slots, Ack(s)
        PROVE  Covered(k)'
    BY <2>m DEF Ack, Release, brokerVars
  <2> QED
    BY <2>a, <2>b, <2>c, <2>d, <2>e, <2>f, <2>g, <2>i, <2>j, <2>l, <2>m
    DEF RunnerNext, SlotStep
<1> QED BY <1>1, <1>2

(* A relay only ever adds messages, one for every subscriber of an event   *)
(* the exchange accepts.                                                   *)
LEMMA RelayPublishes ==
  ASSUME TypeInv, RelayNext
  PROVE  /\ UNCHANGED <<bound, dead>>
         /\ \A m \in Messages : ready[m] > 0 => ready'[m] > 0
         /\ \A e \in Events : \A c \in bound \cap Wanted(e) :
               published'[e] > 0 => \/ published[e] > 0
                                    \/ ready'[Message(c, e, 0)] > 0
<1> USE DEF TypeInv, TypeOK, BrokerTypeOK
<1>1. ASSUME NEW e \in Events, Route(e)
      PROVE  /\ \A m \in Messages : ready[m] > 0 => ready'[m] > 0
             /\ \A f \in Events : \A c \in bound \cap Wanted(f) :
                   published'[f] > 0 => \/ published[f] > 0
                                        \/ ready'[Message(c, f, 0)] > 0
  <2>1. \A m \in Messages : ready[m] > 0 => ready'[m] > 0
    BY <1>1 DEF Route
  <2>2. ASSUME NEW f \in Events, NEW c \in bound \cap Wanted(f), f = e
        PROVE  ready'[Message(c, f, 0)] > 0
    <3>1. /\ Message(c, f, 0) \in Messages
          /\ Message(c, f, 0).consumer = c
          /\ Message(c, f, 0).event = f
          /\ Message(c, f, 0).retry = 0
      BY BrokerAssumption DEF Message, Messages
    <3> QED BY <1>1, <2>2, <3>1 DEF Route
  <2>3. \A f \in Events : f # e => published'[f] = published[f]
    BY <1>1 DEF Route
  <2> QED BY <2>1, <2>2, <2>3
<1>2. CASE \E t \in Ticks, e \in Events : PublishRow(t, e)
  BY <1>1, <1>2 DEF PublishRow
<1>3. CASE \E t \in Ticks, e \in Events : PublishFails(t, e)
  BY <1>1, <1>3 DEF PublishFails
<1>4. CASE UNCHANGED <<ready, dead, bound, published>>
  BY <1>4
<1> QED
  BY <1>2, <1>3, <1>4
  DEF RelayNext, TickStep, Enqueue, CommitTx, RollbackTx, StartTick, Query, EndTick,
      AbortTick, MarkDispatched, MarkFails, RecordFailure, FailedFrom, Stop, Restart, brokerVars

LEMMA LossStep == TypeInv /\ LossInv /\ [Next]_vars => LossInv'
<1> SUFFICES ASSUME TypeInv, LossInv, [Next]_vars PROVE LossInv'
  OBVIOUS
<1> USE DEF LossInv, NothingLost
<1>1. CASE Relay(RelayNext)
  <2>1. UNCHANGED runnerVars /\ RelayNext
    BY <1>1 DEF Relay
  <2>2. bound' = Consumers
    BY <2>1, RelayPublishes
  <2>3. ASSUME NEW e \in Events, NEW c \in Consumers, published'[e] > 0, c \in Wanted(e)
        PROVE  <<c, e>> \in processed' \cup dead' \/ Outstanding(<<c, e>>)'
    <3>1. CASE published[e] > 0
      BY <2>1, <2>3, <3>1, RelayPublishes DEF Outstanding, runnerVars
    <3>2. CASE ready'[Message(c, e, 0)] > 0
      <4>1. Message(c, e, 0) \in Messages /\ KeyOfMessage(Message(c, e, 0)) = <<c, e>>
        BY BrokerAssumption DEF Message, Messages, KeyOfMessage
      <4> QED BY <3>2, <4>1 DEF Outstanding
    <3> QED BY <2>1, <2>3, <3>1, <3>2, RelayPublishes
  <2> QED BY <2>2, <2>3 DEF Wanted
<1>2. CASE Runner(RunnerNext)
  <2>1. RunnerNext
    BY <1>2 DEF Runner
  <2>2. UNCHANGED <<bound, published>>
    BY <2>1 DEF RunnerNext, SlotStep, Deliver, Claim, Duplicate, Project, ProjectThrows,
                Commit, TransactionFails, Retry, DeadLetter, RetryFails, Ack, ChannelLost,
                Crash, brokerVars
  <2>3. \A e \in Events, c \in Consumers : <<c, e>> \in Keys
    BY DEF Keys
  <2> QED BY <2>1, <2>2, <2>3, RunnerKeepsCovered DEF Covered, Wanted
<1>3. CASE Boot
  BY <1>3 DEF Boot, DeclareQueues
<1>4. CASE UNCHANGED vars
  BY <1>4 DEF vars, runnerVars, brokerVars, Outstanding, Wanted
<1> QED BY <1>1, <1>2, <1>3, <1>4 DEF Next

(* When every queue was declared before the API first publishes, an event  *)
(* the exchange accepted stays accounted for at every subscriber, through  *)
(* retries, redeliveries, lost channels and crashes of the worker.         *)
THEOREM NoLoss ==
  ASSUME InitialBindings = Consumers
  PROVE  Spec => []NothingLost
<1>1. Init => LossInv
  BY DEF Init, BrokerInit, LossInv, NothingLost
<1>2. TypeInv /\ LossInv /\ [Next]_vars => LossInv' BY LossStep
<1>3. LossInv => NothingLost BY DEF LossInv
<1> QED BY <1>1, <1>2, <1>3, TypeInvariant, PTL DEF Spec

-----------------------------------------------------------------------------
(* No phantoms.                                                            *)

(* Rows a tick works on are committed ones, it marks only what it has      *)
(* published, and a row that is not visible has not been published.        *)
PublishInv ==
    /\ DispatchedArePublished
    /\ \A t \in Ticks : batch[t] \subseteq Committed
    /\ \A t \in Ticks : tick[t] \in {"mark", "failed"} => current[t] \in Committed
    /\ \A t \in Ticks : tick[t] = "mark" => published[current[t]] > 0

(* Once committed, a row stays committed.                                  *)
LEMMA CommittedStays ==
  ASSUME TypeInv, PublishInv, RelayNext
  PROVE  Committed \subseteq Committed'
<1> USE DEF TypeInv, TypeOK, RelayTypeOK, RelayShape, PublishInv, Committed
<1>1. CASE UNCHANGED status
  BY <1>1
<1>2. ASSUME NEW e \in Events, Enqueue(e) \/ CommitTx(e) \/ RollbackTx(e)
      PROVE  Committed \subseteq Committed'
  BY <1>2 DEF Enqueue, CommitTx, RollbackTx
<1>3. ASSUME NEW t \in Ticks, MarkDispatched(t) \/ MarkFails(t) \/ RecordFailure(t)
      PROVE  Committed \subseteq Committed'
  BY <1>3 DEF MarkDispatched, MarkFails, RecordFailure, FailedFrom
<1> QED
  BY <1>1, <1>2, <1>3
  DEF RelayNext, TickStep, StartTick, Query, EndTick, AbortTick, PublishRow, PublishFails,
      Stop, Restart, rowVars

LEMMA PublishStep ==
  ASSUME TypeInv, PublishInv, RelayNext
  PROVE  PublishInv'
<1> USE RelayAssumption DEF TypeInv, TypeOK, BrokerTypeOK, RelayTypeOK, RelayShape
<1>0. Committed \subseteq Committed'
  BY CommittedStays
<1> USE DEF PublishInv, DispatchedArePublished
<1>a. ASSUME NEW e \in Events, Enqueue(e) \/ CommitTx(e) \/ RollbackTx(e)
      PROVE  PublishInv'
  BY <1>0, <1>a DEF Enqueue, CommitTx, RollbackTx, tickVars, brokerVars, Committed
<1>b. ASSUME NEW t \in Ticks, StartTick(t) \/ EndTick(t) \/ AbortTick(t)
      PROVE  PublishInv'
  <2>1. CASE StartTick(t)
    BY <2>1 DEF StartTick, rowVars, brokerVars, Committed
  <2>2. CASE EndTick(t) \/ AbortTick(t)
    <3>1. Leave(t) /\ UNCHANGED <<status, published, Committed>>
      BY <2>2 DEF EndTick, AbortTick, rowVars, brokerVars, Committed
    <3>2. \A u \in Ticks :
             /\ batch'[u] \in {batch[u], {}}
             /\ tick'[u] \in {"mark", "failed"} => tick[u] = tick'[u] /\ current'[u] = current[u]
      BY <3>1 DEF Leave
    <3> QED BY <3>1, <3>2
  <2> QED BY <1>b, <2>1, <2>2
<1>c. ASSUME NEW t \in Ticks, Query(t)
      PROVE  PublishInv'
  BY <1>0, <1>c DEF Query, Batches, Pending, Committed, rowVars, brokerVars
<1>p. ASSUME NEW e \in Events, Route(e)
      PROVE  \A f \in Events : published'[f] = IF f = e THEN published[e] + 1 ELSE published[f]
  BY <1>p DEF Route
<1>d. ASSUME NEW t \in Ticks, NEW e \in Events, PublishRow(t, e)
      PROVE  PublishInv'
  <2>1. e \in Committed /\ UNCHANGED status /\ UNCHANGED Committed
    BY <1>d DEF PublishRow, NextRow, rowVars, Committed
  <2>2. DispatchedArePublished'
    BY SMTT(30), <1>d, <1>p, <2>1 DEF PublishRow
  <2>3. \A u \in Ticks : batch'[u] \subseteq Committed
    BY <1>d DEF PublishRow
  <2>4. \A u \in Ticks : tick'[u] \in {"mark", "failed"} => current'[u] \in Committed
    BY <1>d, <2>1 DEF PublishRow
  <2>5. \A u \in Ticks : tick'[u] = "mark" => published'[current'[u]] > 0
    BY <1>d, <1>p, <2>1 DEF PublishRow
  <2> QED BY <2>1, <2>2, <2>3, <2>4, <2>5
<1>e. ASSUME NEW t \in Ticks, NEW e \in Events, PublishFails(t, e)
      PROVE  PublishInv'
  <2>1. e \in Committed /\ UNCHANGED status /\ UNCHANGED Committed
    BY <1>e DEF PublishFails, NextRow, rowVars, Committed
  <2>2. DispatchedArePublished'
    BY <1>e, <1>p, <2>1 DEF PublishFails
  <2>3. \A u \in Ticks : batch'[u] \subseteq Committed
    BY <1>e DEF PublishFails
  <2>4. \A u \in Ticks : tick'[u] \in {"mark", "failed"} => current'[u] \in Committed
    BY <1>e, <2>1 DEF PublishFails
  <2>5. \A u \in Ticks : tick'[u] = "mark" => published'[current'[u]] > 0
    BY <1>e, <1>p, <2>1 DEF PublishFails
  <2> QED BY <2>1, <2>2, <2>3, <2>4, <2>5
<1>f. ASSUME NEW t \in Ticks, MarkDispatched(t) \/ MarkFails(t) \/ RecordFailure(t)
      PROVE  PublishInv'
  <2>1. /\ current[t] \in Events
        /\ \A f \in Events : status'[f] = "DISPATCHED" =>
              status[f] = "DISPATCHED" \/ (tick[t] = "mark" /\ f = current[t])
    BY <1>f DEF MarkDispatched, MarkFails, RecordFailure, FailedFrom
  <2>2. /\ UNCHANGED published
        /\ \A u \in Ticks : batch'[u] \subseteq batch[u]
        /\ \A u \in Ticks : tick'[u] \in {"mark", "failed"} =>
              /\ tick[u] \in {"mark", "failed"} /\ current'[u] = current[u]
              /\ tick'[u] = "mark" => tick[u] = "mark"
    BY <1>f DEF MarkDispatched, MarkFails, RecordFailure, FailedFrom, FinishRow, brokerVars
  <2>3. DispatchedArePublished'
    BY <1>0, <2>1, <2>2
  <2> QED BY <1>0, <2>2, <2>3
<1>h. ASSUME NEW r \in Replicas, Stop(r) \/ Restart(r)
      PROVE  PublishInv'
  <2>1. UNCHANGED <<status, published>>
    BY <1>h DEF Stop, Restart, rowVars
  <2>2. \A u \in Ticks : /\ batch'[u] \subseteq batch[u]
                         /\ tick'[u] = "idle" \/ (tick'[u] = tick[u] /\ current'[u] = current[u])
    BY <1>h DEF Stop, Restart
  <2> QED BY <1>0, <2>1, <2>2
<1> QED
  BY <1>a, <1>b, <1>c, <1>d, <1>e, <1>f, <1>h DEF RelayNext, TickStep

LEMMA PublishInvariant == Spec => []PublishInv
<1>1. Init => PublishInv
  BY DEF Init, RelayInit, BrokerInit, PublishInv, DispatchedArePublished, Committed
<1>2. TypeInv /\ PublishInv /\ [Next]_vars => PublishInv'
  <2> SUFFICES ASSUME TypeInv, PublishInv, [Next]_vars PROVE PublishInv'
    OBVIOUS
  <2>1. CASE RelayNext
    BY <2>1, PublishStep
  <2>2. CASE UNCHANGED <<relayVars, published>>
    BY <2>2 DEF relayVars, rowVars, tickVars, PublishInv, DispatchedArePublished, Committed
  <2>3. CASE Runner(RunnerNext)
    <3>1. UNCHANGED published
      BY <2>3 DEF Runner, RunnerNext, SlotStep, Deliver, Claim, Duplicate, Project,
                  ProjectThrows, Commit, TransactionFails, Retry, DeadLetter, RetryFails,
                  Ack, ChannelLost, Crash, brokerVars
    <3> QED BY <2>2, <2>3, <3>1 DEF Runner
  <2> QED BY <2>1, <2>2, <2>3 DEF Next, Relay, Boot, DeclareQueues, vars, brokerVars
<1> QED BY <1>1, <1>2, TypeInvariant, PTL DEF Spec

(* Only committed rows reach the exchange, and only rows the exchange has  *)
(* accepted become DISPATCHED (publishRow).                                *)
THEOREM NoPhantoms == Spec => []DispatchedArePublished
BY PublishInvariant, PTL DEF PublishInv

-----------------------------------------------------------------------------
(* The pipeline implements EventDelivery.                                  *)

(* Messages exist only for committed events and for subscribers of them.   *)
MessageOK(m) == m.event \in Committed /\ m.consumer \in Wanted(m.event)

MessageInv ==
    /\ \A m \in Messages : ready[m] > 0 => MessageOK(m)
    /\ \A s \in Slots : pc[s] # "idle" => MessageOK(msg[s])

LEMMA MessageRelayStep ==
  ASSUME TypeInv, PublishInv, MessageInv, Relay(RelayNext)
  PROVE  MessageInv'
<1> USE DEF TypeInv, TypeOK, BrokerTypeOK, MessageInv, MessageOK, Wanted
<1>0. Committed \subseteq Committed' /\ UNCHANGED runnerVars
  BY CommittedStays DEF Relay
<1>1. ASSUME NEW e \in Committed, Route(e)
      PROVE  \A m \in Messages : ready'[m] > 0 => MessageOK(m)
  BY <1>1 DEF Route
<1>2. CASE \E t \in Ticks, e \in Events : PublishRow(t, e) \/ PublishFails(t, e)
  <2> PICK t \in Ticks, e \in Events : PublishRow(t, e) \/ PublishFails(t, e)
    BY <1>2
  <2>1. e \in Committed
    BY DEF PublishRow, PublishFails, NextRow, PublishInv
  <2>2. Route(e) \/ UNCHANGED ready
    BY DEF PublishRow, PublishFails
  <2>3. \A m \in Messages : ready'[m] > 0 => MessageOK(m)
    BY <1>1, <2>1, <2>2
  <2> QED BY <1>0, <2>3 DEF runnerVars
<1>3. CASE UNCHANGED ready
  BY <1>0, <1>3 DEF runnerVars
<1> QED
  BY <1>2, <1>3
  DEF Relay, RelayNext, TickStep, Enqueue, CommitTx, RollbackTx, StartTick, Query, EndTick,
      AbortTick, MarkDispatched, MarkFails, RecordFailure, FailedFrom, Stop, Restart, brokerVars

LEMMA MessageRunnerStep ==
  ASSUME TypeInv, MessageInv, Runner(RunnerNext)
  PROVE  MessageInv'
<1> USE DEF TypeInv, TypeOK, BrokerTypeOK, RunnerTypeOK, RunnerShape, MessageInv, Goto
<1>0. \A m : MessageOK(m) => MessageOK(m)'
  BY DEF Runner, relayVars, rowVars, MessageOK, Committed, Wanted
<1>a. ASSUME NEW s \in Slots, NEW m \in Messages, Deliver(s, m)
      PROVE  MessageInv'
  BY <1>0, <1>a DEF Deliver
<1>b. ASSUME NEW s \in Slots,
             \/ Claim(s) \/ Duplicate(s) \/ Project(s) \/ ProjectThrows(s) \/ Commit(s)
             \/ TransactionFails(s) \/ DeadLetter(s)
      PROVE  MessageInv'
  BY <1>0, <1>b DEF Claim, Duplicate, Project, ProjectThrows, Commit, TransactionFails,
                    DeadLetter, brokerVars
<1>n. ASSUME NEW s \in Slots, pc[s] # "idle", ~Exhausted(msg[s])
      PROVE  NextAttempt(msg[s]) \in Messages /\ MessageOK(NextAttempt(msg[s]))
  BY <1>n, BrokerAssumption DEF NextAttempt, Message, Messages, Exhausted, MessageOK
<1>c. ASSUME NEW s \in Slots, Retry(s)
      PROVE  MessageInv'
  BY <1>0, <1>c, <1>n DEF Retry
<1>d. ASSUME NEW s \in Slots, NEW S, \A m \in S : MessageOK(m), ready' = Put(S),
             msg'[s] = msg[s] \/ pc'[s] = "idle",
             pc[s] # "idle",
             \A t \in Slots \ {s} : msg'[t] = msg[t] /\ pc'[t] = pc[t]
      PROVE  MessageInv'
  BY <1>0, <1>d DEF Put
<1>e. ASSUME NEW s \in Slots, pc[s] # "idle"
      PROVE  \A m \in GivenBack(s) : MessageOK(m)
  BY <1>e DEF GivenBack
<1>f. ASSUME NEW s \in Slots, RetryFails(s)
      PROVE  MessageInv'
  <2>1. PICK S : ready' = Put(S) /\ \A m \in S : MessageOK(m)
    BY <1>e, <1>f, <1>n DEF RetryFails
  <2> QED BY <1>d, <1>f, <2>1 DEF RetryFails, Release
<1>g. ASSUME NEW s \in Slots, ChannelLost(s) \/ Crash(s)
      PROVE  MessageInv'
  BY <1>d, <1>e, <1>g DEF ChannelLost, Crash, Release
<1>h. ASSUME NEW s \in Slots, Ack(s)
      PROVE  MessageInv'
  BY <1>0, <1>h DEF Ack, Release, brokerVars
<1> QED
  BY <1>a, <1>b, <1>c, <1>f, <1>g, <1>h DEF Runner, RunnerNext, SlotStep

LEMMA MessageInvariant == Spec => []MessageInv
<1>1. Init => MessageInv
  BY DEF Init, RunnerInit, BrokerInit, MessageInv
<1>2. TypeInv /\ PublishInv /\ MessageInv /\ [Next]_vars => MessageInv'
  <2> SUFFICES ASSUME TypeInv, PublishInv, MessageInv, [Next]_vars PROVE MessageInv'
    OBVIOUS
  <2>1. CASE Relay(RelayNext)
    BY <2>1, MessageRelayStep
  <2>2. CASE Runner(RunnerNext)
    BY <2>2, MessageRunnerStep
  <2>3. CASE UNCHANGED <<relayVars, runnerVars, ready>>
    BY <2>3 DEF relayVars, rowVars, runnerVars, MessageInv, MessageOK, Committed, Wanted
  <2> QED BY <2>1, <2>2, <2>3 DEF Next, Boot, DeclareQueues, vars, brokerVars
<1> QED BY <1>1, <1>2, TypeInvariant, PublishInvariant, PTL DEF Spec

(* A step that commits a projection is an Apply of the abstract            *)
(* specification: the event is committed, the consumer subscribes to it    *)
(* and it is the first time.                                               *)
LEMMA CommitIsApply ==
  ASSUME TypeInv, OnceInv, MessageInv, NEW s \in Slots, pc[s] = "commit", CommitEffect(s),
         UNCHANGED relayVars
  PROVE  Delivery!Next
<1>1. /\ msg[s] \in Messages
      /\ Key(s) = <<msg[s].consumer, msg[s].event>>
      /\ msg[s].consumer \in Consumers /\ msg[s].event \in Events
  BY DEF TypeInv, RunnerShape, Messages, Key, KeyOfMessage
<1>2. MessageOK(msg[s])
  BY DEF MessageInv
<1>3. effects[Key(s)] = 0
  BY <1>1 DEF OnceInv, AppliedOnce, ClaimsExclusive, InTransaction, Keys
<1>4. effects' = [effects EXCEPT ![Key(s)] = 1]
  BY <1>3 DEF CommitEffect
<1>5. Committed' = Committed
  BY DEF relayVars, rowVars, Committed
<1>6. Delivery!Apply(msg[s].consumer, msg[s].event)
  BY <1>1, <1>2, <1>3, <1>4, <1>5 DEF Delivery!Apply, MessageOK
<1> QED BY <1>1, <1>6 DEF Delivery!Next

LEMMA DeliveryStep ==
  ASSUME TypeInv, OnceInv, PublishInv, MessageInv, [Next]_vars
  PROVE  [Delivery!Next]_(Delivery!vars)
<1> USE DEF Delivery!vars
<1>1. CASE Relay(RelayNext)
  <2>1. UNCHANGED effects
    BY <1>1 DEF Relay, runnerVars
  <2>2. CASE UNCHANGED Committed
    BY <2>1, <2>2
  <2>3. ASSUME NEW e \in Events, CommitTx(e)
        PROVE  Delivery!Next
    <3>1. e \notin Committed /\ Committed' = Committed \cup {e}
      BY <2>3 DEF CommitTx, Committed, TypeInv, TypeOK, RelayTypeOK
    <3>2. Delivery!Commit({e})
      BY <2>1, <3>1 DEF Delivery!Commit
    <3> QED BY <3>2 DEF Delivery!Next
  <2>4. ASSUME NEW e \in Events, Enqueue(e) \/ RollbackTx(e)
        PROVE  UNCHANGED Committed
    BY <2>4 DEF Enqueue, RollbackTx, Committed, TypeInv, TypeOK, RelayTypeOK
  <2>5. ASSUME NEW t \in Ticks, MarkDispatched(t) \/ MarkFails(t) \/ RecordFailure(t)
        PROVE  UNCHANGED Committed
    BY <2>5 DEF MarkDispatched, MarkFails, RecordFailure, FailedFrom, Committed, PublishInv,
                TypeInv, TypeOK, RelayTypeOK
  <2>6. CASE UNCHANGED status
    BY <2>2, <2>6 DEF Committed
  <2> QED
    BY <1>1, <2>2, <2>3, <2>4, <2>5, <2>6
    DEF Relay, RelayNext, TickStep, StartTick, Query, EndTick, AbortTick, PublishRow,
        PublishFails, Stop, Restart, rowVars
<1>2. CASE Runner(RunnerNext)
  <2>1. UNCHANGED Committed /\ UNCHANGED relayVars
    BY <1>2 DEF Runner, relayVars, rowVars, Committed
  <2>2. CASE UNCHANGED effects
    BY <2>1, <2>2
  <2>3. CASE \E s \in Slots : pc[s] = "commit" /\ CommitEffect(s)
    BY <2>1, <2>3, CommitIsApply
  <2> QED
    BY <1>2, <2>2, <2>3
    DEF Runner, RunnerNext, SlotStep, Deliver, Claim, Duplicate, Project, ProjectThrows,
        Commit, TransactionFails, Retry, DeadLetter, RetryFails, Ack, ChannelLost, Crash
<1>3. CASE UNCHANGED <<relayVars, runnerVars>>
  BY <1>3 DEF relayVars, rowVars, runnerVars, Committed
<1> QED BY <1>1, <1>2, <1>3 DEF Next, Boot, vars

(* Whatever the relay, the broker and the worker go through, what the rest *)
(* of the system sees is EventDelivery: a projection is applied only after *)
(* the commit of its event, only by a subscriber, and at most once.        *)
THEOREM PipelineImplementsDelivery == Spec => ImplementsDelivery
<1>1. Init => Delivery!Init
  BY DEF Init, RelayInit, RunnerInit, Committed, Keys, Delivery!Init
<1>2. TypeInv /\ OnceInv /\ PublishInv /\ MessageInv /\ [Next]_vars
        => [Delivery!Next]_(Delivery!vars)
  BY DeliveryStep
<1> QED
  BY <1>1, <1>2, TypeInvariant, OnceInvariant, PublishInvariant, MessageInvariant, PTL
  DEF Spec, ImplementsDelivery, Delivery!Spec

-----------------------------------------------------------------------------
(* Attempts and duplicates are paid for by faults.                         *)

(* An attempt is recorded after the fault that made it fail, so attempts,  *)
(* stored or about to be stored, never outnumber the faults.               *)
AttemptInv ==
    /\ \A e \in Events : attempts[e] <= faults
    /\ \A e \in Events : status[e] = "FAILED" => attempts[e] >= MaxAttempts
    /\ \A t \in Ticks, e \in Events : seen[t][e] <= faults
    /\ \A t \in Ticks, e \in Events : tick[t] = "failed" => seen[t][e] < faults

LEMMA FaultsGrow ==
  ASSUME TypeInv, [Next]_vars
  PROVE  faults \in Nat /\ faults' \in Nat /\ faults' >= faults
<1>1. faults \in Nat
  BY BrokerAssumption DEF TypeInv, TypeOK, BrokerTypeOK
<1>2. CASE Fault
  BY <1>1, <1>2 DEF Fault
<1>3. CASE UNCHANGED faults
  BY <1>1, <1>3
<1>4. CASE RelayNext
  BY <1>2, <1>3, <1>4
  DEF RelayNext, TickStep, Enqueue, CommitTx, RollbackTx, StartTick, Query, EndTick,
      AbortTick, PublishRow, PublishFails, MarkDispatched, MarkFails, RecordFailure, FailedFrom,
      Stop, Restart, brokerVars
<1>5. CASE RunnerNext
  BY <1>2, <1>3, <1>5
  DEF RunnerNext, SlotStep, Deliver, Claim, Duplicate, Project, ProjectThrows, Commit,
      TransactionFails, Retry, DeadLetter, RetryFails, Ack, ChannelLost, Crash, brokerVars
<1> QED
  BY <1>3, <1>4, <1>5 DEF Next, Relay, Runner, Boot, DeclareQueues, vars, brokerVars

(* A step that writes no attempts and takes no tick to "failed".           *)
LEMMA AttemptFrame ==
  ASSUME TypeInv, AttemptInv, faults \in Nat, faults' \in Nat, faults' >= faults,
         UNCHANGED <<attempts, status>>,
         \A t \in Ticks, e \in Events :
            /\ seen'[t][e] \in {seen[t][e], 0}
            /\ tick'[t] = "failed" => tick[t] = "failed" /\ seen'[t][e] = seen[t][e]
  PROVE  AttemptInv'
<1>1. /\ \A t \in Ticks, e \in Events : seen[t][e] \in Nat
      /\ \A e \in Events : attempts[e] \in Nat
  BY RelayAssumption DEF TypeInv, TypeOK, RelayTypeOK
<1>2. \A e \in Events : attempts'[e] <= faults' /\ (status'[e] = "FAILED" => attempts'[e] >= MaxAttempts)
  BY <1>1 DEF AttemptInv
<1>3. ASSUME NEW t \in Ticks, NEW e \in Events
      PROVE  seen'[t][e] <= faults' /\ (tick'[t] = "failed" => seen'[t][e] < faults')
  <2>1. seen[t][e] \in Nat /\ seen[t][e] <= faults /\ (tick[t] = "failed" => seen[t][e] < faults)
    BY <1>1 DEF AttemptInv
  <2>2. /\ seen'[t][e] = seen[t][e] \/ seen'[t][e] = 0
        /\ tick'[t] = "failed" => tick[t] = "failed" /\ seen'[t][e] = seen[t][e]
    OBVIOUS
  <2> QED BY <2>1, <2>2
<1> QED BY <1>2, <1>3 DEF AttemptInv

LEMMA AttemptRelayStep ==
  ASSUME TypeInv, AttemptInv, RelayNext, faults \in Nat, faults' \in Nat, faults' >= faults
  PROVE  AttemptInv'
<1> USE BrokerAssumption, RelayAssumption
    DEF TypeInv, TypeOK, BrokerTypeOK, RelayTypeOK, RelayShape, AttemptInv
<1>a. ASSUME NEW e \in Events, Enqueue(e) \/ CommitTx(e) \/ RollbackTx(e)
      PROVE  AttemptInv'
  BY <1>a DEF Enqueue, CommitTx, RollbackTx, tickVars, brokerVars
<1>b. ASSUME NEW t \in Ticks, StartTick(t) \/ EndTick(t) \/ AbortTick(t)
      PROVE  AttemptInv'
  <2>1. UNCHANGED <<attempts, status>>
    BY <1>b DEF StartTick, EndTick, AbortTick, rowVars
  <2>2. \A u \in Ticks, e \in Events :
           /\ seen'[u][e] \in {seen[u][e], 0}
           /\ tick'[u] = "failed" => tick[u] = "failed" /\ seen'[u][e] = seen[u][e]
    <3>1. CASE StartTick(t)
      BY <3>1 DEF StartTick
    <3>2. CASE Leave(t)
      BY <3>2 DEF Leave, NothingSeen
    <3> QED BY <1>b, <3>1, <3>2 DEF EndTick, AbortTick
  <2> QED BY <2>1, <2>2, AttemptFrame
<1>c. ASSUME NEW t \in Ticks, Query(t)
      PROVE  AttemptInv'
  BY <1>c DEF Query, rowVars, brokerVars
<1>d. ASSUME NEW t \in Ticks, NEW e \in Events, PublishRow(t, e)
      PROVE  AttemptInv'
  BY <1>d DEF PublishRow, rowVars
<1>e. ASSUME NEW t \in Ticks, NEW e \in Events, PublishFails(t, e)
      PROVE  AttemptInv'
  BY <1>e DEF PublishFails, Fault, rowVars
<1>f. ASSUME NEW t \in Ticks, MarkDispatched(t)
      PROVE  AttemptInv'
  BY <1>f DEF MarkDispatched, FinishRow, brokerVars
<1>g. ASSUME NEW t \in Ticks, MarkFails(t)
      PROVE  AttemptInv'
  BY <1>g DEF MarkFails, Fault
<1>h. ASSUME NEW t \in Ticks, RecordFailure(t)
      PROVE  AttemptInv'
  BY <1>h DEF RecordFailure, FailedFrom, FinishRow, brokerVars
<1>i. ASSUME NEW r \in Replicas, Stop(r) \/ Restart(r)
      PROVE  AttemptInv'
  <2>1. UNCHANGED <<attempts, status>>
    BY <1>i DEF Stop, Restart, rowVars
  <2>2. \A u \in Ticks, e \in Events :
           /\ seen'[u][e] \in {seen[u][e], 0}
           /\ tick'[u] = "failed" => tick[u] = "failed" /\ seen'[u][e] = seen[u][e]
    BY SMTT(30), <1>i DEF Stop, Restart, NothingSeen
  <2> QED BY <2>1, <2>2, AttemptFrame
<1> QED
  BY <1>a, <1>b, <1>c, <1>d, <1>e, <1>f, <1>g, <1>h, <1>i DEF RelayNext, TickStep

LEMMA AttemptInvariant == Spec => []AttemptInv
<1>1. Init => AttemptInv
  BY DEF Init, RelayInit, BrokerInit, NothingSeen, AttemptInv
<1>2. TypeInv /\ AttemptInv /\ [Next]_vars => AttemptInv'
  <2> SUFFICES ASSUME TypeInv, AttemptInv, [Next]_vars PROVE AttemptInv'
    OBVIOUS
  <2>0. faults \in Nat /\ faults' \in Nat /\ faults' >= faults
    BY FaultsGrow
  <2>1. CASE RelayNext
    BY <2>0, <2>1, AttemptRelayStep
  <2>2. CASE UNCHANGED relayVars
    BY <2>0, <2>2, AttemptFrame DEF relayVars, rowVars, tickVars
  <2> QED BY <2>1, <2>2 DEF Next, Relay, Runner, Boot, vars
<1> QED BY <1>1, <1>2, TypeInvariant, PTL DEF Spec

(* A row ends FAILED only after as many faults as outbox.maxAttempts: the  *)
(* relay does not give up on an event that met fewer.                      *)
THEOREM NoEarlyGiveUp == Spec => []GivesUpOnlyAfterFaults
<1>1. TypeInv /\ AttemptInv => GivesUpOnlyAfterFaults
  BY BrokerAssumption, RelayAssumption
  DEF AttemptInv, GivesUpOnlyAfterFaults, TypeInv, TypeOK, BrokerTypeOK, RelayTypeOK
<1> QED BY <1>1, TypeInvariant, AttemptInvariant, PTL

-----------------------------------------------------------------------------
(* One process: the running flag.                                          *)

(* A stopped process will be started again without a further fault, so the *)
(* publication its tick may still make is charged to the stop.             *)
Charge(r) == IF stopped[r] THEN 1 ELSE 0

Marking(t, e) == tick[t] = "mark" /\ current[t] = e
InHand(t, e) == tick[t] \in {"mark", "failed"} /\ current[t] = e

(* r is the only replica with ticks.  The flag lets one tick in at a time; *)
(* the rows of its batch it has not reached are still PENDING; and a row   *)
(* that a later tick could publish once more has had no more publications  *)
(* than there were faults.                                                 *)
FlagInv(r) ==
    /\ \A t \in Ticks : tick[t] # "idle" => running[r]
    /\ \A t, u \in Ticks : tick[t] # "idle" /\ tick[u] # "idle" => t = u
    /\ \A t \in Ticks : tick[t] \in {"idle", "query"} => batch[t] = {}
    /\ \A t \in Ticks, e \in Events :
          e \in batch[t] => status[e] = "PENDING" \/ InHand(t, e)
    /\ \A e \in Events : published[e] <= faults + 1
    /\ \A t \in Ticks, e \in Events :
          Marking(t, e) => published[e] + Charge(r) <= faults + 1
    /\ \A t \in Ticks, e \in Events :
          tick[t] = "failed" /\ current[t] = e => published[e] + Charge(r) <= faults
    /\ \A e \in Events :
          status[e] \in {"none", "open", "PENDING"} /\ (\A t \in Ticks : ~Marking(t, e))
              => published[e] + Charge(r) <= faults

(* A step that only spends faults, as far as the replica r is concerned.   *)
LEMMA FlagFrame ==
  ASSUME NEW r \in Replicas, FlagInv(r),
         \A t \in Ticks : tick'[t] = tick[t] /\ batch'[t] = batch[t] /\ current'[t] = current[t],
         running'[r] <=> running[r], Charge(r)' = Charge(r), Charge(r) \in Nat,
         UNCHANGED <<status, published>>, \A e \in Events : published[e] \in Nat,
         faults \in Nat, faults' \in Nat, faults' >= faults
  PROVE  FlagInv(r)'
<1>1. /\ \A t \in Ticks : tick'[t] # "idle" => running'[r]
      /\ \A t, u \in Ticks : tick'[t] # "idle" /\ tick'[u] # "idle" => t = u
      /\ \A t \in Ticks : tick'[t] \in {"idle", "query"} => batch'[t] = {}
  BY DEF FlagInv
<1>2. \A t \in Ticks, e \in Events : (Marking(t, e)' <=> Marking(t, e))
                                     /\ (InHand(t, e)' <=> InHand(t, e))
  BY DEF Marking, InHand
<1>3. \A t \in Ticks, e \in Events :
          e \in batch'[t] => status'[e] = "PENDING" \/ InHand(t, e)'
  BY <1>2 DEF FlagInv
<1>4. \A e \in Events : published'[e] <= faults' + 1
  BY DEF FlagInv
<1>5. \A t \in Ticks, e \in Events :
          /\ Marking(t, e)' => published'[e] + Charge(r)' <= faults' + 1
          /\ tick'[t] = "failed" /\ current'[t] = e => published'[e] + Charge(r)' <= faults'
  BY <1>2 DEF FlagInv
<1>6. \A e \in Events :
          status'[e] \in {"none", "open", "PENDING"} /\ (\A t \in Ticks : ~Marking(t, e)')
              => published'[e] + Charge(r)' <= faults'
  BY <1>2 DEF FlagInv
<1> QED BY <1>1, <1>3, <1>4, <1>5, <1>6 DEF FlagInv

LEMMA FlagRelayStep ==
  ASSUME TypeInv, PublishInv, NEW r \in Replicas, \A t \in Ticks : Owner[t] = r,
         FlagInv(r), RelayNext
  PROVE  FlagInv(r)'
<1> USE BrokerAssumption, RelayAssumption
    DEF TypeInv, TypeOK, BrokerTypeOK, RelayTypeOK, RelayShape, FlagInv, Marking, InHand, Charge
<1>a. ASSUME NEW e \in Events, Enqueue(e) \/ CommitTx(e) \/ RollbackTx(e)
      PROVE  FlagInv(r)'
  BY <1>a DEF Enqueue, CommitTx, RollbackTx, tickVars, brokerVars
<1>b. ASSUME NEW t \in Ticks, StartTick(t)
      PROVE  FlagInv(r)'
  BY <1>b DEF StartTick, rowVars, brokerVars
<1>c. ASSUME NEW t \in Ticks, Query(t)
      PROVE  FlagInv(r)'
  BY <1>c DEF Query, Batches, Pending, rowVars, brokerVars
<1>d. ASSUME NEW t \in Ticks, EndTick(t)
      PROVE  FlagInv(r)'
  BY <1>d DEF EndTick, Leave, rowVars, brokerVars
<1>e. ASSUME NEW t \in Ticks, AbortTick(t)
      PROVE  FlagInv(r)'
  BY <1>e, SMTT(30) DEF AbortTick, Leave, Fault, rowVars
<1>p. ASSUME NEW e \in Events, Route(e)
      PROVE  \A f \in Events : published'[f] = IF f = e THEN published[e] + 1 ELSE published[f]
  BY <1>p DEF Route
<1>n. /\ faults \in Nat /\ Charge(r) \in Nat
      /\ \A f \in Events : published[f] \in Nat /\ published[f] <= faults + 1
  OBVIOUS
<1>o. ASSUME NEW t \in Ticks, NEW e \in Events, NextRow(t, e)
      PROVE  /\ tick[t] = "rows" /\ status[e] = "PENDING"
             /\ \A u \in Ticks : u # t => tick[u] = "idle"
             /\ published[e] + Charge(r) <= faults
  BY <1>o DEF NextRow
<1>f. ASSUME NEW t \in Ticks, NEW e \in Events, PublishRow(t, e)
      PROVE  FlagInv(r)'
  <2>1. /\ NextRow(t, e) /\ Route(e)
        /\ UNCHANGED <<running, stopped, batch, status, faults>>
        /\ tick' = [tick EXCEPT ![t] = "mark"]
        /\ current' = [current EXCEPT ![t] = e]
    BY <1>f DEF PublishRow, rowVars
  <2>2. \A u \in Ticks : u # t => tick'[u] = "idle" /\ tick[u] = "idle"
    BY <1>o, <2>1
  <2>3. \A f \in Events : published'[f] <= faults + 1
    <3>1. \A f \in Events : published'[f] = IF f = e THEN published[e] + 1 ELSE published[f]
      BY <1>p, <2>1
    <3>2. published[e] + Charge(r) <= faults
      BY <1>o, <2>1
    <3> HIDE DEF Charge
    <3> QED BY <1>n, <3>1, <3>2
  <2>4. published'[e] + Charge(r) <= faults + 1
    BY <1>o, <1>p, <2>1
  <2>5. \A u \in Ticks, f \in Events : f \in batch'[u] => status'[f] = "PENDING" \/ InHand(u, f)'
    BY <1>o, <2>1, <2>2
  <2>6. \A f \in Events : f # e => published'[f] = published[f] /\ \A u \in Ticks : ~Marking(u, f)
    BY SMTT(30), <1>o, <1>p, <2>1
  <2> QED BY <1>o, <2>1, <2>2, <2>3, <2>4, <2>5, <2>6
<1>g. ASSUME NEW t \in Ticks, NEW e \in Events, PublishFails(t, e)
      PROVE  FlagInv(r)'
  <2>1. /\ (NextRow(t, e) /\ Route(e)) \/ UNCHANGED published
        /\ NextRow(t, e)
        /\ UNCHANGED <<running, stopped, batch, status>>
        /\ faults' = faults + 1
        /\ tick' = [tick EXCEPT ![t] = "failed"]
        /\ current' = [current EXCEPT ![t] = e]
    BY <1>g DEF PublishFails, Fault, rowVars
  <2>2. \A u \in Ticks : u # t => tick'[u] = "idle" /\ tick[u] = "idle"
    BY <1>o, <2>1
  <2>3. /\ published'[e] <= published[e] + 1
        /\ \A f \in Events : f # e => published'[f] = published[f]
    BY <1>p, <2>1
  <2>8. published[e] + Charge(r) <= faults
    BY <1>o, <2>1
  <2>9. published'[e] \in Nat
    BY <1>n, <1>p, <2>1
  <2>4. \A f \in Events : published'[f] <= faults' + 1
    <3> HIDE DEF Charge
    <3> QED BY <1>n, <2>1, <2>3, <2>8, <2>9
  <2>5. published'[e] + Charge(r) <= faults'
    <3> HIDE DEF Charge
    <3> QED BY <1>n, <2>1, <2>3, <2>8, <2>9
  <2>6. \A u \in Ticks, f \in Events : f \in batch'[u] => status'[f] = "PENDING" \/ InHand(u, f)'
    BY <1>o, <2>1, <2>2
  <2>7. \A f \in Events, u \in Ticks : ~Marking(u, f)
    BY <1>o, <2>1
  <2> QED BY SMTT(30), <1>o, <2>1, <2>2, <2>3, <2>4, <2>5, <2>6, <2>7
<1>h. ASSUME NEW t \in Ticks, MarkDispatched(t)
      PROVE  FlagInv(r)'
  BY <1>h DEF MarkDispatched, FinishRow, brokerVars
<1>i. ASSUME NEW t \in Ticks, MarkFails(t)
      PROVE  FlagInv(r)'
  BY SMTT(30), <1>i DEF MarkFails, Fault
<1>j. ASSUME NEW t \in Ticks, RecordFailure(t)
      PROVE  FlagInv(r)'
  BY <1>j DEF RecordFailure, FailedFrom, FinishRow, brokerVars
<1>k. ASSUME NEW q \in Replicas, Stop(q)
      PROVE  FlagInv(r)'
  BY <1>k DEF Stop, Fault, rowVars
<1>l. ASSUME NEW q \in Replicas, Restart(q), q # r
      PROVE  FlagInv(r)'
  <2>1. \A t \in Ticks :
           tick'[t] = tick[t] /\ batch'[t] = batch[t] /\ current'[t] = current[t]
    BY <1>l DEF Restart
  <2>3. (running'[r] <=> running[r]) /\ (stopped'[r] <=> stopped[r])
    BY <1>l DEF Restart
  <2>4. UNCHANGED <<status, published>>
    BY <1>l DEF Restart, rowVars
  <2>2. faults' = faults \/ faults' = faults + 1
    BY <1>l DEF Restart, Fault
  <2>5. Charge(r)' = Charge(r)
    BY <2>3
  <2>6. faults' \in Nat /\ faults' >= faults
    BY <1>n, <2>2
  <2> HIDE DEF Charge, FlagInv
  <2> QED BY <1>n, <2>1, <2>3, <2>4, <2>5, <2>6, FlagFrame
<1>m. ASSUME Restart(r)
      PROVE  FlagInv(r)'
  <2>1. /\ \A t \in Ticks : tick'[t] = "idle" /\ batch'[t] = {}
        /\ stopped'[r] = FALSE
        /\ UNCHANGED <<status, published>>
    BY <1>m DEF Restart, rowVars
  <2>2. /\ faults' \in Nat /\ faults \in Nat
        /\ faults' >= faults
        /\ faults' = faults => stopped[r]
    BY <1>m DEF Restart, Fault
  <2>3. faults' = faults \/ faults' = faults + 1
    BY <1>m DEF Restart, Fault
  <2>4. ASSUME NEW e \in Events, status[e] \in {"none", "open", "PENDING"}
        PROVE  published[e] <= faults'
    <3>1. CASE \E t \in Ticks : Marking(t, e)
      BY <2>2, <2>3, <3>1
    <3>2. CASE \A t \in Ticks : ~Marking(t, e)
      BY <2>2, <2>3, <2>4, <3>2
    <3> QED BY <3>1, <3>2
  <2>5. \A e \in Events : published'[e] <= faults' + 1
    BY <2>1, <2>2
  <2> QED BY <2>1, <2>2, <2>4, <2>5
<1> QED
  BY <1>a, <1>b, <1>c, <1>d, <1>e, <1>f, <1>g, <1>h, <1>i, <1>j, <1>k, <1>l, <1>m
  DEF RelayNext, TickStep

LEMMA FlagInvariant ==
  ASSUME NEW r \in Replicas, \A t \in Ticks : Owner[t] = r
  PROVE  Spec => []FlagInv(r)
<1>1. Init => FlagInv(r)
  BY DEF Init, RelayInit, BrokerInit, FlagInv, Marking, InHand, Charge
<1>2. TypeInv /\ PublishInv /\ FlagInv(r) /\ [Next]_vars => FlagInv(r)'
  <2> SUFFICES ASSUME TypeInv, PublishInv, FlagInv(r), [Next]_vars PROVE FlagInv(r)'
    OBVIOUS
  <2>1. CASE RelayNext
    BY <2>1, FlagRelayStep
  <2>2. CASE UNCHANGED relayVars /\ UNCHANGED published
    <3>1. faults \in Nat /\ faults' \in Nat /\ faults' >= faults
      BY FaultsGrow
    <3>2. \A e \in Events : published[e] \in Nat
      BY DEF TypeInv, TypeOK, BrokerTypeOK
    <3> QED BY <2>2, <3>1, <3>2
            DEF relayVars, rowVars, tickVars, FlagInv, Marking, InHand, Charge
  <2>3. CASE Runner(RunnerNext)
    <3>1. UNCHANGED published
      BY <2>3 DEF Runner, RunnerNext, SlotStep, Deliver, Claim, Duplicate, Project,
                  ProjectThrows, Commit, TransactionFails, Retry, DeadLetter, RetryFails,
                  Ack, ChannelLost, Crash, brokerVars
    <3> QED BY <2>2, <2>3, <3>1 DEF Runner
  <2> QED BY <2>1, <2>2, <2>3 DEF Next, Relay, Boot, DeclareQueues, vars, brokerVars
<1> QED BY <1>1, <1>2, TypeInvariant, PublishInvariant, PTL DEF Spec

(* With a single API process the `running` flag does what its comment      *)
(* says: no two ticks publish the same row unless a fault came between.    *)
THEOREM FlagPreventsDoublePublishing ==
  ASSUME NEW r \in Replicas, \A t \in Ticks : Owner[t] = r
  PROVE  Spec => []RepublishedOnlyAfterFault
<1>1. FlagInv(r) => RepublishedOnlyAfterFault
  BY DEF FlagInv, RepublishedOnlyAfterFault
<1> QED BY <1>1, FlagInvariant, PTL
=============================================================================
