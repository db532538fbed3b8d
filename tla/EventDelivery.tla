---------------------------- MODULE EventDelivery ---------------------------
(***************************************************************************)
(* What the event pipeline promises to the rest of the system, whatever    *)
(* the relay, the broker and the consumers go through: the projection of a *)
(* consumer is applied to an event only after the business transaction     *)
(* that recorded the event has committed, only if the consumer subscribed  *)
(* to it, and at most once.                                                *)
(***************************************************************************)
EXTENDS Naturals

CONSTANTS Events, Consumers, Subscribers(_)

VARIABLES
    committed,       \* events whose business transaction committed
    times            \* times each consumer applied each event

vars == <<committed, times>>

Init ==
    /\ committed = {}
    /\ times = [k \in Consumers \X Events |-> 0]

(* A business transaction may record several events; they appear together. *)
Commit(batch) ==
    /\ batch \cap committed = {}
    /\ committed' = committed \cup batch
    /\ UNCHANGED times

Apply(c, e) ==
    /\ e \in committed
    /\ c \in Subscribers(e)
    /\ times[<<c, e>>] = 0
    /\ times' = [times EXCEPT ![<<c, e>>] = 1]
    /\ UNCHANGED committed

Next ==
    \/ \E batch \in SUBSET Events : Commit(batch)
    \/ \E c \in Consumers, e \in Events : Apply(c, e)

Spec == Init /\ [][Next]_vars
=============================================================================
