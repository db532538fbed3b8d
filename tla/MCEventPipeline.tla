-------------------------- MODULE MCEventPipeline ---------------------------
(***************************************************************************)
(* Small instances of EventPipeline for TLC.                               *)
(***************************************************************************)
EXTENDS EventPipeline, TLC

CONSTANTS e1, e2, r1, r2, t1, t2, s1, s2

\* One event with two subscribers, and one that only the audit trail wants.
MCKeyOf == [e \in Events |-> IF e = e2 THEN "comment.created" ELSE "ticket.created"]

Nobody == {}
AuditOnly == {"audit"}
AuditAndAnalytics == {"audit", "analytics"}

\* Two ticks of one replica.
OneReplica == [t \in Ticks |-> r1]

\* The audit projection of e1 always throws.
PoisonAudit == {<<"audit", e1>>}
NoPoison == {}

TickAndSlotSymmetry == Permutations(Ticks) \cup Permutations(Slots)
=============================================================================
