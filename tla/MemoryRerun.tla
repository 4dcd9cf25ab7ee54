---------------------------- MODULE MemoryRerun ----------------------------
(* The memory store while compact is run again and again, with a record of *)
(* whether anything else has happened since a run began.                   *)
EXTENDS MemoryStore

VARIABLE calm   \* "no", or how far compact has come without disturbance

rvars == <<memories, made, stale, plan, calm>>

RInit == MemoryInit /\ calm = "no"

Disturb ==
    /\ \/ \E topic \in Topics, weak \in BOOLEAN : Store(topic, weak)
       \/ \E m \in MemoryIds : Forget(m) \/ Expire(m)
       \/ \E ids \in SUBSET MemoryIds : Decay(ids)
       \/ LookUp \/ Age
       \/ \E c \in Compactors : Drop(c)
    /\ calm' = "no"

RLoad(c) == Load(c) /\ calm' = IF calm = "applied" THEN "loaded again" ELSE "loaded"
RApply(c) == Apply(c) /\ calm' = IF calm = "no" THEN "no" ELSE "applied"

RNext == Disturb \/ \E c \in Compactors : RLoad(c) \/ RApply(c)

RSpec == RInit /\ [][RNext]_rvars

(* What memory-guide.md, README.md and the tests say: when compact is run  *)
(* again right after a run, nothing is left to distill.                    *)
RerunDistillsNothing ==
    [][\A c \in Compactors : calm = "loaded again" /\ RApply(c) => made' = made]_rvars
=============================================================================
