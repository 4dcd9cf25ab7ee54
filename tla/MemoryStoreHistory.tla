------------------------ MODULE MemoryStoreHistory ------------------------
(* The memory store beside a record of which plans are out of date because *)
(* another compactor has applied its own since they were loaded.           *)
EXTENDS MemoryStore

VARIABLE overtaken      \* the compactors that hold such a plan

hvars == <<memories, made, stale, plan, overtaken>>

HInit == MemoryInit /\ overtaken = {}

HLoad(c) == Load(c) /\ overtaken' = overtaken \ {c}
HApply(c) == Apply(c) /\ overtaken' = {d \in Compactors : plan'[d] # NoPlan}
HDrop(c) == Drop(c) /\ overtaken' = overtaken \ {c}

ClientStep ==
    \/ \E topic \in Topics, weak \in BOOLEAN : Store(topic, weak)
    \/ \E m \in MemoryIds : Forget(m) \/ Expire(m)
    \/ \E ids \in SUBSET MemoryIds : Decay(ids)
    \/ LookUp \/ Age

HNext ==
    \/ ClientStep /\ UNCHANGED overtaken
    \/ \E c \in Compactors : HLoad(c) \/ HApply(c) \/ HDrop(c)

HSpec == HInit /\ [][HNext]_hvars

-----------------------------------------------------------------------------
(* Unless another compactor got in between, applying a plan takes nothing  *)
(* out of the reach of search, whatever clients did to its rows meanwhile, *)
(* but the contents of a group whose newest member is gone: its older ones *)
(* are archived and what they were merged into is written nowhere.         *)
Orphaned(p) ==
    UNION {Contents(p, Group(p, t)) :
              t \in {u \in Merges(p) : Keeper(p, u) \notin DOMAIN memories}}

CompactionKeepsContents ==
    [][\A c \in Compactors \ overtaken : Apply(c) =>
          Findable \subseteq Findable' \cup Orphaned(plan[c])]_hvars
=============================================================================
