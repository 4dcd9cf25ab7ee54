---------------------------- MODULE MemoryStore ----------------------------
(***************************************************************************)
(* The SQLite memory store of memory_store.py with the planner of          *)
(* memory_compaction.py: clients store, look up and forget memories under  *)
(* a row budget, and compactors distill and merge them.                    *)
(*                                                                         *)
(* A compactor loads and plans in one session and applies its plan in      *)
(* another, so that anything may happen to the rows in between, another    *)
(* compaction included.  All other operations are one transaction each.    *)
(*                                                                         *)
(* A memory's id is also the name of the content it was stored with; a     *)
(* distilled or merged row `holds` the contents that went into it.  Ids    *)
(* are handed out in the order of `created_at`, which settles age and the  *)
(* newest of a group.  Embeddings are similar when their topics are equal. *)
(* Of a memory's importance the model keeps whether it is below the        *)
(* threshold of compaction.  Eviction scores and the counters are left out. *)
(***************************************************************************)
EXTENDS Integers, FiniteSets, FiniteSetsExt, Functions

CONSTANTS
    RowBudget,      \* the row budget
    Compactors,     \* processes that run compact
    Topics,         \* numbers; memories of one topic are near-duplicates
    MaxIds          \* bound: rows ever inserted

ASSUME MemoryAssumption ==
    /\ RowBudget \in Nat \ {0} /\ MaxIds \in Nat
    /\ Topics \subseteq Nat

VARIABLES
    memories,       \* the table: a function on the ids it has
    made,           \* ids 1..made have been handed out
    stale,          \* memories 1..stale are older than age_days
    plan            \* [Compactors -> what compact loaded, or NoPlan]

mvars == <<memories, made, stale, plan>>

MemoryIds == 1..MaxIds
Statuses == {"active", "distilled", "archived"}
Memory == [status: Statuses, topic: Topics, weak: BOOLEAN, holds: SUBSET MemoryIds,
        expired: BOOLEAN]

NoPlan == [phase |-> "none"]
Plan == [phase: {"loaded"}, stale: SUBSET MemoryIds,
         rows: UNION {[D -> [topic: Topics, holds: SUBSET MemoryIds]] : D \in SUBSET MemoryIds}]

MemoryTypeOK ==
    /\ made \in 0..MaxIds /\ stale \in 0..made
    /\ DOMAIN memories \subseteq 1..made
    /\ \A m \in DOMAIN memories : memories[m] \in Memory
    /\ \A c \in Compactors : plan[c] = NoPlan \/
          /\ plan[c].phase = "loaded"
          /\ plan[c].stale \subseteq DOMAIN plan[c].rows
          /\ \A m \in DOMAIN plan[c].rows :
                plan[c].rows[m] \in [topic: Topics, holds: SUBSET MemoryIds]

-----------------------------------------------------------------------------
(* Faulty variants, each with the slip its name says.  No specification    *)
(* uses them: a run that checks a property is shown to notice one of them  *)
(* put in the place of the definition.                                     *)

SurplusOfActive(rows) == Cardinality({m \in DOMAIN rows : rows[m].status = "active"}) - RowBudget
NotDistilled(rows) == {m \in DOMAIN rows : rows[m].status # "distilled"}
OlderContents(p, t) ==
    UNION {p.rows[m].holds : m \in {n \in DOMAIN p.rows :
              p.rows[n].topic = t /\ \E k \in DOMAIN p.rows : k > n /\ p.rows[k].topic = t}}

-----------------------------------------------------------------------------
Archived(row) == [row EXCEPT !.status = "archived"]
Surplus(rows) == Cardinality(DOMAIN rows) - RowBudget
Active(rows) == {m \in DOMAIN rows : rows[m].status = "active"}

Without(doomed) == Restrict(memories, DOMAIN memories \ doomed)

(* _purge_expired, at the start of store, retrieve, search and compact.    *)
Expired == {m \in DOMAIN memories : memories[m].expired}
Purged == Without(Expired)

(* What a search can find: the contents of the rows that are not archived. *)
Findable == UNION {memories[m].holds : m \in
                {n \in DOMAIN memories : memories[n].status # "archived"}}

-----------------------------------------------------------------------------
(* The plan: near-duplicates among the loaded rows, which were all active. *)

Group(p, t) == {m \in DOMAIN p.rows : p.rows[m].topic = t}

(* select_clusters: the stale, unimportant ones are to be distilled.       *)
Cluster(p, t) == Group(p, t) \cap p.stale
Clusters(p) == {t \in Topics : Cluster(p, t) # {}}

(* select_merges: two or more are to be merged into the newest.            *)
Merges(p) == {t \in Topics : Cardinality(Group(p, t)) >= 2}
Keeper(p, t) == Max(Group(p, t))

Contents(p, ids) == UNION {p.rows[m].holds : m \in ids}
MergedContents(p, t) == Contents(p, Group(p, t))

(* Rows of the plan that are to be archived, unless they are kept.         *)
Sources(p) == p.stale \cup UNION {Group(p, t) : t \in Merges(p)}

(* The id of the row that the cluster of topic t is distilled into.        *)
DistilledId(p, t) == made + Cardinality({u \in Clusters(p) : u <= t})

-----------------------------------------------------------------------------
MemoryInit ==
    /\ memories = [m \in {} |-> {}]
    /\ made = 0
    /\ stale = 0
    /\ plan = [c \in Compactors |-> NoPlan]

(* store: purge, insert, then evict the rows of the lowest scores, which   *)
(* may be any, until the budget is met.                                    *)
Store(topic, weak) ==
    LET id == made + 1
        row == [status |-> "active", topic |-> topic, weak |-> weak,
                holds |-> {id}, expired |-> FALSE]
        all == [m \in DOMAIN Purged \cup {id} |-> IF m = id THEN row ELSE Purged[m]]
    IN
    /\ made < MaxIds
    /\ \E doomed \in kSubset(IF Surplus(all) > 0 THEN Surplus(all) ELSE 0, DOMAIN all) :
          memories' = Restrict(all, DOMAIN all \ doomed)
    /\ made' = id
    /\ UNCHANGED <<stale, plan>>

Forget(m) ==
    /\ m \in DOMAIN memories
    /\ memories' = Without({m})
    /\ UNCHANGED <<made, stale, plan>>

(* retrieve and search change nothing but what they purge.                 *)
LookUp ==
    /\ Expired # {}
    /\ memories' = Purged
    /\ UNCHANGED <<made, stale, plan>>

(* Time: a memory that was stored with a TTL reaches it, which no distilled *)
(* one has; the oldest ones reach age_days.                                *)
Expire(m) ==
    /\ m \in DOMAIN memories
    /\ memories[m].status # "distilled" /\ ~memories[m].expired
    /\ memories' = [memories EXCEPT ![m].expired = TRUE]
    /\ UNCHANGED <<made, stale, plan>>

(* impact_decay's second session (its first does what LookUp does): some   *)
(* of the memories that were active at its first fall below the importance *)
(* threshold; by now they may be archived.  Which ones it loaded, and how  *)
(* far their importance falls, is left open.                               *)
Decay(ids) ==
    /\ ids # {} /\ ids \subseteq DOMAIN memories
    /\ \A m \in ids : memories[m].status # "distilled" /\ ~memories[m].weak
    /\ memories' = [m \in DOMAIN memories |->
                       IF m \in ids THEN [memories[m] EXCEPT !.weak = TRUE] ELSE memories[m]]
    /\ UNCHANGED <<made, stale, plan>>

Age ==
    /\ stale < made
    /\ stale' = stale + 1
    /\ UNCHANGED <<memories, made, plan>>

(* compact's first session.  A plan is no more than what was loaded; with  *)
(* dry_run it is returned and nothing else happens, which is Drop.         *)
Load(c) ==
    /\ plan[c] = NoPlan
    /\ memories' = Purged
    /\ LET active == Active(Purged) IN
       plan' = [plan EXCEPT ![c] =
           [phase |-> "loaded",
            stale |-> {m \in active : m <= stale /\ Purged[m].weak},
            rows |-> [m \in active |-> [topic |-> Purged[m].topic,
                                        holds |-> Purged[m].holds]]]]
    /\ UNCHANGED <<made, stale>>

(* ... and its second: distilled rows are inserted and their sources       *)
(* archived; then each group's newest is made active with the contents of  *)
(* all, even if it has just been archived, and the older ones are archived. *)
(* The UPDATEs go by id: they pass over rows that are gone.  What the code  *)
(* skips as archived already is what was archived when it loaded, and of   *)
(* that nothing is in a plan.                                              *)
Apply(c) ==
    LET p == plan[c]
        kept == {Keeper(p, t) : t \in Merges(p)}
        distilled == {DistilledId(p, t) : t \in Clusters(p)}
        Updated(m) ==
            LET row == memories[m] IN
            CASE m \in kept -> [row EXCEPT !.status = "active",
                                           !.holds = MergedContents(p, row.topic)]
              [] m \in Sources(p) \ kept -> Archived(row)
              [] OTHER -> row
        Distilled(id) ==
            LET t == CHOOSE u \in Clusters(p) : DistilledId(p, u) = id IN
            [status |-> "distilled", topic |-> t, weak |-> TRUE,
             holds |-> Contents(p, Cluster(p, t)), expired |-> FALSE]
    IN
    /\ p # NoPlan /\ plan' = [plan EXCEPT ![c] = NoPlan]
    /\ made + Cardinality(distilled) <= MaxIds
    /\ memories' = [m \in DOMAIN memories \cup distilled |->
                        IF m \in distilled THEN Distilled(m) ELSE Updated(m)]
    /\ made' = made + Cardinality(distilled)
    /\ UNCHANGED stale

(* A dry run, a database locked for too long, or a process that ends.      *)
Drop(c) ==
    /\ plan[c] # NoPlan
    /\ plan' = [plan EXCEPT ![c] = NoPlan]
    /\ UNCHANGED <<memories, made, stale>>

MemoryNext ==
    \/ \E topic \in Topics, weak \in BOOLEAN : Store(topic, weak)
    \/ \E m \in MemoryIds : Forget(m) \/ Expire(m)
    \/ \E ids \in SUBSET MemoryIds : Decay(ids)
    \/ LookUp \/ Age
    \/ \E c \in Compactors : Load(c) \/ Apply(c) \/ Drop(c)

MemorySpec == MemoryInit /\ [][MemoryNext]_mvars

-----------------------------------------------------------------------------
(* Originals are within the budget at all times, however many evictions    *)
(* one store has to make up for: only the rows that compaction inserted    *)
(* since the last store can be over it (_evict_if_over_budget).            *)
OriginalsWithinBudget ==
    Cardinality({m \in DOMAIN memories : memories[m].status # "distilled"}) <= RowBudget

(* A plan holds nothing that could not be found when it was loaded, and    *)
(* what cannot be found comes back in no other way than by a plan that was *)
(* loaded before it went: forgotten, evicted and expired contents stay     *)
(* away once the compactions in flight are over.                           *)
Returning == Findable' \ Findable

ReturnsOnlyFromPlans ==
    [][/\ \A c \in Compactors : Load(c) =>
              Contents(plan'[c], DOMAIN plan'[c].rows) \subseteq Findable
       /\ \/ Returning \subseteq {made + 1}
          \/ \E c \in Compactors :
                Apply(c) /\ Returning \subseteq Contents(plan[c], DOMAIN plan[c].rows)]_mvars
=============================================================================
