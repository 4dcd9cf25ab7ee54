---------------------------- MODULE RedisMemory ----------------------------
(***************************************************************************)
(* RedisBackend of memory_store.py: a hash per memory, a sorted set of     *)
(* their ids (`recency`) and a hash of metadata, shared by clients that    *)
(* send one command or one pipeline at a time and hold no lock.  Redis     *)
(* itself expires a hash that has a TTL and leaves its id in `recency`.    *)
(* A score is not modelled: an eviction takes any rows of the right number.*)
(* Nor is evicted_total, which nothing but stats reads.                    *)
(***************************************************************************)
EXTENDS Integers, FiniteSets, FiniteSetsExt
CONSTANTS Clients,      \* processes that use the same Redis
          Fallbacks,    \* those whose embed_text falls back to the hash embedding
          MaxRows,      \* max_rows
          Ttls,         \* ttl_seconds of the memories stored, 0 for None
          MaxStores,    \* bound: calls of store
          LastTick       \* bound: the ticks of the clock
ASSUME RedisAssumption ==
    /\ IsFiniteSet(Clients) /\ Fallbacks \subseteq Clients
    /\ MaxRows \in Nat \ {0} /\ MaxStores \in Nat \ {0} /\ LastTick \in Nat /\ Ttls \subseteq Nat

VARIABLES hash,     \* aivck:memory:{id}
          recency,  \* aivck:recency
          mode, dim,\* embedding mode and dimension in aivck:meta
          ticks,
          doing,    \* what each client is doing
          begun,    \* stores begun: the next id
          skipped   \* history: stores that wrote their row and never evicted
rvars == <<hash, recency, mode, dim, ticks, doing, begun, skipped>>

Ids == 1..MaxStores
Gone == [kind |-> "gone", expires |-> 0]
Touched == [kind |-> "touched", expires |-> 0]   \* only last_accessed_at is in the hash
Row(expires) == [kind |-> "row", expires |-> expires]
Rows == {i \in Ids : hash[i].kind = "row"}
Poisoned == {i \in recency : hash[i].kind = "touched"}
Mode(c) == IF c \in Fallbacks THEN "fallback" ELSE "model"

Quiet == [phase |-> "idle", op |-> "none", id |-> 0, ids |-> {}]
Goes(c, phase) == doing' = [doing EXCEPT ![c] = IF phase = "idle" THEN Quiet
                                              ELSE [@ EXCEPT !.phase = phase, !.ids = {}]]
Lists(c, phase, ids) == doing' = [doing EXCEPT ![c].phase = phase, ![c].ids = ids]
At(c, phase) == doing[c].phase = phase
Unswept == {"pin", "pinmode", "pindim", "size", "evict"}
Sweeping(c) == doing[c].op = "store" /\ doing[c].phase \in Unswept
Skips(c) == skipped' = skipped + (IF Sweeping(c) THEN 1 ELSE 0)
Deletes(ids) == /\ hash' = [i \in Ids |-> IF i \in ids THEN Gone ELSE hash[i]]
                /\ recency' = recency \ ids

RedisTypeOK ==
    /\ hash \in [Ids -> [kind : {"gone", "touched", "row"}, expires : Nat]]
    /\ recency \subseteq Ids
    /\ mode \in {"none", "fallback", "model"} /\ dim \in {"none", "fallback", "model"}
    /\ ticks \in 0..LastTick /\ begun \in 0..MaxStores /\ skipped \in 0..MaxStores

RedisInit ==
    /\ hash = [i \in Ids |-> Gone] /\ recency = {}
    /\ mode = "none" /\ dim = "none" /\ ticks = 0
    /\ doing = [c \in Clients |-> Quiet] /\ begun = 0 /\ skipped = 0

\* The ids a caller can have seen: those written, or never to be.
Known == {i \in 1..begun : \A c \in Clients :
             ~(doing[c].id = i /\ doing[c].op = "store" /\ doing[c].phase \notin Unswept)}

\* The calls.  Every one but forget and evict_if_over_budget purges first.
BeginStore(c) ==
    /\ At(c, "idle") /\ begun < MaxStores /\ begun' = begun + 1
    /\ doing' = [doing EXCEPT ![c] = [phase |-> "scan", op |-> "store", id |-> begun + 1, ids |-> {}]]
    /\ UNCHANGED <<hash, recency, mode, dim, ticks, skipped>>

Begins(c, phase, op, id) ==
    /\ At(c, "idle") /\ doing' = [doing EXCEPT ![c] = [phase |-> phase, op |-> op, id |-> id, ids |-> {}]]
    /\ UNCHANGED <<hash, recency, mode, dim, ticks, begun, skipped>>
BeginRetrieve(c) == \E i \in Known : Begins(c, "scan", "retrieve", i)
BeginForget(c) == \E i \in Known : Begins(c, "delete", "forget", i)
BeginSearch(c) == Begins(c, "scan", "search", 0)
BeginPurge(c) == Begins(c, "scan", "purge", 0)
BeginTrim(c) == Begins(c, "size", "trim", 0)

\* Where a call goes on after purge_expired returned.
AfterPurge(c) == CASE doing[c].op = "store" -> "write"
                   [] doing[c].op = "retrieve" -> "read"
                   [] doing[c].op = "search" -> "pin"
                   [] OTHER -> "idle"

\* The rows of `recency` that purge_expired finds past their TTL.
Due == {i \in Rows \cap recency : hash[i].expires # 0 /\ ticks >= hash[i].expires}

\* purge_expired reads every hash of `recency`.  One without ttl_seconds raises a KeyError:
\* store then answers stored and writes nothing, retrieve not found, search nothing.
\* A faulty variant; see CircuitBreaker.
ScanWithDefaults(c) ==
    LET due == Due \union Poisoned IN
    /\ At(c, "scan")
    /\ IF due = {} THEN Goes(c, AfterPurge(c)) ELSE Lists(c, "purge", due)
    /\ UNCHANGED <<hash, recency, mode, dim, ticks, begun, skipped>>
Scan(c) ==
    /\ At(c, "scan")
    /\ CASE Poisoned # {} -> Goes(c, "idle")
         [] Poisoned = {} /\ Due = {} -> Goes(c, AfterPurge(c))
         [] OTHER -> Lists(c, "purge", Due)
    /\ UNCHANGED <<hash, recency, mode, dim, ticks, begun, skipped>>

Purge(c) ==
    /\ At(c, "purge") /\ Deletes(doing[c].ids) /\ Goes(c, AfterPurge(c))
    /\ UNCHANGED <<mode, dim, ticks, begun, skipped>>

\* The pipeline hset, zadd, expire of store.
Write(c) ==
    /\ At(c, "write")
    /\ \E ttl \in Ttls :
          hash' = [hash EXCEPT ![doing[c].id] = Row(IF ttl = 0 THEN 0 ELSE ticks + ttl)]
    /\ recency' = recency \union {doing[c].id}
    /\ Goes(c, "pin") /\ UNCHANGED <<mode, dim, ticks, begun, skipped>>

\* _pin_embedding_mode: two reads, then two writes if no mode was there.  A mismatch raises,
\* in store after the row is written.
AfterPin(c) == IF doing[c].op = "store" THEN "size" ELSE "idle"
Pin(c) ==
    /\ At(c, "pin")
    /\ CASE mode = "none" -> Goes(c, "pinmode") /\ UNCHANGED skipped
         [] mode = Mode(c) /\ dim = Mode(c) -> Goes(c, AfterPin(c)) /\ UNCHANGED skipped
         [] OTHER -> Goes(c, "idle") /\ Skips(c)
    /\ UNCHANGED <<hash, recency, mode, dim, ticks, begun>>
PinMode(c) ==
    /\ At(c, "pinmode") /\ mode' = Mode(c) /\ Goes(c, "pindim")
    /\ UNCHANGED <<hash, recency, dim, ticks, begun, skipped>>
PinDim(c) ==
    /\ At(c, "pindim") /\ dim' = Mode(c) /\ Goes(c, AfterPin(c))
    /\ UNCHANGED <<hash, recency, mode, ticks, begun, skipped>>

\* _evict_if_over_budget: zcard counts every id, only rows can be evicted, and a hash
\* without importance raises a KeyError.
\* A faulty variant; see CircuitBreaker.
ExcessOffByOne == Cardinality(recency) - MaxRows - 1
Excess == Cardinality(recency) - MaxRows
Size(c) ==
    /\ At(c, "size")
    /\ \/ /\ Excess <= 0 \/ (Rows \cap recency = {} /\ Poisoned = {})
          /\ Goes(c, "idle") /\ UNCHANGED skipped
       \/ Excess > 0 /\ Poisoned # {} /\ Goes(c, "idle") /\ Skips(c)
       \/ /\ Excess > 0 /\ Poisoned = {} /\ UNCHANGED skipped
          /\ \E ids \in SUBSET (Rows \cap recency) \ {{}} :
                /\ Cardinality(ids) = Min({Excess, Cardinality(Rows \cap recency)})
                /\ Lists(c, "evict", ids)
    /\ UNCHANGED <<hash, recency, mode, dim, ticks, begun>>
Evict(c) ==
    /\ At(c, "evict") /\ Deletes(doing[c].ids) /\ Goes(c, "idle")
    /\ UNCHANGED <<mode, dim, ticks, begun, skipped>>

\* retrieve: hgetall, hset of last_accessed_at, zadd, three commands.
Read(c) ==
    /\ At(c, "read") /\ Goes(c, IF hash[doing[c].id] = Gone THEN "idle" ELSE "touch")
    /\ UNCHANGED <<hash, recency, mode, dim, ticks, begun, skipped>>
Touch(c) ==
    /\ At(c, "touch") /\ Goes(c, "rank")
    /\ hash' = [hash EXCEPT ![doing[c].id] = IF @ = Gone THEN Touched ELSE @]
    /\ UNCHANGED <<recency, mode, dim, ticks, begun, skipped>>
Rank(c) ==
    /\ At(c, "rank") /\ recency' = recency \union {doing[c].id} /\ Goes(c, "idle")
    /\ UNCHANGED <<hash, mode, dim, ticks, begun, skipped>>

\* forget: delete, then zrem.
Delete(c) ==
    /\ At(c, "delete") /\ hash' = [hash EXCEPT ![doing[c].id] = Gone] /\ Goes(c, "zrem")
    /\ UNCHANGED <<recency, mode, dim, ticks, begun, skipped>>
Zrem(c) ==
    /\ At(c, "zrem") /\ recency' = recency \ {doing[c].id} /\ Goes(c, "idle")
    /\ UNCHANGED <<hash, mode, dim, ticks, begun, skipped>>

\* The client loses Redis or dies: store's own handler covers the purge only.
Break(c) ==
    /\ ~At(c, "idle") /\ Goes(c, "idle") /\ Skips(c)
    /\ UNCHANGED <<hash, recency, mode, dim, ticks, begun>>

\* Redis expires a hash at its TTL, never later.
Vanish(i) ==
    /\ hash[i].expires # 0 /\ ticks >= hash[i].expires
    /\ hash' = [hash EXCEPT ![i] = Gone]
    /\ UNCHANGED <<recency, mode, dim, ticks, doing, begun, skipped>>
Tick ==
    /\ ticks < LastTick /\ ticks' = ticks + 1
    /\ hash' = [i \in Ids |-> IF hash[i].expires # 0 /\ hash[i].expires <= ticks THEN Gone ELSE hash[i]]
    /\ UNCHANGED <<recency, mode, dim, doing, begun, skipped>>

RedisNext ==
    \/ \E c \in Clients :
          \/ BeginStore(c) \/ BeginRetrieve(c) \/ BeginForget(c) \/ BeginSearch(c)
          \/ BeginPurge(c) \/ BeginTrim(c) \/ Scan(c) \/ Purge(c) \/ Write(c)
          \/ Pin(c) \/ PinMode(c) \/ PinDim(c) \/ Size(c) \/ Evict(c)
          \/ Read(c) \/ Touch(c) \/ Rank(c) \/ Delete(c) \/ Zrem(c) \/ Break(c)
    \/ \E i \in Ids : Vanish(i)
    \/ Tick
RedisSpec == RedisInit /\ [][RedisNext]_rvars

\* The rows never exceed max_rows by more than the stores that have written their row and
\* not evicted yet, and those that failed in between: two evictions that count at the same
\* time and pick the same rows lose nothing (_evict_if_over_budget).
RowsWithinBudget ==
    Cardinality(Rows) <= MaxRows + Cardinality({c \in Clients : Sweeping(c)}) + skipped

\* A hash that a late last_accessed_at resurrected stays, and fails every purge, until it is
\* forgotten, or removed by a purge or an eviction that had listed it while it was a row:
\* neither the TTL nor the budget ever clears it (retrieve, purge_expired).
PoisonStays ==
    [][\A i \in Poisoned :
          /\ \/ i \in Poisoned'
             \/ \E c \in Clients : i \in doing[c].ids \/ (doing[c].op = "forget" /\ doing[c].id = i)
          /\ \A c \in Clients : i \in doing'[c].ids => i \in doing[c].ids
      ]_rvars

\* Memories are evicted only while there are more than max_rows of them ("Evict lowest
\* eviction-score rows when total > max_rows").
EvictsOnlyOverBudget ==
    [][\A c \in Clients : At(c, "size") /\ doing'[c].phase = "evict" => Cardinality(Rows) > MaxRows]_rvars
=============================================================================
