------------------------- MODULE Operations_proofs --------------------------
(***************************************************************************)
(* Quotas, memories in Redis, prompt regressions, chaos experiments, rate   *)
(* limiters and baselines, for any numbers of their callers.  The parts    *)
(* share no state, so each has an invariant of its own.                    *)
(***************************************************************************)
EXTENDS Quotas, RedisMemory, PromptRegression, Chaos, RateLimiters, Baselines, Sums, TLAPS

-----------------------------------------------------------------------------
(* Quotas.  How far callers can overrun one, for any number of pairs and   *)
(* callers and any configurations: check_quota and record_usage take the   *)
(* lock apart, so the bound counts one largest call for each caller, and   *)
(* it is inductive because it sets room aside for the calls under way.     *)

Elsewhere(p) == {c \in Callers : call[c] # p}
Had == [tokens: Nat \ {0}, cost: Nat \ {0}, passed: BOOLEAN]

LEMMA Limits ==
    MaxCharge \in Nat /\ MaxCost \in Nat /\ MaxSpent \in Nat /\ Day \in Nat /\ Month \in Nat
BY QuotaAssumption

LEMMA AtZero == 0 \in 0..(Day + 1) /\ 0 \in 0..(Month + 1)
BY Limits

-----------------------------------------------------------------------------
(* What the operations do to one pair's usage.                             *)

LEMMA DayResetLowers ==
    ASSUME NEW u \in Usage
    PROVE  /\ DayReset(u) \in Usage
           /\ DayReset(u).tokens <= u.tokens
           /\ (DayReset(u).tokens < u.tokens => u.day > Day)
           /\ DayReset(u).cost = u.cost
           /\ DayReset(u).month = u.month
<1>1. CASE u.day > Day
  <2>1. DayReset(u) = [tokens |-> 0, cost |-> u.cost, burst |-> 0, day |-> 0, month |-> u.month]
    BY <1>1, Zenon DEF DayReset, Usage
  <2> QED
    BY <1>1, <2>1, AtZero DEF Usage
<1>2. CASE ~(u.day > Day)
  BY <1>2 DEF DayReset, Usage
<1> QED
  BY <1>1, <1>2

LEMMA MonthResetLowers ==
    ASSUME NEW u \in Usage
    PROVE  /\ MonthReset(u) \in Usage
           /\ MonthReset(u).cost <= u.cost
           /\ (MonthReset(u).cost < u.cost => u.month > Month)
           /\ (u.month > Month => MonthReset(u).cost = 0)
           /\ MonthReset(u).tokens = u.tokens
<1>1. CASE u.month > Month
  <2>1. MonthReset(u) = [tokens |-> u.tokens, cost |-> 0, burst |-> u.burst, day |-> u.day,
                         month |-> 0]
    BY <1>1, Zenon DEF MonthReset, Usage
  <2> QED
    BY <1>1, <2>1, AtZero DEF Usage
<1>2. CASE ~(u.month > Month)
  BY <1>2 DEF MonthReset, Usage
<1> QED
  BY <1>1, <1>2

LEMMA FreshLowers ==
    ASSUME NEW u \in Usage
    PROVE  /\ Fresh(u) \in Usage
           /\ Fresh(u).tokens <= u.tokens /\ (Fresh(u).tokens < u.tokens => u.day > Day)
           /\ Fresh(u).cost <= u.cost /\ (Fresh(u).cost < u.cost => u.month > Month)
           /\ (u.month > Month => Fresh(u).cost = 0)
BY DayResetLowers, MonthResetLowers DEF Fresh

LEMMA ChargedRaises ==
    ASSUME NEW u \in Usage, NEW n \in Nat, NEW k \in Nat
    PROVE  /\ Charged(u, n, k) \in Usage
           /\ Charged(u, n, k).tokens = u.tokens + n
           /\ Charged(u, n, k).cost = u.cost + k
<1>1. u.tokens + n \in Nat /\ u.cost + k \in Nat
  BY DEF Usage
<1> QED
  BY <1>1 DEF Charged, Usage

-----------------------------------------------------------------------------
(* The room set aside for the calls that are not under way.                *)

Allowed(u, h, k) ==
    /\ u.tokens < h.tokens + k * MaxCharge
    /\ ~h.passed => u.cost < h.cost + k * MaxCost

LEMMA ElsewhereFinite ==
    ASSUME NEW p \in Pairs
    PROVE  IsFiniteSet(Elsewhere(p)) /\ Cardinality(Elsewhere(p)) \in Nat
BY QuotaAssumption, FS_Subset, FS_CardinalityType DEF Elsewhere

LEMMA Room ==
    ASSUME NEW k \in Nat
    PROVE  /\ k * MaxCharge \in Nat /\ k * MaxCost \in Nat
           /\ (k + 1) * MaxCharge = k * MaxCharge + MaxCharge
           /\ (k + 1) * MaxCost = k * MaxCost + MaxCost
BY Limits

LEMMA WithinIsAllowed ==
    ASSUME NEW u \in Usage, NEW h \in Had, NEW k \in Nat,
           u.tokens < h.tokens, ~h.passed => u.cost < h.cost
    PROVE  Allowed(u, h, k)
<1> DEFINE a == k * MaxCharge
           b == k * MaxCost
<1>1. a \in Nat /\ b \in Nat
  BY Room
<1> HIDE DEF a, b
<1>2. u.tokens < h.tokens + a /\ (~h.passed => u.cost < h.cost + b)
  BY <1>1 DEF Usage, Had
<1> QED
  BY <1>2 DEF Allowed, a, b

LEMMA LowerIsAllowed ==
    ASSUME NEW u \in Usage, NEW v \in Usage, NEW h \in Had, NEW g \in Had, NEW k \in Nat,
           Allowed(u, h, k),
           v.tokens <= u.tokens, v.cost <= u.cost,
           h.tokens <= g.tokens, h.cost <= g.cost, h.passed => g.passed
    PROVE  Allowed(v, g, k)
<1> DEFINE a == k * MaxCharge
           b == k * MaxCost
<1>1. a \in Nat /\ b \in Nat
  BY Room
<1>2. u.tokens < h.tokens + a /\ (~h.passed => u.cost < h.cost + b)
  BY DEF Allowed
<1> HIDE DEF a, b
<1>3. v.tokens < g.tokens + a /\ (~g.passed => v.cost < g.cost + b)
  BY <1>1, <1>2 DEF Usage, Had
<1> QED
  BY <1>3 DEF Allowed, a, b

(* A new month begins with no cost, and with nobody having passed it by.   *)
LEMMA FreshIsAllowed ==
    ASSUME NEW u \in Usage, NEW h \in Had, NEW g \in Had, NEW k \in Nat, Allowed(u, h, k),
           g.tokens = h.tokens, g.cost = h.cost,
           h.passed /\ u.month <= Month => g.passed
    PROVE  Allowed(Fresh(u), g, k)
<1>1. CASE u.month <= Month
  BY <1>1, FreshLowers, LowerIsAllowed DEF Usage, Had
<1>2. CASE ~(u.month <= Month)
  <2> DEFINE v == Fresh(u)
             a == k * MaxCharge
  <2>1. v \in Usage /\ v.tokens <= u.tokens /\ v.cost = 0
    BY <1>2, FreshLowers, Limits DEF Usage
  <2>2. a \in Nat /\ k * MaxCost \in Nat
    BY Room
  <2>3. u.tokens < h.tokens + a
    BY DEF Allowed
  <2> HIDE DEF v, a
  <2>4. v.tokens < g.tokens + a
    BY <2>1, <2>2, <2>3 DEF Usage, Had
  <2>5. v.cost < g.cost + k * MaxCost
    BY <2>1, <2>2 DEF Had
  <2> QED
    BY <2>4, <2>5 DEF Allowed, v, a
<1> QED
  BY <1>1, <1>2

LEMMA ChargeIsAllowed ==
    ASSUME NEW u \in Usage, NEW v \in Usage, NEW h \in Had, NEW j \in Nat, Allowed(u, h, j),
           NEW n \in 0..MaxCharge, NEW k \in 0..MaxCost,
           v.tokens = u.tokens + n, v.cost = u.cost + k
    PROVE  Allowed(v, h, j + 1)
<1> DEFINE a == j * MaxCharge
           b == j * MaxCost
<1>1. /\ a \in Nat /\ b \in Nat
      /\ (j + 1) * MaxCharge = a + MaxCharge /\ (j + 1) * MaxCost = b + MaxCost
  BY Room
<1>2. u.tokens < h.tokens + a /\ (~h.passed => u.cost < h.cost + b)
  BY DEF Allowed
<1> HIDE DEF a, b
<1>3. v.tokens < h.tokens + (a + MaxCharge) /\ (~h.passed => v.cost < h.cost + (b + MaxCost))
  BY <1>1, <1>2, Limits DEF Usage, Had
<1> QED
  BY <1>1, <1>3 DEF Allowed

-----------------------------------------------------------------------------
(* A pair has room for the calls under way, and had what limits it now.    *)
PairOK(p) ==
    config[p] # None =>
        /\ Allowed(usage[p], had[p], Cardinality(Elsewhere(p)))
        /\ config[p].tokens <= had[p].tokens /\ config[p].cost <= had[p].cost
QInv == QuotaTypeOK /\ \A p \in Pairs : PairOK(p)

LEMMA InitQInv == QuotaInit => QInv
<1> SUFFICES ASSUME QuotaInit
             PROVE  QInv
  OBVIOUS
<1>1. NothingHad \in Had
  BY DEF NothingHad, Had
<1>2. QuotaTypeOK
  BY <1>1 DEF QuotaInit, QuotaTypeOK, Had
<1>3. \A p \in Pairs : config[p] = None
  BY DEF QuotaInit
<1> QED
  BY <1>2, <1>3 DEF QInv, PairOK

LEMMA QInvTypes ==
    ASSUME QInv, NEW p \in Pairs
    PROVE  /\ had[p] \in Had
           /\ config[p] # None =>
                 /\ usage[p] \in Usage /\ config[p] \in Configs
                 /\ config[p].tokens \in Nat /\ config[p].cost \in Nat /\ config[p].price \in Nat
BY QuotaAssumption DEF QInv, QuotaTypeOK, Had

(* A step that concerns one pair and a call of it.                         *)
LEMMA OthersStay ==
    ASSUME QInv, NEW p \in Pairs, QuotaTypeOK', PairOK(p)',
           \A q \in Pairs \ {p} :
               /\ config'[q] = config[q] /\ usage'[q] = usage[q] /\ had'[q] = had[q]
               /\ Elsewhere(q)' = Elsewhere(q)
    PROVE  QInv'
BY DEF QInv, PairOK

LEMMA HadFields ==
    ASSUME NEW h \in Had, NEW b
    PROVE  [h EXCEPT !.passed = b] = [tokens |-> h.tokens, cost |-> h.cost, passed |-> b]
<1>1. h = [tokens |-> h.tokens, cost |-> h.cost, passed |-> h.passed]
  BY DEF Had
<1> QED
  BY <1>1

LEMMA PassesOnly ==
    ASSUME QInv, NEW p \in Pairs, NEW b \in BOOLEAN, Passes(p, b)
    PROVE  /\ had' \in [Pairs -> Had]
           /\ had'[p].tokens = had[p].tokens /\ had'[p].cost = had[p].cost
           /\ had'[p].passed = b
           /\ \A q \in Pairs \ {p} : had'[q] = had[q]
<1> DEFINE h == [had[p] EXCEPT !.passed = b]
<1>1. had \in [Pairs -> Had] /\ had[p] \in Had
  BY DEF QInv, QuotaTypeOK, Had
<1>2. had' = [had EXCEPT ![p] = h]
  BY Zenon DEF Passes
<1>3. h = [tokens |-> had[p].tokens, cost |-> had[p].cost, passed |-> b]
  BY <1>1, HadFields
<1>4. h \in Had /\ h.tokens = had[p].tokens /\ h.cost = had[p].cost /\ h.passed = b
  BY <1>1, <1>3 DEF Had
<1> HIDE DEF h
<1>5. had'[p] = h /\ (\A q \in Pairs \ {p} : had'[q] = had[q]) /\ had' \in [Pairs -> Had]
  BY <1>1, <1>2, <1>4
<1> QED
  BY <1>4, <1>5

LEMMA RefreshOnly ==
    ASSUME QInv, NEW p \in Pairs, Refresh(p)
    PROVE  /\ config' = config /\ config[p] # None
           /\ usage' \in [Pairs -> Usage \union {None}]
           /\ usage'[p] = Fresh(usage[p]) /\ usage[p] \in Usage /\ usage'[p] \in Usage
           /\ \A q \in Pairs \ {p} : usage'[q] = usage[q]
<1>1. config' = config /\ config[p] # None /\ usage' = [usage EXCEPT ![p] = Fresh(@)]
  BY DEF Refresh
<1>2. usage[p] \in Usage /\ Fresh(usage[p]) \in Usage
  BY <1>1, QInvTypes, FreshLowers
<1> QED
  BY <1>1, <1>2 DEF QInv, QuotaTypeOK

(* A pair that is looked at, and lets nobody in.                           *)
LEMMA RefreshedQInv ==
    ASSUME QInv, NEW p \in Pairs, Refresh(p), Passes(p, PassedBy(p)), UNCHANGED call
    PROVE  QInv'
<1>1. PassedBy(p) \in BOOLEAN
  BY DEF PassedBy, QInv, QuotaTypeOK
<1>2. QuotaTypeOK'
  BY <1>1, PassesOnly, RefreshOnly DEF QInv, QuotaTypeOK, Had
<1>3. \A q \in Pairs : Elsewhere(q)' = Elsewhere(q)
  BY DEF Elsewhere
<1>4. PairOK(p)'
  <2>1. Allowed(usage[p], had[p], Cardinality(Elsewhere(p)))
    BY RefreshOnly DEF QInv, PairOK
  <2>2. had'[p] \in Had /\ had[p] \in Had /\ had'[p].passed = PassedBy(p)
        /\ had'[p].tokens = had[p].tokens /\ had'[p].cost = had[p].cost
    BY <1>1, PassesOnly, QInvTypes
  <2>3. had[p].passed /\ usage[p].month <= Month => had'[p].passed
    BY <2>2 DEF PassedBy
  <2>4. Allowed(Fresh(usage[p]), had'[p], Cardinality(Elsewhere(p)))
    BY <2>1, <2>2, <2>3, RefreshOnly, ElsewhereFinite, FreshIsAllowed
  <2> QED
    BY <1>3, <2>2, <2>4, RefreshOnly DEF QInv, PairOK
<1> QED
  BY <1>1, <1>2, <1>3, <1>4, OthersStay, PassesOnly, RefreshOnly

(* A caller let through changes only the room of its pair.                 *)
LEMMA LetThrough ==
    ASSUME QInv, NEW c \in Callers, NEW p \in Pairs,
           call[c] = None, call' = [call EXCEPT ![c] = p]
    PROVE  /\ call' \in [Callers -> Pairs \union {None}]
           /\ \A q \in Pairs \ {p} : Elsewhere(q)' = Elsewhere(q)
           /\ Cardinality(Elsewhere(p)') \in Nat
<1>1. Cardinality(Elsewhere(p)') \in Nat
  BY QuotaAssumption, FS_Subset, FS_CardinalityType DEF Elsewhere
<1> QED
  BY <1>1, QuotaAssumption DEF QInv, QuotaTypeOK, Elsewhere

(* ... and may be let through where nothing that the pair had is spent, or *)
(* only what an allocation passes by.                                      *)
LEMMA EnteredQInv ==
    ASSUME QInv, NEW c \in Callers, NEW p \in Pairs, NEW b \in BOOLEAN,
           Refresh(p), Passes(p, b), call[c] = None, call' = [call EXCEPT ![c] = p],
           usage'[p].tokens < config[p].tokens,
           ~b => usage'[p].cost < config[p].cost
    PROVE  QInv'
<1>1. QuotaTypeOK'
  BY LetThrough, PassesOnly, RefreshOnly DEF QInv, QuotaTypeOK, Had
<1>2. PairOK(p)'
  <2>1. /\ had'[p] \in Had /\ had[p] \in Had /\ had'[p].passed = b
        /\ had'[p].tokens = had[p].tokens /\ had'[p].cost = had[p].cost
    BY PassesOnly, QInvTypes
  <2>2. /\ config[p].tokens <= had[p].tokens /\ config[p].cost <= had[p].cost
        /\ config[p].tokens \in Nat /\ config[p].cost \in Nat
    BY RefreshOnly, QInvTypes DEF QInv, PairOK
  <2>3. usage'[p] \in Usage
    BY RefreshOnly
  <2>4. usage'[p].tokens < had'[p].tokens /\ (~had'[p].passed => usage'[p].cost < had'[p].cost)
    BY <2>1, <2>2, <2>3 DEF Usage, Had
  <2>5. Allowed(usage'[p], had'[p], Cardinality(Elsewhere(p)'))
    BY <2>1, <2>3, <2>4, LetThrough, WithinIsAllowed
  <2> QED
    BY <2>1, <2>2, <2>5, RefreshOnly DEF PairOK
<1> QED
  BY <1>1, <1>2, LetThrough, OthersStay, PassesOnly, RefreshOnly

LEMMA UnlimitedQInv ==
    ASSUME QInv, NEW c \in Callers, NEW p \in Pairs, Unlimited(c, p)
    PROVE  QInv'
<1>1. /\ config[p] = None /\ call[c] = None /\ call' = [call EXCEPT ![c] = p]
      /\ config' = config /\ usage' = usage /\ had' = had
  BY DEF Unlimited
<1>2. QuotaTypeOK' /\ PairOK(p)'
  BY <1>1, LetThrough DEF QInv, QuotaTypeOK, PairOK
<1> QED
  BY <1>1, <1>2, LetThrough, OthersStay

LEMMA CheckQuotaQInv ==
    ASSUME QInv, NEW c \in Callers, NEW p \in Pairs, CheckQuota(c, p)
    PROVE  QInv'
<1>1. call[c] = None /\ Refresh(p) /\ Passes(p, PassedBy(p)) /\ PassedBy(p) \in BOOLEAN
  BY DEF CheckQuota, PassedBy, QInv, QuotaTypeOK
<1>2. CASE Exceeded(usage'[p], config[p])
  BY <1>1, <1>2, RefreshedQInv DEF CheckQuota
<1>3. CASE ~Exceeded(usage'[p], config[p])
  <2>1. usage'[p].tokens < config[p].tokens /\ usage'[p].cost < config[p].cost
    BY <1>1, <1>3, RefreshOnly, QInvTypes DEF Exceeded, Usage
  <2>2. call' = [call EXCEPT ![c] = p]
    BY <1>3 DEF CheckQuota
  <2> QED
    BY <1>1, <2>1, <2>2, EnteredQInv
<1> QED
  BY <1>2, <1>3

LEMMA AllocateQInv ==
    ASSUME QInv, NEW c \in Callers, NEW p \in Pairs, Allocate(c, p)
    PROVE  QInv'
<1>1. call[c] = None /\ Refresh(p) /\ PassedBy(p) \in BOOLEAN
  BY DEF Allocate, PassedBy, QInv, QuotaTypeOK
<1>2. CASE Passes(p, PassedBy(p)) /\ UNCHANGED call
  BY <1>1, <1>2, RefreshedQInv
<1>3. CASE /\ Allocatable(usage'[p], config[p])
           /\ call' = [call EXCEPT ![c] = p]
           /\ Passes(p, PassedBy(p) \/ usage'[p].cost >= config[p].cost)
  <2> DEFINE b == PassedBy(p) \/ usage'[p].cost >= config[p].cost
  <2>1. b \in BOOLEAN /\ usage'[p].tokens < config[p].tokens
    BY <1>3 DEF Allocatable
  <2>2. ~b => usage'[p].cost < config[p].cost
    BY <1>1, RefreshOnly, QInvTypes DEF Usage
  <2>3. Passes(p, b)
    BY <1>3
  <2> HIDE DEF b
  <2> QED
    BY <1>1, <1>3, <2>1, <2>2, <2>3, EnteredQInv
<1> QED
  BY <1>2, <1>3 DEF Allocate

(* A call recorded: its charge fits in the room its pair kept for it.      *)
LEMMA RecordUsageQInv ==
    ASSUME QInv, NEW c \in Callers, NEW p \in Pairs, NEW n \in 0..MaxCharge, NEW k \in 0..MaxCost,
           RecordUsage(c, p, n, k)
    PROVE  QInv'
<1>1. call[c] = p /\ call' = [call EXCEPT ![c] = None] /\ config' = config
  BY DEF RecordUsage
<1>2. call' \in [Callers -> Pairs \union {None}]
  BY <1>1 DEF QInv, QuotaTypeOK
<1>3. \A q \in Pairs \ {p} : Elsewhere(q)' = Elsewhere(q)
  BY <1>1, QuotaAssumption DEF Elsewhere, QInv, QuotaTypeOK
<1>4. Cardinality(Elsewhere(p)') = Cardinality(Elsewhere(p)) + 1
  <2>0. \A d \in Callers : call'[d] # p <=> d = c \/ call[d] # p
    BY <1>1, QuotaAssumption DEF QInv, QuotaTypeOK
  <2>1. Elsewhere(p)' = Elsewhere(p) \union {c} /\ c \notin Elsewhere(p)
    BY <1>1, <2>0 DEF Elsewhere
  <2> QED
    BY <2>1, ElsewhereFinite, FS_AddElement
<1>5. CASE config[p] = None /\ UNCHANGED <<usage, had>>
  <2>1. QuotaTypeOK' /\ PairOK(p)'
    BY <1>1, <1>2, <1>5 DEF QInv, QuotaTypeOK, PairOK
  <2> QED
    BY <1>1, <1>3, <1>5, <2>1, OthersStay
<1>6. CASE /\ config[p] # None
           /\ usage' = [usage EXCEPT ![p] = Charged(Fresh(@), n, k)]
           /\ Passes(p, PassedBy(p))
  <2> DEFINE u == Fresh(usage[p])
             v == Charged(u, n, k)
             j == Cardinality(Elsewhere(p))
  <2>1. usage[p] \in Usage /\ Allowed(usage[p], had[p], j) /\ j \in Nat /\ n \in Nat /\ k \in Nat
    BY <1>6, QInvTypes, ElsewhereFinite, Limits DEF QInv, PairOK
  <2>2. /\ PassedBy(p) \in BOOLEAN /\ had' \in [Pairs -> Had] /\ had[p] \in Had
        /\ had'[p].tokens = had[p].tokens /\ had'[p].cost = had[p].cost
        /\ had'[p].passed = PassedBy(p)
        /\ \A q \in Pairs \ {p} : had'[q] = had[q]
    <3>1. PassedBy(p) \in BOOLEAN
      BY DEF PassedBy, QInv, QuotaTypeOK
    <3> QED
      BY <1>6, <3>1, PassesOnly, QInvTypes
  <2>3. had[p].passed /\ usage[p].month <= Month => had'[p].passed
    BY <2>2 DEF PassedBy
  <2>4. u \in Usage /\ Allowed(u, had'[p], j)
    BY <2>1, <2>2, <2>3, FreshLowers, FreshIsAllowed
  <2>5. usage' = [usage EXCEPT ![p] = v]
    BY <1>6
  <2> HIDE DEF u, j
  <2>6. v \in Usage /\ v.tokens = u.tokens + n /\ v.cost = u.cost + k
    BY <2>1, <2>4, ChargedRaises
  <2> HIDE DEF v
  <2>7. Allowed(v, had'[p], j + 1)
    BY <2>1, <2>2, <2>4, <2>6, ChargeIsAllowed
  <2>8. Cardinality(Elsewhere(p)') = j + 1
    BY <1>4 DEF j
  <2>9. usage'[p] = v /\ (\A q \in Pairs \ {p} : usage'[q] = usage[q])
        /\ usage' \in [Pairs -> Usage \union {None}]
    BY <2>5, <2>6 DEF QInv, QuotaTypeOK
  <2>10. QuotaTypeOK'
    BY <1>1, <1>2, <2>2, <2>6, <2>9 DEF QInv, QuotaTypeOK, Had
  <2>11. PairOK(p)'
    BY <1>1, <1>6, <2>2, <2>7, <2>8, <2>9 DEF QInv, PairOK
  <2> QED
    BY <1>1, <1>3, <2>2, <2>9, <2>10, <2>11, OthersStay
<1> QED
  BY <1>5, <1>6 DEF RecordUsage

LEMMA AllocateBurstQInv ==
    ASSUME QInv, NEW p \in Pairs, AllocateBurst(p)
    PROVE  QInv'
<1> DEFINE u == DayReset(usage[p])
           v == IF u.burst < config[p].burst THEN [u EXCEPT !.burst = @ + 1] ELSE u
<1>1. /\ usage' = [usage EXCEPT ![p] = v] /\ config[p] # None
      /\ config' = config /\ call' = call /\ had' = had
  BY DEF AllocateBurst
<1>2. usage[p] \in Usage /\ u \in Usage /\ u.tokens <= usage[p].tokens /\ u.cost <= usage[p].cost
  BY <1>1, QInvTypes, DayResetLowers DEF Usage
<1> HIDE DEF u
<1>3. v \in Usage /\ v.tokens = u.tokens /\ v.cost = u.cost
  BY <1>2 DEF Usage
<1> HIDE DEF v
<1>4. usage'[p] = v /\ (\A q \in Pairs \ {p} : usage'[q] = usage[q])
      /\ usage' \in [Pairs -> Usage \union {None}]
  BY <1>1, <1>3 DEF QInv, QuotaTypeOK
<1>5. Elsewhere(p)' = Elsewhere(p) /\ \A q \in Pairs : Elsewhere(q)' = Elsewhere(q)
  BY <1>1 DEF Elsewhere
<1>6. QuotaTypeOK'
  BY <1>1, <1>3, <1>4 DEF QInv, QuotaTypeOK
<1>7. PairOK(p)'
  <2>1. Allowed(usage[p], had[p], Cardinality(Elsewhere(p))) /\ had[p] \in Had
    BY <1>1, QInvTypes DEF QInv, PairOK
  <2>2. had[p].tokens <= had[p].tokens /\ had[p].cost <= had[p].cost
    BY <2>1 DEF Had
  <2>3. v.tokens <= usage[p].tokens /\ v.cost <= usage[p].cost
    BY <1>2, <1>3
  <2>4. Allowed(v, had[p], Cardinality(Elsewhere(p)))
    BY <1>2, <1>3, <2>1, <2>2, <2>3, ElsewhereFinite, LowerIsAllowed
  <2> QED
    BY <1>1, <1>4, <1>5, <2>4 DEF QInv, PairOK
<1> QED
  BY <1>1, <1>4, <1>5, <1>6, <1>7, OthersStay

LEMMA AddQuotaQInv ==
    ASSUME QInv, NEW p \in Pairs, NEW cfg \in Configs, AddQuota(p, cfg)
    PROVE  QInv'
<1>1. /\ config' = [config EXCEPT ![p] = cfg] /\ call' = call
      /\ usage' = [usage EXCEPT ![p] = IF config[p] = None THEN NewUsage ELSE @]
  BY DEF AddQuota
<1>2. cfg.tokens \in Nat /\ cfg.cost \in Nat /\ cfg # None
  BY QuotaAssumption
<1>3. ASSUME NEW a \in Nat \ {0}, NEW b \in Nat
      PROVE  Max({a, b}) \in Nat \ {0} /\ Max({a, b}) >= a /\ Max({a, b}) >= b
  <2>1. \E x \in {a, b} : \A y \in {a, b} : x >= y
    OBVIOUS
  <2>2. Max({a, b}) \in {a, b} /\ \A y \in {a, b} : Max({a, b}) >= y
    BY <2>1 DEF Max
  <2> QED
    BY <2>2
<1> DEFINE t == Max({had[p].tokens, cfg.tokens})
           k == Max({had[p].cost, cfg.cost})
           h == [tokens |-> t, cost |-> k, passed |-> had[p].passed]
<1>4. had \in [Pairs -> Had] /\ had[p] \in Had
  BY DEF QInv, QuotaTypeOK, Had
<1>5. /\ t \in Nat \ {0} /\ t >= had[p].tokens /\ t >= cfg.tokens
      /\ k \in Nat \ {0} /\ k >= had[p].cost /\ k >= cfg.cost
  BY <1>2, <1>3, <1>4 DEF Had
<1>6. had' = [had EXCEPT ![p] = h]
  BY <1>4 DEF AddQuota
<1> HIDE DEF t, k
<1>7. h \in Had /\ h.tokens = t /\ h.cost = k /\ h.passed = had[p].passed
  BY <1>4, <1>5 DEF Had
<1> HIDE DEF h
<1>8. had'[p] = h /\ had' \in [Pairs -> Had] /\ \A q \in Pairs \ {p} : had'[q] = had[q]
  BY <1>4, <1>6, <1>7
<1>9. NewUsage \in Usage /\ NewUsage.tokens = 0 /\ NewUsage.cost = 0
  BY AtZero DEF NewUsage, Usage
<1>10. /\ config'[p] = cfg /\ config' \in [Pairs -> Configs \union {None}]
       /\ usage'[p] = IF config[p] = None THEN NewUsage ELSE usage[p]
       /\ usage'[p] \in Usage /\ usage' \in [Pairs -> Usage \union {None}]
       /\ \A q \in Pairs \ {p} : config'[q] = config[q] /\ usage'[q] = usage[q]
  BY <1>1, <1>9, QInvTypes DEF QInv, QuotaTypeOK
<1>11. QuotaTypeOK'
  BY <1>1, <1>8, <1>10 DEF QInv, QuotaTypeOK, Had
<1>12. \A q \in Pairs : Elsewhere(q)' = Elsewhere(q)
  BY <1>1 DEF Elsewhere
<1>13. Allowed(usage'[p], h, Cardinality(Elsewhere(p)))
  <2>1. CASE config[p] = None
    <3>1. usage'[p] = NewUsage
      BY <1>10, <2>1
    <3>2. NewUsage.tokens < h.tokens /\ NewUsage.cost < h.cost
      BY <1>7, <1>9 DEF Had
    <3> QED
      BY <1>7, <1>9, <3>1, <3>2, ElsewhereFinite, WithinIsAllowed
  <2>2. CASE config[p] # None
    <3>1. usage'[p] = usage[p] /\ usage[p] \in Usage
      BY <1>10, <2>2
    <3>2. Allowed(usage[p], had[p], Cardinality(Elsewhere(p)))
      BY <2>2 DEF QInv, PairOK
    <3>3. usage[p].tokens <= usage[p].tokens /\ usage[p].cost <= usage[p].cost
      BY <3>1 DEF Usage
    <3>4. had[p].tokens <= h.tokens /\ had[p].cost <= h.cost
      BY <1>4, <1>5, <1>7 DEF Had
    <3> QED
      BY <1>4, <1>7, <3>1, <3>2, <3>3, <3>4, ElsewhereFinite, LowerIsAllowed
  <2> QED
    BY <2>1, <2>2
<1>14. cfg.tokens <= h.tokens /\ cfg.cost <= h.cost
  BY <1>2, <1>5, <1>7
<1>15. PairOK(p)'
  BY <1>8, <1>10, <1>12, <1>13, <1>14 DEF PairOK
<1> QED
  BY <1>8, <1>10, <1>11, <1>12, <1>15, OthersStay

LEMMA RemoveQuotaQInv ==
    ASSUME QInv, NEW p \in Pairs, RemoveQuota(p)
    PROVE  QInv'
<1>1. NothingHad \in Had
  BY DEF NothingHad, Had
<1>2. QuotaTypeOK' /\ PairOK(p)'
  BY <1>1 DEF RemoveQuota, QInv, QuotaTypeOK, PairOK, Had
<1>3. \A q \in Pairs \ {p} : /\ config'[q] = config[q] /\ usage'[q] = usage[q] /\ had'[q] = had[q]
                             /\ Elsewhere(q)' = Elsewhere(q)
  BY DEF RemoveQuota, QInv, QuotaTypeOK, Elsewhere
<1> QED
  BY <1>2, <1>3, OthersStay

LEMMA TickedKeeps ==
    ASSUME NEW u \in Usage
    PROVE  Ticked(u) \in Usage /\ Ticked(u).tokens = u.tokens /\ Ticked(u).cost = u.cost
<1>1. ASSUME NEW a \in Nat, NEW b \in 0..(a + 1)
      PROVE  Min({a + 1, b + 1}) \in 0..(a + 1)
  <2>1. \E x \in {a + 1, b + 1} : \A y \in {a + 1, b + 1} : x <= y
    OBVIOUS
  <2>2. Min({a + 1, b + 1}) \in {a + 1, b + 1}
        /\ \A y \in {a + 1, b + 1} : Min({a + 1, b + 1}) <= y
    BY <2>1 DEF Min
  <2> QED
    BY <2>2
<1>2. Min({Day + 1, u.day + 1}) \in 0..(Day + 1) /\ Min({Month + 1, u.month + 1}) \in 0..(Month + 1)
  BY <1>1, Limits DEF Usage
<1> QED
  BY <1>2 DEF Ticked, Usage

LEMMA QuotaTickQInv ==
    ASSUME QInv, QuotaTick
    PROVE  QInv'
<1>1. /\ usage' = [p \in Pairs |-> IF config[p] = None THEN None ELSE Ticked(usage[p])]
      /\ config' = config /\ call' = call /\ had' = had
  BY DEF QuotaTick
<1>2. \A p \in Pairs : config[p] # None => usage[p] \in Usage /\ Ticked(usage[p]) \in Usage
  BY QInvTypes, TickedKeeps
<1>3. QuotaTypeOK'
  BY <1>1, <1>2 DEF QInv, QuotaTypeOK
<1>4. ASSUME NEW p \in Pairs
      PROVE  PairOK(p)'
  <2>1. SUFFICES ASSUME config[p] # None
                 PROVE  Allowed(usage'[p], had[p], Cardinality(Elsewhere(p)))
    BY <1>1 DEF QInv, PairOK, Elsewhere
  <2>2. usage'[p] = Ticked(usage[p]) /\ usage[p] \in Usage /\ had[p] \in Had
    BY <1>1, <1>2, <2>1, QInvTypes
  <2>3. /\ usage'[p] \in Usage /\ usage'[p].tokens <= usage[p].tokens
        /\ usage'[p].cost <= usage[p].cost
    BY <2>2, TickedKeeps DEF Usage
  <2>4. had[p].tokens <= had[p].tokens /\ had[p].cost <= had[p].cost
    BY <2>2 DEF Had
  <2> QED
    BY <2>1, <2>2, <2>3, <2>4, ElsewhereFinite, LowerIsAllowed DEF QInv, PairOK
<1> QED
  BY <1>3, <1>4 DEF QInv

LEMMA NextQInv ==
    ASSUME QInv, [QuotaNext]_qvars
    PROVE  QInv'
<1>1. CASE UNCHANGED qvars
  BY <1>1 DEF qvars, QInv, QuotaTypeOK, PairOK, Elsewhere
<1>2. ASSUME NEW p \in Pairs, GetUsage(p)
      PROVE  QInv'
  BY <1>2, RefreshedQInv DEF GetUsage
<1> QED
  BY <1>1, <1>2, AddQuotaQInv, RemoveQuotaQInv, UnlimitedQInv, CheckQuotaQInv, AllocateQInv,
     RecordUsageQInv, AllocateBurstQInv, QuotaTickQInv DEF QuotaNext

(* A pair is over its quota by what its callers under way may take at most *)
(* (check_quota, record_usage).                                            *)
THEOREM QInvAlways == QuotaSpec => []QInv
<1>1. QInv /\ [QuotaNext]_qvars => QInv'
  BY NextQInv
<1> QED
  BY InitQInv, <1>1, PTL DEF QuotaSpec

(* Usage and calls have their types: no counter of a pair goes below zero, *)
(* whatever is reset, and a day or month passed by is found out by the     *)
(* next method called (_get_day_reset, _get_month_reset).                  *)
THEOREM QuotaTypeCorrect == QuotaSpec => []QuotaTypeOK
<1>1. QInv => QuotaTypeOK
  BY DEF QInv
<1> QED
  BY QInvAlways, <1>1, PTL

(* However many callers pass the check at once, and whatever is configured *)
(* meanwhile, a pair exceeds the limits it had by no more than one largest *)
(* call each; its cost, unless an allocation without a price let a caller  *)
(* pass by what the month had spent (check_quota, record_usage,            *)
(* cost_aware_allocation).                                                 *)
THEOREM OverrunAlwaysBounded == QuotaSpec => []OverrunBounded
<1>1. QInv => OverrunBounded
  BY DEF QInv, PairOK, OverrunBounded, Allowed, Elsewhere
<1> QED
  BY QInvAlways, <1>1, PTL

-----------------------------------------------------------------------------
(* Only a reset lets a pair's tokens, or its cost, fall.                   *)
Falls(u, v) ==
    /\ (v.tokens < u.tokens => u.day > Day)
    /\ (v.cost < u.cost => u.month > Month)

LEMMA NextFalls ==
    ASSUME QInv, [QuotaNext]_qvars, NEW p \in Pairs, config[p] # None, config'[p] # None
    PROVE  /\ usage[p] \in Usage /\ usage'[p] \in Usage /\ Falls(usage[p], usage'[p])
           /\ config[p] \in Configs /\ config'[p] \in Configs
<1>1. /\ usage[p] \in Usage /\ usage'[p] \in Usage
      /\ config[p] \in Configs /\ config'[p] \in Configs
  BY NextQInv DEF QInv, QuotaTypeOK
<1>2. CASE usage'[p] = usage[p]
  BY <1>1, <1>2 DEF Falls, Usage
<1>3. CASE usage'[p] = Fresh(usage[p])
  BY <1>1, <1>3, FreshLowers DEF Falls
<1>4. CASE \E c \in Callers, q \in Pairs, n \in 0..MaxCharge, k \in 0..MaxCost :
              RecordUsage(c, q, n, k)
  <2>1. PICK c \in Callers, q \in Pairs, n \in 0..MaxCharge, k \in 0..MaxCost :
                RecordUsage(c, q, n, k)
    BY <1>4
  <2>2. usage'[p] = usage[p] \/ usage'[p] = Charged(Fresh(usage[p]), n, k)
    BY <2>1 DEF RecordUsage, QInv, QuotaTypeOK
  <2>3. CASE usage'[p] = Charged(Fresh(usage[p]), n, k)
    <3> DEFINE u == Fresh(usage[p])
    <3>1. u \in Usage /\ Falls(usage[p], u) /\ n \in Nat /\ k \in Nat
      BY <1>1, FreshLowers, Limits DEF Falls
    <3>2. usage'[p] = Charged(u, n, k)
      BY <2>3
    <3> HIDE DEF u
    <3>3. usage'[p].tokens = u.tokens + n /\ usage'[p].cost = u.cost + k
      BY <3>1, <3>2, ChargedRaises
    <3> QED
      BY <1>1, <3>1, <3>3 DEF Falls, Usage
  <2> QED
    BY <1>2, <2>2, <2>3
<1>5. CASE \E q \in Pairs : AllocateBurst(q)
  <2>1. PICK q \in Pairs : AllocateBurst(q)
    BY <1>5
  <2>2. CASE q # p
    BY <1>2, <2>1, <2>2 DEF AllocateBurst, QInv, QuotaTypeOK
  <2>3. CASE q = p
    <3> DEFINE u == DayReset(usage[p])
               v == IF u.burst < config[p].burst THEN [u EXCEPT !.burst = @ + 1] ELSE u
    <3>1. usage'[p] = v
      BY <2>1, <2>3 DEF AllocateBurst, QInv, QuotaTypeOK
    <3>2. u \in Usage /\ u.tokens <= usage[p].tokens /\ u.cost = usage[p].cost
          /\ (u.tokens < usage[p].tokens => usage[p].day > Day)
      BY <1>1, DayResetLowers
    <3> HIDE DEF u
    <3>3. v.tokens = u.tokens /\ v.cost = u.cost
      BY <3>2 DEF Usage
    <3> QED
      BY <1>1, <3>1, <3>2, <3>3 DEF Falls, Usage
  <2> QED
    BY <2>2, <2>3
<1>6. CASE QuotaTick
  <2>1. usage'[p] = Ticked(usage[p])
    BY <1>6 DEF QuotaTick
  <2> QED
    BY <1>1, <2>1, TickedKeeps DEF Falls, Usage
<1>7. CASE \E q \in Pairs : RemoveQuota(q) \/ \E cfg \in Configs : AddQuota(q, cfg)
  BY <1>2, <1>7 DEF AddQuota, RemoveQuota, QInv, QuotaTypeOK
<1>8. CASE \E q \in Pairs : GetUsage(q) \/ \E c \in Callers : CheckQuota(c, q) \/ Allocate(c, q)
  <2>1. PICK q \in Pairs : Refresh(q)
    BY <1>8 DEF GetUsage, CheckQuota, Allocate
  <2> QED
    BY <1>2, <1>3, <2>1, RefreshOnly
<1>9. CASE (\E q \in Pairs, c \in Callers : Unlimited(c, q)) \/ UNCHANGED qvars
  BY <1>2, <1>9 DEF Unlimited, qvars
<1> QED
  BY <1>1, <1>4, <1>5, <1>6, <1>7, <1>8, <1>9 DEF QuotaNext

(* An exhausted quota stays exhausted until strictly more than its day, or *)
(* its month, has passed, or its limit is raised (_get_day_reset,          *)
(* _get_month_reset, add_quota).                                           *)
THEOREM ExhaustedStays == QuotaSpec => ExhaustedUntilReset
<1> DEFINE OnePair(p) ==
        /\ usage[p].tokens >= config[p].tokens /\ usage'[p].tokens < config'[p].tokens =>
              usage[p].day > Day \/ config'[p].tokens > config[p].tokens
        /\ usage[p].cost >= config[p].cost /\ usage'[p].cost < config'[p].cost =>
              usage[p].month > Month \/ config'[p].cost > config[p].cost
<1>1. ASSUME QInv, [QuotaNext]_qvars, NEW p \in Pairs, config[p] # None, config'[p] # None
      PROVE  OnePair(p)
  <2>1. \A cfg \in Configs : cfg.tokens \in Nat /\ cfg.cost \in Nat
    BY QuotaAssumption
  <2> QED
    BY <1>1, <2>1, NextFalls DEF Falls, Usage
<1>2. QInv /\ [QuotaNext]_qvars =>
        [\A p \in Pairs : config[p] # None /\ config'[p] # None => OnePair(p)]_qvars
  BY <1>1
<1> QED
  BY <1>2, QInvAlways, PTL DEF QuotaSpec, ExhaustedUntilReset

-----------------------------------------------------------------------------
(* Memories in Redis.  A store reads the size, takes the oldest ids and    *)
(* deletes them in separate commands, so stores can evict each other's rows *)
(* or the same ones.  The bound on rows is made inductive by counting, for *)
(* every set of evictions under way, what is left without them.            *)

RedisPhases == {"idle", "scan", "purge", "write", "pin", "pinmode", "pindim", "size", "evict",
                "read", "touch", "rank", "delete", "zrem"}
RedisOps == {"none", "store", "retrieve", "forget", "search", "purge", "trim"}
Doing == [phase: RedisPhases, op: RedisOps, id: 0..MaxStores, ids: SUBSET Ids]

(* Stores that have not written their row; the id is theirs alone.         *)
Pending(c) == doing[c].op = "store" /\ doing[c].phase \in {"scan", "purge", "write"}

(* What a call may do in each of its phases.                               *)
InOrder(phase, op) ==
    /\ phase = "idle" <=> op = "none"
    /\ phase = "write" => op = "store"
    /\ phase \in {"read", "touch", "rank"} => op = "retrieve"
    /\ phase \in {"delete", "zrem"} => op = "forget"
    /\ phase \in {"pin", "pinmode", "pindim"} => op \in {"store", "search"}

CallsInOrder ==
    \A c \in Clients :
        /\ InOrder(doing[c].phase, doing[c].op)
        /\ doing[c].op \in {"store", "retrieve", "forget"} => doing[c].id \in 1..begun

(* Nobody knows, and Redis does not hold, the id of a row still to come.   *)
PendingIsFresh ==
    \A c \in Clients : Pending(c) =>
        /\ hash[doing[c].id] = Gone
        /\ \A d \in Clients : doing[d].op \in {"retrieve", "forget"} \/ (d # c /\ Pending(d))
                                  => doing[d].id # doing[c].id

(* Rows are ranked, and no row is being forgotten to the end.              *)
RowsAreRanked ==
    /\ Rows \subseteq recency
    /\ \A c \in Clients : doing[c].phase = "zrem" => hash[doing[c].id].kind # "row"
    /\ \A i \in Ids : /\ hash[i].kind = "touched" => hash[i] = Touched
                      /\ hash[i] # Gone => i <= begun

Sweepers == {c \in Clients : Sweeping(c)}
Evicting == {c \in Clients : doing[c].phase = "evict"}
Listed(S) == UNION {doing[c].ids : c \in S}

(* However many of the evictions under way go through, the rows they leave *)
(* are within the budget of the stores that are not among them.            *)
EvictionsSuffice ==
    \A S \in SUBSET Evicting :
        Cardinality(Rows \ Listed(S)) <= MaxRows + Cardinality(Sweepers \ S) + skipped

Storing == {c \in Clients : doing[c].op = "store"}
SkippedOnce == skipped + Cardinality(Storing) <= begun

RedisTypes ==
    /\ hash \in [Ids -> [kind : {"gone", "touched", "row"}, expires : Nat]]
    /\ recency \subseteq Ids /\ begun \in 0..MaxStores
    /\ doing \in [Clients -> Doing]

CallsIInv == RedisTypes /\ CallsInOrder /\ PendingIsFresh /\ RowsAreRanked

RedisIInv ==
    /\ RedisTypeOK /\ CallsIInv
    /\ EvictionsSuffice /\ SkippedOnce

-----------------------------------------------------------------------------
(* The steps, as what they do to the call of one client.                   *)

Others(c) == \A d \in Clients \ {c} : doing'[d] = doing[d]

LEMMA GoesTo ==
    ASSUME doing \in [Clients -> Doing], NEW c \in Clients, NEW phase \in RedisPhases,
           Goes(c, phase)
    PROVE  /\ doing' \in [Clients -> Doing] /\ Others(c)
           /\ phase = "idle" => doing'[c].phase = "idle" /\ doing'[c].op = "none"
           /\ phase # "idle" => /\ doing'[c].phase = phase /\ doing'[c].op = doing[c].op
                                /\ doing'[c].id = doing[c].id
           /\ doing'[c].ids = {}
<1> DEFINE next == IF phase = "idle" THEN Quiet ELSE [doing[c] EXCEPT !.phase = phase, !.ids = {}]
<1>1. doing' = [doing EXCEPT ![c] = next]
  BY DEF Goes
<1>2. Quiet \in Doing
  BY RedisAssumption DEF Quiet, Doing, RedisPhases, RedisOps
<1>3. doing[c] \in Doing
  OBVIOUS
<1>4. /\ [doing[c] EXCEPT !.phase = phase, !.ids = {}] \in Doing
      /\ [doing[c] EXCEPT !.phase = phase, !.ids = {}].phase = phase
      /\ [doing[c] EXCEPT !.phase = phase, !.ids = {}].op = doing[c].op
      /\ [doing[c] EXCEPT !.phase = phase, !.ids = {}].id = doing[c].id
      /\ [doing[c] EXCEPT !.phase = phase, !.ids = {}].ids = {}
  BY <1>3 DEF Doing
<1>5. next \in Doing
  BY <1>2, <1>4
<1>6. doing' \in [Clients -> Doing] /\ Others(c) /\ doing'[c] = next
  BY <1>1, <1>5 DEF Others
<1> QED
  BY <1>4, <1>6 DEF Quiet

LEMMA ListsOf ==
    ASSUME doing \in [Clients -> Doing], NEW c \in Clients, NEW phase \in RedisPhases,
           NEW ids \in SUBSET Ids, Lists(c, phase, ids)
    PROVE  /\ doing' \in [Clients -> Doing] /\ Others(c)
           /\ doing'[c].phase = phase /\ doing'[c].op = doing[c].op
           /\ doing'[c].id = doing[c].id /\ doing'[c].ids = ids
BY DEF Lists, Doing, Others

LEMMA BeginsWith ==
    ASSUME doing \in [Clients -> Doing], NEW c \in Clients, NEW phase \in RedisPhases,
           NEW op \in RedisOps, NEW id \in 0..MaxStores,
           doing' = [doing EXCEPT ![c] = [phase |-> phase, op |-> op, id |-> id, ids |-> {}]]
    PROVE  /\ doing' \in [Clients -> Doing] /\ Others(c)
           /\ doing'[c].phase = phase /\ doing'[c].op = op
           /\ doing'[c].id = id /\ doing'[c].ids = {}
BY DEF Doing, Others

LEMMA DeletesRows ==
    ASSUME RedisTypes, NEW ids \in SUBSET Ids, Deletes(ids)
    PROVE  /\ hash' \in [Ids -> [kind : {"gone", "touched", "row"}, expires : Nat]]
           /\ recency' = recency \ ids
           /\ \A i \in Ids : hash'[i] = IF i \in ids THEN Gone ELSE hash[i]
           /\ Rows' = Rows \ ids
BY DEF Deletes, RedisTypes, Gone, Rows

-----------------------------------------------------------------------------
(* What each step preserves of the calls: a call goes on, or is over.      *)

GoesOn(d) ==
    /\ doing'[d].op = doing[d].op /\ doing'[d].id = doing[d].id
    /\ InOrder(doing'[d].phase, doing[d].op)
    /\ Pending(d)' => Pending(d)
IsOver(d) == doing'[d].phase = "idle" /\ doing'[d].op = "none"
MovesOn(d) == doing'[d] = doing[d] \/ GoesOn(d) \/ IsOver(d)

LEMMA CallsHaveIds ==
    ASSUME CallsIInv, NEW c \in Clients, doing[c].op \in {"store", "retrieve", "forget"}
    PROVE  doing[c].id \in Ids
<1>1. doing[c].id \in 1..begun
  BY DEF CallsIInv, CallsInOrder
<1>2. begun \in 0..MaxStores /\ MaxStores \in Nat
  BY RedisAssumption DEF CallsIInv, RedisTypes
<1> QED
  BY <1>1, <1>2 DEF Ids

(* A step that at most removes hashes.                                     *)
LEMMA MovingOn ==
    ASSUME CallsIInv, RedisTypes', begun' = begun,
           \A d \in Clients : MovesOn(d),
           \A i \in Ids : hash'[i] = hash[i] \/ hash'[i] = Gone,
           Rows' \subseteq recency',
           \A d \in Clients : doing'[d].phase = "zrem" =>
                                 doing[d].phase = "zrem" \/ hash'[doing[d].id] = Gone
    PROVE  CallsIInv'
<1> USE DEF CallsIInv
<1>1. CallsInOrder'
  BY DEF CallsInOrder, MovesOn, GoesOn, IsOver, InOrder
<1>2. ASSUME NEW d \in Clients, Pending(d)'
      PROVE  Pending(d) /\ doing'[d].id = doing[d].id
  BY <1>2 DEF MovesOn, GoesOn, IsOver, Pending
<1>3. ASSUME NEW d \in Clients, doing'[d].op \in {"retrieve", "forget"}
      PROVE  doing'[d].op = doing[d].op /\ doing'[d].id = doing[d].id
  BY <1>3 DEF MovesOn, GoesOn, IsOver
<1>4. \A c \in Clients : Pending(c) => doing[c].id \in Ids
  BY CallsHaveIds DEF Pending
<1>5. PendingIsFresh'
  <2> SUFFICES ASSUME NEW c \in Clients, Pending(c)'
               PROVE  /\ hash'[doing'[c].id] = Gone
                      /\ \A d \in Clients :
                            doing'[d].op \in {"retrieve", "forget"} \/ (d # c /\ Pending(d)')
                                => doing'[d].id # doing'[c].id
    BY DEF PendingIsFresh
  <2>1. Pending(c) /\ doing'[c].id = doing[c].id
    BY <1>2
  <2>2. hash'[doing[c].id] = Gone
    BY <1>4, <2>1 DEF PendingIsFresh
  <2> QED
    BY <1>2, <1>3, <2>1, <2>2 DEF PendingIsFresh
<1>6. RowsAreRanked'
  <2>1. ASSUME NEW c \in Clients, doing'[c].phase = "zrem" PROVE hash'[doing'[c].id].kind # "row"
    <3>1. doing'[c].id = doing[c].id /\ doing[c].id \in Ids
      <4>1. doing'[c].op = "forget"
        BY <2>1, <1>1 DEF CallsInOrder, InOrder
      <4>2. doing'[c].id = doing[c].id /\ doing[c].op = "forget"
        BY <4>1, <1>3
      <4> QED
        BY <4>2, CallsHaveIds
    <3>2. Gone.kind = "gone"
      BY DEF Gone
    <3>3. CASE doing[c].phase = "zrem"
      <4>1. hash[doing[c].id].kind # "row"
        BY <3>3 DEF RowsAreRanked
      <4> QED
        BY <3>1, <3>2, <4>1
    <3> QED
      BY <2>1, <3>1, <3>2, <3>3
  <2>2. ASSUME NEW i \in Ids
        PROVE  /\ hash'[i].kind = "touched" => hash'[i] = Touched
               /\ hash'[i] # Gone => i <= begun'
    BY DEF RowsAreRanked, Gone
  <2> QED
    BY <2>1, <2>2 DEF RowsAreRanked
<1> QED
  BY <1>1, <1>5, <1>6

(* One that leaves Redis alone.                                            *)
LEMMA Thinking ==
    ASSUME CallsIInv, doing' \in [Clients -> Doing], UNCHANGED <<hash, recency, begun>>,
           \A d \in Clients : MovesOn(d),
           \A d \in Clients : doing'[d].phase = "zrem" => doing[d].phase = "zrem"
    PROVE  CallsIInv'
<1>1. RedisTypes' /\ Rows' \subseteq recency'
  BY DEF CallsIInv, RedisTypes, RowsAreRanked, Rows
<1> QED
  BY <1>1, MovingOn

LEMMA CallGoes ==
    ASSUME CallsIInv, NEW c \in Clients, NEW phase \in RedisPhases, Goes(c, phase),
           phase = "idle" \/ InOrder(phase, doing[c].op),
           phase \notin {"scan", "purge"},
           phase = "write" => Pending(c)
    PROVE  /\ doing' \in [Clients -> Doing] /\ Others(c)
           /\ \A d \in Clients : MovesOn(d)
           /\ \A d \in Clients : doing'[d].phase = "zrem" => doing[d].phase = "zrem" \/ phase = "zrem"
<1>1. /\ doing' \in [Clients -> Doing] /\ Others(c)
      /\ phase = "idle" => doing'[c].phase = "idle" /\ doing'[c].op = "none"
      /\ phase # "idle" => /\ doing'[c].phase = phase /\ doing'[c].op = doing[c].op
                           /\ doing'[c].id = doing[c].id
  BY GoesTo DEF CallsIInv, RedisTypes
<1>2. MovesOn(c)
  BY <1>1 DEF MovesOn, GoesOn, IsOver, Pending
<1> QED
  BY <1>1, <1>2 DEF Others, MovesOn

LEMMA AfterPurgeInOrder ==
    ASSUME CallsIInv, NEW c \in Clients, doing[c].phase \in {"scan", "purge"}
    PROVE  /\ AfterPurge(c) \in RedisPhases \ {"scan", "purge", "zrem", "evict"}
           /\ AfterPurge(c) = "idle" \/ InOrder(AfterPurge(c), doing[c].op)
           /\ AfterPurge(c) = "write" => Pending(c)
           /\ AfterPurge(c) = "pin" => doing[c].op = "search"
BY DEF AfterPurge, RedisPhases, InOrder, Pending

LEMMA ListsCall ==
    ASSUME CallsIInv, NEW c \in Clients, NEW phase \in {"purge", "evict"}, NEW ids \in SUBSET Ids,
           Lists(c, phase, ids), doing[c].phase # "idle",
           phase = "purge" => doing[c].phase = "scan",
           UNCHANGED <<hash, recency, begun>>
    PROVE  CallsIInv'
<1>1. /\ doing' \in [Clients -> Doing] /\ Others(c)
      /\ doing'[c].phase = phase /\ doing'[c].op = doing[c].op /\ doing'[c].id = doing[c].id
  BY ListsOf DEF CallsIInv, RedisTypes, RedisPhases
<1>2. doing[c].op # "none"
  BY DEF CallsIInv, CallsInOrder, InOrder
<1>3. MovesOn(c)
  BY <1>1, <1>2 DEF MovesOn, GoesOn, Pending, InOrder
<1>4. \A d \in Clients : MovesOn(d)
  BY <1>1, <1>3 DEF Others, MovesOn
<1>5. \A d \in Clients : doing'[d].phase = "zrem" => doing[d].phase = "zrem"
  BY <1>1 DEF Others
<1> QED
  BY <1>1, <1>4, <1>5, Thinking

LEMMA ScanCalls ==
    ASSUME CallsIInv, NEW c \in Clients, Scan(c)
    PROVE  CallsIInv'
<1>1. Due \in SUBSET Ids
  BY DEF Due, Rows
<1>2. CASE Lists(c, "purge", Due)
  BY <1>1, <1>2, ListsCall DEF Scan, At
<1>3. ASSUME NEW phase \in {"idle", AfterPurge(c)}, Goes(c, phase) PROVE CallsIInv'
  <2>1. doing[c].phase = "scan" /\ UNCHANGED <<hash, recency, begun>>
    BY DEF Scan, At
  <2>2. /\ phase \in RedisPhases \ {"scan", "purge", "zrem"}
        /\ phase = "idle" \/ InOrder(phase, doing[c].op)
        /\ phase = "write" => Pending(c)
    BY <2>1, AfterPurgeInOrder DEF RedisPhases
  <2> QED
    BY <1>3, <2>1, <2>2, CallGoes, Thinking
<1> QED
  BY <1>2, <1>3 DEF Scan

LEMMA ThinkingCalls ==
    ASSUME CallsIInv, NEW c \in Clients,
           Pin(c) \/ PinMode(c) \/ PinDim(c) \/ Size(c) \/ Read(c) \/ Break(c)
    PROVE  CallsIInv'
<1>1. UNCHANGED <<hash, recency, begun>>
  BY DEF Pin, PinMode, PinDim, Size, Read, Break
<1>2. ASSUME NEW phase \in RedisPhases \ {"scan", "purge", "zrem", "write"}, Goes(c, phase),
             phase = "idle" \/ InOrder(phase, doing[c].op)
      PROVE  CallsIInv'
  BY <1>1, <1>2, CallGoes, Thinking
<1>3. Goes(c, "idle") => CallsIInv'
  BY <1>2 DEF RedisPhases
<1>4. InOrder(doing[c].phase, doing[c].op)
  BY DEF CallsIInv, CallsInOrder
<1>5. CASE Pin(c) \/ PinMode(c) \/ PinDim(c)
  <2>1. doing[c].phase \in {"pin", "pinmode", "pindim"}
    BY <1>5 DEF Pin, PinMode, PinDim, At
  <2>2. \A phase \in {"pinmode", "pindim", AfterPin(c)} :
           /\ phase \in RedisPhases \ {"scan", "purge", "zrem", "write"}
           /\ phase = "idle" \/ InOrder(phase, doing[c].op)
    BY <1>4, <2>1 DEF InOrder, AfterPin, RedisPhases
  <2>3. \E phase \in {"pinmode", "pindim", AfterPin(c), "idle"} : Goes(c, phase)
    BY <1>5 DEF Pin, PinMode, PinDim
  <2> QED
    BY <1>2, <1>3, <2>2, <2>3
<1>6. CASE Size(c)
  <2>1. ASSUME NEW ids \in SUBSET (Rows \cap recency), Lists(c, "evict", ids) PROVE CallsIInv'
    <3>1. ids \in SUBSET Ids /\ doing[c].phase = "size"
      BY <1>6 DEF Rows, Size, At
    <3> QED
      BY <1>1, <2>1, <3>1, ListsCall
  <2> QED
    BY <1>3, <1>6, <2>1 DEF Size
<1>7. CASE Read(c)
  <2>1. doing[c].phase = "read"
    BY <1>7 DEF Read, At
  <2>2. InOrder("touch", doing[c].op)
    BY <1>4, <2>1 DEF InOrder
  <2>3. Goes(c, "touch") \/ Goes(c, "idle")
    BY <1>7 DEF Read
  <2> QED
    BY <1>2, <1>3, <2>2, <2>3 DEF RedisPhases
<1>8. CASE Break(c)
  BY <1>3, <1>8 DEF Break
<1> QED
  BY <1>5, <1>6, <1>7, <1>8

LEMMA DeletingCalls ==
    ASSUME CallsIInv, NEW c \in Clients, Purge(c) \/ Evict(c)
    PROVE  CallsIInv'
<1> DEFINE phase == IF Purge(c) THEN AfterPurge(c) ELSE "idle"
<1>1. Deletes(doing[c].ids) /\ Goes(c, phase) /\ begun' = begun
  BY DEF Purge, Evict
<1>2. /\ phase \in RedisPhases \ {"scan", "purge", "zrem"}
      /\ phase = "idle" \/ InOrder(phase, doing[c].op)
      /\ phase = "write" => Pending(c)
  <2>1. CASE Purge(c)
    BY <2>1, AfterPurgeInOrder DEF Purge, At
  <2>2. CASE ~Purge(c)
    BY <2>2 DEF RedisPhases
  <2> QED
    BY <2>1, <2>2
<1> HIDE DEF phase
<1>3. /\ doing' \in [Clients -> Doing]
      /\ \A d \in Clients : MovesOn(d)
      /\ \A d \in Clients : doing'[d].phase = "zrem" => doing[d].phase = "zrem"
  BY <1>1, <1>2, CallGoes
<1>4. doing[c].ids \in SUBSET Ids
  BY DEF CallsIInv, RedisTypes, Doing
<1>5. /\ RedisTypes' /\ Rows' \subseteq recency'
      /\ \A i \in Ids : hash'[i] = hash[i] \/ hash'[i] = Gone
  <2>1. /\ hash' \in [Ids -> [kind : {"gone", "touched", "row"}, expires : Nat]]
        /\ recency' = recency \ doing[c].ids
        /\ \A i \in Ids : hash'[i] = IF i \in doing[c].ids THEN Gone ELSE hash[i]
        /\ Rows' = Rows \ doing[c].ids
    BY <1>1, <1>4, DeletesRows DEF CallsIInv
  <2> QED
    BY <1>1, <1>3, <2>1 DEF CallsIInv, RedisTypes, RowsAreRanked
<1> QED
  BY <1>1, <1>3, <1>5, MovingOn

LEMMA RetrieveForgetCalls ==
    ASSUME CallsIInv, NEW c \in Clients, Rank(c) \/ Delete(c) \/ Zrem(c)
    PROVE  CallsIInv'
<1> DEFINE phase == IF Delete(c) THEN "zrem" ELSE "idle"
           id == doing[c].id
<1>1. /\ doing[c].phase \in {"rank", "delete", "zrem"} /\ Goes(c, phase) /\ begun' = begun
      /\ ~Delete(c) => UNCHANGED hash
      /\ Delete(c) => hash' = [hash EXCEPT ![id] = Gone] /\ UNCHANGED recency
      /\ recency' \in {recency, recency \cup {id}} \/ (doing[c].phase = "zrem" /\ recency' = recency \ {id})
  BY DEF Rank, Delete, Zrem, At
<1>2. InOrder(doing[c].phase, doing[c].op)
  BY DEF CallsIInv, CallsInOrder
<1>3. id \in Ids
  BY <1>1, <1>2, CallsHaveIds DEF InOrder
<1>4. phase = "idle" \/ InOrder(phase, doing[c].op)
  BY <1>2 DEF InOrder, Delete, At
<1>5. /\ doing' \in [Clients -> Doing] /\ Others(c)
      /\ \A d \in Clients : MovesOn(d)
      /\ \A d \in Clients : doing'[d].phase = "zrem" => doing[d].phase = "zrem" \/ phase = "zrem"
  <2>1. phase \in RedisPhases /\ phase \notin {"scan", "purge", "write"}
    BY DEF RedisPhases
  <2> HIDE DEF phase
  <2> QED
    BY <1>1, <1>4, <2>1, CallGoes
<1>6. hash' \in [Ids -> [kind : {"gone", "touched", "row"}, expires : Nat]]
      /\ \A i \in Ids : hash'[i] = IF Delete(c) /\ i = id THEN Gone ELSE hash[i]
  BY <1>1, <1>3 DEF CallsIInv, RedisTypes, Gone
<1>7. RedisTypes'
  BY <1>1, <1>3, <1>5, <1>6 DEF CallsIInv, RedisTypes
<1>8. Rows' \subseteq Rows
  BY <1>6 DEF Rows, Gone
<1>9. Rows' \subseteq recency'
  <2>1. doing[c].phase = "zrem" => id \notin Rows
    BY DEF CallsIInv, RowsAreRanked, Rows
  <2> QED
    BY <1>1, <1>8, <2>1 DEF CallsIInv, RowsAreRanked
<1>10. \A d \in Clients : doing'[d].phase = "zrem" =>
                                 doing[d].phase = "zrem" \/ hash'[doing[d].id] = Gone
  <2> SUFFICES ASSUME NEW d \in Clients, doing'[d].phase = "zrem", doing[d].phase # "zrem"
               PROVE  hash'[doing[d].id] = Gone
    OBVIOUS
  <2>1. d = c /\ phase = "zrem"
    BY <1>5 DEF Others
  <2> QED
    BY <1>3, <1>6, <2>1
<1> QED
  BY <1>1, <1>5, <1>6, <1>7, <1>9, <1>10, MovingOn

LEMMA WriteCalls ==
    ASSUME CallsIInv, ticks \in Nat, NEW c \in Clients, Write(c)
    PROVE  /\ CallsIInv' /\ Pending(c)
           /\ Rows' = Rows \cup {doing[c].id}
           /\ \A i \in Ids \ {doing[c].id} : hash'[i] = hash[i]
<1> DEFINE id == doing[c].id
<1>1. /\ doing[c].phase = "write" /\ Goes(c, "pin") /\ begun' = begun
      /\ recency' = recency \cup {id}
  BY DEF Write, At
<1>2. doing[c].op = "store" /\ id \in Ids /\ Pending(c) /\ id <= begun
  <2>1. doing[c].op = "store"
    BY <1>1 DEF CallsIInv, CallsInOrder, InOrder
  <2>2. id \in Ids /\ id \in 1..begun
    BY <2>1, CallsHaveIds DEF CallsIInv, CallsInOrder
  <2> QED
    BY <1>1, <2>1, <2>2 DEF Pending
<1>3. PICK e \in Nat : hash' = [hash EXCEPT ![id] = Row(e)]
  <2>1. PICK ttl \in Ttls : hash' = [hash EXCEPT ![id] = Row(IF ttl = 0 THEN 0 ELSE ticks + ttl)]
    BY DEF Write
  <2>2. (IF ttl = 0 THEN 0 ELSE ticks + ttl) \in Nat
    BY RedisAssumption
  <2> WITNESS (IF ttl = 0 THEN 0 ELSE ticks + ttl) \in Nat
  <2> QED
    BY <2>1
<1>4. /\ hash' \in [Ids -> [kind : {"gone", "touched", "row"}, expires : Nat]]
      /\ hash'[id] = Row(e) /\ \A i \in Ids \ {id} : hash'[i] = hash[i]
  BY <1>2, <1>3 DEF CallsIInv, RedisTypes, Row
<1>5. Rows' = Rows \cup {id}
  BY <1>2, <1>4 DEF Rows, Row
<1>6. /\ doing' \in [Clients -> Doing] /\ Others(c)
      /\ doing'[c].phase = "pin" /\ doing'[c].op = "store" /\ doing'[c].id = id
  BY <1>1, <1>2, GoesTo DEF CallsIInv, RedisTypes, RedisPhases
<1>7. RedisTypes'
  BY <1>1, <1>2, <1>4, <1>6 DEF CallsIInv, RedisTypes
<1>8. CallsInOrder'
  BY <1>1, <1>2, <1>6 DEF CallsIInv, CallsInOrder, InOrder, Others
<1>9. ASSUME NEW d \in Clients, Pending(d)' PROVE d # c /\ Pending(d) /\ doing'[d] = doing[d]
  BY <1>6, <1>9 DEF Pending, Others
<1>10. PendingIsFresh'
  <2> SUFFICES ASSUME NEW d \in Clients, Pending(d)'
               PROVE  /\ hash'[doing'[d].id] = Gone
                      /\ \A b \in Clients :
                            doing'[b].op \in {"retrieve", "forget"} \/ (b # d /\ Pending(b)')
                                => doing'[b].id # doing'[d].id
    BY DEF PendingIsFresh
  <2>1. d # c /\ Pending(d) /\ doing'[d] = doing[d]
    BY <1>9
  <2>2. doing[d].id # id /\ doing[d].id \in Ids
    BY <1>2, <2>1, CallsHaveIds DEF CallsIInv, PendingIsFresh, Pending
  <2>3. hash'[doing[d].id] = Gone
    BY <1>4, <2>1, <2>2 DEF CallsIInv, PendingIsFresh
  <2>4. \A b \in Clients : doing'[b].op \in {"retrieve", "forget"} => doing'[b] = doing[b]
    BY <1>6 DEF Others
  <2> QED
    BY <1>9, <2>1, <2>3, <2>4 DEF CallsIInv, PendingIsFresh
<1>11. RowsAreRanked'
  <2>1. ASSUME NEW d \in Clients, doing'[d].phase = "zrem" PROVE hash'[doing'[d].id].kind # "row"
    <3>1. d # c /\ doing'[d] = doing[d]
      BY <1>6, <2>1 DEF Others
    <3>2. doing[d].op = "forget"
      BY <2>1, <3>1 DEF CallsIInv, CallsInOrder, InOrder
    <3>3. doing[d].id # id /\ doing[d].id \in Ids
      BY <1>2, <3>2, CallsHaveIds DEF CallsIInv, PendingIsFresh
    <3> QED
      BY <1>4, <2>1, <3>1, <3>3 DEF CallsIInv, RowsAreRanked
  <2>2. ASSUME NEW i \in Ids
        PROVE  /\ hash'[i].kind = "touched" => hash'[i] = Touched
               /\ hash'[i] # Gone => i <= begun'
    <3>1. hash[i].kind = "touched" => hash[i] = Touched
      BY DEF CallsIInv, RowsAreRanked
    <3>2. hash[i] # Gone => i <= begun
      BY DEF CallsIInv, RowsAreRanked
    <3> QED
      BY <1>1, <1>2, <1>4, <3>1, <3>2 DEF Row
  <2>3. Rows' \subseteq recency'
    BY <1>1, <1>5 DEF CallsIInv, RowsAreRanked
  <2> QED
    BY <2>1, <2>2, <2>3 DEF RowsAreRanked
<1> QED
  BY <1>2, <1>4, <1>5, <1>7, <1>8, <1>10, <1>11 DEF CallsIInv

LEMMA TouchCalls ==
    ASSUME CallsIInv, NEW c \in Clients, Touch(c)
    PROVE  CallsIInv' /\ Rows' = Rows /\ \A i \in Ids : hash'[i] = hash[i] \/ hash[i] = Gone
<1> DEFINE id == doing[c].id
<1>1. /\ doing[c].phase = "touch" /\ Goes(c, "rank") /\ UNCHANGED <<recency, begun>>
      /\ hash' = [hash EXCEPT ![id] = IF hash[id] = Gone THEN Touched ELSE hash[id]]
  BY DEF Touch, At
<1>2. doing[c].op = "retrieve" /\ id \in Ids /\ id \in 1..begun
  <2>1. doing[c].op = "retrieve"
    BY <1>1 DEF CallsIInv, CallsInOrder, InOrder
  <2> QED
    BY <2>1, CallsHaveIds DEF CallsIInv, CallsInOrder
<1>3. /\ doing' \in [Clients -> Doing] /\ Others(c)
      /\ doing'[c].phase = "rank" /\ doing'[c].op = "retrieve" /\ doing'[c].id = id
  BY <1>1, <1>2, GoesTo DEF CallsIInv, RedisTypes, RedisPhases
<1>4. /\ hash' \in [Ids -> [kind : {"gone", "touched", "row"}, expires : Nat]]
      /\ \A i \in Ids \ {id} : hash'[i] = hash[i]
      /\ hash'[id] = IF hash[id] = Gone THEN Touched ELSE hash[id]
  BY <1>1, <1>2 DEF CallsIInv, RedisTypes, Touched
<1>5. Rows' = Rows
  BY <1>2, <1>4 DEF Rows, Touched, Gone
<1>6. RedisTypes'
  BY <1>1, <1>3, <1>4 DEF CallsIInv, RedisTypes
<1>7. CallsInOrder'
  BY <1>1, <1>2, <1>3 DEF CallsIInv, CallsInOrder, InOrder, Others
<1>8. \A d \in Clients : /\ Pending(d)' => Pending(d) /\ doing'[d] = doing[d]
                         /\ doing'[d].id = doing[d].id /\ doing'[d].op = doing[d].op
  BY <1>2, <1>3 DEF Pending, Others
<1>9. PendingIsFresh'
  <2> SUFFICES ASSUME NEW d \in Clients, Pending(d)'
               PROVE  /\ hash'[doing'[d].id] = Gone
                      /\ \A b \in Clients :
                            doing'[b].op \in {"retrieve", "forget"} \/ (b # d /\ Pending(b)')
                                => doing'[b].id # doing'[d].id
    BY DEF PendingIsFresh
  <2>1. Pending(d) /\ doing'[d] = doing[d]
    BY <1>8
  <2>2. doing[d].id # id /\ doing[d].id \in Ids
    BY <1>2, <2>1, CallsHaveIds DEF CallsIInv, PendingIsFresh, Pending
  <2>3. hash'[doing[d].id] = Gone
    BY <1>4, <2>1, <2>2 DEF CallsIInv, PendingIsFresh
  <2> QED
    BY <1>8, <2>1, <2>3 DEF CallsIInv, PendingIsFresh
<1>10. RowsAreRanked'
  <2>1. ASSUME NEW d \in Clients, doing'[d].phase = "zrem" PROVE hash'[doing'[d].id].kind # "row"
    <3>1. doing'[d] = doing[d] /\ doing[d].op = "forget"
      BY <1>3, <2>1 DEF Others, CallsIInv, CallsInOrder, InOrder
    <3>2. doing[d].id \in Ids /\ hash[doing[d].id].kind # "row"
      BY <2>1, <3>1, CallsHaveIds DEF CallsIInv, RowsAreRanked
    <3>3. doing[d].id \notin Rows'
      BY <1>5, <3>2 DEF Rows
    <3> QED
      BY <3>1, <3>2, <3>3 DEF Rows
  <2>2. ASSUME NEW i \in Ids
        PROVE  /\ hash'[i].kind = "touched" => hash'[i] = Touched
               /\ hash'[i] # Gone => i <= begun'
    <3>1. /\ hash[i].kind = "touched" => hash[i] = Touched
          /\ hash[i] # Gone => i <= begun
      BY DEF CallsIInv, RowsAreRanked
    <3> QED
      BY <1>1, <1>2, <1>4, <3>1
  <2> QED
    BY <1>1, <1>5, <2>1, <2>2 DEF CallsIInv, RowsAreRanked
<1> QED
  BY <1>4, <1>5, <1>6, <1>7, <1>9, <1>10 DEF CallsIInv

LEMMA BeginCalls ==
    ASSUME CallsIInv, NEW c \in Clients,
           BeginStore(c) \/ BeginRetrieve(c) \/ BeginForget(c) \/ BeginSearch(c)
               \/ BeginPurge(c) \/ BeginTrim(c)
    PROVE  /\ CallsIInv' /\ UNCHANGED <<hash, recency>> /\ Others(c)
           /\ doing[c].phase = "idle" /\ doing'[c].phase \in {"scan", "delete", "size"}
           /\ doing'[c].phase = "size" => doing'[c].op = "trim"
           /\ doing'[c].op = "store" <=> begun' = begun + 1
           /\ begun' # begun + 1 => begun' = begun
           /\ begun' \in 0..MaxStores
           /\ doing'[c].ids = {}
<1> DEFINE fresh == [phase |-> "scan", op |-> "store", id |-> begun + 1, ids |-> {}]
<1>1. PICK phase \in {"scan", "delete", "size"}, op \in RedisOps \ {"none"}, id \in 0..MaxStores :
        /\ doing' = [doing EXCEPT ![c] = [phase |-> phase, op |-> op, id |-> id, ids |-> {}]]
        /\ phase = "delete" => op = "forget"
        /\ phase = "size" => op = "trim"
        /\ op = "store" => begun < MaxStores /\ id = begun + 1 /\ begun' = begun + 1
        /\ op # "store" => begun' = begun
        /\ op \in {"retrieve", "forget"} => id \in Known
  <2>1. Known \subseteq 0..MaxStores /\ begun + 1 \in Nat
    BY RedisAssumption DEF Known, CallsIInv, RedisTypes
  <2>2. CASE BeginStore(c)
    <3>1. begun + 1 \in 0..MaxStores
      BY <2>2, RedisAssumption DEF BeginStore, CallsIInv, RedisTypes
    <3> USE DEF RedisOps
    <3> WITNESS "scan" \in {"scan", "delete", "size"}, "store" \in RedisOps \ {"none"},
                begun + 1 \in 0..MaxStores
    <3> QED
      BY <2>2 DEF BeginStore
  <2>3. ASSUME BeginRetrieve(c) \/ BeginForget(c) \/ BeginSearch(c) \/ BeginPurge(c) \/ BeginTrim(c)
        PROVE  \E phase \in {"scan", "delete", "size"}, op \in RedisOps \ {"none", "store"},
                 id \in 0..MaxStores :
                    /\ Begins(c, phase, op, id)
                    /\ phase = "delete" => op = "forget"
                    /\ phase = "size" => op = "trim"
                    /\ op \in {"retrieve", "forget"} => id \in Known
    <3>1. CASE BeginRetrieve(c)
      <4>1. PICK i \in Known : Begins(c, "scan", "retrieve", i)
        BY <3>1 DEF BeginRetrieve
      <4> QED
        BY <2>1, <4>1 DEF RedisOps
    <3>2. CASE BeginForget(c)
      <4>1. PICK i \in Known : Begins(c, "delete", "forget", i)
        BY <3>2 DEF BeginForget
      <4> QED
        BY <2>1, <4>1 DEF RedisOps
    <3>3. 0 \in 0..MaxStores
      BY RedisAssumption
    <3>4. CASE BeginSearch(c)
      BY <3>3, <3>4 DEF BeginSearch, RedisOps
    <3>5. CASE BeginPurge(c)
      BY <3>3, <3>5 DEF BeginPurge, RedisOps
    <3>6. CASE BeginTrim(c)
      BY <3>3, <3>6 DEF BeginTrim, RedisOps
    <3> QED
      BY <2>3, <3>1, <3>2, <3>4, <3>5, <3>6
  <2>4. CASE ~BeginStore(c)
    BY <2>3, <2>4 DEF Begins
  <2> QED
    BY <2>2, <2>4
<1>2. UNCHANGED <<hash, recency>> /\ doing[c].phase = "idle"
  BY DEF BeginStore, BeginRetrieve, BeginForget, BeginSearch, BeginPurge, BeginTrim, Begins, At
<1>3. /\ doing' \in [Clients -> Doing] /\ Others(c)
      /\ doing'[c].phase = phase /\ doing'[c].op = op /\ doing'[c].id = id /\ doing'[c].ids = {}
  BY <1>1, BeginsWith DEF RedisPhases, CallsIInv, RedisTypes
<1>4. begun \in Nat /\ begun' \in 0..MaxStores /\ begun <= begun' /\ MaxStores \in Nat
  BY <1>1, RedisAssumption DEF CallsIInv, RedisTypes
<1>5. RedisTypes'
  BY <1>2, <1>3, <1>4 DEF CallsIInv, RedisTypes
<1>6. \A i \in Known : i \in 1..begun /\ \A d \in Clients : Pending(d) => doing[d].id # i
  BY DEF Known, Pending, Unswept
<1>7. CallsInOrder'
  <2>1. InOrder(phase, op)
    BY <1>1 DEF InOrder
  <2>2. op \in {"store", "retrieve", "forget"} => id \in 1..begun'
    BY <1>1, <1>4, <1>6
  <2>3. ASSUME NEW d \in Clients, d # c
        PROVE  /\ InOrder(doing'[d].phase, doing'[d].op)
               /\ doing'[d].op \in {"store", "retrieve", "forget"} => doing'[d].id \in 1..begun'
    BY <1>3, <1>4, <2>3 DEF Others, CallsIInv, CallsInOrder
  <2> QED
    BY <1>3, <2>1, <2>2, <2>3 DEF CallsInOrder
<1>8. \A d \in Clients : doing[d].op \in {"store", "retrieve", "forget"} => doing[d].id <= begun
  BY <1>4 DEF CallsIInv, CallsInOrder
<1>9. PendingIsFresh'
  <2> SUFFICES ASSUME NEW d \in Clients, Pending(d)'
               PROVE  /\ hash'[doing'[d].id] = Gone
                      /\ \A b \in Clients :
                            doing'[b].op \in {"retrieve", "forget"} \/ (b # d /\ Pending(b)')
                                => doing'[b].id # doing'[d].id
    BY DEF PendingIsFresh
  <2>1. CASE d = c
    <3>1. op = "store" /\ id = begun + 1 /\ id \in Ids
      BY <1>1, <1>3, <1>4, <2>1 DEF Pending, Ids
    <3>2. hash[id] = Gone
      BY <1>4, <3>1 DEF CallsIInv, RowsAreRanked
    <3>3. ASSUME NEW b \in Clients, doing'[b].op \in {"retrieve", "forget"} \/ (b # d /\ Pending(b)')
          PROVE  doing'[b].id # id
      <4>1. b # c /\ doing'[b] = doing[b] /\ doing[b].op \in {"store", "retrieve", "forget"}
        BY <1>3, <2>1, <3>1, <3>3 DEF Others, Pending
      <4> QED
        BY <1>4, <1>8, <3>1, <4>1 DEF CallsIInv, RedisTypes, Doing
    <3> QED
      BY <1>2, <1>3, <2>1, <3>2, <3>3
  <2>2. CASE d # c
    <3>1. doing'[d] = doing[d] /\ Pending(d) /\ doing[d].op = "store"
      BY <1>3, <2>2 DEF Others, Pending
    <3>2. hash'[doing'[d].id] = Gone
      BY <1>2, <3>1 DEF CallsIInv, PendingIsFresh
    <3>3. ASSUME NEW b \in Clients, doing'[b].op \in {"retrieve", "forget"} \/ (b # d /\ Pending(b)')
          PROVE  doing'[b].id # doing[d].id
      <4>1. CASE b # c
        BY <1>3, <3>1, <3>3, <4>1 DEF Others, Pending, CallsIInv, PendingIsFresh
      <4>2. CASE b = c /\ op = "store"
        BY <1>1, <1>3, <1>4, <1>8, <3>1, <4>2 DEF CallsIInv, RedisTypes, Doing
      <4>3. CASE b = c /\ op # "store"
        BY <1>1, <1>3, <1>6, <3>1, <3>3, <4>3 DEF Pending
      <4> QED
        BY <4>1, <4>2, <4>3
    <3> QED
      BY <3>1, <3>2, <3>3
  <2> QED
    BY <2>1, <2>2
<1>10. RowsAreRanked'
  <2>1. \A d \in Clients : doing'[d].phase = "zrem" => doing'[d] = doing[d]
    BY <1>1, <1>3 DEF Others
  <2>2. \A i \in Ids : hash[i] # Gone => i <= begun'
    BY <1>4 DEF CallsIInv, RowsAreRanked, Ids
  <2> QED
    BY <1>2, <2>1, <2>2 DEF CallsIInv, RowsAreRanked, Rows
<1> QED
  BY <1>1, <1>2, <1>3, <1>4, <1>5, <1>7, <1>9, <1>10 DEF CallsIInv

LEMMA ClockCalls ==
    ASSUME CallsIInv, Tick \/ \E i \in Ids : Vanish(i)
    PROVE  CallsIInv' /\ Rows' \subseteq Rows /\ UNCHANGED <<doing, begun, skipped, recency>>
           /\ \A i \in Ids : hash'[i] = hash[i] \/ (hash[i].expires # 0 /\ hash'[i] = Gone)
<1>1. UNCHANGED <<recency, doing, begun, skipped>>
  BY DEF Tick, Vanish
<1>2. /\ hash' \in [Ids -> [kind : {"gone", "touched", "row"}, expires : Nat]]
      /\ \A i \in Ids : hash'[i] = hash[i] \/ (hash[i].expires # 0 /\ hash'[i] = Gone)
  BY DEF Tick, Vanish, CallsIInv, RedisTypes, Gone
<1>3. Rows' \subseteq Rows
  BY <1>2 DEF Rows, Gone
<1>4. RedisTypes' /\ Rows' \subseteq recency'
  BY <1>1, <1>2, <1>3 DEF CallsIInv, RedisTypes, RowsAreRanked
<1>5. \A d \in Clients : MovesOn(d)
  BY <1>1 DEF MovesOn
<1> QED
  BY <1>1, <1>2, <1>3, <1>4, <1>5, MovingOn

-----------------------------------------------------------------------------
(* The budget.                                                             *)

LEMMA FiniteParts ==
    ASSUME NEW S \in SUBSET Clients, NEW T \in SUBSET Ids
    PROVE  /\ IsFiniteSet(S) /\ Cardinality(S) \in Nat
           /\ IsFiniteSet(T) /\ Cardinality(T) \in Nat
<1>1. IsFiniteSet(Clients) /\ IsFiniteSet(Ids)
  BY RedisAssumption, FS_Interval DEF Ids
<1> QED
  BY <1>1, FS_Subset, FS_CardinalityType

(* The three ways in which a bound stays one.                              *)
LEMMA FewerRows ==
    ASSUME NEW A \in SUBSET Ids, NEW B \in SUBSET A
    PROVE  Cardinality(B) <= Cardinality(A)
BY FiniteParts, FS_Subset

LEMMA MoreSweepers ==
    ASSUME NEW A \in SUBSET Clients, NEW B \in SUBSET A
    PROVE  Cardinality(B) <= Cardinality(A)
BY FiniteParts, FS_Subset

LEMMA OneLess ==
    ASSUME NEW A \in SUBSET Clients, NEW c \in A
    PROVE  Cardinality(A \ {c}) = Cardinality(A) - 1
BY FiniteParts, FS_RemoveElement

(* Evictions under way keep their lists; no store stops sweeping; no row   *)
(* comes.                                                                  *)
LEMMA BudgetStays ==
    ASSUME EvictionsSuffice, skipped \in Nat, skipped' \in Nat, skipped <= skipped',
           Rows' \subseteq Rows, Sweepers \subseteq Sweepers',
           \A c \in Evicting' : c \in Evicting /\ doing'[c].ids = doing[c].ids
    PROVE  EvictionsSuffice'
<1> SUFFICES ASSUME NEW S \in SUBSET Evicting'
             PROVE  Cardinality(Rows' \ Listed(S)')
                      <= MaxRows + Cardinality(Sweepers' \ S) + skipped'
  BY DEF EvictionsSuffice
<1>1. S \in SUBSET Evicting /\ Listed(S)' = Listed(S)
  BY DEF Listed
<1>2. Cardinality(Rows \ Listed(S)) <= MaxRows + Cardinality(Sweepers \ S) + skipped
  BY <1>1 DEF EvictionsSuffice
<1>3. /\ Rows \ Listed(S) \in SUBSET Ids /\ Rows' \ Listed(S) \in SUBSET (Rows \ Listed(S))
      /\ Sweepers' \ S \in SUBSET Clients /\ Sweepers \ S \in SUBSET (Sweepers' \ S)
  BY DEF Rows, Sweepers
<1>4. /\ Cardinality(Rows' \ Listed(S)) <= Cardinality(Rows \ Listed(S))
      /\ Cardinality(Sweepers \ S) <= Cardinality(Sweepers' \ S)
  BY <1>3, FewerRows, MoreSweepers
<1>5. /\ Cardinality(Rows' \ Listed(S)) \in Nat /\ Cardinality(Rows \ Listed(S)) \in Nat
      /\ Cardinality(Sweepers \ S) \in Nat /\ Cardinality(Sweepers' \ S) \in Nat
  <2>1. Rows' \ Listed(S) \in SUBSET Ids /\ Sweepers \ S \in SUBSET Clients
    BY <1>3
  <2> QED
    BY <1>3, <2>1, FiniteParts
<1> QED
  BY <1>1, <1>2, <1>4, <1>5, RedisAssumption

(* A sweep that is given up makes one more that was skipped.               *)
LEMMA BudgetSkips ==
    ASSUME EvictionsSuffice, skipped \in Nat, NEW c \in Sweepers, skipped' = skipped + 1,
           Rows' = Rows, Sweepers' = Sweepers \ {c},
           \A d \in Evicting' : d \in Evicting /\ d # c /\ doing'[d].ids = doing[d].ids
    PROVE  EvictionsSuffice'
<1> SUFFICES ASSUME NEW S \in SUBSET Evicting'
             PROVE  Cardinality(Rows' \ Listed(S)')
                      <= MaxRows + Cardinality(Sweepers' \ S) + skipped'
  BY DEF EvictionsSuffice
<1>1. S \in SUBSET Evicting /\ c \notin S /\ Listed(S)' = Listed(S)
  BY DEF Listed
<1>2. Cardinality(Rows \ Listed(S)) <= MaxRows + Cardinality(Sweepers \ S) + skipped
  BY <1>1 DEF EvictionsSuffice
<1>3. Sweepers \ S \in SUBSET Clients /\ c \in Sweepers \ S /\ Sweepers' \ S = (Sweepers \ S) \ {c}
      /\ Rows \ Listed(S) \in SUBSET Ids
  BY <1>1 DEF Sweepers, Rows
<1>4. Cardinality(Sweepers' \ S) = Cardinality(Sweepers \ S) - 1
  BY <1>3, OneLess
<1>5. Cardinality(Sweepers \ S) \in Nat /\ Cardinality(Rows \ Listed(S)) \in Nat
  BY <1>3, FiniteParts
<1> QED
  BY <1>1, <1>2, <1>4, <1>5, RedisAssumption

(* A store that writes its row sweeps from then on.                        *)
LEMMA BudgetGrows ==
    ASSUME EvictionsSuffice, skipped \in Nat, skipped' = skipped, NEW c \in Clients, c \notin Sweepers,
           NEW id \in Ids, Rows' = Rows \cup {id}, Sweepers' = Sweepers \cup {c},
           \A d \in Evicting' : d \in Evicting /\ d # c /\ doing'[d].ids = doing[d].ids
    PROVE  EvictionsSuffice'
<1> SUFFICES ASSUME NEW S \in SUBSET Evicting'
             PROVE  Cardinality(Rows' \ Listed(S)')
                      <= MaxRows + Cardinality(Sweepers' \ S) + skipped'
  BY DEF EvictionsSuffice
<1> DEFINE before == Rows \ Listed(S)
           sweeping == Sweepers \ S
<1>1. S \in SUBSET Evicting /\ c \notin S /\ Listed(S)' = Listed(S)
  BY DEF Listed
<1>2. Cardinality(before) <= MaxRows + Cardinality(sweeping) + skipped
  BY <1>1 DEF EvictionsSuffice
<1>3. /\ before \in SUBSET Ids /\ before \cup {id} \in SUBSET Ids
      /\ Rows' \ Listed(S) \in SUBSET (before \cup {id})
      /\ Sweepers' \ S = sweeping \cup {c} /\ c \notin sweeping
      /\ sweeping \in SUBSET Clients /\ Rows' \ Listed(S) \in SUBSET Ids
  BY <1>1 DEF Sweepers, Rows
<1> HIDE DEF before, sweeping
<1>4. Cardinality(sweeping \cup {c}) = Cardinality(sweeping) + 1
  BY <1>3, FiniteParts, FS_AddElement
<1>5. Cardinality(before \cup {id}) <= Cardinality(before) + 1
  <2>1. IsFiniteSet(before) /\ Cardinality(before) \in Nat
    BY <1>3, FiniteParts
  <2>2. Cardinality(before \cup {id})
          = IF id \in before THEN Cardinality(before) ELSE Cardinality(before) + 1
    BY <2>1, FS_AddElement
  <2> QED
    BY <2>1, <2>2
<1>6. Cardinality(Rows' \ Listed(S)) <= Cardinality(before \cup {id})
  BY <1>3, FewerRows
<1>7. /\ Cardinality(sweeping) \in Nat /\ Cardinality(before) \in Nat
      /\ Cardinality(before \cup {id}) \in Nat /\ Cardinality(Rows' \ Listed(S)) \in Nat
  BY <1>3, FiniteParts
<1>8. Cardinality(Rows' \ Listed(S)) <= MaxRows + Cardinality(sweeping \cup {c}) + skipped
  BY <1>2, <1>4, <1>5, <1>6, <1>7, RedisAssumption
<1> QED
  BY <1>1, <1>3, <1>8

(* The eviction of c goes through: what it was to leave is now there.      *)
LEMMA BudgetEvicts ==
    ASSUME EvictionsSuffice, skipped \in Nat, skipped' = skipped, NEW c \in Evicting,
           Rows' = Rows \ doing[c].ids, Sweepers' = Sweepers \ {c}, Evicting' = Evicting \ {c},
           Others(c)
    PROVE  EvictionsSuffice'
<1> SUFFICES ASSUME NEW S \in SUBSET Evicting'
             PROVE  Cardinality(Rows' \ Listed(S)')
                      <= MaxRows + Cardinality(Sweepers' \ S) + skipped'
  BY DEF EvictionsSuffice
<1>1. S \cup {c} \in SUBSET Evicting /\ c \notin S
  OBVIOUS
<1>2. Listed(S)' = Listed(S) /\ Listed(S \cup {c}) = Listed(S) \cup doing[c].ids
  BY <1>1 DEF Listed, Others, Evicting
<1>3. Cardinality(Rows \ Listed(S \cup {c}))
        <= MaxRows + Cardinality(Sweepers \ (S \cup {c})) + skipped
  BY <1>1 DEF EvictionsSuffice
<1>4. /\ Rows' \ Listed(S)' = Rows \ Listed(S \cup {c})
      /\ Sweepers' \ S = Sweepers \ (S \cup {c})
  BY <1>2
<1> QED
  BY <1>3, <1>4

(* The eviction that c goes for leaves no more rows than the budget.       *)
LEMMA BudgetLists ==
    ASSUME EvictionsSuffice, skipped \in Nat, skipped' = skipped, NEW c \in Clients, c \notin Evicting,
           Rows' = Rows, Sweepers' = Sweepers, Evicting' = Evicting \cup {c},
           Others(c), Cardinality(Rows \ doing'[c].ids) <= MaxRows
    PROVE  EvictionsSuffice'
<1> SUFFICES ASSUME NEW S \in SUBSET Evicting'
             PROVE  Cardinality(Rows' \ Listed(S)')
                      <= MaxRows + Cardinality(Sweepers' \ S) + skipped'
  BY DEF EvictionsSuffice
<1>0. /\ Sweepers \ S \in SUBSET Clients /\ Rows \ doing'[c].ids \in SUBSET Ids
      /\ Rows' \ Listed(S)' \in SUBSET Ids
  BY DEF Sweepers, Rows
<1>1. CASE c \in S
  <2>1. Rows' \ Listed(S)' \in SUBSET (Rows \ doing'[c].ids)
    BY <1>1 DEF Listed
  <2>2. Cardinality(Rows' \ Listed(S)') <= Cardinality(Rows \ doing'[c].ids)
    BY <1>0, <2>1, FewerRows
  <2>3. /\ Cardinality(Rows' \ Listed(S)') \in Nat /\ Cardinality(Sweepers \ S) \in Nat
        /\ Cardinality(Rows \ doing'[c].ids) \in Nat
    BY <1>0, FiniteParts
  <2> QED
    BY <2>2, <2>3, RedisAssumption
<1>2. CASE c \notin S
  <2>1. S \in SUBSET Evicting /\ Listed(S)' = Listed(S)
    BY <1>2 DEF Listed, Others, Evicting
  <2>2. Cardinality(Rows \ Listed(S)) <= MaxRows + Cardinality(Sweepers \ S) + skipped
    BY <2>1 DEF EvictionsSuffice
  <2> QED
    BY <2>1, <2>2
<1> QED
  BY <1>1, <1>2

(* Nothing to evict.                                                       *)
LEMMA BudgetKept ==
    ASSUME skipped' \in Nat, Cardinality(Rows') <= MaxRows
    PROVE  EvictionsSuffice'
<1> SUFFICES ASSUME NEW S \in SUBSET Evicting'
             PROVE  Cardinality(Rows' \ Listed(S)')
                      <= MaxRows + Cardinality(Sweepers' \ S) + skipped'
  BY DEF EvictionsSuffice
<1>1. /\ Rows' \in SUBSET Ids /\ Rows' \ Listed(S)' \in SUBSET Rows'
      /\ Rows' \ Listed(S)' \in SUBSET Ids /\ Sweepers' \ S \in SUBSET Clients
  BY DEF Rows, Sweepers
<1>2. Cardinality(Rows' \ Listed(S)') <= Cardinality(Rows')
  BY <1>1, FewerRows
<1>3. /\ Cardinality(Rows' \ Listed(S)') \in Nat /\ Cardinality(Sweepers' \ S) \in Nat
      /\ Cardinality(Rows') \in Nat
  BY <1>1, FiniteParts
<1> QED
  BY <1>2, <1>3, RedisAssumption

-----------------------------------------------------------------------------
(* The steps, as what they do to the sweeps and to the count of the skips. *)

LEMMA GoesSweeping ==
    ASSUME doing \in [Clients -> Doing], NEW c \in Clients, NEW phase \in RedisPhases \ {"evict"},
           Goes(c, phase)
    PROVE  /\ Evicting' = Evicting \ {c}
           /\ \A d \in Evicting' : d \in Evicting /\ d # c /\ doing'[d].ids = doing[d].ids
           /\ doing[c].op = "store" /\ phase \in Unswept => Sweepers' = Sweepers \cup {c}
           /\ ~(doing[c].op = "store" /\ phase \in Unswept) => Sweepers' = Sweepers \ {c}
           /\ Storing' = IF phase = "idle" THEN Storing \ {c} ELSE Storing
<1>1. /\ doing' \in [Clients -> Doing] /\ Others(c)
      /\ phase = "idle" => doing'[c].phase = "idle" /\ doing'[c].op = "none"
      /\ phase # "idle" => doing'[c].phase = phase /\ doing'[c].op = doing[c].op
  BY GoesTo
<1>2. \A d \in Clients \ {c} : doing'[d] = doing[d]
  BY <1>1 DEF Others
<1>3. doing'[c].phase = phase
  BY <1>1
<1>4. /\ Evicting' = Evicting \ {c}
      /\ \A d \in Evicting' : d \in Evicting /\ d # c /\ doing'[d].ids = doing[d].ids
  BY <1>2, <1>3 DEF Evicting
<1>5. Sweeping(c)' <=> doing[c].op = "store" /\ phase \in Unswept
  BY <1>1 DEF Sweeping, Unswept
<1>6. \A d \in Clients \ {c} : Sweeping(d)' <=> Sweeping(d)
  BY <1>2 DEF Sweeping
<1>7. Storing' = IF phase = "idle" THEN Storing \ {c} ELSE Storing
  BY <1>1, <1>2 DEF Storing
<1> QED
  BY <1>4, <1>5, <1>6, <1>7 DEF Sweepers

LEMMA StoringCounts ==
    ASSUME SkippedOnce, skipped \in Nat, begun \in Nat, skipped' = skipped, begun' = begun,
           Storing' \subseteq Storing
    PROVE  SkippedOnce'
<1>1. Storing \in SUBSET Clients /\ Storing' \in SUBSET Storing
  BY DEF Storing
<1>2. Storing' \in SUBSET Clients
  BY <1>1
<1>3. Cardinality(Storing') <= Cardinality(Storing)
  BY <1>1, MoreSweepers
<1>4. Cardinality(Storing') \in Nat /\ Cardinality(Storing) \in Nat
  BY <1>1, <1>2, FiniteParts
<1> QED
  BY <1>3, <1>4 DEF SkippedOnce

(* A call that goes on without giving its sweep up.                        *)
LEMMA KeepsSweeping ==
    ASSUME RedisIInv, NEW c \in Clients, NEW phase \in RedisPhases \ {"evict"}, Goes(c, phase),
           c \in Sweepers => phase \in Unswept,
           Rows' \subseteq Rows, skipped' = skipped, begun' = begun
    PROVE  EvictionsSuffice' /\ SkippedOnce'
<1>1. doing \in [Clients -> Doing] /\ skipped \in Nat /\ begun \in Nat
  BY RedisAssumption DEF RedisIInv, RedisTypeOK, CallsIInv, RedisTypes
<1>2. /\ \A d \in Evicting' : d \in Evicting /\ doing'[d].ids = doing[d].ids
      /\ Storing' \subseteq Storing
      /\ doing[c].op = "store" /\ phase \in Unswept => Sweepers' = Sweepers \cup {c}
      /\ ~(doing[c].op = "store" /\ phase \in Unswept) => Sweepers' = Sweepers \ {c}
  BY <1>1, GoesSweeping
<1>3. Sweepers \subseteq Sweepers'
  BY <1>2 DEF Sweepers, Sweeping
<1>4. EvictionsSuffice'
  BY <1>1, <1>2, <1>3, BudgetStays DEF RedisIInv
<1> QED
  BY <1>1, <1>2, <1>4, StoringCounts DEF RedisIInv

(* One that gives it up, and is counted.                                   *)
LEMMA SkipsSweep ==
    ASSUME RedisIInv, NEW c \in Clients, Goes(c, "idle"), Skips(c), Rows' = Rows, begun' = begun
    PROVE  EvictionsSuffice' /\ SkippedOnce' /\ skipped' \in Nat
<1>1. doing \in [Clients -> Doing] /\ skipped \in Nat /\ begun \in Nat
  BY RedisAssumption DEF RedisIInv, RedisTypeOK, CallsIInv, RedisTypes
<1>2. CASE ~Sweeping(c)
  <2>1. skipped' = skipped /\ c \notin Sweepers
    BY <1>1, <1>2 DEF Skips, Sweepers
  <2> QED
    BY <1>1, <2>1, KeepsSweeping DEF RedisPhases
<1>3. CASE Sweeping(c)
  <2>1. skipped' = skipped + 1 /\ c \in Sweepers /\ c \in Storing
    BY <1>3 DEF Skips, Sweepers, Sweeping, Storing
  <2>2. /\ \A d \in Evicting' : d \in Evicting /\ d # c /\ doing'[d].ids = doing[d].ids
        /\ Sweepers' = Sweepers \ {c} /\ Storing' = Storing \ {c}
    BY <1>1, GoesSweeping DEF RedisPhases, Unswept
  <2>3. EvictionsSuffice'
    BY <1>1, <2>1, <2>2, BudgetSkips DEF RedisIInv
  <2>4. Storing \in SUBSET Clients
    BY DEF Storing
  <2>5. Cardinality(Storing') = Cardinality(Storing) - 1 /\ Cardinality(Storing) \in Nat
    BY <2>1, <2>2, <2>4, OneLess, FiniteParts
  <2>6. SkippedOnce'
    BY <1>1, <2>1, <2>5 DEF RedisIInv, SkippedOnce
  <2> QED
    BY <1>1, <2>1, <2>3, <2>6
<1> QED
  BY <1>2, <1>3

-----------------------------------------------------------------------------
(* The steps that leave the rows, or remove some of them.                  *)

LEMMA PhaseOfCall ==
    ASSUME CallsIInv, NEW c \in Clients
    PROVE  /\ doing \in [Clients -> Doing] /\ InOrder(doing[c].phase, doing[c].op)
           /\ c \in Sweepers <=> doing[c].op = "store" /\ doing[c].phase \in Unswept
BY DEF CallsIInv, RedisTypes, CallsInOrder, Sweepers, Sweeping

LEMMA GoingBudget ==
    ASSUME RedisIInv, NEW c \in Clients,
           PinMode(c) \/ PinDim(c) \/ Read(c) \/ Touch(c) \/ Rank(c) \/ Delete(c) \/ Zrem(c)
               \/ Purge(c)
    PROVE  EvictionsSuffice' /\ SkippedOnce'
<1> USE DEF RedisIInv
<1>1. /\ InOrder(doing[c].phase, doing[c].op)
      /\ c \in Sweepers <=> doing[c].op = "store" /\ doing[c].phase \in Unswept
  BY PhaseOfCall
<1>2. skipped' = skipped /\ begun' = begun
  BY DEF PinMode, PinDim, Read, Touch, Rank, Delete, Zrem, Purge
<1>3. Rows' \subseteq Rows
  <2>1. CASE PinMode(c) \/ PinDim(c) \/ Read(c) \/ Rank(c) \/ Zrem(c)
    BY <2>1 DEF PinMode, PinDim, Read, Rank, Zrem, Rows
  <2>2. CASE Touch(c)
    BY <2>2, TouchCalls
  <2>3. CASE Delete(c)
    BY <2>3 DEF Delete, Rows, Gone, CallsIInv, RedisTypes
  <2>4. CASE Purge(c)
    <3>1. doing[c].ids \in SUBSET Ids /\ Deletes(doing[c].ids)
      BY <2>4 DEF Purge, CallsIInv, RedisTypes, Doing
    <3> QED
      BY <3>1, DeletesRows DEF CallsIInv
  <2> QED
    BY <2>1, <2>2, <2>3, <2>4
<1>4. \E phase \in RedisPhases \ {"evict"} :
         Goes(c, phase) /\ (c \in Sweepers => phase \in Unswept)
  <2>1. CASE PinMode(c)
    BY <2>1 DEF PinMode, RedisPhases, Unswept
  <2>2. CASE PinDim(c)
    BY <1>1, <2>2 DEF PinDim, AfterPin, RedisPhases, Unswept
  <2>3. CASE Read(c)
    BY <1>1, <2>3 DEF Read, At, RedisPhases, Unswept
  <2>4. CASE Touch(c)
    BY <1>1, <2>4 DEF Touch, At, RedisPhases, Unswept
  <2>5. CASE Delete(c)
    BY <1>1, <2>5 DEF Delete, At, RedisPhases, Unswept
  <2>6. CASE Rank(c) \/ Zrem(c)
    BY <1>1, <2>6 DEF Rank, Zrem, At, RedisPhases, Unswept
  <2>7. CASE Purge(c)
    <3>1. doing[c].phase = "purge" /\ Goes(c, AfterPurge(c)) /\ AfterPurge(c) \in RedisPhases \ {"evict"}
      BY <2>7, AfterPurgeInOrder DEF Purge, At
    <3> QED
      BY <1>1, <3>1 DEF Unswept
  <2> QED
    BY <2>1, <2>2, <2>3, <2>4, <2>5, <2>6, <2>7
<1> QED
  BY <1>2, <1>3, <1>4, KeepsSweeping

LEMMA ScanBudget ==
    ASSUME RedisIInv, NEW c \in Clients, Scan(c)
    PROVE  EvictionsSuffice' /\ SkippedOnce'
<1>1. /\ doing \in [Clients -> Doing] /\ doing[c].phase = "scan" /\ c \notin Sweepers
      /\ UNCHANGED <<hash, begun, skipped>> /\ Rows' = Rows
  BY PhaseOfCall DEF RedisIInv, Scan, At, Unswept, Rows
<1>2. AfterPurge(c) \in RedisPhases \ {"evict"} /\ "idle" \in RedisPhases \ {"evict"}
  BY <1>1, AfterPurgeInOrder DEF RedisIInv, RedisPhases
<1>3. CASE Goes(c, "idle") \/ Goes(c, AfterPurge(c))
  BY <1>1, <1>2, <1>3, KeepsSweeping
<1>4. CASE Lists(c, "purge", Due)
  <2>1. Due \in SUBSET Ids
    BY DEF Due, Rows
  <2>2. Others(c) /\ doing'[c].phase = "purge" /\ doing'[c].op = doing[c].op
    BY <1>1, <1>4, <2>1, ListsOf DEF RedisPhases
  <2>3. /\ \A d \in Evicting' : d \in Evicting /\ doing'[d].ids = doing[d].ids
        /\ Sweepers \subseteq Sweepers' /\ Storing' \subseteq Storing
    BY <1>1, <2>2 DEF Evicting, Sweepers, Sweeping, Storing, Others, Unswept
  <2>4. skipped \in Nat /\ begun \in Nat
    BY RedisAssumption DEF RedisIInv, RedisTypeOK
  <2>5. EvictionsSuffice'
    BY <1>1, <2>3, <2>4, BudgetStays DEF RedisIInv
  <2> QED
    BY <1>1, <2>3, <2>4, <2>5, StoringCounts DEF RedisIInv
<1> QED
  BY <1>3, <1>4 DEF Scan

LEMMA BeginBudget ==
    ASSUME RedisIInv, NEW c \in Clients,
           BeginStore(c) \/ BeginRetrieve(c) \/ BeginForget(c) \/ BeginSearch(c)
               \/ BeginPurge(c) \/ BeginTrim(c)
    PROVE  EvictionsSuffice' /\ SkippedOnce'
<1>1. /\ UNCHANGED <<hash, skipped>> /\ Others(c) /\ Rows' = Rows
      /\ doing[c].phase = "idle" /\ doing'[c].phase \in {"scan", "delete", "size"}
      /\ doing'[c].phase = "size" => doing'[c].op = "trim"
      /\ doing'[c].op = "store" <=> begun' = begun + 1
      /\ begun' # begun + 1 => begun' = begun
  BY BeginCalls DEF RedisIInv, BeginStore, BeginRetrieve, BeginForget, BeginSearch, BeginPurge,
     BeginTrim, Begins, Rows
<1>2. doing[c].op = "none" /\ skipped \in Nat /\ begun \in Nat
  BY <1>1, PhaseOfCall, RedisAssumption DEF RedisIInv, RedisTypeOK, InOrder
<1>3. /\ \A d \in Evicting' : d \in Evicting /\ doing'[d].ids = doing[d].ids
      /\ Sweepers \subseteq Sweepers'
      /\ c \notin Storing
      /\ Storing' = IF begun' = begun + 1 THEN Storing \cup {c} ELSE Storing
  BY <1>1, <1>2 DEF Evicting, Sweepers, Sweeping, Storing, Others, Unswept
<1>4. EvictionsSuffice'
  BY <1>1, <1>2, <1>3, BudgetStays DEF RedisIInv
<1>5. CASE begun' = begun
  BY <1>1, <1>2, <1>3, <1>4, <1>5, StoringCounts DEF RedisIInv
<1>6. CASE begun' = begun + 1
  <2>1. Storing \in SUBSET Clients
    BY DEF Storing
  <2>2. IsFiniteSet(Storing) /\ Cardinality(Storing) \in Nat
    BY <2>1, FiniteParts
  <2>3. Cardinality(Storing \cup {c}) = Cardinality(Storing) + 1
    BY <1>3, <2>2, FS_AddElement
  <2>4. SkippedOnce'
    BY <1>1, <1>2, <1>3, <1>6, <2>2, <2>3 DEF RedisIInv, SkippedOnce
  <2> QED
    BY <1>4, <2>4
<1> QED
  BY <1>1, <1>5, <1>6

LEMMA ClockBudget ==
    ASSUME RedisIInv, Tick \/ \E i \in Ids : Vanish(i)
    PROVE  EvictionsSuffice' /\ SkippedOnce'
<1>1. Rows' \subseteq Rows /\ UNCHANGED <<doing, begun, skipped>>
  BY ClockCalls DEF RedisIInv
<1>2. /\ \A d \in Evicting' : d \in Evicting /\ doing'[d].ids = doing[d].ids
      /\ Sweepers' = Sweepers /\ Storing' = Storing
      /\ skipped \in Nat /\ begun \in Nat
  BY <1>1, RedisAssumption DEF Evicting, Sweepers, Sweeping, Storing, RedisIInv, RedisTypeOK
<1> QED
  BY <1>1, <1>2, BudgetStays, StoringCounts DEF RedisIInv

-----------------------------------------------------------------------------
(* The steps of a store from its write to its eviction.                    *)

LEMMA PinBudget ==
    ASSUME RedisIInv, NEW c \in Clients, Pin(c) \/ Break(c)
    PROVE  EvictionsSuffice' /\ SkippedOnce' /\ skipped' \in Nat
<1>1. UNCHANGED <<hash, begun>> /\ Rows' = Rows /\ skipped \in Nat
  BY RedisAssumption DEF Pin, Break, Rows, RedisIInv, RedisTypeOK
<1>2. CASE Goes(c, "idle") /\ Skips(c)
  BY <1>1, <1>2, SkipsSweep
<1>3. CASE Pin(c) /\ ~(Goes(c, "idle") /\ Skips(c))
  <2>1. InOrder(doing[c].phase, doing[c].op) /\ doing[c].phase = "pin"
    BY <1>3, PhaseOfCall DEF Pin, At, RedisIInv
  <2>2. AfterPin(c) \in RedisPhases \ {"evict"} /\ (c \in Sweepers => AfterPin(c) \in Unswept)
    BY <2>1, PhaseOfCall DEF AfterPin, RedisPhases, Unswept, RedisIInv
  <2>3. "pinmode" \in RedisPhases \ {"evict"} /\ "pinmode" \in Unswept
    BY DEF RedisPhases, Unswept
  <2>4. skipped' = skipped /\ (Goes(c, "pinmode") \/ Goes(c, AfterPin(c)))
    BY <1>3 DEF Pin
  <2> QED
    BY <1>1, <2>2, <2>3, <2>4, KeepsSweeping
<1> QED
  BY <1>2, <1>3 DEF Break

LEMMA WriteBudget ==
    ASSUME RedisIInv, NEW c \in Clients, Write(c)
    PROVE  EvictionsSuffice' /\ SkippedOnce'
<1>1. Pending(c) /\ Rows' = Rows \cup {doing[c].id}
  BY WriteCalls, RedisAssumption DEF RedisIInv, RedisTypeOK
<1>2. /\ Goes(c, "pin") /\ skipped' = skipped /\ begun' = begun /\ doing[c].phase = "write"
      /\ skipped \in Nat /\ begun \in Nat
  BY RedisAssumption DEF Write, At, RedisIInv, RedisTypeOK
<1>3. doing[c].id \in Ids
  BY <1>1, CallsHaveIds DEF RedisIInv, Pending
<1>4. c \notin Sweepers /\ doing \in [Clients -> Doing]
  BY <1>2, PhaseOfCall DEF Unswept, RedisIInv
<1>5. /\ \A d \in Evicting' : d \in Evicting /\ d # c /\ doing'[d].ids = doing[d].ids
      /\ Sweepers' = Sweepers \cup {c} /\ Storing' = Storing
  BY <1>1, <1>2, <1>4, GoesSweeping DEF RedisPhases, Unswept, Pending
<1> QED
  BY <1>1, <1>2, <1>3, <1>4, <1>5, BudgetGrows, StoringCounts DEF RedisIInv

LEMMA EvictBudget ==
    ASSUME RedisIInv, NEW c \in Clients, Evict(c)
    PROVE  EvictionsSuffice' /\ SkippedOnce'
<1>1. /\ Deletes(doing[c].ids) /\ Goes(c, "idle") /\ skipped' = skipped /\ begun' = begun
      /\ c \in Evicting /\ skipped \in Nat /\ begun \in Nat
  BY RedisAssumption DEF Evict, At, Evicting, RedisIInv, RedisTypeOK
<1>2. doing \in [Clients -> Doing] /\ doing[c].ids \in SUBSET Ids
  BY DEF RedisIInv, CallsIInv, RedisTypes, Doing
<1>3. Rows' = Rows \ doing[c].ids
  BY <1>1, <1>2, DeletesRows DEF RedisIInv, CallsIInv
<1>4. /\ Evicting' = Evicting \ {c} /\ Sweepers' = Sweepers \ {c} /\ Storing' = Storing \ {c}
  BY <1>1, <1>2, GoesSweeping DEF RedisPhases, Unswept
<1>5. Others(c)
  BY <1>1, <1>2, GoesTo DEF RedisPhases
<1> QED
  BY <1>1, <1>3, <1>4, <1>5, BudgetEvicts, StoringCounts DEF RedisIInv

(* Every row is ranked, so what is counted is at least the rows.           *)
LEMMA ExcessCounts ==
    ASSUME CallsIInv
    PROVE  /\ Rows \cap recency = Rows
           /\ Cardinality(Rows) \in Nat /\ Excess \in Int
           /\ Cardinality(Rows) <= MaxRows + Excess
<1>1. Rows \in SUBSET recency /\ recency \in SUBSET Ids /\ Rows \in SUBSET Ids
  BY DEF CallsIInv, RowsAreRanked, RedisTypes
<1>2. Cardinality(Rows) \in Nat /\ Cardinality(recency) \in Nat
  BY <1>1, FiniteParts
<1>3. Cardinality(Rows) <= Cardinality(recency)
  BY <1>1, FewerRows
<1> QED
  BY <1>1, <1>2, <1>3, RedisAssumption DEF Excess

LEMMA SizeBudget ==
    ASSUME RedisIInv, NEW c \in Clients, Size(c)
    PROVE  EvictionsSuffice' /\ SkippedOnce' /\ skipped' \in Nat
<1>1. /\ UNCHANGED <<hash, begun>> /\ Rows' = Rows /\ doing[c].phase = "size"
      /\ skipped \in Nat /\ begun \in Nat /\ doing \in [Clients -> Doing]
  BY RedisAssumption DEF Size, At, Rows, RedisIInv, RedisTypeOK, CallsIInv, RedisTypes
<1>2. CASE Goes(c, "idle") /\ Skips(c)
  BY <1>1, <1>2, SkipsSweep
<1>3. CASE /\ Excess <= 0 \/ Rows \cap recency = {}
           /\ Goes(c, "idle") /\ skipped' = skipped
  <2>1. Cardinality(Rows) <= MaxRows
    <3>1. CASE Excess <= 0
      BY <3>1, ExcessCounts, RedisAssumption DEF RedisIInv
    <3>2. CASE Rows \cap recency = {}
      BY <3>2, ExcessCounts, FS_EmptySet, RedisAssumption DEF RedisIInv
    <3> QED
      BY <1>3, <3>1, <3>2
  <2>2. Storing' \subseteq Storing
    BY <1>1, <1>3, GoesSweeping DEF RedisPhases
  <2> QED
    BY <1>1, <1>3, <2>1, <2>2, BudgetKept, StoringCounts DEF RedisIInv
<1>4. ASSUME Excess > 0, skipped' = skipped,
             NEW ids \in SUBSET (Rows \cap recency),
             Cardinality(ids) = Min({Excess, Cardinality(Rows \cap recency)}),
             Lists(c, "evict", ids)
      PROVE  EvictionsSuffice' /\ SkippedOnce'
  <2>1. ids \in SUBSET Rows /\ Rows \in SUBSET Ids
    BY <1>4 DEF Rows
  <2>2. ids \in SUBSET Ids
    BY <2>1
  <2>3. /\ Others(c) /\ doing'[c].phase = "evict" /\ doing'[c].op = doing[c].op
        /\ doing'[c].ids = ids
    BY <1>1, <1>4, <2>2, ListsOf DEF RedisPhases
  <2>4. Cardinality(Rows \ ids) <= MaxRows
    <3> DEFINE n == Cardinality(Rows)
    <3>1. n \in Nat /\ Excess \in Int /\ n <= MaxRows + Excess /\ Rows \cap recency = Rows
      BY ExcessCounts DEF RedisIInv
    <3>2. Cardinality(Rows \ ids) = n - Cardinality(ids)
      <4>1. IsFiniteSet(Rows) /\ IsFiniteSet(ids) /\ Rows \cap ids = ids
        BY <2>1, <2>2, FiniteParts
      <4> QED
        BY <4>1, FS_Difference
    <3>3. Cardinality(ids) = Min({Excess, n})
      BY <1>4, <3>1
    <3> HIDE DEF n
    <3>4. Min({Excess, n}) = IF Excess <= n THEN Excess ELSE n
      BY <3>1 DEF Min
    <3> QED
      BY <3>1, <3>2, <3>3, <3>4, RedisAssumption
  <2>5. /\ c \notin Evicting /\ Evicting' = Evicting \cup {c}
        /\ Sweepers' = Sweepers /\ Storing' = Storing
    BY <1>1, <2>3 DEF Evicting, Sweepers, Sweeping, Storing, Others, Unswept
  <2> QED
    BY <1>1, <1>4, <2>3, <2>4, <2>5, BudgetLists, StoringCounts DEF RedisIInv
<1> QED
  <2>1. \/ Goes(c, "idle") /\ Skips(c)
        \/ /\ Excess <= 0 \/ Rows \cap recency = {}
           /\ Goes(c, "idle") /\ skipped' = skipped
        \/ /\ Excess > 0 /\ skipped' = skipped
           /\ \E ids \in SUBSET (Rows \cap recency) :
                 /\ Cardinality(ids) = Min({Excess, Cardinality(Rows \cap recency)})
                 /\ Lists(c, "evict", ids)
    BY DEF Size
  <2> QED
    BY <1>1, <1>2, <1>3, <1>4, <2>1

-----------------------------------------------------------------------------
(* The invariant.                                                          *)

LEMMA RedisStart ==
    ASSUME RedisInit
    PROVE  RedisIInv
<1> USE RedisAssumption DEF RedisInit
<1>1. RedisTypeOK
  BY DEF RedisTypeOK, Gone, Ids
<1>2. RedisTypes
  BY DEF RedisTypes, Gone, Ids, Quiet, Doing, RedisPhases, RedisOps
<1>3. CallsInOrder /\ PendingIsFresh
  BY DEF CallsInOrder, PendingIsFresh, Pending, InOrder, Quiet
<1>4. Rows = {} /\ Sweepers = {} /\ Evicting = {} /\ Storing = {}
  BY DEF Rows, Sweepers, Sweeping, Evicting, Storing, Gone, Quiet
<1>5. RowsAreRanked
  BY <1>4 DEF RowsAreRanked, Gone, Touched, Quiet
<1>6. Cardinality({}) = 0
  BY FS_EmptySet
<1>7. EvictionsSuffice /\ SkippedOnce
  <2>1. \A S \in SUBSET Evicting : Rows \ Listed(S) = {} /\ Sweepers \ S = {}
    BY <1>4
  <2> QED
    BY <1>4, <1>6, <2>1 DEF EvictionsSuffice, SkippedOnce
<1> QED
  BY <1>1, <1>2, <1>3, <1>5, <1>7 DEF RedisIInv, CallsIInv

LEMMA RedisStep ==
    ASSUME RedisIInv, RedisNext
    PROVE  RedisIInv'
<1>1. ticks \in 0..LastTick /\ ticks \in Nat /\ skipped \in Nat /\ CallsIInv
  BY RedisAssumption DEF RedisIInv, RedisTypeOK
<1>2. ASSUME NEW c \in Clients,
             \/ BeginStore(c) \/ BeginRetrieve(c) \/ BeginForget(c) \/ BeginSearch(c)
             \/ BeginPurge(c) \/ BeginTrim(c)
      PROVE  /\ CallsIInv' /\ EvictionsSuffice' /\ SkippedOnce' /\ skipped' = skipped
             /\ UNCHANGED <<mode, dim, ticks>>
  BY <1>1, <1>2, BeginCalls, BeginBudget DEF BeginStore, BeginRetrieve, BeginForget, BeginSearch,
     BeginPurge, BeginTrim, Begins
<1>3. ASSUME NEW c \in Clients, Scan(c) \/ Purge(c) \/ Write(c) \/ Evict(c)
      PROVE  /\ CallsIInv' /\ EvictionsSuffice' /\ SkippedOnce' /\ skipped' = skipped
             /\ UNCHANGED <<mode, dim, ticks>>
  <2>1. CASE Scan(c)
    BY <1>1, <2>1, ScanCalls, ScanBudget DEF Scan
  <2>2. CASE Purge(c)
    BY <1>1, <2>2, DeletingCalls, GoingBudget DEF Purge
  <2>3. CASE Write(c)
    BY <1>1, <2>3, WriteCalls, WriteBudget DEF Write
  <2>4. CASE Evict(c)
    BY <1>1, <2>4, DeletingCalls, EvictBudget DEF Evict
  <2> QED
    BY <1>3, <2>1, <2>2, <2>3, <2>4
<1>4. ASSUME NEW c \in Clients,
             Read(c) \/ Touch(c) \/ Rank(c) \/ Delete(c) \/ Zrem(c)
      PROVE  /\ CallsIInv' /\ EvictionsSuffice' /\ SkippedOnce' /\ skipped' = skipped
             /\ UNCHANGED <<mode, dim, ticks>>
  <2>1. EvictionsSuffice' /\ SkippedOnce'
    BY <1>4, GoingBudget
  <2>2. CallsIInv'
    BY <1>1, <1>4, ThinkingCalls, TouchCalls, RetrieveForgetCalls
  <2> QED
    BY <1>4, <2>1, <2>2 DEF Read, Touch, Rank, Delete, Zrem
<1>5. ASSUME NEW c \in Clients, Pin(c) \/ Size(c) \/ Break(c)
      PROVE  /\ CallsIInv' /\ EvictionsSuffice' /\ SkippedOnce' /\ skipped' \in Nat
             /\ UNCHANGED <<mode, dim, ticks>>
  <2>1. EvictionsSuffice' /\ SkippedOnce' /\ skipped' \in Nat
    BY <1>5, PinBudget, SizeBudget
  <2>2. CallsIInv'
    BY <1>1, <1>5, ThinkingCalls
  <2> QED
    BY <1>5, <2>1, <2>2 DEF Pin, Size, Break
<1>6. ASSUME NEW c \in Clients, PinMode(c) \/ PinDim(c)
      PROVE  /\ CallsIInv' /\ EvictionsSuffice' /\ SkippedOnce' /\ skipped' = skipped
             /\ mode' \in {mode, "fallback", "model"} /\ dim' \in {dim, "fallback", "model"}
             /\ ticks' = ticks
  <2>1. EvictionsSuffice' /\ SkippedOnce' /\ CallsIInv'
    BY <1>1, <1>6, GoingBudget, ThinkingCalls
  <2> QED
    BY <1>6, <2>1 DEF PinMode, PinDim, Mode
<1>7. ASSUME Tick \/ \E i \in Ids : Vanish(i)
      PROVE  /\ CallsIInv' /\ EvictionsSuffice' /\ SkippedOnce' /\ skipped' = skipped
             /\ UNCHANGED <<mode, dim>> /\ ticks' \in 0..LastTick
  <2>1. EvictionsSuffice' /\ SkippedOnce' /\ CallsIInv'
    BY <1>1, <1>7, ClockBudget, ClockCalls
  <2> QED
    BY <1>1, <1>7, <2>1, RedisAssumption DEF Tick, Vanish
<1>8. /\ CallsIInv' /\ EvictionsSuffice' /\ SkippedOnce' /\ skipped' \in Nat
      /\ mode' \in {mode, "fallback", "model"} /\ dim' \in {dim, "fallback", "model"}
      /\ ticks' \in 0..LastTick
  BY <1>1, <1>2, <1>3, <1>4, <1>5, <1>6, <1>7 DEF RedisNext
<1>9. skipped' \in 0..MaxStores
  <2>1. Storing' \in SUBSET Clients
    BY DEF Storing
  <2>2. Cardinality(Storing') \in Nat
    BY <2>1, FiniteParts
  <2>3. begun' \in 0..MaxStores
    BY <1>8 DEF CallsIInv, RedisTypes
  <2> QED
    BY <1>8, <2>2, <2>3, RedisAssumption DEF SkippedOnce
<1>10. RedisTypeOK'
  BY <1>8, <1>9 DEF RedisIInv, RedisTypeOK, CallsIInv, RedisTypes
<1> QED
  BY <1>8, <1>10 DEF RedisIInv

(* The calls are in order, and the evictions suffice, in every state.      *)
THEOREM RedisIInvAlways == RedisSpec => []RedisIInv
<1>1. RedisIInv /\ UNCHANGED rvars => RedisIInv'
  BY DEF rvars, RedisIInv, RedisTypeOK, CallsIInv, RedisTypes, CallsInOrder, PendingIsFresh, Pending,
     RowsAreRanked, Rows, EvictionsSuffice, Evicting, Listed, Sweepers, Sweeping, SkippedOnce, Storing
<1> QED
  BY <1>1, RedisStart, RedisStep, PTL DEF RedisSpec

(* What the clients leave in Redis has its type, whatever they interleave. *)
THEOREM RedisTypeCorrect == RedisSpec => []RedisTypeOK
<1>1. RedisIInv => RedisTypeOK
  BY DEF RedisIInv
<1> QED
  BY <1>1, RedisIInvAlways, PTL

(* RedisBackend never holds more rows than max_rows and one for each store *)
(* that has still to evict, or never will.                                 *)
THEOREM RedisWithinBudget == RedisSpec => []RowsWithinBudget
<1>1. RedisIInv => RowsWithinBudget
  <2> SUFFICES ASSUME RedisIInv PROVE RowsWithinBudget
    OBVIOUS
  <2>1. Rows \ Listed({}) = Rows /\ Sweepers \ {} = Sweepers
    BY DEF Listed
  <2>2. {} \in SUBSET Evicting
    OBVIOUS
  <2>3. Cardinality(Rows \ Listed({})) <= MaxRows + Cardinality(Sweepers \ {}) + skipped
    BY <2>2 DEF RedisIInv, EvictionsSuffice
  <2> QED
    BY <2>1, <2>3 DEF RowsWithinBudget, Sweepers
<1> QED
  BY <1>1, RedisIInvAlways, PTL

-----------------------------------------------------------------------------
(* What becomes of a hash that holds last_accessed_at only.                *)

(* A call lists nothing but rows.                                          *)
LEMMA ListsRows ==
    ASSUME CallsIInv, RedisNext, NEW d \in Clients
    PROVE  doing'[d].ids \subseteq doing[d].ids \cup Rows
<1>1. doing \in [Clients -> Doing]
  BY DEF CallsIInv, RedisTypes
<1>2. ASSUME NEW c \in Clients, NEW phase \in RedisPhases, Goes(c, phase)
      PROVE  doing'[d].ids \subseteq doing[d].ids \cup Rows
  BY <1>1, <1>2, GoesTo DEF Others
<1>3. ASSUME NEW c \in Clients, NEW phase \in RedisPhases, NEW ids \in SUBSET Rows, Lists(c, phase, ids)
      PROVE  doing'[d].ids \subseteq doing[d].ids \cup Rows
  <2>1. ids \in SUBSET Ids
    BY <1>3 DEF Rows
  <2> QED
    BY <1>1, <1>3, <2>1, ListsOf DEF Others
<1>4. \A phase \in {"idle", "pin", "pinmode", "pindim", "size", "touch", "rank", "zrem", "purge", "evict"} :
         phase \in RedisPhases
  BY DEF RedisPhases
<1>5. ASSUME NEW c \in Clients,
             BeginStore(c) \/ BeginRetrieve(c) \/ BeginForget(c) \/ BeginSearch(c)
                 \/ BeginPurge(c) \/ BeginTrim(c)
      PROVE  doing'[d].ids \subseteq doing[d].ids \cup Rows
  BY <1>5, BeginCalls DEF Others
<1>6. ASSUME NEW c \in Clients, Scan(c) \/ Purge(c)
      PROVE  doing'[d].ids \subseteq doing[d].ids \cup Rows
  <2>1. AfterPurge(c) \in RedisPhases /\ Due \in SUBSET Rows
    BY <1>6, AfterPurgeInOrder DEF Scan, Purge, At, Due
  <2> QED
    BY <1>2, <1>3, <1>4, <1>6, <2>1 DEF Scan, Purge
<1>7. ASSUME NEW c \in Clients,
             Write(c) \/ PinMode(c) \/ Evict(c) \/ Read(c) \/ Touch(c) \/ Rank(c) \/ Delete(c)
                 \/ Zrem(c) \/ Break(c)
      PROVE  doing'[d].ids \subseteq doing[d].ids \cup Rows
  BY <1>2, <1>4, <1>7 DEF Write, PinMode, Evict, Read, Touch, Rank, Delete, Zrem, Break
<1>8. ASSUME NEW c \in Clients, Pin(c) \/ PinDim(c)
      PROVE  doing'[d].ids \subseteq doing[d].ids \cup Rows
  <2>1. \E phase \in {"pinmode", "size", "idle"} : Goes(c, phase)
    BY <1>8 DEF Pin, PinDim, AfterPin
  <2> QED
    BY <1>2, <1>4, <2>1
<1>9. ASSUME NEW c \in Clients, Size(c)
      PROVE  doing'[d].ids \subseteq doing[d].ids \cup Rows
  <2>1. ASSUME NEW ids \in SUBSET (Rows \cap recency), Lists(c, "evict", ids)
        PROVE  doing'[d].ids \subseteq doing[d].ids \cup Rows
    <3>1. ids \in SUBSET Rows
      OBVIOUS
    <3> QED
      BY <1>3, <1>4, <2>1, <3>1
  <2>2. Goes(c, "idle") \/ \E ids \in SUBSET (Rows \cap recency) : Lists(c, "evict", ids)
    BY <1>9 DEF Size
  <2> QED
    BY <1>2, <1>4, <2>1, <2>2
<1>10. Tick \/ (\E i \in Ids : Vanish(i)) => doing'[d].ids \subseteq doing[d].ids \cup Rows
  BY DEF Tick, Vanish
<1> QED
  BY <1>5, <1>6, <1>7, <1>8, <1>9, <1>10 DEF RedisNext

(* Only a call that holds it, or forgets it, removes it.                   *)
Removable(i) == \E c \in Clients : i \in doing[c].ids \/ (doing[c].op = "forget" /\ doing[c].id = i)

LEMMA TouchedStays ==
    ASSUME CallsIInv, ticks \in Nat, RedisNext, NEW i \in Poisoned
    PROVE  i \in Poisoned' \/ Removable(i)
<1>1. i \in Ids /\ i \in recency /\ hash[i].kind = "touched" /\ hash[i] = Touched
  BY DEF Poisoned, CallsIInv, RedisTypes, RowsAreRanked
<1>2. hash[i] # Gone /\ hash[i].expires = 0
  BY <1>1 DEF Gone, Touched
<1>3. hash'[i] = hash[i] /\ i \in recency' => i \in Poisoned'
  BY <1>1 DEF Poisoned
<1>4. ASSUME NEW c \in Clients,
             BeginStore(c) \/ BeginRetrieve(c) \/ BeginForget(c) \/ BeginSearch(c)
                 \/ BeginPurge(c) \/ BeginTrim(c)
      PROVE  i \in Poisoned'
  BY <1>1, <1>3, <1>4, BeginCalls
<1>5. ASSUME NEW c \in Clients,
             Scan(c) \/ Pin(c) \/ PinMode(c) \/ PinDim(c) \/ Size(c) \/ Read(c) \/ Rank(c) \/ Break(c)
      PROVE  i \in Poisoned'
  <2>1. hash' = hash /\ recency \subseteq recency'
    BY <1>5 DEF Scan, Pin, PinMode, PinDim, Size, Read, Rank, Break
  <2> QED
    BY <1>1, <1>3, <2>1
<1>6. ASSUME NEW c \in Clients, Purge(c) \/ Evict(c)
      PROVE  i \in Poisoned' \/ Removable(i)
  <2>1. Deletes(doing[c].ids) /\ doing[c].ids \in SUBSET Ids
    BY <1>6 DEF Purge, Evict, CallsIInv, RedisTypes, Doing
  <2>2. i \in doing[c].ids \/ (hash'[i] = hash[i] /\ i \in recency')
    BY <1>1, <2>1, DeletesRows DEF CallsIInv
  <2> QED
    BY <1>3, <2>2 DEF Removable
<1>7. ASSUME NEW c \in Clients, Write(c)
      PROVE  i \in Poisoned'
  <2>1. Pending(c) /\ \A j \in Ids \ {doing[c].id} : hash'[j] = hash[j]
    BY <1>7, WriteCalls
  <2>2. hash[doing[c].id] = Gone
    BY <2>1 DEF CallsIInv, PendingIsFresh
  <2>3. i \in recency'
    BY <1>1, <1>7 DEF Write
  <2> QED
    BY <1>1, <1>2, <1>3, <2>1, <2>2, <2>3
<1>8. ASSUME NEW c \in Clients, Touch(c)
      PROVE  i \in Poisoned'
  <2>1. hash'[i] = hash[i] /\ recency' = recency
    BY <1>1, <1>2, <1>8, TouchCalls DEF Touch
  <2> QED
    BY <1>1, <1>3, <2>1
<1>9. ASSUME NEW c \in Clients, Delete(c) \/ Zrem(c)
      PROVE  i \in Poisoned' \/ Removable(i)
  <2>1. doing[c].op = "forget"
    BY <1>9 DEF Delete, Zrem, At, CallsIInv, CallsInOrder, InOrder
  <2>2. CASE doing[c].id = i
    BY <2>1, <2>2 DEF Removable
  <2>3. CASE doing[c].id # i
    <3>1. hash'[i] = hash[i] /\ i \in recency'
      BY <1>1, <1>9, <2>3 DEF Delete, Zrem, CallsIInv, RedisTypes
    <3> QED
      BY <1>3, <3>1
  <2> QED
    BY <2>2, <2>3
<1>10. Tick \/ (\E j \in Ids : Vanish(j)) => i \in Poisoned'
  BY <1>1, <1>2, <1>3, ClockCalls
<1> QED
  BY <1>4, <1>5, <1>6, <1>7, <1>8, <1>9, <1>10 DEF RedisNext

(* A hash resurrected by a late last_accessed_at goes only with a call     *)
(* that had listed it while it was a row, or that forgets it.              *)
THEOREM ResurrectedStay == RedisSpec => PoisonStays
<1> DEFINE Stays == \A i \in Poisoned :
                       /\ i \in Poisoned' \/ Removable(i)
                       /\ \A c \in Clients : i \in doing'[c].ids => i \in doing[c].ids
<1>1. RedisIInv /\ [RedisNext]_rvars => [Stays]_rvars
  <2> SUFFICES ASSUME RedisIInv, RedisNext, NEW i \in Poisoned
               PROVE  /\ i \in Poisoned' \/ Removable(i)
                      /\ \A c \in Clients : i \in doing'[c].ids => i \in doing[c].ids
    OBVIOUS
  <2>1. CallsIInv /\ ticks \in Nat
    BY RedisAssumption DEF RedisIInv, RedisTypeOK
  <2>2. i \in Poisoned' \/ Removable(i)
    BY <2>1, TouchedStays
  <2>3. i \notin Rows
    BY DEF Poisoned, Rows
  <2> QED
    BY <2>1, <2>2, <2>3, ListsRows
<1>2. [Stays]_rvars =>
        [\A i \in Poisoned :
          /\ \/ i \in Poisoned'
             \/ \E c \in Clients : i \in doing[c].ids \/ (doing[c].op = "forget" /\ doing[c].id = i)
          /\ \A c \in Clients : i \in doing'[c].ids => i \in doing[c].ids]_rvars
  BY DEF Removable
<1> QED
  BY <1>1, <1>2, RedisIInvAlways, PTL DEF RedisSpec, PoisonStays

-----------------------------------------------------------------------------
(* Prompt regressions.  An evaluation takes its base before it records its *)
(* score, so the invariant says what it knows while others record theirs.  *)

(* A score fell from the one that was the last when there were so many: if *)
(* there were none, it did not.                                            *)
FellFrom(base, score) == base > 0 /\ scores[base].score - score > DefaultThreshold
Judged(r) == r.base \in 0..Len(scores) /\ (r.regression <=> FellFrom(r.base, r.score))

ScoresAreJudged ==
    /\ \A i \in 1..Len(scores) : scores[i].evaluated =>
          scores[i].base < i /\ Judged(scores[i])
    /\ \A e \in Evaluators : evaluation[e].phase = "recording" =>
          Judged(evaluation[e])

EvaluationsHaveScores ==
    \A e \in Evaluators : evaluation[e].phase # "idle" => evaluation[e].score \in PromptScores

RegressionIInv == RegressionTypeOK /\ EvaluationsHaveScores /\ ScoresAreJudged

-----------------------------------------------------------------------------
(* A score that comes leaves the others where they are, and their verdicts.*)
LEMMA ScoresGrow ==
    ASSUME RegressionTypeOK, NEW r \in Recorded, scores' = Append(scores, r)
    PROVE  /\ scores' \in Seq(Recorded) /\ Len(scores') = Len(scores) + 1
           /\ scores'[Len(scores) + 1] = r
           /\ \A i \in 1..Len(scores) : scores'[i] = scores[i]
           /\ \A base \in 0..Len(scores) : \A score : FellFrom(base, score)' <=> FellFrom(base, score)
<1>1. /\ scores' \in Seq(Recorded) /\ Len(scores') = Len(scores) + 1 /\ Len(scores) \in Nat
      /\ scores'[Len(scores) + 1] = r
      /\ \A i \in 1..Len(scores) : scores'[i] = scores[i]
  BY DEF RegressionTypeOK
<1>2. \A base \in 0..Len(scores) : \A score : FellFrom(base, score)' <=> FellFrom(base, score)
  BY <1>1 DEF FellFrom
<1> QED
  BY <1>1, <1>2

LEMMA RecordScoreStep ==
    ASSUME RegressionIInv, NEW s \in PromptScores, RecordScore(s)
    PROVE  RegressionIInv'
<1> DEFINE r == [score |-> s, evaluated |-> FALSE, regression |-> FALSE, base |-> Len(scores)]
<1>1. r \in Recorded /\ ~r.evaluated
  BY DEF RegressionIInv, RegressionTypeOK, Recorded
<1>2. scores' = Append(scores, r) /\ evaluation' = evaluation
  BY DEF RecordScore
<1> HIDE DEF r
<1>3. /\ scores' \in Seq(Recorded) /\ Len(scores') = Len(scores) + 1 /\ Len(scores) \in Nat
      /\ scores'[Len(scores) + 1] = r
      /\ \A i \in 1..Len(scores) : scores'[i] = scores[i]
      /\ \A base \in 0..Len(scores) : \A score : FellFrom(base, score)' <=> FellFrom(base, score)
  BY <1>1, <1>2, ScoresGrow DEF RegressionIInv, RegressionTypeOK
<1>4. ScoresAreJudged'
  <2>1. ASSUME NEW i \in 1..Len(scores'), scores'[i].evaluated
        PROVE  /\ scores'[i].base < i
               /\ Judged(scores[i])'
    <3>1. i \in 1..Len(scores) /\ scores'[i] = scores[i]
      BY <1>1, <1>3, <2>1
    <3>2. scores[i].base < i /\ Judged(scores[i])
      BY <2>1, <3>1 DEF RegressionIInv, ScoresAreJudged
    <3> QED
      BY <1>3, <3>1, <3>2 DEF Judged
  <2>2. ASSUME NEW e \in Evaluators, evaluation'[e].phase = "recording"
        PROVE  Judged(evaluation[e])'
    BY <1>2, <1>3, <2>2 DEF RegressionIInv, ScoresAreJudged, Judged, FellFrom
  <2> QED
    BY <2>1, <2>2 DEF ScoresAreJudged
<1> QED
  BY <1>2, <1>3, <1>4 DEF RegressionIInv, RegressionTypeOK, EvaluationsHaveScores

LEMMA RecordEvaluatedStep ==
    ASSUME RegressionIInv, NEW e \in Evaluators, RecordEvaluated(e)
    PROVE  RegressionIInv'
<1> DEFINE r == [score |-> evaluation[e].score, evaluated |-> TRUE,
                 regression |-> evaluation[e].regression, base |-> evaluation[e].base]
<1>1. /\ evaluation[e].phase = "recording" /\ evaluation[e].score \in PromptScores
      /\ evaluation[e] \in Evaluation
      /\ Judged(evaluation[e])
  BY DEF RecordEvaluated, RegressionIInv, RegressionTypeOK, EvaluationsHaveScores, ScoresAreJudged
<1>2. r \in Recorded
  BY <1>1 DEF Recorded, Evaluation
<1>3. Judged(r)
  BY <1>1 DEF Judged
<1>4. scores' = Append(scores, r) /\ evaluation' = [evaluation EXCEPT ![e] = NoEvaluation]
  BY DEF RecordEvaluated
<1> HIDE DEF r
<1>5. /\ scores' \in Seq(Recorded) /\ Len(scores') = Len(scores) + 1 /\ Len(scores) \in Nat
      /\ scores'[Len(scores) + 1] = r
      /\ \A i \in 1..Len(scores) : scores'[i] = scores[i]
      /\ \A base \in 0..Len(scores) : \A score : FellFrom(base, score)' <=> FellFrom(base, score)
  BY <1>2, <1>4, ScoresGrow DEF RegressionIInv, RegressionTypeOK
<1>6. evaluation' \in [Evaluators -> Evaluation]
      /\ \A d \in Evaluators : evaluation'[d] = IF d = e THEN NoEvaluation ELSE evaluation[d]
  BY <1>4 DEF RegressionIInv, RegressionTypeOK, Evaluation, NoEvaluation
<1>7. ScoresAreJudged'
  <2>1. ASSUME NEW i \in 1..Len(scores'), scores'[i].evaluated
        PROVE  /\ scores'[i].base < i
               /\ Judged(scores[i])'
    <3>1. CASE i \in 1..Len(scores)
      <4>1. scores[i].base < i /\ Judged(scores[i])
        BY <1>5, <2>1, <3>1 DEF RegressionIInv, ScoresAreJudged
      <4> QED
        BY <1>5, <3>1, <4>1 DEF Judged
    <3>2. CASE i = Len(scores) + 1
      BY <1>3, <1>5, <3>2 DEF Judged
    <3> QED
      BY <1>5, <3>1, <3>2
  <2>2. ASSUME NEW d \in Evaluators, evaluation'[d].phase = "recording"
        PROVE  Judged(evaluation[d])'
    <3>1. evaluation'[d] = evaluation[d]
      BY <1>6, <2>2 DEF NoEvaluation
    <3> QED
      BY <1>5, <2>2, <3>1 DEF RegressionIInv, ScoresAreJudged, Judged, FellFrom
  <2> QED
    BY <2>1, <2>2 DEF ScoresAreJudged
<1>8. EvaluationsHaveScores'
  BY <1>6 DEF RegressionIInv, EvaluationsHaveScores, NoEvaluation
<1> QED
  BY <1>5, <1>6, <1>7, <1>8 DEF RegressionIInv, RegressionTypeOK

LEMMA EvaluateStep ==
    ASSUME RegressionIInv, NEW e \in Evaluators, NEW s \in PromptScores, Evaluate(e, s)
    PROVE  RegressionIInv'
<1>1. /\ evaluation' \in [Evaluators -> Evaluation] /\ scores' = scores
      /\ \A d \in Evaluators \ {e} : evaluation'[d] = evaluation[d]
      /\ evaluation'[e].phase = "reading" /\ evaluation'[e].score = s
  BY DEF Evaluate, RegressionIInv, RegressionTypeOK, Evaluation
<1>2. ScoresAreJudged'
  BY <1>1 DEF RegressionIInv, ScoresAreJudged, Judged, FellFrom
<1> QED
  BY <1>1, <1>2 DEF RegressionIInv, RegressionTypeOK, EvaluationsHaveScores

LEMMA ReadPreviousStep ==
    ASSUME RegressionIInv, NEW e \in Evaluators, ReadPrevious(e)
    PROVE  RegressionIInv'
<1> DEFINE falls == evaluation[e].score - Previous < -DefaultThreshold
<1>1. /\ evaluation[e].phase = "reading" /\ evaluation[e].score \in PromptScores
      /\ Len(scores) \in Nat /\ DefaultThreshold \in 1..10 /\ PromptScores \subseteq 0..10
      /\ evaluation[e] \in Evaluation
  BY RegressionAssumption DEF ReadPrevious, RegressionIInv, RegressionTypeOK, EvaluationsHaveScores
<1>2. falls <=> Len(scores) > 0 /\ scores[Len(scores)].score - evaluation[e].score > DefaultThreshold
  <2>0. evaluation[e].score \in 0..10 /\ DefaultThreshold \in 1..10
    BY <1>1
  <2>1. CASE scores = <<>>
    <3>1. Previous = 0 /\ Len(scores) = 0
      BY <2>1 DEF Previous
    <3> QED
      BY <2>0, <3>1
  <2>2. CASE scores # <<>>
    <3>1. Len(scores) > 0 /\ Len(scores) \in 1..Len(scores)
      BY <1>1, <2>2 DEF RegressionIInv, RegressionTypeOK
    <3>2. scores[Len(scores)] \in Recorded
      BY <3>1 DEF RegressionIInv, RegressionTypeOK
    <3>3. Previous = scores[Len(scores)].score
      BY <2>2 DEF Previous, Last
    <3>4. scores[Len(scores)].score \in 0..10
      BY <1>1, <3>2 DEF Recorded
    <3>5. falls <=> scores[Len(scores)].score - evaluation[e].score > DefaultThreshold
      <4>1. \A a, b \in 0..10 : a - b < -DefaultThreshold <=> b - a > DefaultThreshold
        BY <2>0
      <4>2. evaluation[e].score - Previous < -DefaultThreshold
              <=> Previous - evaluation[e].score > DefaultThreshold
        BY <2>0, <3>3, <3>4, <4>1
      <4> QED
        BY <3>3, <4>2
    <3> QED
      BY <3>1, <3>5
  <2> QED
    BY <2>1, <2>2
<1>3. /\ evaluation' \in [Evaluators -> Evaluation] /\ scores' = scores
      /\ \A d \in Evaluators \ {e} : evaluation'[d] = evaluation[d]
      /\ evaluation'[e].phase = "recording" /\ evaluation'[e].score = evaluation[e].score
      /\ evaluation'[e].base = Len(scores) /\ evaluation'[e].regression = falls
  <2>1. evaluation' = [evaluation EXCEPT ![e] =
            [evaluation[e] EXCEPT !.phase = "recording", !.base = Len(scores), !.regression = falls]]
    BY DEF ReadPrevious, RegressionIInv, RegressionTypeOK
  <2>2. falls \in BOOLEAN
    OBVIOUS
  <2>3. scores' = scores /\ evaluation \in [Evaluators -> Evaluation]
    BY DEF ReadPrevious, RegressionIInv, RegressionTypeOK
  <2> HIDE DEF falls
  <2> QED
    BY <1>1, <2>1, <2>2, <2>3 DEF Evaluation
<1> HIDE DEF falls
<1>4. Judged(evaluation[e])'
  BY <1>1, <1>2, <1>3 DEF Judged, FellFrom
<1>5. ScoresAreJudged'
  BY <1>3, <1>4 DEF RegressionIInv, ScoresAreJudged, Judged, FellFrom
<1> QED
  BY <1>1, <1>3, <1>5 DEF RegressionIInv, RegressionTypeOK, EvaluationsHaveScores

-----------------------------------------------------------------------------
(* Every verdict is that of the score it was read by.                      *)
THEOREM RegressionIInvAlways == RegressionSpec => []RegressionIInv
<1>1. RegressionInit => RegressionIInv
  BY DEF RegressionInit, RegressionIInv, RegressionTypeOK, EvaluationsHaveScores, ScoresAreJudged,
     Evaluation, NoEvaluation
<1>2. RegressionIInv /\ [RegressionNext]_pvars => RegressionIInv'
  <2>1. RegressionIInv /\ UNCHANGED pvars => RegressionIInv'
    BY DEF pvars, RegressionIInv, RegressionTypeOK, EvaluationsHaveScores, ScoresAreJudged, Judged,
           FellFrom
  <2> QED
    BY <2>1, RecordScoreStep, RecordEvaluatedStep, EvaluateStep, ReadPreviousStep DEF RegressionNext
<1> QED
  BY <1>1, <1>2, PTL DEF RegressionSpec

(* Scores and evaluations under way have their types                       *)
(* (PromptRegressionRunner).                                               *)
THEOREM RegressionTypeCorrect == RegressionSpec => []RegressionTypeOK
<1>1. RegressionIInv => RegressionTypeOK
  BY DEF RegressionIInv
<1> QED
  BY <1>1, RegressionIInvAlways, PTL

(* However evaluate overlaps, it flags every score that fell below all the *)
(* scores before it, and flags none that fell below no score.              *)
THEOREM FallsAreFlagged == RegressionSpec => []DeepFallsAreFlagged
<1>1. RegressionIInv => DeepFallsAreFlagged
  <2> SUFFICES ASSUME RegressionIInv, NEW i \in 2..Len(scores), scores[i].evaluated
               PROVE  LET fall(j) == scores[j].score - scores[i].score > DefaultThreshold IN
                      /\ (\A j \in 1..(i - 1) : fall(j)) /\ scores[i].base > 0 => scores[i].regression
                      /\ scores[i].regression => \E j \in 1..(i - 1) : fall(j)
                      /\ scores[i].regression # fall(i - 1) => scores[i].base < i - 1
    BY DEF DeepFallsAreFlagged
  <2>1. Len(scores) \in Nat /\ i \in 1..Len(scores) /\ scores[i] \in Recorded
    BY DEF RegressionIInv, RegressionTypeOK
  <2>2. /\ scores[i].base < i /\ scores[i].base \in 0..Len(scores) /\ scores[i].regression \in BOOLEAN
        /\ scores[i].regression
              <=> scores[i].base > 0 /\ scores[scores[i].base].score - scores[i].score > DefaultThreshold
    BY <2>1 DEF RegressionIInv, ScoresAreJudged, Judged, FellFrom, Recorded
  <2> QED
    BY <2>1, <2>2
<1> QED
  BY <1>1, RegressionIInvAlways, PTL

-----------------------------------------------------------------------------
(* Chaos experiments.  Between its two reads of the count an observation   *)
(* misses what calls and others do to it; whatever that is, the totals of  *)
(* the snapshots are what the observations found and what they missed.     *)

(* Counts are numbers, and unless the count was cleared during one of the  *)
(* observations: what they set out from is in the totals, or in the hands  *)
(* of the one under way; what they missed besides is in the requests, or   *)
(* in the count that will be read for them.                                *)
CountsAreNumbers ==
    /\ injections \in Nat /\ errorCount \in Nat /\ seen \in Nat /\ missed \in Nat
    /\ totals.errors \in Nat /\ totals.requests \in Nat
    /\ interrupted \in BOOLEAN
Accounted ==
    ~interrupted =>
        IF runner = "observing"
        THEN totals.errors + errorCount = seen /\ totals.requests + injections = seen + missed
        ELSE totals.errors = seen /\ totals.requests = seen + missed
ObservationsKept == CountsAreNumbers /\ Accounted

LEMMA ObservationsStep ==
    ASSUME ObservationsKept, ChaosNext
    PROVE  ObservationsKept'
<1> USE DEF ObservationsKept, CountsAreNumbers, Accounted
<1>1. ASSUME NEW s \in Scenarios, Prepare(s) PROVE ObservationsKept'
  <2>1. UNCHANGED <<injections, runner, errorCount>> /\ runner = "idle"
    BY <1>1 DEF Prepare
  <2>2. CASE UNCHANGED <<totals, histVars>>
    BY <2>1, <2>2 DEF histVars
  <2>3. CASE /\ totals' = [errors |-> 0, requests |-> 0]
             /\ seen' = 0 /\ missed' = 0 /\ interrupted' = FALSE
    <3>1. CountsAreNumbers'
      BY <2>1, <2>3
    <3>2. runner' # "observing" /\ totals'.errors = 0 /\ totals'.requests = 0
      BY <2>1, <2>3
    <3> QED
      BY <2>3, <3>1, <3>2
  <2> QED
    BY <1>1, <2>2, <2>3 DEF Prepare
<1>2. CASE Call
  <2>1. UNCHANGED <<runVars, seen, interrupted>>
    BY <1>2 DEF Call
  <2>2. CASE UNCHANGED <<injections, missed>>
    BY <2>1, <2>2 DEF runVars
  <2>3. CASE /\ Injected
             /\ missed' = IF runner = "observing" /\ ~interrupted THEN missed + 1 ELSE missed
    BY <2>1, <2>3 DEF runVars, Injected
  <2> QED
    BY <1>2, <2>2, <2>3 DEF Call
<1>3. CASE ClearFaults
  BY <1>3 DEF ClearFaults, runVars
<1>4. CASE ReadErrors
  BY <1>4 DEF ReadErrors
<1>5. CASE CaptureSnapshot
  BY <1>5 DEF CaptureSnapshot, histVars
<1>6. CASE Inject \/ Unregister \/ Report \/ ChaosTick
  BY <1>6 DEF Inject, Unregister, Report, ChaosTick, runVars, histVars
<1> QED
  BY <1>1, <1>2, <1>3, <1>4, <1>5, <1>6 DEF ChaosNext

(* ExperimentRunner's snapshots account for what its observations found    *)
(* and what came between their reads.                                      *)
THEOREM ObservationsAlways == ChaosSpec => []ObservationsKept
<1>1. ChaosInit => ObservationsKept
  <2> SUFFICES ASSUME ChaosInit PROVE ObservationsKept
    OBVIOUS
  <2>1. CountsAreNumbers
    BY DEF ChaosInit, CountsAreNumbers
  <2>2. runner # "observing" /\ totals.errors = 0 /\ totals.requests = 0
    BY DEF ChaosInit
  <2>3. seen = 0 /\ missed = 0
    BY DEF ChaosInit
  <2> QED
    BY <2>1, <2>2, <2>3 DEF ObservationsKept, Accounted
<1>2. ObservationsKept /\ [ChaosNext]_xvars => ObservationsKept'
  <2>1. ObservationsKept /\ UNCHANGED xvars => ObservationsKept'
    BY DEF ObservationsKept, CountsAreNumbers, Accounted, xvars, runVars, histVars
  <2> QED
    BY <2>1, ObservationsStep
<1> QED
  BY <1>1, <1>2, PTL DEF ChaosSpec

(* ExperimentRunner passes no experiment that saw injections, unless as    *)
(* many came between the two reads of its observations, or the count was   *)
(* cleared there; nor one that has no injections to report.                *)
THEOREM PassesOnlyByMissing == ChaosSpec => PassedMissedWhatItSaw
<1>1. ObservationsKept /\ [ChaosNext]_xvars =>
        [stage = "cleaning" /\ stage' = "completed" /\ result' = "passed" =>
            injections > 0 /\ (interrupted \/ missed >= seen)]_xvars
  <2> SUFFICES ASSUME ObservationsKept, ChaosNext,
                      stage = "cleaning", stage' = "completed", result' = "passed"
               PROVE  injections > 0 /\ (interrupted \/ missed >= seen)
    OBVIOUS
  <2>1. Report
    BY DEF ChaosNext, Prepare, Call, ClearFaults, Inject, ReadErrors, CaptureSnapshot,
           Unregister, ChaosTick, runVars
  <2>2. Outcome = "passed" /\ runner = "cleaning"
    BY <2>1 DEF Report
  <2>3. injections # 0 /\ (totals.requests = 0 \/ ~(2 * totals.errors > totals.requests))
    BY <2>2 DEF Outcome, ErrorRateAboveHalf
  <2> QED
    BY <2>2, <2>3 DEF ObservationsKept, CountsAreNumbers, Accounted
<1> QED
  BY <1>1, ObservationsAlways, PTL DEF ChaosSpec, PassedMissedWhatItSaw

-----------------------------------------------------------------------------
(* Rate limiters, for any rates, capacities and windows.  A bound on what   *)
(* one stretch of time was granted is not inductive: it is, with what the  *)
(* pool can grant at once, or the window's list, counted in.               *)

LEMMA LimiterConstants ==
    ASSUME LimiterAssumption
    PROVE  /\ Unit \in Nat /\ Capacity \in Nat /\ RefillRate \in Nat /\ MaxRate \in Nat /\ MinRate \in Nat
           /\ WindowSize \in Nat /\ MaxRequests \in Nat /\ HealthThreshold \in Nat /\ Horizon \in Nat
           /\ Unit > 0 /\ Capacity > 0 /\ MaxRequests > 0 /\ HealthThreshold > 0 /\ MaxGifts \in Nat
           /\ HealthScores \subseteq 0..10
BY DEF LimiterAssumption

LEMMA ExtremesOfTwo ==
    ASSUME NEW a \in Int, NEW b \in Int
    PROVE  /\ Min({a, b}) = IF a <= b THEN a ELSE b
           /\ Max({a, b}) = IF a >= b THEN a ELSE b
<1>1. \A x \in {a, b} : (\A y \in {a, b} : x <= y) <=> x = IF a <= b THEN a ELSE b
  OBVIOUS
<1>2. \A x \in {a, b} : (\A y \in {a, b} : x >= y) <=> x = IF a >= b THEN a ELSE b
  OBVIOUS
<1>3. (IF a <= b THEN a ELSE b) \in {a, b} /\ (IF a >= b THEN a ELSE b) \in {a, b}
  OBVIOUS
<1>4. Min({a, b}) = IF a <= b THEN a ELSE b
  BY <1>1, <1>3 DEF Min
<1>5. Max({a, b}) = IF a >= b THEN a ELSE b
  BY <1>2, <1>3 DEF Max
<1> QED
  BY <1>4, <1>5

-----------------------------------------------------------------------------
(* Totals over a stretch of time, of any grants g and gifts gs.            *)
GrantedOf(g, i, j) == SumFunctionOnSet(g, i..j)
GivenOf(gs, i, j) ==
    SumFunctionOnSet([k \in DOMAIN gs |-> gs[k].units], {k \in DOMAIN gs : gs[k].at \in i..j})
Gift == [at : Ticks, units : Int]

LEMMA TicksAre ==
    ASSUME LimiterAssumption, NEW i \in Ticks, NEW j \in Ticks
    PROVE  /\ i \in Nat /\ j \in Nat /\ i..j \subseteq Ticks /\ IsFiniteSet(i..j)
<1>1. i \in Nat /\ j \in Nat /\ i..j \subseteq Ticks
  BY LimiterConstants DEF Ticks
<1> QED
  BY <1>1, FS_Interval

LEMMA GrantsTyped ==
    ASSUME LimiterAssumption, NEW g \in [Ticks -> Nat], NEW i \in Ticks, NEW j \in Ticks
    PROVE  GrantedOf(g, i, j) \in Nat
<1> DEFINE S == i..j
<1>1. IsFiniteSet(S) /\ S \subseteq Ticks
  BY TicksAre
<1> HIDE DEF S
<1>2. \A t \in S : g[t] \in Nat
  BY <1>1
<1>3. SumFunctionOnSet(g, S) \in Nat
  BY <1>1, <1>2, SumOfNaturals
<1> QED
  BY <1>3 DEF GrantedOf, S

(* A grant counts in the stretches that reach its tick, and in no other.   *)
LEMMA GrantAdds ==
    ASSUME LimiterAssumption, NEW g \in [Ticks -> Nat], NEW t \in Ticks, NEW n \in Nat,
           NEW i \in Ticks, NEW j \in Ticks, NEW more \in [Ticks -> Nat],
           more[t] = g[t] + n, \A u \in Ticks : u # t => more[u] = g[u]
    PROVE  /\ i <= t /\ t <= j => GrantedOf(more, i, j) = GrantedOf(g, i, j) + n
           /\ j < t => GrantedOf(more, i, j) = GrantedOf(g, i, j)
<1> DEFINE S == i..j
<1>1. /\ more[t] = g[t] + n
      /\ \A u \in Ticks : u # t => more[u] = g[u]
  OBVIOUS
<1>2. /\ IsFiniteSet(S) /\ S \subseteq Ticks /\ i \in Nat /\ j \in Nat /\ t \in Nat
      /\ (i <= t /\ t <= j => t \in S) /\ (j < t => t \notin S)
  <2>1. i \in Nat /\ j \in Nat /\ t \in Nat /\ S \subseteq Ticks /\ IsFiniteSet(S)
    BY TicksAre
  <2> QED
    BY <2>1
<1> HIDE DEF S
<1>3. ASSUME t \in S PROVE SumFunctionOnSet(more, S) = SumFunctionOnSet(g, S) + n
  <2>1. /\ \A u \in S : g[u] \in Int
        /\ \A u \in S \ {t} : more[u] = g[u]
        /\ n \in Int
    BY <1>1, <1>2
  <2>2. IsFiniteSet(S) /\ t \in S /\ more[t] = g[t] + n
    BY <1>1, <1>2, <1>3
  <2> QED
    BY <2>1, <2>2, SumChanged
<1>4. ASSUME t \notin S PROVE SumFunctionOnSet(more, S) = SumFunctionOnSet(g, S)
  <2>1. \A u \in S : g[u] \in Int /\ more[u] = g[u]
    BY <1>1, <1>2, <1>4
  <2> QED
    BY <1>2, <2>1, SameSum
<1> QED
  BY <1>1, <1>2, <1>3, <1>4 DEF GrantedOf, S

(* A stretch can be cut in two. *)
LEMMA GrantsCut ==
    ASSUME LimiterAssumption, NEW g \in [Ticks -> Nat], NEW i \in Ticks, NEW m \in Ticks, NEW j \in Ticks,
           i <= m, m < j
    PROVE  /\ m + 1 \in Ticks
           /\ GrantedOf(g, i, j) = GrantedOf(g, i, m) + GrantedOf(g, m + 1, j)
<1>1. i \in Nat /\ m \in Nat /\ j \in Nat /\ m + 1 \in Ticks
  BY LimiterConstants DEF Ticks
<1> DEFINE S == i..m
           T == (m + 1)..j
<1>2. S \cap T = {} /\ S \cup T = i..j
  BY <1>1
<1>3. IsFiniteSet(S) /\ IsFiniteSet(T) /\ S \subseteq Ticks /\ T \subseteq Ticks
  BY <1>1, TicksAre
<1> HIDE DEF S, T
<1>4. \A t \in S \cup T : g[t] \in Int
  BY <1>3
<1>5. SumFunctionOnSet(g, S \cup T) = SumFunctionOnSet(g, S) + SumFunctionOnSet(g, T)
  BY <1>2, <1>3, <1>4, SumOfUnion
<1> QED
  BY <1>1, <1>2, <1>5 DEF GrantedOf, S, T

LEMMA GiftTicks ==
    ASSUME LimiterAssumption, NEW gs \in Seq(Gift)
    PROVE  \A k \in DOMAIN gs : gs[k].at \in Ticks /\ gs[k].at \in Nat /\ gs[k].units \in Int
<1>1. \A k \in DOMAIN gs : gs[k] \in Gift
  OBVIOUS
<1>2. \A k \in DOMAIN gs : gs[k].at \in Ticks /\ gs[k].units \in Int
  BY <1>1 DEF Gift
<1>3. Ticks \subseteq Nat
  BY DEF Ticks
<1> QED
  BY <1>2, <1>3

LEMMA GiftsTyped ==
    ASSUME LimiterAssumption, NEW gs \in Seq(Gift), NEW i, NEW j
    PROVE  LET S == {k \in DOMAIN gs : gs[k].at \in i..j} IN
           /\ IsFiniteSet(S) /\ \A k \in S : [l \in DOMAIN gs |-> gs[l].units][k] \in Int
           /\ GivenOf(gs, i, j) \in Int
<1> DEFINE S == {k \in DOMAIN gs : gs[k].at \in i..j}
           f == [l \in DOMAIN gs |-> gs[l].units]
<1>1. DOMAIN gs = 1..Len(gs) /\ Len(gs) \in Nat /\ \A k \in DOMAIN gs : gs[k] \in Gift
  OBVIOUS
<1>2. IsFiniteSet(DOMAIN gs)
  BY <1>1, UpToCount
<1>3. S \subseteq DOMAIN gs
  OBVIOUS
<1>4. \A k \in S : f[k] \in Int
  BY <1>1 DEF Gift
<1> HIDE DEF S, f
<1>5. IsFiniteSet(S)
  BY <1>2, <1>3, FS_Subset
<1>6. SumFunctionOnSet(f, S) \in Int
  BY <1>4, <1>5, SumType
<1> QED
  BY <1>4, <1>5, <1>6 DEF GivenOf, S, f

(* A gift counts in the stretches that reach its tick, and in no other.    *)
LEMMA GiftAdds ==
    ASSUME LimiterAssumption, NEW gs \in Seq(Gift), NEW t \in Ticks, NEW n \in Int,
           NEW i \in Ticks, NEW j \in Ticks
    PROVE  LET more == Append(gs, [at |-> t, units |-> n]) IN
           /\ more \in Seq(Gift) /\ Len(more) = Len(gs) + 1
           /\ i <= t /\ t <= j => GivenOf(more, i, j) = GivenOf(gs, i, j) + n
           /\ j < t => GivenOf(more, i, j) = GivenOf(gs, i, j)
<1> DEFINE more == Append(gs, [at |-> t, units |-> n])
           last == Len(gs) + 1
           Here(s) == {k \in DOMAIN s : s[k].at \in i..j}
           Units(s) == [k \in DOMAIN s |-> s[k].units]
<1>1. /\ more \in Seq(Gift) /\ DOMAIN more = DOMAIN gs \cup {last} /\ last \notin DOMAIN gs
      /\ more[last].at = t /\ more[last].units = n /\ \A k \in DOMAIN gs : more[k] = gs[k]
      /\ Len(more) = Len(gs) + 1
  BY DEF Gift
<1>2. i \in Nat /\ j \in Nat /\ t \in Nat
  BY TicksAre
<1> HIDE DEF more, last
<1>3. /\ Units(more)[last] = n /\ \A k \in DOMAIN gs : Units(more)[k] = Units(gs)[k]
  BY <1>1
<1>4. /\ i <= t /\ t <= j => Here(more) = Here(gs) \cup {last}
      /\ j < t => Here(more) = Here(gs)
  BY <1>1, <1>2
<1>5. /\ IsFiniteSet(Here(gs)) /\ \A k \in Here(gs) : Units(gs)[k] \in Int
      /\ GivenOf(gs, i, j) \in Int
  BY GiftsTyped
<1>6. Here(gs) \subseteq DOMAIN gs /\ last \notin Here(gs)
  BY <1>1
<1> HIDE DEF Here, Units
<1>7. SumFunctionOnSet(Units(more), Here(gs)) = SumFunctionOnSet(Units(gs), Here(gs))
  BY <1>3, <1>5, <1>6, SameSum
<1>8. \A k \in Here(gs) \cup {last} : Units(more)[k] \in Int
  BY <1>3, <1>5, <1>6
<1>9. SumFunctionOnSet(Units(more), Here(gs) \cup {last})
        = SumFunctionOnSet(Units(more), Here(gs)) + Units(more)[last]
  BY <1>5, <1>6, <1>8, AddElement
<1>10. /\ GivenOf(more, i, j) = SumFunctionOnSet(Units(more), Here(more))
       /\ GivenOf(gs, i, j) = SumFunctionOnSet(Units(gs), Here(gs))
  BY DEF GivenOf, Here, Units
<1>11. i <= t /\ t <= j => GivenOf(more, i, j) = GivenOf(gs, i, j) + n
  BY <1>3, <1>4, <1>7, <1>9, <1>10
<1>12. j < t => GivenOf(more, i, j) = GivenOf(gs, i, j)
  BY <1>4, <1>7, <1>10
<1> QED
  BY <1>1, <1>11, <1>12 DEF more

LEMMA GiftsCut ==
    ASSUME LimiterAssumption, NEW gs \in Seq(Gift), NEW i \in Ticks, NEW m \in Ticks, NEW j \in Ticks,
           i <= m, m < j
    PROVE  GivenOf(gs, i, j) = GivenOf(gs, i, m) + GivenOf(gs, m + 1, j)
<1> DEFINE Here(a, b) == {k \in DOMAIN gs : gs[k].at \in a..b}
           f == [k \in DOMAIN gs |-> gs[k].units]
           S == Here(i, m)
           T == Here(m + 1, j)
<1>1. i \in Nat /\ m \in Nat /\ j \in Nat
  BY TicksAre
<1>2. \A k \in DOMAIN gs : gs[k].at \in Nat
  BY GiftTicks
<1>3. S \cap T = {} /\ S \cup T = Here(i, j)
  BY <1>1, <1>2
<1>4. IsFiniteSet(S) /\ IsFiniteSet(T) /\ \A k \in S \cup T : f[k] \in Int
  BY GiftsTyped
<1>5. /\ GivenOf(gs, i, j) = SumFunctionOnSet(f, Here(i, j))
      /\ GivenOf(gs, i, m) = SumFunctionOnSet(f, S)
      /\ GivenOf(gs, m + 1, j) = SumFunctionOnSet(f, T)
  BY DEF GivenOf
<1> HIDE DEF f, S, T, Here
<1> QED
  BY <1>3, <1>4, <1>5, SumOfUnion

(* What has not come yet counts for nothing. *)
LEMMA NothingYet ==
    ASSUME LimiterAssumption, NEW g \in [Ticks -> Nat], NEW gs \in Seq(Gift), NEW i \in Ticks, NEW t \in Ticks,
           \A u \in Ticks : u >= i => g[u] = 0, \A k \in DOMAIN gs : gs[k].at < i
    PROVE  GrantedOf(g, i, t) = 0 /\ GivenOf(gs, i, t) = 0
<1> DEFINE S == i..t
<1>1. IsFiniteSet(S) /\ S \subseteq Ticks /\ i \in Nat /\ \A u \in S : u >= i
  BY TicksAre
<1> HIDE DEF S
<1>2. \A u \in S : g[u] = 0
  BY <1>1
<1>3. GrantedOf(g, i, t) = 0
  BY <1>1, <1>2, SumOfZeros DEF GrantedOf, S
<1>4. \A k \in DOMAIN gs : gs[k].at \in Nat
  BY GiftTicks
<1>5. {k \in DOMAIN gs : gs[k].at \in i..t} = {}
  BY <1>1, <1>4
<1>6. GivenOf(gs, i, t) = 0
  BY <1>5, EmptySum DEF GivenOf
<1> QED
  BY <1>3, <1>6

-----------------------------------------------------------------------------
(* A pool can reach some amount without another gift; what it granted and  *)
(* can reach together never exceed the allowance.  An adaptive limiter     *)
(* credits idle time at the rate of the next call, whatever it was in      *)
(* between, so its reach is reckoned at the highest rate.                  *)
Burst == IF kind = "bucket" THEN Capacity ELSE TopRate
Pace == IF kind = "bucket" THEN RefillRate ELSE TopRate
Reach == Min({Burst, tokens + (now - last_refill) * Pace})
PoolBound ==
    kind # "window" =>
        \A i \in 0..now : Granted(i, now) + Reach <= Burst + (now - i) * Pace + Given(i, now)

(* Where a health report has made the rate negative, the reach may be, and *)
(* the bound on the grants alone says more.                                *)
PoolGranted ==
    kind # "window" =>
        \A i \in 0..now : Granted(i, now) <= Burst + (now - i) * Pace + Given(i, now)

(* A window's list holds every grant that is not too old: without its      *)
(* first m entries, it still covers any stretch that they do not reach.    *)
EntriesCover ==
    kind = "window" =>
        \A i \in 0..now : i >= now - WindowSize =>
            \A m \in 0..Len(timestamps) :
                (\A k \in 1..m : timestamps[k] < i) => Granted(i, now) <= Len(timestamps) - m + Given(i, now)
WindowsBounded ==
    kind = "window" =>
        \A t \in 0..now : \A i \in 0..t : i >= t - WindowSize => Granted(i, t) <= MaxRequests + Given(i, t)

Future ==
    /\ \A t \in Ticks : t > now => grants[t] = 0
    /\ \A k \in DOMAIN gifts : gifts[k].at <= now
LimiterIInv == LimiterTypeOK /\ Future /\ PoolBound /\ PoolGranted /\ EntriesCover /\ WindowsBounded

LEMMA TopRateIs ==
    ASSUME LimiterAssumption
    PROVE  /\ TopRate \in Nat /\ MinRate <= TopRate /\ MaxRate <= TopRate
           /\ Burst \in Nat /\ Pace \in Nat
<1>1. MinRate \in Nat /\ MaxRate \in Nat /\ Capacity \in Nat /\ RefillRate \in Nat
  BY LimiterConstants
<1>2. TopRate = IF MinRate >= MaxRate THEN MinRate ELSE MaxRate
  <2>1. MinRate \in Int /\ MaxRate \in Int
    BY <1>1
  <2>2. Max({MinRate, MaxRate}) = IF MinRate >= MaxRate THEN MinRate ELSE MaxRate
    BY <2>1, ExtremesOfTwo
  <2> QED
    BY <2>2 DEF TopRate
<1> QED
  BY <1>1, <1>2 DEF Burst, Pace

LEMMA LimiterTimes ==
    ASSUME LimiterAssumption, LimiterTypeOK
    PROVE  /\ now \in Nat /\ now \in Ticks /\ last_refill \in Nat /\ last_refill <= now
           /\ now - last_refill \in Nat /\ 0..now \subseteq Ticks
           /\ \A i \in 0..now : i \in Ticks /\ i \in Nat /\ i <= now
<1>1. Ticks = 0..Horizon /\ Horizon \in Nat /\ now \in Ticks /\ last_refill \in 0..now
  BY LimiterConstants DEF LimiterTypeOK, Ticks
<1> QED
  BY <1>1

(* The totals that stand in the property. *)
LEMMA TotalsOf ==
    ASSUME LimiterAssumption, NEW i, NEW j
    PROVE  Granted(i, j) = GrantedOf(grants, i, j) /\ Given(i, j) = GivenOf(gifts, i, j)
BY DEF Granted, Given, GrantedOf, GivenOf

LEMMA TotalsTyped ==
    ASSUME LimiterAssumption, LimiterTypeOK, NEW i \in Ticks, NEW j \in Ticks
    PROVE  Granted(i, j) \in Nat /\ Given(i, j) \in Int
BY TotalsOf, GrantsTyped, GiftsTyped DEF LimiterTypeOK, Gift

(* What a step other than a tick does to the history: it grants n and is   *)
(* given u, now.                                                           *)
Moves(n, u) ==
    /\ now' = now /\ kind' = kind
    /\ grants' \in [Ticks -> Nat] /\ gifts' \in Seq(Gift) /\ Len(gifts') <= MaxGifts
    /\ Future'
    /\ \A i \in 0..now : Granted(i, now)' = Granted(i, now) + n /\ Given(i, now)' = Given(i, now) + u
    /\ \A t \in 0..now : t < now => \A i \in 0..t : Granted(i, t)' = Granted(i, t) /\ Given(i, t)' = Given(i, t)

LEMMA NothingMoves ==
    ASSUME LimiterAssumption, LimiterIInv, UNCHANGED <<kind, now, grants, gifts>>
    PROVE  Moves(0, 0)
<1>1. grants \in [Ticks -> Nat] /\ gifts \in Seq(Gift) /\ Len(gifts) <= MaxGifts
  BY DEF LimiterIInv, LimiterTypeOK, Gift
<1>2. \A i \in 0..now : Granted(i, now) \in Nat /\ Given(i, now) \in Int
  BY LimiterTimes, TotalsTyped DEF LimiterIInv
<1>3. \A i, j : Granted(i, j)' = Granted(i, j) /\ Given(i, j)' = Given(i, j)
  BY DEF Granted, Given
<1>4. Future'
  BY DEF LimiterIInv, Future
<1> QED
  BY <1>1, <1>2, <1>3, <1>4 DEF Moves

LEMMA GrantMoves ==
    ASSUME LimiterAssumption, LimiterIInv, NEW n \in Nat, Grant(n), UNCHANGED <<kind, now, gifts>>
    PROVE  Moves(n, 0)
<1>1. grants \in [Ticks -> Nat] /\ gifts \in Seq(Gift) /\ Len(gifts) <= MaxGifts
  BY DEF LimiterIInv, LimiterTypeOK, Gift
<1>2. grants' = [grants EXCEPT ![now] = @ + n] /\ now \in Ticks
  BY LimiterTimes DEF Grant, LimiterIInv
<1>3. /\ grants' \in [Ticks -> Nat] /\ grants'[now] = grants[now] + n
      /\ \A t \in Ticks : t # now => grants'[t] = grants[t]
  BY <1>1, <1>2
<1>4. Future'
  BY <1>3, LimiterTimes DEF LimiterIInv, Future, Ticks
<1>5. \A i \in Ticks : \A j \in Ticks :
          /\ i <= now /\ now <= j => Granted(i, j)' = Granted(i, j) + n
          /\ j < now => Granted(i, j)' = Granted(i, j)
  <2> SUFFICES ASSUME NEW i \in Ticks, NEW j \in Ticks
               PROVE  /\ i <= now /\ now <= j => Granted(i, j)' = Granted(i, j) + n
                      /\ j < now => Granted(i, j)' = Granted(i, j)
    OBVIOUS
  <2>1. Granted(i, j)' = GrantedOf(grants', i, j) /\ Granted(i, j) = GrantedOf(grants, i, j)
    BY DEF Granted, GrantedOf
  <2>2. /\ i <= now /\ now <= j => GrantedOf(grants', i, j) = GrantedOf(grants, i, j) + n
        /\ j < now => GrantedOf(grants', i, j) = GrantedOf(grants, i, j)
    <3>1. \A g \in [Ticks -> Nat] : \A t \in Ticks : \A more \in [Ticks -> Nat] :
              more[t] = g[t] + n /\ (\A u \in Ticks : u # t => more[u] = g[u]) =>
                /\ i <= t /\ t <= j => GrantedOf(more, i, j) = GrantedOf(g, i, j) + n
                /\ j < t => GrantedOf(more, i, j) = GrantedOf(g, i, j)
      BY GrantAdds
    <3> QED
      BY <1>1, <1>2, <1>3, <3>1
  <2> QED
    BY <1>2, <2>1, <2>2
<1>6. \A i, j : Given(i, j)' = Given(i, j)
  BY DEF Given
<1>7. \A i \in 0..now : Granted(i, now)' = Granted(i, now) + n /\ Given(i, now)' = Given(i, now) + 0
  BY <1>5, <1>6, LimiterTimes, TotalsTyped DEF LimiterIInv
<1>8. \A t \in 0..now : t < now => \A i \in 0..t : Granted(i, t)' = Granted(i, t) /\ Given(i, t)' = Given(i, t)
  BY <1>5, <1>6, LimiterTimes DEF LimiterIInv
<1> QED
  BY <1>1, <1>3, <1>4, <1>7, <1>8 DEF Moves

LEMMA GiveMoves ==
    ASSUME LimiterAssumption, LimiterIInv, NEW u \in Int, Give(u), Len(gifts) < MaxGifts,
           UNCHANGED <<kind, now, grants>>
    PROVE  Moves(0, u)
<1>1. grants \in [Ticks -> Nat] /\ gifts \in Seq(Gift) /\ MaxGifts \in Nat
  BY LimiterConstants DEF LimiterIInv, LimiterTypeOK, Gift
<1> DEFINE gift == [at |-> now, units |-> u]
<1>2. gifts' = Append(gifts, gift) /\ now \in Ticks
  BY LimiterTimes DEF Give, LimiterIInv
<1>3. gifts' \in Seq(Gift) /\ Len(gifts') = Len(gifts) + 1 /\ Len(gifts) \in Nat
  BY <1>1, <1>2 DEF Gift
<1>4. \A k \in DOMAIN gifts' : gifts'[k] = gift \/ (k \in DOMAIN gifts /\ gifts'[k] = gifts[k])
  BY <1>1, <1>2
<1>5. Future'
  <2>1. gift.at = now /\ now \in Nat
    BY LimiterTimes DEF LimiterIInv
  <2>2. \A k \in DOMAIN gifts' : gifts'[k].at <= now
    BY <1>4, <2>1 DEF LimiterIInv, Future
  <2> QED
    BY <2>2 DEF LimiterIInv, Future
<1>6. \A i \in Ticks : \A j \in Ticks :
          /\ i <= now /\ now <= j => Given(i, j)' = Given(i, j) + u
          /\ j < now => Given(i, j)' = Given(i, j)
  <2> SUFFICES ASSUME NEW i \in Ticks, NEW j \in Ticks
               PROVE  /\ i <= now /\ now <= j => Given(i, j)' = Given(i, j) + u
                      /\ j < now => Given(i, j)' = Given(i, j)
    OBVIOUS
  <2>1. Given(i, j)' = GivenOf(gifts', i, j) /\ Given(i, j) = GivenOf(gifts, i, j)
    BY DEF Given, GivenOf
  <2>2. /\ i <= now /\ now <= j => GivenOf(Append(gifts, gift), i, j) = GivenOf(gifts, i, j) + u
        /\ j < now => GivenOf(Append(gifts, gift), i, j) = GivenOf(gifts, i, j)
    BY <1>1, <1>2, GiftAdds
  <2> QED
    BY <1>2, <2>1, <2>2
<1>7. \A i, j : Granted(i, j)' = Granted(i, j)
  BY DEF Granted
<1>8. \A i \in 0..now : Granted(i, now)' = Granted(i, now) + 0 /\ Given(i, now)' = Given(i, now) + u
  <2> SUFFICES ASSUME NEW i \in 0..now
               PROVE  Granted(i, now)' = Granted(i, now) + 0 /\ Given(i, now)' = Given(i, now) + u
    OBVIOUS
  <2>1. i \in Ticks /\ now \in Ticks /\ i <= now /\ now <= now
    BY LimiterTimes DEF LimiterIInv
  <2>2. Granted(i, now)' = Granted(i, now) /\ Granted(i, now) \in Nat
    BY <1>7, <2>1, TotalsTyped DEF LimiterIInv
  <2> QED
    BY <1>6, <2>1, <2>2
<1>9. \A t \in 0..now : t < now => \A i \in 0..t : Granted(i, t)' = Granted(i, t) /\ Given(i, t)' = Given(i, t)
  BY <1>6, <1>7, LimiterTimes DEF LimiterIInv
<1>10. Len(gifts') <= MaxGifts
  BY <1>1, <1>3
<1> QED
  BY <1>1, <1>3, <1>5, <1>8, <1>9, <1>10 DEF Moves

(* What the pool holds when its time is credited. *)
LEMMA PoolHolds ==
    ASSUME LimiterAssumption, LimiterTypeOK, NEW size \in Int, NEW r \in Int, tokens <= size
    PROVE  /\ Refilled(size, r) \in Int /\ Refilled(size, r) <= size
           /\ Earned(r) \in Int
           /\ \/ Earned(r) <= 0 /\ Refilled(size, r) = tokens
              \/ /\ Earned(r) > 0 /\ Refilled(size, r) <= tokens + Earned(r)
                 /\ Refilled(size, r) = size \/ Refilled(size, r) = tokens + Earned(r)
<1>1. tokens \in Int /\ now - last_refill \in Nat
  BY LimiterTimes DEF LimiterTypeOK
<1>2. PICK e \in Int : e = Earned(r)
  BY <1>1 DEF Earned
<1>3. Refilled(size, r) = IF e > 0 THEN Min({size, tokens + e}) ELSE tokens
  BY <1>2 DEF Refilled
<1>4. tokens + e \in Int
  BY <1>1
<1>5. Min({size, tokens + e}) = IF size <= tokens + e THEN size ELSE tokens + e
  BY <1>4, ExtremesOfTwo
<1> QED
  BY <1>1, <1>2, <1>3, <1>4, <1>5

LEMMA ReachIs ==
    ASSUME LimiterAssumption, LimiterTypeOK
    PROVE  /\ tokens <= Burst
           /\ Reach = Refilled(Burst, Pace)
           /\ Reach \in Int /\ Reach <= Burst /\ Reach <= tokens + (now - last_refill) * Pace
           /\ Reach = Burst \/ Reach = tokens + (now - last_refill) * Pace
<1>1. tokens \in Int /\ now - last_refill \in Nat
  BY LimiterTimes DEF LimiterTypeOK
<1>2. Burst \in Nat /\ Pace \in Nat
  BY TopRateIs
<1>3. tokens <= Burst
  <2>1. rate \in Int /\ rate <= TopRate /\ TopRate \in Nat
    BY TopRateIs DEF LimiterTypeOK
  <2> QED
    BY <1>1, <2>1 DEF LimiterTypeOK, Burst
<1>4. PICK e \in Nat : e = (now - last_refill) * Pace
  BY <1>1, <1>2
<1>5. tokens + e \in Int /\ Burst \in Int
  BY <1>1, <1>2
<1>6. Min({Burst, tokens + e}) = IF Burst <= tokens + e THEN Burst ELSE tokens + e
  BY <1>5, ExtremesOfTwo
<1>7. Reach = Min({Burst, tokens + e})
  BY <1>4 DEF Reach
<1>8. Refilled(Burst, Pace) = IF e > 0 THEN Min({Burst, tokens + e}) ELSE tokens
  BY <1>4 DEF Refilled, Earned
<1> QED
  BY <1>1, <1>3, <1>4, <1>5, <1>6, <1>7, <1>8

LEMMA ProductsGrow ==
    ASSUME NEW d \in Nat, NEW a \in Int, NEW b \in Int, a <= b
    PROVE  d * a <= d * b
<1>1. d * (b - a) >= 0
  BY SMT
<1> QED
  BY <1>1, SMT

(* Crediting time at a lower rate, into less room, gives no more. *)
LEMMA RefilledReaches ==
    ASSUME LimiterAssumption, LimiterTypeOK, NEW size \in Int, NEW r \in Int,
           tokens <= size, size <= Burst, r <= Pace
    PROVE  Refilled(size, r) <= Reach
<1>1. now - last_refill \in Nat /\ tokens \in Int /\ Burst \in Nat /\ Pace \in Nat
  <2>1. now - last_refill \in Nat
    BY LimiterTimes
  <2>2. tokens \in Int
    BY DEF LimiterTypeOK
  <2>3. Burst \in Nat /\ Pace \in Nat
    BY TopRateIs
  <2> QED
    BY <2>1, <2>2, <2>3
<1>2. (now - last_refill) * r <= (now - last_refill) * Pace
  BY <1>1, ProductsGrow
<1>3. PICK more \in Nat : more = (now - last_refill) * Pace
  BY <1>1
<1>4. Earned(r) \in Int /\ Earned(r) <= more
  BY <1>1, <1>2, <1>3 DEF Earned
<1>5. /\ Refilled(size, r) \in Int /\ Refilled(size, r) <= size
      /\ Refilled(size, r) = tokens \/ Refilled(size, r) <= tokens + Earned(r)
  BY PoolHolds
<1>6. tokens <= Burst /\ (Reach = Burst \/ Reach = tokens + more)
  BY <1>3, ReachIs
<1>7. PICK e \in Int : e = Earned(r)
  BY <1>4
<1> QED
  BY <1>1, <1>3, <1>4, <1>5, <1>6, <1>7

(* A step of a pool that grants no more than its reach falls by.           *)
LEMMA PoolKeeps ==
    ASSUME LimiterAssumption, LimiterIInv, kind # "window", NEW n \in Nat, NEW u \in Int, Moves(n, u),
           LimiterTypeOK', Reach' + n <= Reach + u, Reach' >= 0 \/ (n = 0 /\ u >= 0)
    PROVE  LimiterIInv'
<1>1. kind' = kind /\ now' = now /\ Future'
  BY DEF Moves
<1>2. Burst' = Burst /\ Pace' = Pace /\ Burst \in Nat /\ Pace \in Nat
  BY <1>1, TopRateIs DEF Burst, Pace
<1>3. Reach \in Int /\ Reach' \in Int
  <2>1. Reach \in Int
    BY ReachIs DEF LimiterIInv
  <2>2. (Reach \in Int)'
    BY ReachIs, PTL
  <2> QED
    BY <2>1, <2>2
<1>4. PoolBound'
  <2> SUFFICES ASSUME NEW i \in 0..now
               PROVE  Granted(i, now)' + Reach' <= Burst + (now - i) * Pace + Given(i, now)'
    BY <1>1, <1>2 DEF PoolBound
  <2>1. Granted(i, now) + Reach <= Burst + (now - i) * Pace + Given(i, now)
    BY DEF LimiterIInv, PoolBound
  <2>2. Granted(i, now)' = Granted(i, now) + n /\ Given(i, now)' = Given(i, now) + u
    BY DEF Moves
  <2>3. Granted(i, now) \in Int /\ Given(i, now) \in Int
    BY LimiterTimes, TotalsTyped DEF LimiterIInv
  <2>4. now \in Int /\ i \in Int /\ (now - i) * Pace \in Int
    BY <1>2, LimiterTimes DEF LimiterIInv
  <2> DEFINE room == (now - i) * Pace
  <2> HIDE DEF room
  <2>5. room \in Int
    BY <2>4 DEF room
  <2>6. Granted(i, now) + Reach <= Burst + room + Given(i, now)
    BY <2>1 DEF room
  <2>7. Granted(i, now)' + Reach' <= Burst + room + Given(i, now)'
    <3>1. Burst \in Int /\ n \in Int /\ u \in Int
      BY <1>2
    <3>2. Granted(i, now) + n + Reach' <= Burst + room + (Given(i, now) + u)
      BY <1>3, <2>3, <2>5, <2>6, <3>1
    <3> QED
      BY <2>2, <3>2
  <2> QED
    BY <2>7 DEF room
<1>5. PoolGranted'
  <2> SUFFICES ASSUME NEW i \in 0..now
               PROVE  Granted(i, now)' <= Burst + (now - i) * Pace + Given(i, now)'
    BY <1>1, <1>2 DEF PoolGranted
  <2>1. PICK a \in Int, v \in Int : a = Granted(i, now) /\ v = Given(i, now)
    BY LimiterTimes, TotalsTyped DEF LimiterIInv
  <2>2. Granted(i, now)' = a + n /\ Given(i, now)' = v + u
    BY <2>1 DEF Moves
  <2>3. (now - i) * Pace \in Int
    BY <1>2, LimiterTimes DEF LimiterIInv
  <2>4. PICK most \in Int : most = Burst + (now - i) * Pace
    BY <1>2, <2>3
  <2>5. CASE Reach' >= 0
    <3>1. PICK q \in Int : q = Reach'
      BY <1>3
    <3>2. Granted(i, now)' + Reach' <= Burst + (now - i) * Pace + Given(i, now)'
      BY <1>1, <1>2, <1>4 DEF PoolBound
    <3>3. (a + n) + q <= most + (v + u) /\ q >= 0
      BY <2>2, <2>4, <2>5, <3>1, <3>2
    <3>4. a + n <= most + (v + u)
      BY <3>3
    <3> QED
      BY <2>2, <2>4, <3>4
  <2>6. CASE n = 0 /\ u >= 0
    <3>1. a <= most + v
      BY <2>1, <2>4 DEF LimiterIInv, PoolGranted
    <3>2. a + n <= most + (v + u)
      BY <2>6, <3>1
    <3> QED
      BY <2>2, <2>4, <3>2
  <2> QED
    BY <2>5, <2>6
<1>6. EntriesCover' /\ WindowsBounded'
  BY <1>1 DEF EntriesCover, WindowsBounded
<1> QED
  BY <1>1, <1>4, <1>5, <1>6 DEF LimiterIInv

(* A pool that has just credited its time reaches what it holds. *)
LEMMA JustRefilled ==
    ASSUME LimiterAssumption, LimiterIInv, kind' = kind, now' = now, last_refill' = now,
           tokens' \in Int, tokens' <= Burst
    PROVE  Reach' = tokens'
<1>1. now \in Nat /\ Burst' = Burst /\ Pace' = Pace /\ Burst \in Nat /\ Pace \in Nat
  BY LimiterTimes, TopRateIs DEF LimiterIInv, Burst, Pace
<1>2. Burst' \in Int
  BY <1>1
<1>3. tokens' + (now' - last_refill') * Pace' = tokens'
  <2>1. now' - last_refill' = 0 /\ Pace' \in Int /\ tokens' \in Int
    BY <1>1
  <2>2. \A x \in Int : \A y \in Int : x + 0 * y = x
    OBVIOUS
  <2> QED
    BY <2>1, <2>2
<1>4. Reach' = Min({Burst', tokens'})
  BY <1>3 DEF Reach
<1>5. Min({Burst', tokens'}) = IF Burst' <= tokens' THEN Burst' ELSE tokens'
  BY <1>2, ExtremesOfTwo
<1> QED
  BY <1>1, <1>4, <1>5

(* The rates an adaptive limiter works at. *)
LEMMA RatesFor ==
    ASSUME LimiterAssumption, NEW h \in HealthScores
    PROVE  /\ RateFor(h) \in Int /\ RateFor(h) <= TopRate
           /\ MinRate <= MaxRate => RateFor(h) >= 0
<1>1. /\ h \in 0..10 /\ HealthThreshold \in Nat /\ HealthThreshold > 0
      /\ MinRate \in Nat /\ MaxRate \in Nat
  BY LimiterConstants
<1>2. TopRate \in Nat /\ MinRate <= TopRate /\ MaxRate <= TopRate
  BY TopRateIs
<1>3. CASE h >= HealthThreshold
  <2> DEFINE up == (MaxRate - MinRate) * h
             scaled == MinRate + up \div HealthThreshold
  <2>1. up \in Int
    BY <1>1
  <2>2. MinRate <= MaxRate => up >= 0
    <3>1. ASSUME MinRate <= MaxRate PROVE up >= 0
      <4>1. MaxRate - MinRate \in Nat /\ h \in Nat
        BY <1>1, <3>1
      <4> QED
        BY <4>1
    <3> QED
      BY <3>1
  <2> HIDE DEF up
  <2>3. up \div HealthThreshold \in Int /\ (up >= 0 => up \div HealthThreshold >= 0)
    BY <1>1, <2>1
  <2>4. scaled \in Int /\ (MinRate <= MaxRate => scaled >= 0)
    BY <1>1, <2>2, <2>3
  <2>5. RateFor(h) = Min({MaxRate, scaled})
    BY <1>1, <1>3 DEF RateFor, up
  <2> HIDE DEF scaled
  <2>6. MaxRate \in Int
    BY <1>1
  <2>7. Min({MaxRate, scaled}) = IF MaxRate <= scaled THEN MaxRate ELSE scaled
    BY <2>4, <2>6, ExtremesOfTwo
  <2> QED
    BY <1>1, <1>2, <2>4, <2>5, <2>7
<1>4. CASE h > 0 /\ h < HealthThreshold
  <2> DEFINE scaled == (MaxRate * h) \div 10
  <2>1. MaxRate * h \in Int /\ 0 <= MaxRate * h /\ MaxRate * h <= MaxRate * 10
    <3>1. h \in Int /\ h <= 10 /\ h \in Nat
      BY <1>1
    <3>2. MaxRate * h <= MaxRate * 10
      BY <1>1, <3>1, ProductsGrow
    <3> QED
      BY <1>1, <3>1, <3>2
  <2>2. scaled \in Int /\ 0 <= scaled /\ scaled <= MaxRate
    <3> DEFINE p == MaxRate * h
    <3>1. p \in Int /\ 0 <= p /\ p <= MaxRate * 10
      BY <2>1
    <3> HIDE DEF p
    <3>2. p \div 10 \in Int /\ 0 <= p \div 10 /\ p \div 10 <= MaxRate
      BY <1>1, <3>1
    <3> QED
      BY <3>2 DEF p
  <2>3. RateFor(h) = Max({MinRate, scaled})
    BY <1>1, <1>4 DEF RateFor
  <2> HIDE DEF scaled
  <2>4. MinRate \in Int
    BY <1>1
  <2>5. Max({MinRate, scaled}) = IF MinRate >= scaled THEN MinRate ELSE scaled
    BY <2>2, <2>4, ExtremesOfTwo
  <2> QED
    BY <1>1, <1>2, <2>2, <2>3, <2>5
<1>5. CASE h = 0
  <2>1. MinRate \div 10 \in Int /\ 0 <= MinRate \div 10 /\ MinRate \div 10 <= MinRate
    BY <1>1
  <2>2. RateFor(h) = MinRate \div 10
    BY <1>1, <1>5 DEF RateFor
  <2> QED
    BY <1>2, <1>1, <2>1, <2>2
<1> QED
  BY <1>1, <1>3, <1>4, <1>5

(* Taking from a pool, whatever size and rate it is refilled at. *)
LEMMA TakeKeeps ==
    ASSUME LimiterAssumption, LimiterIInv, kind # "window", NEW n \in Nat, NEW size \in Int, NEW r \in Int,
           tokens <= size, size <= Burst, r <= Pace, size <= (IF kind = "bucket" THEN Capacity ELSE rate),
           MinRate <= MaxRate => size >= 0 /\ r >= 0, r > 0 \/ size < n, Take(n, size, r)
    PROVE  LimiterIInv'
<1> DEFINE there == Refilled(size, r)
<1>1. there \in Int /\ there <= Reach /\ there <= size
  BY PoolHolds, RefilledReaches DEF LimiterIInv
<1>2. MinRate <= MaxRate => there >= 0
  <2>1. ASSUME MinRate <= MaxRate PROVE there >= 0
    <3>1. tokens \in Nat /\ size \in Nat
      BY <2>1 DEF LimiterIInv, LimiterTypeOK
    <3>2. /\ Earned(r) \in Int
          /\ there = tokens \/ (Earned(r) > 0 /\ (there = size \/ there = tokens + Earned(r)))
      BY PoolHolds DEF LimiterIInv
    <3>3. PICK e \in Int : e = Earned(r)
      BY <3>2
    <3> QED
      BY <3>1, <3>2, <3>3
  <2> QED
    BY <2>1
<1>3. /\ Credit(r) /\ kind' = kind /\ now' = now /\ rate' = rate
      /\ timestamps' = timestamps /\ gifts' = gifts
      /\ \/ there >= n /\ tokens' = there - n /\ Grant(n)
         \/ tokens' = there /\ grants' = grants
  BY DEF Take
<1>a. now \in Nat /\ last_refill \in Nat /\ last_refill <= now /\ now \in Ticks
  BY LimiterTimes DEF LimiterIInv, LimiterTypeOK
<1>b. last_refill' \in 0..now
  BY <1>3, <1>a DEF Credit
<1>c. \/ last_refill' = now
      \/ r <= 0 /\ size < n /\ there = tokens /\ last_refill' = last_refill
  <2>1. CASE Earned(r) > 0
    BY <1>3, <2>1 DEF Credit
  <2>2. CASE Earned(r) <= 0 /\ r > 0
    <3>1. PICK d \in Nat : d = now - last_refill
      BY <1>a
    <3>2. d * r <= 0
      BY <2>2, <3>1 DEF Earned
    <3>3. \A x \in Nat : \A y \in Int : y > 0 /\ x * y <= 0 => x = 0
      BY SMT
    <3>4. last_refill = now
      BY <1>a, <2>2, <3>1, <3>2, <3>3
    <3> QED
      BY <1>3, <3>4 DEF Credit
  <2>3. CASE Earned(r) <= 0 /\ r <= 0
    <3>1. last_refill' = last_refill /\ there = tokens
      <4>1. ~(Earned(r) > 0)
        <5>1. Earned(r) \in Int
          BY PoolHolds DEF LimiterIInv
        <5> QED
          BY <2>3, <5>1
      <4> QED
        BY <1>3, <4>1 DEF Credit, Refilled
    <3> QED
      BY <2>3, <3>1
  <2>4. Earned(r) \in Int
    BY PoolHolds DEF LimiterIInv
  <2> QED
    BY <2>1, <2>2, <2>3, <2>4
<1> HIDE DEF there
<1>4. tokens' \in Int /\ tokens' <= size /\ (MinRate <= MaxRate => tokens' >= 0)
  BY <1>1, <1>2, <1>3
<1>5. Burst \in Nat /\ Burst' = Burst /\ Pace' = Pace
  BY <1>3, TopRateIs DEF Burst, Pace
<1>6. \/ there >= n /\ tokens' = there - n /\ Moves(n, 0)
      \/ tokens' = there /\ Moves(0, 0)
  BY <1>3, GrantMoves, NothingMoves
<1>7. LimiterTypeOK'
  <2>1. grants' \in [Ticks -> Nat]
    BY <1>6 DEF Moves
  <2>2. now' \in Ticks /\ last_refill' \in 0..now'
    BY <1>3, <1>a, <1>b
  <2>3. tokens' <= IF kind' = "bucket" THEN Capacity ELSE rate'
    <3>1. Capacity \in Int /\ rate \in Int
      BY LimiterConstants DEF LimiterIInv, LimiterTypeOK
    <3> QED
      BY <1>3, <1>4, <3>1
  <2> QED
    BY <1>3, <1>4, <2>1, <2>2, <2>3 DEF LimiterIInv, LimiterTypeOK
<1>9. Reach \in Int /\ tokens' <= Burst
  BY <1>4, <1>5, ReachIs DEF LimiterIInv
<1>8. CASE last_refill' = now
  <2>0. Reach' = tokens'
    BY <1>3, <1>4, <1>8, <1>9, JustRefilled
  <2>1. CASE there >= n /\ tokens' = there - n /\ Moves(n, 0)
    <3>1. Reach' + n <= Reach + 0 /\ Reach' >= 0
      BY <1>1, <1>9, <2>0, <2>1
    <3> QED
      BY <1>7, <2>1, <3>1, PoolKeeps
  <2>2. CASE tokens' = there /\ Moves(0, 0)
    <3>1. Reach' + 0 <= Reach + 0 /\ 0 >= 0
      BY <1>1, <1>9, <2>0, <2>2
    <3> QED
      BY <1>7, <2>2, <3>1, PoolKeeps
  <2> QED
    BY <1>6, <2>1, <2>2
<1>10. CASE r <= 0 /\ size < n /\ there = tokens /\ last_refill' = last_refill
  <2>1. tokens' = tokens /\ Moves(0, 0)
    BY <1>1, <1>6, <1>10
  <2>2. Reach' = Reach
    BY <1>3, <1>5, <1>10, <2>1 DEF Reach
  <2>3. Reach' + 0 <= Reach + 0 /\ 0 >= 0
    BY <1>9, <2>2
  <2> QED
    BY <1>7, <2>1, <2>3, PoolKeeps
<1> QED
  BY <1>c, <1>8, <1>10

LEMMA ConsumeKeeps ==
    ASSUME LimiterAssumption, LimiterIInv, NEW n \in {Unit, 2 * Unit}, Consume(n)
    PROVE  LimiterIInv'
<1>1. n \in Nat /\ Capacity \in Int /\ RefillRate \in Int /\ Capacity >= 0 /\ RefillRate > 0
  BY LimiterConstants
<1>2. kind = "bucket" /\ Take(n, Capacity, RefillRate)
  BY DEF Consume
<1>3. /\ kind # "window" /\ Capacity <= Burst /\ RefillRate <= Pace /\ tokens <= Capacity
      /\ Capacity <= IF kind = "bucket" THEN Capacity ELSE rate
  BY <1>1, <1>2 DEF Burst, Pace, LimiterIInv, LimiterTypeOK
<1> QED
  BY <1>1, <1>2, <1>3, TakeKeeps

LEMMA AllowAdaptiveKeeps ==
    ASSUME LimiterAssumption, LimiterIInv, AllowAdaptive
    PROVE  LimiterIInv'
<1>1. Unit \in Nat /\ Unit > 0 /\ rate \in Int /\ rate <= TopRate /\ (MinRate <= MaxRate => rate >= 0)
  BY LimiterConstants DEF LimiterIInv, LimiterTypeOK
<1>2. kind = "adaptive" /\ Take(Unit, rate, rate)
  BY DEF AllowAdaptive
<1>3. /\ kind # "window" /\ rate <= Burst /\ rate <= Pace /\ tokens <= rate
      /\ rate <= (IF kind = "bucket" THEN Capacity ELSE rate) /\ (rate > 0 \/ rate < Unit)
  BY <1>1, <1>2 DEF Burst, Pace, LimiterIInv, LimiterTypeOK
<1> QED
  BY <1>1, <1>2, <1>3, TakeKeeps

LEMMA AvailableKeeps ==
    ASSUME LimiterAssumption, LimiterIInv, Available
    PROVE  LimiterIInv'
<1>a. Earned(RefillRate) > 0 \/ last_refill = now
  <2>1. PICK d \in Nat : d = now - last_refill
    BY LimiterTimes DEF LimiterIInv
  <2>2. RefillRate \in Nat /\ RefillRate > 0
    BY LimiterConstants
  <2>3. \A x \in Nat : \A y \in Nat : y > 0 => x = 0 \/ x * y > 0
    BY SMT
  <2>4. d = 0 \/ d * RefillRate > 0
    BY <2>2, <2>3
  <2>5. now \in Int /\ last_refill \in Int
    BY LimiterTimes DEF LimiterIInv, LimiterTypeOK
  <2>6. CASE d = 0
    BY <2>1, <2>5, <2>6
  <2> QED
    BY <2>1, <2>4, <2>6 DEF Earned
<1>1. /\ kind = "bucket" /\ tokens' = Refilled(Capacity, RefillRate) /\ last_refill' = now
      /\ UNCHANGED <<kind, now, rate, timestamps, grants, gifts>>
  BY <1>a DEF Available, Credit, history
<1>2. Capacity = Burst /\ RefillRate = Pace /\ Burst' = Burst /\ Burst \in Nat
  BY <1>1, TopRateIs DEF Burst, Pace
<1>3. tokens' = Reach /\ Reach \in Int /\ Reach <= Burst
  BY <1>1, <1>2, ReachIs DEF LimiterIInv
<1>4. MinRate <= MaxRate => Reach >= 0
  <2>1. ASSUME MinRate <= MaxRate PROVE Reach >= 0
    <3>1. tokens \in Nat
      BY <2>1 DEF LimiterIInv, LimiterTypeOK
    <3>a. now - last_refill \in Nat /\ Burst \in Nat /\ Pace \in Nat
      BY LimiterTimes, TopRateIs DEF LimiterIInv
    <3>2. (now - last_refill) * Pace \in Nat
      BY <3>a
    <3>3. Reach = Burst \/ Reach = tokens + (now - last_refill) * Pace
      BY ReachIs DEF LimiterIInv
    <3> QED
      BY <3>1, <3>a, <3>2, <3>3
  <2> QED
    BY <2>1
<1>5. Moves(0, 0)
  BY <1>1, NothingMoves
<1>6. LimiterTypeOK'
  <2>1. now' \in Ticks /\ last_refill' \in 0..now'
    BY <1>1, LimiterTimes DEF LimiterIInv
  <2>2. tokens' <= IF kind' = "bucket" THEN Capacity ELSE rate'
    BY <1>1, <1>2, <1>3
  <2> QED
    BY <1>1, <1>3, <1>4, <2>1, <2>2 DEF LimiterIInv, LimiterTypeOK
<1>7. Reach' = tokens'
  BY <1>1, <1>2, <1>3, JustRefilled
<1>8. kind # "window" /\ Reach' + 0 <= Reach + 0
  BY <1>1, <1>3, <1>7
<1> QED
  BY <1>5, <1>6, <1>8, PoolKeeps

LEMMA RefillKeeps ==
    ASSUME LimiterAssumption, LimiterIInv, NEW n \in {Unit, Capacity}, Refill(n)
    PROVE  LimiterIInv'
<1> DEFINE u == Max({0, tokens' - Refilled(Capacity, RefillRate)})
<1>1. /\ kind = "bucket" /\ Len(gifts) < MaxGifts /\ last_refill' = now
      /\ tokens' = Min({Capacity, tokens + n}) /\ Give(u)
      /\ UNCHANGED <<kind, now, rate, timestamps, grants>>
  BY DEF Refill
<1>2. n \in Nat /\ Capacity \in Nat /\ tokens \in Int /\ (MinRate <= MaxRate => tokens >= 0)
  BY LimiterConstants DEF LimiterIInv, LimiterTypeOK
<1>3. Min({Capacity, tokens + n}) = IF Capacity <= tokens + n THEN Capacity ELSE tokens + n
  <2>1. Capacity \in Int /\ tokens + n \in Int
    BY <1>2
  <2> QED
    BY <2>1, ExtremesOfTwo
<1>4. tokens' \in Int /\ tokens' <= Capacity /\ (MinRate <= MaxRate => tokens' >= 0)
  BY <1>1, <1>2, <1>3
<1>5. Capacity = Burst /\ RefillRate = Pace /\ Burst' = Burst
  BY <1>1 DEF Burst, Pace
<1>6. Reach = Refilled(Capacity, RefillRate) /\ Reach \in Int
  BY <1>5, ReachIs DEF LimiterIInv
<1>7. u \in Int /\ tokens' <= Reach + u /\ u >= 0
  <2>1. 0 \in Int /\ tokens' - Reach \in Int
    BY <1>4, <1>6
  <2>2. Max({0, tokens' - Reach}) = IF 0 >= tokens' - Reach THEN 0 ELSE tokens' - Reach
    BY <2>1, ExtremesOfTwo
  <2> QED
    BY <1>4, <1>6, <2>2
<1> HIDE DEF u
<1>8. Moves(0, u)
  BY <1>1, <1>7, GiveMoves
<1>9. LimiterTypeOK'
  <2>1. now' \in Ticks /\ last_refill' \in 0..now'
    BY <1>1, LimiterTimes DEF LimiterIInv
  <2>2. gifts' \in Seq([at : Ticks, units : Int]) /\ Len(gifts') <= MaxGifts
    BY <1>8 DEF Moves, Gift
  <2> QED
    BY <1>1, <1>4, <2>1, <2>2 DEF LimiterIInv, LimiterTypeOK
<1>10. Reach' = tokens'
  BY <1>1, <1>4, <1>5, JustRefilled
<1>11. kind # "window" /\ Reach' + 0 <= Reach + u
  BY <1>1, <1>4, <1>7, <1>10
<1> QED
  BY <1>7, <1>8, <1>9, <1>11, PoolKeeps

LEMMA ResetAdaptiveKeeps ==
    ASSUME LimiterAssumption, LimiterIInv, ResetAdaptive
    PROVE  LimiterIInv'
<1> DEFINE u == MaxRate - Refilled(rate, rate)
<1>1. /\ kind = "adaptive" /\ Len(gifts) < MaxGifts /\ last_refill' = now
      /\ rate' = MaxRate /\ tokens' = MaxRate /\ Give(u)
      /\ UNCHANGED <<kind, now, timestamps, grants>>
  BY DEF ResetAdaptive
<1>2. MaxRate \in Nat /\ MaxRate <= TopRate /\ TopRate \in Nat /\ rate \in Int /\ rate <= TopRate
  BY LimiterConstants, TopRateIs DEF LimiterIInv, LimiterTypeOK
<1>3. TopRate = Burst /\ TopRate = Pace /\ Burst' = Burst
  BY <1>1 DEF Burst, Pace
<1>a. tokens <= rate
  BY <1>1 DEF LimiterIInv, LimiterTypeOK
<1>4. Refilled(rate, rate) \in Int /\ Refilled(rate, rate) <= Reach /\ Reach \in Int
  BY <1>2, <1>3, <1>a, PoolHolds, RefilledReaches, ReachIs DEF LimiterIInv
<1>5. u \in Int /\ MaxRate <= Reach + u
  BY <1>2, <1>4
<1> HIDE DEF u
<1>6. Moves(0, u)
  BY <1>1, <1>5, GiveMoves
<1>7. LimiterTypeOK'
  <2>1. now' \in Ticks /\ last_refill' \in 0..now'
    BY <1>1, LimiterTimes DEF LimiterIInv
  <2>2. gifts' \in Seq([at : Ticks, units : Int]) /\ Len(gifts') <= MaxGifts
    BY <1>6 DEF Moves, Gift
  <2> QED
    BY <1>1, <1>2, <2>1, <2>2 DEF LimiterIInv, LimiterTypeOK
<1>8. Reach' = tokens'
  BY <1>1, <1>2, <1>3, JustRefilled
<1>9. kind # "window" /\ Reach' + 0 <= Reach + u /\ Reach' >= 0
  BY <1>1, <1>2, <1>5, <1>8
<1> QED
  BY <1>5, <1>6, <1>7, <1>9, PoolKeeps

LEMMA UpdateHealthKeeps ==
    ASSUME LimiterAssumption, LimiterIInv, NEW h \in HealthScores, UpdateHealth(h)
    PROVE  LimiterIInv'
<1>1. /\ kind = "adaptive" /\ rate' = RateFor(h) /\ tokens' = Min({rate', tokens})
      /\ UNCHANGED <<kind, now, last_refill, timestamps, grants, gifts>>
  BY DEF UpdateHealth, history
<1>2. rate' \in Int /\ rate' <= TopRate /\ (MinRate <= MaxRate => rate' >= 0)
  BY <1>1, RatesFor
<1>3. tokens \in Int /\ (MinRate <= MaxRate => tokens >= 0)
  BY <1>1 DEF LimiterIInv, LimiterTypeOK
<1>4. Min({rate', tokens}) = IF rate' <= tokens THEN rate' ELSE tokens
  BY <1>2, <1>3, ExtremesOfTwo
<1>5. tokens' \in Int /\ tokens' <= tokens /\ tokens' <= rate' /\ (MinRate <= MaxRate => tokens' >= 0)
  BY <1>1, <1>2, <1>3, <1>4
<1>6. Moves(0, 0)
  BY <1>1, NothingMoves
<1>7. TopRate \in Nat /\ Burst' = Burst /\ Pace' = Pace /\ Burst \in Nat /\ Pace \in Nat
  BY <1>1, TopRateIs DEF Burst, Pace
<1>8. LimiterTypeOK'
    BY <1>1, <1>2, <1>5 DEF LimiterIInv, LimiterTypeOK
<1>9. Reach' + 0 <= Reach + 0
  <2>1. (now - last_refill) * Pace \in Int
    BY <1>7, LimiterTimes DEF LimiterIInv
  <2>2. PICK credit \in Int : credit = (now - last_refill) * Pace
    BY <2>1
  <2>3. (Reach \in Int /\ Reach <= Burst /\ Reach <= tokens + (now - last_refill) * Pace)'
    BY <1>8, ReachIs, PTL
  <2>4. Reach' \in Int /\ Reach' <= Burst /\ Reach' <= tokens' + credit
    BY <1>1, <1>7, <2>2, <2>3
  <2>5. Reach \in Int /\ (Reach = Burst \/ Reach = tokens + credit)
    BY <2>2, ReachIs DEF LimiterIInv
  <2>6. \A a \in Int : \A b \in Int : a <= b => a + credit <= b + credit
    OBVIOUS
  <2>7. tokens' + credit <= tokens + credit
    BY <1>3, <1>5, <2>6
  <2>8. tokens + credit \in Int /\ tokens' + credit \in Int
    BY <1>3, <1>5
  <2>9. \A a \in Int : \A b \in Int : \A c \in Int : a <= b /\ b <= c => a <= c
    OBVIOUS
  <2>10. Reach' <= Reach
    BY <2>4, <2>5, <2>7, <2>8, <2>9
  <2>11. \A x \in Int : x + 0 = x
    OBVIOUS
  <2> QED
    BY <2>4, <2>5, <2>10, <2>11
<1>10. kind # "window"
  BY <1>1
<1> QED
  BY <1>6, <1>8, <1>9, <1>10, PoolKeeps

-----------------------------------------------------------------------------
(* What the trimmed window keeps: all but grants that are too old. *)
LEMMA TrimmedIs ==
    ASSUME LimiterAssumption, LimiterTypeOK
    PROVE  \E d \in 0..Len(timestamps) :
               /\ \A k \in 1..d : timestamps[k] < now - WindowSize
               /\ Trimmed \in Seq(Ticks) /\ Len(Trimmed) = Len(timestamps) - d
               /\ \A k \in 1..Len(Trimmed) : Trimmed[k] = timestamps[k + d]
<1>1. timestamps \in Seq(Ticks) /\ Len(timestamps) \in Nat
  BY DEF LimiterTypeOK
<1> DEFINE d == Max(Outdated)
<1>2. 0 \in Outdated
  BY <1>1 DEF Outdated
<1>3. Outdated \subseteq 0..Len(timestamps)
  BY DEF Outdated
<1>4. d \in Outdated
  <2>1. Outdated # {} /\ Len(timestamps) \in Nat
    BY <1>1, <1>2
  <2> QED
    BY <1>3, <2>1, MaxOfBounded
<1>5. d \in 0..Len(timestamps) /\ \A k \in 1..d : timestamps[k] < now - WindowSize
  BY <1>4 DEF Outdated
<1>6. Trimmed = SubSeq(timestamps, d + 1, Len(timestamps))
  BY DEF Trimmed
<1> HIDE DEF d
<1>7. /\ Trimmed \in Seq(Ticks) /\ Len(Trimmed) = Len(timestamps) - d
      /\ \A k \in 1..Len(Trimmed) : Trimmed[k] = timestamps[k + d]
  BY <1>1, <1>5, <1>6
<1> QED
  BY <1>5, <1>7

LEMMA StampsTyped ==
    ASSUME LimiterAssumption, LimiterTypeOK
    PROVE  /\ timestamps \in Seq(Ticks) /\ Len(timestamps) \in Nat /\ Len(timestamps) <= MaxRequests
           /\ \A k \in 1..Len(timestamps) : timestamps[k] \in Nat
           /\ MaxRequests \in Nat /\ WindowSize \in Nat
<1>1. timestamps \in Seq(Ticks) /\ Len(timestamps) <= MaxRequests
  BY DEF LimiterTypeOK
<1>2. \A k \in 1..Len(timestamps) : timestamps[k] \in Ticks
  BY <1>1
<1>3. Ticks \subseteq Nat
  BY DEF Ticks
<1>4. Len(timestamps) \in Nat
  BY <1>1
<1>5. \A k \in 1..Len(timestamps) : timestamps[k] \in Nat
  BY <1>2, <1>3
<1> QED
  BY <1>1, <1>4, <1>5, LimiterConstants

(* Trimming loses no grant that a stretch could count. *)
LEMMA TrimmedCovers ==
    ASSUME LimiterAssumption, LimiterIInv, kind = "window",
           NEW i \in 0..now, i >= now - WindowSize,
           NEW m \in 0..Len(Trimmed), \A k \in 1..m : Trimmed[k] < i
    PROVE  Granted(i, now) <= Len(Trimmed) - m + Given(i, now)
<1>1. PICK d \in 0..Len(timestamps) :
          /\ \A k \in 1..d : timestamps[k] < now - WindowSize
          /\ Trimmed \in Seq(Ticks) /\ Len(Trimmed) = Len(timestamps) - d
          /\ \A k \in 1..Len(Trimmed) : Trimmed[k] = timestamps[k + d]
  BY TrimmedIs DEF LimiterIInv
<1>2. /\ Len(timestamps) \in Nat /\ WindowSize \in Nat
      /\ \A k \in 1..Len(timestamps) : timestamps[k] \in Nat
  BY StampsTyped DEF LimiterIInv
<1>3. d \in Nat /\ m \in Nat /\ m + d \in 0..Len(timestamps) /\ now \in Nat /\ i \in Nat
  BY <1>1, <1>2, LimiterTimes DEF LimiterIInv
<1>4. ASSUME NEW k \in 1..(m + d) PROVE timestamps[k] < i
  <2>1. CASE k \in 1..d
    <3>1. timestamps[k] \in Nat /\ timestamps[k] < now - WindowSize
      BY <1>1, <1>2, <1>3, <2>1
    <3> QED
      BY <1>2, <1>3, <3>1
  <2>2. CASE k \notin 1..d
    <3>1. k - d \in 1..m /\ k - d \in 1..Len(Trimmed) /\ (k - d) + d = k
      BY <1>1, <1>3, <2>2
    <3>2. Trimmed[k - d] < i /\ Trimmed[k - d] = timestamps[(k - d) + d]
      BY <1>1, <3>1
    <3> QED
      BY <3>1, <3>2
  <2> QED
    BY <2>1, <2>2
<1>5. Granted(i, now) <= Len(timestamps) - (m + d) + Given(i, now)
  BY <1>3, <1>4 DEF LimiterIInv, EntriesCover
<1>6. Len(timestamps) - (m + d) = Len(Trimmed) - m
  BY <1>1, <1>2, <1>3
<1> QED
  BY <1>5, <1>6

(* What covers its stretches, and is no longer than the limit, bounds them. *)
LEMMA CoveredIsBounded ==
    ASSUME LimiterAssumption, LimiterTypeOK, EntriesCover, kind = "window"
    PROVE  \A i \in 0..now : i >= now - WindowSize => Granted(i, now) <= MaxRequests + Given(i, now)
<1> SUFFICES ASSUME NEW i \in 0..now, i >= now - WindowSize
             PROVE  Granted(i, now) <= MaxRequests + Given(i, now)
  OBVIOUS
<1>1. Len(timestamps) \in Nat /\ Len(timestamps) <= MaxRequests /\ MaxRequests \in Nat
  BY StampsTyped
<1>2. 0 \in 0..Len(timestamps) /\ \A k \in 1..0 : timestamps[k] < i
  BY <1>1
<1>3. Granted(i, now) <= Len(timestamps) - 0 + Given(i, now)
  BY <1>2 DEF EntriesCover
<1>4. Granted(i, now) \in Int /\ Given(i, now) \in Int
  BY LimiterTimes, TotalsTyped
<1> QED
  BY <1>1, <1>3, <1>4

LEMMA WindowKeeps ==
    ASSUME LimiterAssumption, LimiterIInv, kind = "window", NEW n \in Nat, NEW u \in Int, Moves(n, u),
           LimiterTypeOK', EntriesCover'
    PROVE  LimiterIInv'
<1>1. kind' = kind /\ now' = now /\ Future'
  BY DEF Moves
<1>2. PoolBound' /\ PoolGranted'
  BY <1>1 DEF PoolBound, PoolGranted
<1>3. \A i \in 0..now : i >= now - WindowSize => Granted(i, now)' <= MaxRequests + Given(i, now)'
  <2>1. (\A i \in 0..now : i >= now - WindowSize => Granted(i, now) <= MaxRequests + Given(i, now))'
    <3>1. (kind = "window")'
      BY <1>1
    <3> QED
      BY <3>1, CoveredIsBounded, PTL
  <2> QED
    BY <1>1, <2>1
<1>4. WindowsBounded'
  <2> SUFFICES ASSUME NEW t \in 0..now, NEW i \in 0..t, i >= t - WindowSize
               PROVE  Granted(i, t)' <= MaxRequests + Given(i, t)'
    BY <1>1 DEF WindowsBounded
  <2>1. CASE t = now
    <3>1. i \in 0..now /\ i >= now - WindowSize
      BY <2>1
    <3>2. Granted(i, now)' <= MaxRequests + Given(i, now)'
      BY <1>3, <3>1
    <3> QED
      BY <1>1, <2>1, <3>2
  <2>2. CASE t # now
    <3>1. t < now
      BY <2>2, LimiterTimes DEF LimiterIInv
    <3>2. Granted(i, t)' = Granted(i, t) /\ Given(i, t)' = Given(i, t)
      BY <3>1 DEF Moves
    <3>3. Granted(i, t) <= MaxRequests + Given(i, t)
      BY DEF LimiterIInv, WindowsBounded
    <3> QED
      BY <3>2, <3>3
  <2> QED
    BY <2>1, <2>2
<1> QED
  BY <1>1, <1>2, <1>4 DEF LimiterIInv

LEMMA TimeUntilNextSlotKeeps ==
    ASSUME LimiterAssumption, LimiterIInv, kind = "window", timestamps' = Trimmed,
           UNCHANGED <<kind, now, tokens, last_refill, rate, grants, gifts>>
    PROVE  LimiterIInv'
<1>1. Moves(0, 0)
  BY NothingMoves
<1>2. PICK d \in 0..Len(timestamps) : Trimmed \in Seq(Ticks) /\ Len(Trimmed) = Len(timestamps) - d
  BY TrimmedIs DEF LimiterIInv
<1>3. Len(Trimmed) <= MaxRequests
  BY <1>2, StampsTyped DEF LimiterIInv
<1>4. LimiterTypeOK'
  BY <1>2, <1>3 DEF LimiterIInv, LimiterTypeOK
<1>5. EntriesCover'
  <2> SUFFICES ASSUME NEW i \in 0..now, i >= now - WindowSize,
                      NEW m \in 0..Len(Trimmed), \A k \in 1..m : Trimmed[k] < i
               PROVE  Granted(i, now)' <= Len(Trimmed) - m + Given(i, now)'
    BY DEF EntriesCover
  <2>1. Granted(i, now) <= Len(Trimmed) - m + Given(i, now)
    BY TrimmedCovers
  <2>2. Granted(i, now)' = Granted(i, now) /\ Given(i, now)' = Given(i, now)
    BY DEF Granted, Given
  <2> QED
    BY <2>1, <2>2
<1> QED
  BY <1>1, <1>4, <1>5, WindowKeeps

LEMMA AllowWindowKeeps ==
    ASSUME LimiterAssumption, LimiterIInv, AllowWindow
    PROVE  LimiterIInv'
<1>1. kind = "window" /\ UNCHANGED <<kind, now, tokens, last_refill, rate, gifts>>
  BY DEF AllowWindow, pool
<1>2. CASE Len(Trimmed) >= MaxRequests
  BY <1>1, <1>2, TimeUntilNextSlotKeeps DEF AllowWindow
<1>3. CASE ~(Len(Trimmed) >= MaxRequests)
  <2>1. timestamps' = Append(Trimmed, now) /\ Grant(1)
    BY <1>3 DEF AllowWindow
  <2>2. PICK d \in 0..Len(timestamps) : Trimmed \in Seq(Ticks) /\ Len(Trimmed) = Len(timestamps) - d
    BY TrimmedIs DEF LimiterIInv
  <2>3. /\ MaxRequests \in Nat /\ Len(Trimmed) \in Nat /\ Len(Trimmed) < MaxRequests
        /\ now \in Ticks /\ now \in Nat
    BY <1>3, <2>2, StampsTyped, LimiterTimes DEF LimiterIInv
  <2>4. Moves(1, 0)
    BY <1>1, <2>1, GrantMoves
  <2>5. /\ timestamps' \in Seq(Ticks) /\ Len(timestamps') = Len(Trimmed) + 1
        /\ timestamps'[Len(Trimmed) + 1] = now
        /\ \A k \in 1..Len(Trimmed) : timestamps'[k] = Trimmed[k]
    BY <2>1, <2>2, <2>3
  <2>6. LimiterTypeOK'
    <3>1. Len(timestamps') <= MaxRequests
      BY <2>3, <2>5
    <3>2. grants' \in [Ticks -> Nat]
      BY <2>4 DEF Moves
    <3> QED
      BY <1>1, <2>5, <3>1, <3>2 DEF LimiterIInv, LimiterTypeOK
  <2>7. EntriesCover'
    <3> SUFFICES ASSUME NEW i \in 0..now, i >= now - WindowSize,
                        NEW m \in 0..Len(timestamps'), \A k \in 1..m : timestamps'[k] < i
                 PROVE  Granted(i, now)' <= Len(timestamps') - m + Given(i, now)'
      BY <1>1 DEF EntriesCover
    <3>1. m \in Nat /\ i \in Nat /\ i <= now
      BY <2>3, <2>5
    <3>2. m # Len(Trimmed) + 1
      <4>1. SUFFICES ASSUME m = Len(Trimmed) + 1 PROVE FALSE
        OBVIOUS
      <4>2. m \in 1..m
        BY <2>3, <4>1
      <4>3. timestamps'[m] < i
        BY <4>2
      <4> QED
        BY <2>3, <2>5, <3>1, <4>1, <4>3
    <3>3. m \in 0..Len(Trimmed)
      BY <2>3, <2>5, <3>1, <3>2
    <3>4. ASSUME NEW k \in 1..m PROVE Trimmed[k] < i
      <4>1. k \in 1..Len(Trimmed)
        BY <2>3, <3>3
      <4>2. timestamps'[k] = Trimmed[k] /\ timestamps'[k] < i
        BY <2>5, <4>1
      <4> QED
        BY <4>2
    <3>5. Granted(i, now) <= Len(Trimmed) - m + Given(i, now)
      BY <1>1, <3>3, <3>4, TrimmedCovers
    <3>6. Granted(i, now)' = Granted(i, now) + 1 /\ Given(i, now)' = Given(i, now) + 0
      BY <2>4 DEF Moves
    <3>7. Granted(i, now) \in Int /\ Given(i, now) \in Int
      BY LimiterTimes, TotalsTyped DEF LimiterIInv
    <3>8. Granted(i, now) + 1 <= Len(Trimmed) + 1 - m + (Given(i, now) + 0)
      <4>1. \A a \in Int : \A l \in Int : \A b \in Int : \A c \in Int :
                a <= l - b + c => a + 1 <= l + 1 - b + (c + 0)
        OBVIOUS
      <4>2. Len(Trimmed) \in Int /\ m \in Int
        BY <2>3, <3>1
      <4> QED
        BY <3>5, <3>7, <4>1, <4>2
    <3> QED
      BY <2>5, <3>6, <3>8
  <2> QED
    BY <1>1, <2>4, <2>6, <2>7, WindowKeeps
<1> QED
  BY <1>2, <1>3

LEMMA ResetWindowKeeps ==
    ASSUME LimiterAssumption, LimiterIInv, ResetWindow
    PROVE  LimiterIInv'
<1>1. /\ kind = "window" /\ Len(gifts) < MaxGifts /\ timestamps' = <<>> /\ Give(Len(timestamps))
      /\ UNCHANGED <<kind, now, tokens, last_refill, rate, grants>>
  BY DEF ResetWindow, pool
<1>2. Len(timestamps) \in Nat /\ MaxRequests \in Nat
  BY StampsTyped DEF LimiterIInv
<1>3. Moves(0, Len(timestamps))
  BY <1>1, <1>2, GiveMoves
<1>4. timestamps' \in Seq(Ticks) /\ Len(timestamps') = 0
  BY <1>1
<1>5. LimiterTypeOK'
  <2>1. gifts' \in Seq([at : Ticks, units : Int]) /\ Len(gifts') <= MaxGifts
    BY <1>3 DEF Moves, Gift
  <2>2. Len(timestamps') <= MaxRequests
    BY <1>2, <1>4
  <2> QED
    BY <1>1, <1>4, <2>1, <2>2 DEF LimiterIInv, LimiterTypeOK
<1>6. EntriesCover'
  <2> SUFFICES ASSUME NEW i \in 0..now, i >= now - WindowSize, NEW m \in 0..Len(timestamps')
               PROVE  Granted(i, now)' <= Len(timestamps') - m + Given(i, now)'
    BY <1>1 DEF EntriesCover
  <2>1. m = 0
    BY <1>4
  <2>2. 0 \in 0..Len(timestamps) /\ \A k \in 1..0 : timestamps[k] < i
    BY <1>2
  <2>3. Granted(i, now) <= Len(timestamps) - 0 + Given(i, now)
    BY <1>1, <2>2 DEF LimiterIInv, EntriesCover
  <2>4. Granted(i, now)' = Granted(i, now) + 0 /\ Given(i, now)' = Given(i, now) + Len(timestamps)
    BY <1>3 DEF Moves
  <2>5. Granted(i, now) \in Int /\ Given(i, now) \in Int
    BY LimiterTimes, TotalsTyped DEF LimiterIInv
  <2>6. Granted(i, now) + 0 <= 0 - 0 + (Given(i, now) + Len(timestamps))
    BY <1>2, <2>3, <2>5
  <2> QED
    BY <1>4, <2>1, <2>4, <2>6
<1> QED
  BY <1>1, <1>2, <1>3, <1>5, <1>6, WindowKeeps

(* Time passes and nothing is granted. *)
LEMMA StillTotals ==
    ASSUME LimiterAssumption, LimiterIInv, now + 1 \in Ticks
    PROVE  /\ \A i \in 0..now : Granted(i, now + 1) = Granted(i, now) /\ Given(i, now + 1) = Given(i, now)
           /\ Granted(now + 1, now + 1) = 0 /\ Given(now + 1, now + 1) = 0
<1>1. grants \in [Ticks -> Nat] /\ gifts \in Seq(Gift)
  BY DEF LimiterIInv, LimiterTypeOK, Gift
<1>2. now \in Nat /\ now \in Ticks /\ \A i \in 0..now : i \in Ticks /\ i \in Nat /\ i <= now
  BY LimiterTimes DEF LimiterIInv
<1>3. \A t \in Ticks : t >= now + 1 => grants[t] = 0
  BY <1>2 DEF LimiterIInv, Future, Ticks
<1>4. \A k \in DOMAIN gifts : gifts[k].at < now + 1
  <2>1. \A k \in DOMAIN gifts : gifts[k].at \in Nat /\ gifts[k].at <= now
    BY <1>1, GiftTicks DEF LimiterIInv, Future
  <2> QED
    BY <1>2, <2>1
<1>5. GrantedOf(grants, now + 1, now + 1) = 0 /\ GivenOf(gifts, now + 1, now + 1) = 0
  BY <1>1, <1>3, <1>4, NothingYet
<1>6. ASSUME NEW i \in 0..now
      PROVE  Granted(i, now + 1) = Granted(i, now) /\ Given(i, now + 1) = Given(i, now)
  <2>1. i \in Ticks /\ i <= now /\ now < now + 1 /\ now \in Ticks
    BY <1>2
  <2>2. GrantedOf(grants, i, now + 1) = GrantedOf(grants, i, now) + GrantedOf(grants, now + 1, now + 1)
    BY <1>1, <2>1, GrantsCut
  <2>3. GivenOf(gifts, i, now + 1) = GivenOf(gifts, i, now) + GivenOf(gifts, now + 1, now + 1)
    BY <1>1, <2>1, GiftsCut
  <2>4. GrantedOf(grants, i, now) \in Nat /\ GivenOf(gifts, i, now) \in Int
    BY <1>1, <2>1, GrantsTyped, GiftsTyped
  <2>5. \A x \in Int : x + 0 = x
    OBVIOUS
  <2> QED
    BY <1>5, <2>2, <2>3, <2>4, <2>5, TotalsOf
<1> QED
  BY <1>5, <1>6, TotalsOf

LEMMA LimiterTickKeeps ==
    ASSUME LimiterAssumption, LimiterIInv, LimiterTick
    PROVE  LimiterIInv'
<1>1. /\ now < Horizon /\ now' = now + 1
      /\ UNCHANGED <<kind, tokens, last_refill, rate, timestamps, grants, gifts>>
  BY DEF LimiterTick, pool, history
<1>2. now \in Nat /\ now + 1 \in Ticks /\ last_refill \in Nat /\ last_refill <= now
  BY <1>1, LimiterTimes, LimiterConstants DEF LimiterIInv, Ticks
<1>3. LimiterTypeOK'
  <2>1. now' \in Ticks /\ last_refill' \in 0..now'
    BY <1>1, <1>2
  <2> QED
    BY <1>1, <2>1 DEF LimiterIInv, LimiterTypeOK
<1>4. Future'
  <2>1. \A t \in Ticks : t > now + 1 => grants[t] = 0
    BY <1>2 DEF LimiterIInv, Future, Ticks
  <2>2. \A k \in DOMAIN gifts : gifts[k].at <= now + 1
    <3>1. \A k \in DOMAIN gifts : gifts[k].at \in Nat /\ gifts[k].at <= now
      BY GiftTicks DEF LimiterIInv, LimiterTypeOK, Future, Gift
    <3> QED
      BY <1>2, <3>1
  <2> QED
    BY <1>1, <2>1, <2>2 DEF Future
<1>5. /\ \A i \in 0..now : Granted(i, now + 1) = Granted(i, now) /\ Given(i, now + 1) = Given(i, now)
      /\ Granted(now + 1, now + 1) = 0 /\ Given(now + 1, now + 1) = 0
  BY <1>2, StillTotals
<1>7. \A i : Granted(i, now)' = Granted(i, now + 1) /\ Given(i, now)' = Given(i, now + 1)
  BY <1>1 DEF Granted, Given
<1>8. \A i \in 0..now : i \in Nat /\ Granted(i, now) \in Nat /\ Given(i, now) \in Int
  BY LimiterTimes, TotalsTyped DEF LimiterIInv
<1>9. (now + 1)' = now + 2 /\ \A i \in 0..(now + 1) : i \in 0..now \/ i = now + 1
  BY <1>1, <1>2
<1>14. Burst' = Burst /\ Pace' = Pace /\ kind' = kind
  BY <1>1 DEF Burst, Pace
<1>10. PoolBound'
  <2> SUFFICES ASSUME kind # "window", NEW i \in 0..now'
               PROVE  Granted(i, now)' + Reach' <= Burst + (now' - i) * Pace + Given(i, now)'
    BY <1>14 DEF PoolBound
  <2>a. now' = now + 1 /\ i \in 0..(now + 1)
    BY <1>1
  <2> SUFFICES Granted(i, now)' + Reach' <= Burst + (now + 1 - i) * Pace + Given(i, now)'
    <3>1. now' - i = now + 1 - i
      BY <1>2, <2>a
    <3> QED
      BY <3>1
  <2>1. Burst \in Nat /\ Pace \in Nat /\ Burst' = Burst /\ Pace' = Pace
    BY <1>1, TopRateIs DEF Burst, Pace
  <2>2. PICK r \in Int : r = Reach
    BY ReachIs DEF LimiterIInv
  <2>3. PICK q \in Int : q = Reach' /\ q <= Burst
    <3>1. (Reach \in Int /\ Reach <= Burst)'
      BY <1>3, ReachIs, PTL
    <3> QED
      BY <2>1, <3>1
  <2>4. q <= r + Pace
    <3>1. (now - last_refill) * Pace \in Int /\ (now + 1 - last_refill) * Pace = (now - last_refill) * Pace + Pace
      BY <1>2, <2>1
    <3>2. PICK credit \in Int : credit = (now - last_refill) * Pace
      BY <3>1
    <3>a. (Reach <= tokens + (now - last_refill) * Pace)'
      BY <1>3, ReachIs, PTL
    <3>3. Reach' <= tokens + (now + 1 - last_refill) * Pace
      <4>1. now' - last_refill' = now + 1 - last_refill /\ tokens' = tokens
        BY <1>1, <1>2
      <4> QED
        BY <1>14, <3>a, <4>1
    <3>4. q <= tokens + (credit + Pace)
      BY <2>3, <3>1, <3>2, <3>3
    <3>5. r = Burst \/ r = tokens + credit
      BY <2>2, <3>2, ReachIs DEF LimiterIInv
    <3>6. tokens \in Int
      BY DEF LimiterIInv, LimiterTypeOK
    <3> QED
      BY <2>1, <2>3, <3>4, <3>5, <3>6
  <2>5. CASE i \in 0..now
    <3>1. Granted(i, now) + Reach <= Burst + (now - i) * Pace + Given(i, now)
      BY <2>5 DEF LimiterIInv, PoolBound
    <3>2. PICK a \in Int, v \in Int : a = Granted(i, now) /\ v = Given(i, now)
      BY <1>8, <2>5
    <3>3. (now - i) * Pace \in Int /\ (now + 1 - i) * Pace = (now - i) * Pace + Pace
      BY <1>2, <1>8, <2>1, <2>5
    <3>4. PICK room \in Int : room = (now - i) * Pace
      BY <3>3
    <3>5. a + r <= Burst + room + v
      BY <2>2, <2>5, <3>1, <3>2, <3>4
    <3>6. a + q <= Burst + (room + Pace) + v
      BY <2>1, <2>4, <3>5
    <3>7. Granted(i, now)' = a /\ Given(i, now)' = v
      BY <1>5, <1>7, <2>5, <3>2
    <3> QED
      BY <2>3, <3>3, <3>4, <3>6, <3>7
  <2>6. CASE i = now + 1
    <3>1. Granted(i, now)' = 0 /\ Given(i, now)' = 0
      BY <1>5, <1>7, <2>6
    <3>2. (now + 1 - i) * Pace = 0
      BY <1>2, <2>1, <2>6
    <3>3. 0 + q <= Burst + 0 + 0
      <4>1. \A x \in Int : \A y \in Nat : x <= y => 0 + x <= y + 0 + 0
        OBVIOUS
      <4> QED
        BY <2>1, <2>3, <4>1
    <3> QED
      BY <2>3, <3>1, <3>2, <3>3
  <2> QED
    BY <1>9, <2>5, <2>6, <2>a
<1>11. EntriesCover'
  <2> SUFFICES ASSUME kind = "window", NEW i \in 0..now', i >= now' - WindowSize,
                      NEW m \in 0..Len(timestamps), \A k \in 1..m : timestamps[k] < i
               PROVE  Granted(i, now)' <= Len(timestamps) - m + Given(i, now)'
    <3>1. kind' = kind /\ timestamps' = timestamps
      BY <1>1
    <3> QED
      BY <3>1 DEF EntriesCover
  <2>a. i \in 0..(now + 1) /\ i >= now + 1 - WindowSize
    <3>1. now' = now + 1 /\ now \in Nat /\ WindowSize \in Nat
      BY <1>1, <1>2, LimiterConstants
    <3>2. i \in 0..(now + 1)
      BY <3>1
    <3>3. now' - WindowSize = now + 1 - WindowSize
      BY <3>1
    <3> QED
      BY <3>2, <3>3
  <2>1. Len(timestamps) \in Nat /\ WindowSize \in Nat
    BY StampsTyped DEF LimiterIInv
  <2>2. CASE i \in 0..now
    <3>1. i >= now - WindowSize
      BY <1>2, <1>8, <2>1, <2>2, <2>a
    <3>2. Granted(i, now) <= Len(timestamps) - m + Given(i, now)
      BY <2>2, <3>1 DEF LimiterIInv, EntriesCover
    <3> QED
      BY <1>5, <1>7, <2>2, <3>2
  <2>3. CASE i = now + 1
    <3>1. Granted(i, now)' = 0 /\ Given(i, now)' = 0
      BY <1>5, <1>7, <2>3
    <3>2. 0 <= Len(timestamps) - m + 0
      BY <2>1
    <3> QED
      BY <3>1, <3>2
  <2> QED
    BY <1>9, <2>2, <2>3, <2>a
<1>13. PoolGranted'
  <2> SUFFICES ASSUME kind # "window", NEW i \in 0..now'
               PROVE  Granted(i, now)' <= Burst + (now' - i) * Pace + Given(i, now)'
    BY <1>14 DEF PoolGranted
  <2>a. now' = now + 1 /\ i \in 0..(now + 1)
    BY <1>1
  <2> SUFFICES Granted(i, now)' <= Burst + (now + 1 - i) * Pace + Given(i, now)'
    <3>1. now' - i = now + 1 - i
      BY <1>2, <2>a
    <3> QED
      BY <3>1
  <2>1. Burst \in Nat /\ Pace \in Nat
    BY TopRateIs
  <2>2. CASE i \in 0..now
    <3>1. Granted(i, now) <= Burst + (now - i) * Pace + Given(i, now)
      BY <2>2 DEF LimiterIInv, PoolGranted
    <3>2. PICK a \in Int, v \in Int : a = Granted(i, now) /\ v = Given(i, now)
      BY <1>8, <2>2
    <3>3. (now - i) * Pace \in Int /\ (now + 1 - i) * Pace = (now - i) * Pace + Pace
      BY <1>2, <1>8, <2>1, <2>2
    <3>4. PICK room \in Int : room = (now - i) * Pace
      BY <3>3
    <3>5. a <= Burst + (room + Pace) + v
      BY <2>1, <3>1, <3>2, <3>4
    <3>6. Granted(i, now)' = a /\ Given(i, now)' = v
      BY <1>5, <1>7, <2>2, <3>2
    <3> QED
      BY <3>3, <3>4, <3>5, <3>6
  <2>3. CASE i = now + 1
    <3>1. Granted(i, now)' = 0 /\ Given(i, now)' = 0
      BY <1>5, <1>7, <2>3
    <3>2. (now + 1 - i) * Pace = 0
      BY <1>2, <2>1, <2>3
    <3>3. 0 <= Burst + 0 + 0
      BY <2>1
    <3> QED
      BY <3>1, <3>2, <3>3
  <2> QED
    BY <1>9, <2>2, <2>3, <2>a
<1>15. ASSUME kind = "window"
       PROVE  (\A i \in 0..now : i >= now - WindowSize => Granted(i, now) <= MaxRequests + Given(i, now))'
  <2>1. (kind = "window")'
    BY <1>1, <1>15
  <2> QED
    BY <1>3, <1>11, <2>1, CoveredIsBounded, PTL
<1>12. WindowsBounded'
  <2> SUFFICES ASSUME kind = "window", NEW t \in 0..(now + 1), NEW i \in 0..t, i >= t - WindowSize
               PROVE  Granted(i, t)' <= MaxRequests + Given(i, t)'
    BY <1>1 DEF WindowsBounded
  <2>1. CASE t \in 0..now
    <3>1. Granted(i, t)' = Granted(i, t) /\ Given(i, t)' = Given(i, t)
      BY <1>1 DEF Granted, Given
    <3>2. Granted(i, t) <= MaxRequests + Given(i, t)
      BY <2>1 DEF LimiterIInv, WindowsBounded
    <3> QED
      BY <3>1, <3>2
  <2>2. CASE t = now + 1
    <3>2. Granted(i, now)' <= MaxRequests + Given(i, now)'
      BY <1>15, <1>1, <2>2
    <3>3. Granted(i, t)' = Granted(i, now)' /\ Given(i, t)' = Given(i, now)'
      BY <1>1, <2>2 DEF Granted, Given
    <3> QED
      BY <3>2, <3>3
  <2> QED
    BY <1>9, <2>1, <2>2
<1> QED
  BY <1>3, <1>4, <1>10, <1>11, <1>12, <1>13 DEF LimiterIInv

LEMMA LimiterInitIInv ==
    ASSUME LimiterAssumption, LimiterInit
    PROVE  LimiterIInv
<1>1. /\ kind \in Kinds /\ now = 0 /\ tokens = (IF kind = "bucket" THEN Capacity ELSE MaxRate)
      /\ last_refill = 0 /\ rate = MaxRate /\ timestamps = <<>>
      /\ grants = [t \in Ticks |-> 0] /\ gifts = <<>>
  BY DEF LimiterInit
<1>2. /\ Capacity \in Nat /\ MaxRate \in Nat /\ MaxRequests \in Nat /\ MaxGifts \in Nat
      /\ Horizon \in Nat /\ TopRate \in Nat /\ MaxRate <= TopRate
  BY LimiterConstants, TopRateIs
<1>3. 0 \in Ticks /\ now \in Ticks
  BY <1>1, <1>2 DEF Ticks
<1>4. /\ timestamps \in Seq(Ticks) /\ Len(timestamps) = 0 /\ DOMAIN gifts = {}
      /\ gifts \in Seq([at : Ticks, units : Int]) /\ Len(gifts) = 0 /\ grants \in [Ticks -> Nat]
  BY <1>1
<1>5. /\ tokens \in Int /\ rate \in Int /\ tokens >= 0 /\ rate >= 0 /\ rate <= TopRate
      /\ tokens <= (IF kind = "bucket" THEN Capacity ELSE rate)
  BY <1>1, <1>2
<1>6. LimiterTypeOK
  <2>1. now \in Ticks /\ last_refill \in 0..now
    BY <1>1, <1>3
  <2>2. Len(timestamps) <= MaxRequests /\ Len(gifts) <= MaxGifts
    BY <1>2, <1>4
  <2> QED
    BY <1>1, <1>4, <1>5, <2>1, <2>2 DEF LimiterTypeOK
<1>7. Future
  BY <1>1, <1>4 DEF Future
<1>8. Granted(0, 0) = 0 /\ Given(0, 0) = 0
  <2>1. \A t \in Ticks : t >= 0 => grants[t] = 0
    BY <1>1
  <2>2. \A k \in DOMAIN gifts : gifts[k].at < 0
    BY <1>4
  <2>3. gifts \in Seq(Gift)
    BY <1>4 DEF Gift
  <2>4. GrantedOf(grants, 0, 0) = 0 /\ GivenOf(gifts, 0, 0) = 0
    BY <1>3, <1>4, <2>1, <2>2, <2>3, NothingYet
  <2> QED
    BY <2>4, TotalsOf
<1>9. \A i \in 0..now : i = 0
  BY <1>1
<1>10. PoolBound
  <2>1. Reach <= Burst /\ Reach \in Int /\ Burst \in Nat /\ Pace \in Nat
    BY <1>6, ReachIs, TopRateIs
  <2>2. (0 - 0) * Pace = 0
    BY <2>1
  <2>3. 0 + Reach <= Burst + 0 + 0
    BY <2>1
  <2>4. Granted(0, now) + Reach <= Burst + (now - 0) * Pace + Given(0, now)
    BY <1>1, <1>8, <2>2, <2>3
  <2> QED
    BY <1>9, <2>4 DEF PoolBound
<1>13. PoolGranted
  <2>1. Burst \in Nat /\ Pace \in Nat
    BY TopRateIs
  <2>2. (0 - 0) * Pace = 0
    BY <2>1
  <2>3. 0 <= Burst + 0 + 0
    BY <2>1
  <2>4. Granted(0, now) <= Burst + (now - 0) * Pace + Given(0, now)
    BY <1>1, <1>8, <2>2, <2>3
  <2> QED
    BY <1>9, <2>4 DEF PoolGranted
<1>11. EntriesCover
  <2>1. \A m \in 0..Len(timestamps) : 0 <= Len(timestamps) - m + 0
    BY <1>4
  <2> QED
    BY <1>1, <1>8, <1>9, <2>1 DEF EntriesCover
<1>12. WindowsBounded
  <2>1. \A t \in 0..now : \A i \in 0..t : t = 0 /\ i = 0
    BY <1>1
  <2>2. 0 <= MaxRequests + 0
    BY <1>2
  <2> QED
    BY <1>8, <2>1, <2>2 DEF WindowsBounded
<1> QED
  BY <1>6, <1>7, <1>10, <1>11, <1>12, <1>13 DEF LimiterIInv

(* The inductive invariant: what a limiter has granted over any stretch up  *)
(* to now, together with what it can grant at once, stays within its burst *)
(* and rate (consume, allow, refill, update_health, reset).                *)
THEOREM LimiterIInvAlways == LimiterSpec => []LimiterIInv
<1> USE LimiterAssumption
<1>1. LimiterInit => LimiterIInv
  BY LimiterInitIInv
<1>2. LimiterIInv /\ [LimiterNext]_lvars => LimiterIInv'
  <2> SUFFICES ASSUME LimiterIInv, [LimiterNext]_lvars
               PROVE  LimiterIInv'
    OBVIOUS
  <2>1. CASE LimiterTick
    BY <2>1, LimiterTickKeeps
  <2>2. CASE \E n \in {Unit, 2 * Unit} : Consume(n)
    BY <2>2, ConsumeKeeps
  <2>3. CASE Available
    BY <2>3, AvailableKeeps
  <2>4. CASE \E n \in {Unit, Capacity} : Refill(n)
    BY <2>4, RefillKeeps
  <2>5. CASE AllowWindow
    BY <2>5, AllowWindowKeeps
  <2>6. CASE ResetWindow
    BY <2>6, ResetWindowKeeps
  <2>7. CASE TimeUntilNextSlot
    BY <2>7, TimeUntilNextSlotKeeps DEF TimeUntilNextSlot, pool, history
  <2>8. CASE \E h \in HealthScores : UpdateHealth(h)
    BY <2>8, UpdateHealthKeeps
  <2>9. CASE AllowAdaptive
    BY <2>9, AllowAdaptiveKeeps
  <2>10. CASE ResetAdaptive
    BY <2>10, ResetAdaptiveKeeps
  <2>11. CASE UNCHANGED lvars
    <3>1. UNCHANGED <<kind, now, tokens, last_refill, rate, timestamps, grants, gifts>>
      BY <2>11 DEF lvars
    <3>2. LimiterTypeOK' /\ Future'
      BY <3>1 DEF LimiterIInv, LimiterTypeOK, Future
    <3>3. PoolBound' /\ PoolGranted'
      BY <3>1 DEF LimiterIInv, PoolBound, PoolGranted, Granted, Given, Reach, Burst, Pace
    <3>4. EntriesCover' /\ WindowsBounded'
      BY <3>1 DEF LimiterIInv, EntriesCover, WindowsBounded, Granted, Given
    <3> QED
      BY <3>2, <3>3, <3>4 DEF LimiterIInv
  <2> QED
    BY <2>1, <2>2, <2>3, <2>4, <2>5, <2>6, <2>7, <2>8, <2>9, <2>10, <2>11 DEF LimiterNext
<1> QED
  BY <1>1, <1>2, PTL DEF LimiterSpec

(* The limiter's state keeps its types and bounds: no pool overflows, and   *)
(* a window lists no more grants than it allows.                           *)
THEOREM LimiterTypeCorrect == LimiterSpec => []LimiterTypeOK
<1>1. LimiterIInv => LimiterTypeOK
  BY DEF LimiterIInv
<1> QED
  BY <1>1, LimiterIInvAlways, PTL

(* A window's allowance over a longer stretch, one window length at a time: *)
(* a first stretch over the limit would leave one over it when its last    *)
(* window is cut off.                                                      *)
LEMMA LongerStretches ==
    ASSUME LimiterAssumption, LimiterIInv, kind = "window", NEW i \in 0..now
    PROVE  \A t \in i..now :
               Granted(i, t) <= ((t - i) \div (WindowSize + 1) + 1) * MaxRequests + Given(i, t)
<1> DEFINE Windows(t) == (t - i) \div (WindowSize + 1)
           Bad == {t \in i..now : ~(Granted(i, t) <= (Windows(t) + 1) * MaxRequests + Given(i, t))}
<1>1. i \in Nat /\ now \in Nat /\ i \in Ticks /\ i <= now /\ \A t \in 0..now : t \in Ticks
  BY LimiterTimes DEF LimiterIInv
<1>2. WindowSize \in Nat /\ MaxRequests \in Nat
  BY LimiterConstants
<1>3. SUFFICES ASSUME Bad # {} PROVE FALSE
  OBVIOUS
<1>4. Bad \subseteq Nat
  BY <1>1
<1> HIDE DEF Bad
<1>5. PICK t \in Bad : \A s \in Bad : t <= s
  BY <1>3, <1>4, LeastNatural
<1>6. /\ t \in i..now /\ t \in Nat /\ t \in 0..now /\ t \in Ticks
      /\ ~(Granted(i, t) <= (Windows(t) + 1) * MaxRequests + Given(i, t))
  BY <1>1, <1>5 DEF Bad
<1>7. \A s \in i..now : s < t => Granted(i, s) <= (Windows(s) + 1) * MaxRequests + Given(i, s)
  BY <1>1, <1>5, <1>6 DEF Bad
<1> HIDE DEF Windows
<1>8. \A s \in i..now : Windows(s) \in Nat
  BY <1>1, <1>2 DEF Windows
<1>9. CASE t - i <= WindowSize
  <2>1. i \in 0..t /\ i >= t - WindowSize
    BY <1>1, <1>2, <1>6, <1>9
  <2>2. Granted(i, t) <= MaxRequests + Given(i, t)
    BY <1>6, <2>1 DEF LimiterIInv, WindowsBounded
  <2>3. PICK a \in Int, v \in Int : a = Granted(i, t) /\ v = Given(i, t)
    BY <1>1, <1>6, TotalsTyped DEF LimiterIInv
  <2>4. PICK w \in Nat : w = Windows(t)
    BY <1>6, <1>8
  <2>5. (w + 1) * MaxRequests >= MaxRequests /\ (w + 1) * MaxRequests \in Int
    <3>1. w * MaxRequests \in Nat /\ (w + 1) * MaxRequests = w * MaxRequests + MaxRequests
      BY <1>2
    <3> QED
      BY <1>2, <3>1
  <2> QED
    BY <1>2, <1>6, <2>2, <2>3, <2>4, <2>5
<1>10. CASE t - i > WindowSize
  <2> DEFINE s == t - WindowSize - 1
  <2>1. s \in i..now /\ s < t /\ s \in Ticks /\ i <= s /\ s \in 0..now /\ s \in Nat
    BY <1>1, <1>2, <1>6, <1>10
  <2>2. s + 1 = t - WindowSize /\ s + 1 \in 0..t /\ s + 1 \in Ticks
    BY <1>1, <1>2, <1>6, <2>1
  <2>3. Windows(t) = Windows(s) + 1
    <3>1. (s - i) \in Nat /\ t - i = (s - i) + (WindowSize + 1) /\ WindowSize + 1 \in Nat /\ WindowSize + 1 > 0
      BY <1>1, <1>2, <1>6, <2>1
    <3>2. \A x \in Nat : \A d \in Nat : d > 0 => (x + d) \div d = x \div d + 1
      OBVIOUS
    <3> QED
      BY <3>1, <3>2 DEF Windows
  <2> HIDE DEF s
  <2>4. Granted(i, s) <= (Windows(s) + 1) * MaxRequests + Given(i, s)
    BY <1>7, <2>1
  <2>5. Granted(s + 1, t) <= MaxRequests + Given(s + 1, t)
    BY <1>6, <2>2 DEF LimiterIInv, WindowsBounded
  <2>a. grants \in [Ticks -> Nat] /\ gifts \in Seq(Gift)
    BY DEF LimiterIInv, LimiterTypeOK, Gift
  <2>b. i \in Ticks /\ s \in Ticks /\ t \in Ticks /\ i <= s /\ s < t
    BY <1>1, <1>6, <2>1
  <2>6. Granted(i, t) = Granted(i, s) + Granted(s + 1, t)
    <3>1. GrantedOf(grants, i, t) = GrantedOf(grants, i, s) + GrantedOf(grants, s + 1, t)
      <4>1. \A a \in Ticks : \A b \in Ticks : \A c \in Ticks : a <= b /\ b < c =>
                GrantedOf(grants, a, c) = GrantedOf(grants, a, b) + GrantedOf(grants, b + 1, c)
        BY <2>a, GrantsCut
      <4> QED
        BY <2>b, <4>1
    <3> QED
      BY <3>1, TotalsOf
  <2>7. Given(i, t) = Given(i, s) + Given(s + 1, t)
    <3>1. GivenOf(gifts, i, t) = GivenOf(gifts, i, s) + GivenOf(gifts, s + 1, t)
      BY <2>a, <2>b, GiftsCut
    <3> QED
      BY <3>1, TotalsOf
  <2>8. PICK w \in Nat : w = Windows(s)
    BY <1>8, <2>1
  <2>9. PICK a \in Int, b \in Int, c \in Int, d \in Int :
            a = Granted(i, s) /\ b = Granted(s + 1, t) /\ c = Given(i, s) /\ d = Given(s + 1, t)
    <3>1. Granted(i, s) \in Nat /\ Given(i, s) \in Int
      BY <2>b, TotalsTyped DEF LimiterIInv
    <3>2. Granted(s + 1, t) \in Nat /\ Given(s + 1, t) \in Int
      BY <2>2, <2>b, TotalsTyped DEF LimiterIInv
    <3> QED
      BY <3>1, <3>2
  <2>10. PICK e \in Int : e = (w + 1) * MaxRequests
    BY <1>2
  <2>11. ((w + 1) + 1) * MaxRequests = e + MaxRequests
    BY <1>2, <2>10
  <2>12. a + b <= (e + MaxRequests) + (c + d)
    BY <1>2, <2>4, <2>5, <2>8, <2>9, <2>10
  <2> QED
    BY <1>6, <2>3, <2>6, <2>7, <2>8, <2>9, <2>11, <2>12
<1> QED
  BY <1>1, <1>2, <1>6, <1>9, <1>10

(* Whatever calls, refills and health reports interleave with the clock, a  *)
(* limiter grants over no stretch of time more than its burst and rate     *)
(* allow over it and operators put in (consume, allow).                    *)
THEOREM StretchesStayWithin == LimiterSpec => []NoStretchExceedsLimit
<1> USE LimiterAssumption
<1>1. LimiterIInv => NoStretchExceedsLimit
  <2> SUFFICES ASSUME LimiterIInv, NEW i \in 0..now
               PROVE  Granted(i, now) <= Allowance(i, now) + Given(i, now)
    BY DEF NoStretchExceedsLimit
  <2>1. now \in Nat /\ i \in Nat /\ i <= now /\ i \in Ticks /\ now \in Ticks
    BY LimiterTimes DEF LimiterIInv
  <2>2. kind \in Kinds
    BY DEF LimiterIInv, LimiterTypeOK
  <2>3. CASE kind # "window"
    <3>1. Granted(i, now) <= Burst + (now - i) * Pace + Given(i, now)
      BY <2>3 DEF LimiterIInv, PoolGranted
    <3>2. Burst \in Nat /\ Pace \in Nat
      BY TopRateIs
    <3>3. Burst + (now - i) * Pace = Allowance(i, now)
      <4>1. CASE kind = "bucket"
        BY <4>1 DEF Burst, Pace, Allowance
      <4>2. CASE kind = "adaptive"
        <5>1. Burst = TopRate /\ Pace = TopRate /\ Allowance(i, now) = (now - i + 1) * TopRate
          BY <4>2 DEF Burst, Pace, Allowance
        <5>2. \A x \in Nat : x + (now - i) * x = (now - i + 1) * x
          BY <2>1
        <5> QED
          BY <3>2, <5>1, <5>2
      <4> QED
        BY <2>2, <2>3, <4>1, <4>2 DEF Kinds
    <3> QED
      BY <3>1, <3>3
  <2>4. CASE kind = "window"
    <3>1. now \in i..now
      BY <2>1
    <3>2. Granted(i, now) <= ((now - i) \div (WindowSize + 1) + 1) * MaxRequests + Given(i, now)
      BY <2>4, <3>1, LongerStretches
    <3> QED
      BY <2>4, <3>2 DEF Allowance
  <2> QED
    BY <2>3, <2>4
<1> QED
  BY <1>1, LimiterIInvAlways, PTL

-----------------------------------------------------------------------------
(* Drift baselines, for any values: Samuelson's bound, that a value among n *)
(* lies at most n - 1 times the variance from their mean, squared.         *)

(* Squares are not negative, and a product with a positive factor has the   *)
(* sign of the other.                                                      *)
LEMMA SquareIsNatural ==
    ASSUME NEW a \in Int PROVE a * a \in Nat
<1>1. CASE a >= 0
  BY <1>1
<1>2. CASE a < 0
  <2>1. -a \in Nat /\ a * a = (-a) * (-a)
    BY <1>2
  <2> QED
    BY <2>1
<1> QED
  BY <1>1, <1>2

LEMMA SignOfFactor ==
    ASSUME NEW k \in Nat, k > 0, NEW w \in Int, k * w >= 0
    PROVE  w >= 0
<1>1. ASSUME w < 0 PROVE FALSE
  <2>1. -w \in Nat /\ -w >= 1
    BY <1>1
  <2>2. PICK c \in Nat : c = -w /\ c >= 1
    BY <2>1
  <2>3. k * c >= 1
    BY <2>2
  <2>4. k * w = -(k * c)
    BY <2>2
  <2> QED
    BY <2>3, <2>4
<1> QED
  BY <1>1

LEMMA NaturalProducts ==
    ASSUME NEW a \in Nat, NEW b \in Int, NEW c \in Int, b <= c
    PROVE  a * b <= a * c
<1>1. PICK d \in Nat : d = c - b
  OBVIOUS
<1>2. a * d \in Nat /\ a * c = a * b + a * d
  BY <1>1
<1>3. a * b \in Int /\ a * c \in Int
  OBVIOUS
<1> QED
  BY <1>2, <1>3

(* One more value: from the bound for k values to that for k + 1. *)
LEMMA OneMoreSquare ==
    ASSUME NEW k \in Nat, NEW F \in Int, NEW Q \in Int, NEW x \in Int,
           F * F <= k * Q, k = 0 => F = 0 /\ Q = 0
    PROVE  (F + x) * (F + x) <= (k + 1) * (Q + x * x)
<1>1. CASE k = 0
  BY <1>1
<1>2. CASE k > 0
  <2> DEFINE w == Q + k * (x * x) - 2 * (F * x)
             e == F - k * x
  <2>1. w \in Int /\ e \in Int
    OBVIOUS
  <2>2. e * e = F * F - 2 * (k * (F * x)) + k * (k * (x * x))
    OBVIOUS
  <2>3. k * w = k * Q + k * (k * (x * x)) - 2 * (k * (F * x))
    OBVIOUS
  <2>4. e * e \in Nat
    BY <2>1, SquareIsNatural
  <2>5. k * w >= 0
    <3>1. PICK ff \in Int, kq \in Int, kfx \in Int, kkx \in Int :
              ff = F * F /\ kq = k * Q /\ kfx = k * (F * x) /\ kkx = k * (k * (x * x))
      OBVIOUS
    <3>2. ff <= kq /\ ff - 2 * kfx + kkx >= 0 /\ k * w = kq + kkx - 2 * kfx
      BY <2>2, <2>3, <2>4, <3>1
    <3> QED
      BY <3>2
  <2>6. w >= 0
    BY <1>2, <2>1, <2>5, SignOfFactor
  <2>7. (k + 1) * (Q + x * x) = k * Q + k * (x * x) + Q + x * x
    OBVIOUS
  <2>8. (F + x) * (F + x) = F * F + 2 * (F * x) + x * x
    OBVIOUS
  <2>9. PICK ff \in Int, kq \in Int, kxx \in Int, fx \in Int, xx \in Int :
            ff = F * F /\ kq = k * Q /\ kxx = k * (x * x) /\ fx = F * x /\ xx = x * x
    OBVIOUS
  <2>10. ff <= kq /\ Q + kxx - 2 * fx >= 0
    BY <2>6, <2>9
  <2>11. ff + 2 * fx + xx <= kq + kxx + Q + xx
    BY <2>10
  <2> QED
    BY <2>7, <2>8, <2>9, <2>11
<1> QED
  BY <1>1, <1>2

(* The square of a sum is at most the number of its terms times the sum of  *)
(* their squares: a smallest set of which that is wrong would give a       *)
(* smaller one.                                                            *)
LEMMA SquareOfSum ==
    ASSUME NEW S, IsFiniteSet(S), NEW f, NEW q,
           \A x \in S : f[x] \in Int /\ q[x] = f[x] * f[x]
    PROVE  SumFunctionOnSet(f, S) * SumFunctionOnSet(f, S) <= Cardinality(S) * SumFunctionOnSet(q, S)
<1> DEFINE F(T) == SumFunctionOnSet(f, T)
           Q(T) == SumFunctionOnSet(q, T)
           Bad == {T \in SUBSET S : ~(F(T) * F(T) <= Cardinality(T) * Q(T))}
<1>1. SUFFICES ASSUME Bad # {} PROVE FALSE
  OBVIOUS
<1>2. \A T \in SUBSET S : IsFiniteSet(T)
  BY FS_Subset
<1>3. \A T \in Bad : IsFiniteSet(T)
  BY <1>2
<1> HIDE DEF Bad
<1>4. PICK T \in Bad : \A R \in Bad : Cardinality(T) <= Cardinality(R)
  BY <1>1, <1>3, SmallestSet
<1>5. T \in SUBSET S /\ IsFiniteSet(T) /\ ~(F(T) * F(T) <= Cardinality(T) * Q(T))
  BY <1>2, <1>4 DEF Bad
<1>6. \A x \in S : q[x] \in Int
  <2>1. \A a \in Int : a * a \in Int
    OBVIOUS
  <2> QED
    BY <2>1
<1>7. \A R \in SUBSET S : F(R) \in Int /\ Q(R) \in Int /\ Cardinality(R) \in Nat
  BY <1>2, <1>6, SumType, FS_CardinalityType
<1>8. F({}) = 0 /\ Q({}) = 0 /\ Cardinality({}) = 0
  BY EmptySum, FS_EmptySet
<1> HIDE DEF F, Q
<1>9. CASE T = {}
  BY <1>5, <1>8, <1>9
<1>10. CASE T # {}
  <2>1. PICK x \in T : TRUE
    BY <1>10
  <2> DEFINE R == T \ {x}
  <2>2. R \in SUBSET S /\ IsFiniteSet(R) /\ Cardinality(R) = Cardinality(T) - 1
    BY <1>5, <2>1, FS_RemoveElement
  <2>3. F(T) = F(R) + f[x]
    <3>1. \A y \in T : f[y] \in Int
      BY <1>5
    <3> QED
      BY <1>5, <2>1, <3>1, RemoveElement DEF F
  <2>4. Q(T) = Q(R) + q[x]
    <3>1. \A y \in T : q[y] \in Int
      BY <1>5, <1>6
    <3> QED
      BY <1>5, <2>1, <3>1, RemoveElement DEF Q
  <2>5. f[x] \in Int /\ q[x] = f[x] * f[x] /\ Cardinality(T) \in Nat /\ Cardinality(R) \in Nat
        /\ F(R) \in Int /\ Q(R) \in Int
    BY <1>5, <1>7, <2>1, <2>2
  <2>6. R \notin Bad
    <3>1. Cardinality(R) < Cardinality(T)
      BY <2>2, <2>5
    <3> QED
      BY <1>4, <2>5, <3>1
  <2>7. F(R) * F(R) <= Cardinality(R) * Q(R)
    BY <2>2, <2>6 DEF Bad
  <2>8. Cardinality(R) = 0 => F(R) = 0 /\ Q(R) = 0
    <3>1. Cardinality(R) = 0 => R = {}
      BY <2>2, FS_EmptySet
    <3> QED
      BY <1>8, <3>1
  <2>9. Cardinality(T) = Cardinality(R) + 1
    BY <2>2, <2>5
  <2> HIDE DEF R
  <2>10. (F(R) + f[x]) * (F(R) + f[x]) <= (Cardinality(R) + 1) * (Q(R) + f[x] * f[x])
    BY <2>5, <2>7, <2>8, OneMoreSquare
  <2> QED
    BY <1>5, <2>3, <2>4, <2>5, <2>9, <2>10
<1> QED
  BY <1>9, <1>10

(* The distance of a value of which the square is v * v, among n = m + 1    *)
(* values with sum m's A and its own, squares' sum B and its own.          *)
LEMMA OneAmongMany ==
    ASSUME NEW m \in Nat, NEW A \in Int, NEW B \in Int, NEW v \in Int, A * A <= m * B
    PROVE  LET n == m + 1
               spread == n * (B + v * v) - (A + v) * (A + v)
               off == n * v - (A + v)
           IN  off * off <= m * spread
<1> DEFINE n == m + 1
           spread == n * (B + v * v) - (A + v) * (A + v)
           off == n * v - (A + v)
<1>1. off = m * v - A
  OBVIOUS
<1>2. (m * v - A) * (m * v - A) = m * (m * (v * v)) - 2 * (m * (v * A)) + A * A
  OBVIOUS
<1>3. m * spread = m * (m * B) + m * B + m * (m * (v * v)) - 2 * (m * (v * A)) - m * (A * A)
  <2>1. n * (B + v * v) = m * B + B + m * (v * v) + v * v
    OBVIOUS
  <2>2. (A + v) * (A + v) = A * A + 2 * (v * A) + v * v
    OBVIOUS
  <2>3. spread = m * B + B + m * (v * v) - A * A - 2 * (v * A)
    BY <2>1, <2>2
  <2> QED
    BY <2>3
<1>4. m * (A * A) <= m * (m * B)
  <2>1. A * A \in Int /\ m * B \in Int
    OBVIOUS
  <2> QED
    BY <2>1, NaturalProducts
<1>5. PICK aa \in Int, mb \in Int, maa \in Int, mmb \in Int, mva \in Int, mmv \in Int :
          /\ aa = A * A /\ mb = m * B /\ maa = m * (A * A) /\ mmb = m * (m * B)
          /\ mva = m * (v * A) /\ mmv = m * (m * (v * v))
  OBVIOUS
<1>6. aa <= mb /\ maa <= mmb
  BY <1>4, <1>5
<1>7. off * off = mmv - 2 * mva + aa
  BY <1>1, <1>2, <1>5
<1>8. m * spread = mmb + mb + mmv - 2 * mva - maa
  BY <1>3, <1>5
<1> HIDE DEF off, spread
<1>9. mmv - 2 * mva + aa <= mmb + mb + mmv - 2 * mva - maa
  BY <1>6
<1>10. off * off <= m * spread
  BY <1>7, <1>8, <1>9
<1> QED
  BY <1>10 DEF off, spread

-----------------------------------------------------------------------------
Baseline ==
    \/ baseline = NoBaseline
    \/ \E xs \in SeqOf(Values, MaxSamples) : Len(xs) >= 2 /\ baseline = Computed(xs)
    \/ \E m \in Values, d \in 0..1 : baseline = Manual(m, d)

(* A value among samples lies no farther off than sqrt(n - 1) deviations.   *)
LEMMA SampleIsNear ==
    ASSUME NEW n \in Nat, NEW xs \in [1..n -> Int], n >= 2, NEW i \in 1..n
    PROVE  LET off == n * xs[i] - SumOf(xs) IN
           /\ SumOf(xs) \in Int /\ Spread(xs) \in Int
           /\ off * off <= (n - 1) * Spread(xs)
<1> DEFINE S == 1..n
           R == S \ {i}
<1>1. DOMAIN xs = S /\ i \in S /\ xs \in Seq(Int) /\ Len(xs) = n
  OBVIOUS
<1>2. IsFiniteSet(S) /\ Cardinality(S) = n
  BY UpToCount
<1> HIDE DEF S
<1>3. \A k \in S : xs[k] \in Int
  BY DEF S
<1>4. \A k \in S : Squares(xs)[k] = xs[k] * xs[k] /\ Squares(xs)[k] \in Int
  BY <1>1, <1>3 DEF Squares
<1>5. IsFiniteSet(R) /\ Cardinality(R) = n - 1 /\ R \subseteq S
  BY <1>1, <1>2, FS_RemoveElement
<1>6. SumFunctionOnSet(xs, S) = SumFunctionOnSet(xs, R) + xs[i]
  BY <1>1, <1>2, <1>3, RemoveElement
<1>7. SumFunctionOnSet(Squares(xs), S) = SumFunctionOnSet(Squares(xs), R) + Squares(xs)[i]
  BY <1>1, <1>2, <1>4, RemoveElement
<1> HIDE DEF R
<1>8. PICK A \in Int : A = SumFunctionOnSet(xs, R)
  <2>1. \A k \in R : xs[k] \in Int
    BY <1>3, <1>5
  <2> QED
    BY <1>5, <2>1, SumType
<1>9. PICK B \in Int : B = SumFunctionOnSet(Squares(xs), R)
  <2>1. \A k \in R : Squares(xs)[k] \in Int
    BY <1>4, <1>5
  <2> QED
    BY <1>5, <2>1, SumType
<1>10. A * A <= (n - 1) * B
  <2>1. \A k \in R : xs[k] \in Int /\ Squares(xs)[k] = xs[k] * xs[k]
    BY <1>3, <1>4, <1>5
  <2>2. SumFunctionOnSet(xs, R) * SumFunctionOnSet(xs, R) <= Cardinality(R) * SumFunctionOnSet(Squares(xs), R)
    BY <1>5, <2>1, SquareOfSum
  <2> QED
    BY <1>5, <1>8, <1>9, <2>2
<1>11. PICK v \in Int : v = xs[i]
  BY <1>1, <1>3
<1>12. PICK m \in Nat : m = n - 1 /\ n = m + 1
  OBVIOUS
<1>13. SumOf(xs) = A + v /\ SumOfSquares(xs) = B + v * v
  BY <1>1, <1>4, <1>6, <1>7, <1>8, <1>9, <1>11 DEF SumOf, SumOfSquares
<1>14. Spread(xs) = n * (B + v * v) - (A + v) * (A + v)
  BY <1>1, <1>13 DEF Spread
<1>15. A * A <= m * B
  BY <1>10, <1>12
<1>16. LET off == (m + 1) * v - (A + v)
           spread == (m + 1) * (B + v * v) - (A + v) * (A + v)
       IN  off * off <= m * spread
  BY <1>15, OneAmongMany
<1>17. Spread(xs) \in Int /\ SumOf(xs) \in Int
  <2>1. \A a \in Int : \A b \in Int : a * b \in Int
    OBVIOUS
  <2> QED
    BY <1>13, <1>14, <2>1
<1> QED
  BY <1>11, <1>12, <1>13, <1>14, <1>16, <1>17

LEMMA NearIsNoDrift ==
    ASSUME BaselineAssumption,
           NEW n \in 2..MaxSamples, NEW xs \in [1..n -> Int], NEW i \in 1..n,
           (ThresholdDen * ThresholdDen) * ((n - 1) * (n - 1)) <= (ThresholdNum * ThresholdNum) * n
    PROVE  ~BeyondDeviation(xs, xs[i])
<1> DEFINE D == ThresholdNum * ThresholdNum
           E == ThresholdDen * ThresholdDen
           off == n * xs[i] - SumOf(xs)
<1>1. Len(xs) = n /\ xs[i] \in Int /\ n \in Nat /\ n >= 2 /\ D \in Nat /\ E \in Nat
  BY DEF BaselineAssumption
<1>2. SumOf(xs) \in Int /\ Spread(xs) \in Int /\ off * off <= (n - 1) * Spread(xs)
  BY <1>1, SampleIsNear
<1>0. \A x \in Int : \A y \in Int : x * y \in Int
  OBVIOUS
<1>3. PICK o \in Int : o = off
  <2> DEFINE q == n * xs[i]
  <2>1. q \in Int
    BY <1>0, <1>1
  <2> HIDE DEF q
  <2>2. q - SumOf(xs) \in Int
    BY <1>2, <2>1
  <2> QED
    BY <2>2 DEF q
<1>4. PICK s \in Int : s = Spread(xs)
  BY <1>2
<1>5. PICK m \in Nat : m = n - 1 /\ m > 0
  BY <1>1
<1>6. E * (m * m) <= D * n
  BY <1>5
<1>7. BeyondDeviation(xs, xs[i]) <=> (o * o * m) * E > D * n * s
  BY <1>1, <1>3, <1>4, <1>5 DEF BeyondDeviation
<1> HIDE DEF D, E, off
<1>8. o * o \in Nat /\ o * o <= m * s
  BY <1>2, <1>3, <1>4, <1>5, SquareIsNatural
<1>9. s \in Nat
  <2>1. PICK q \in Int : q = m * s
    BY <1>0, <1>4, <1>5
  <2>2. PICK r \in Nat : r = o * o
    BY <1>8
  <2>3. r <= q
    BY <1>8, <2>1, <2>2
  <2>4. q >= 0
    BY <2>3
  <2> QED
    BY <1>5, <2>1, <2>4, SignOfFactor
<1>10. m * (o * o) <= m * (m * s)
  <2>1. m * s \in Int
    OBVIOUS
  <2> QED
    BY <1>8, <2>1, NaturalProducts
<1>11. E * (m * (o * o)) <= E * (m * (m * s))
  <2>1. m * (o * o) \in Int /\ m * (m * s) \in Int
    BY <1>8
  <2> QED
    BY <1>1, <1>10, <2>1, NaturalProducts
<1>12. s * (E * (m * m)) <= s * (D * n)
  <2>1. E * (m * m) \in Int /\ D * n \in Int
    BY <1>1
  <2> QED
    BY <1>6, <1>9, <2>1, NaturalProducts
<1>13. E * (m * (m * s)) = s * (E * (m * m)) /\ (o * o * m) * E = E * (m * (o * o))
  BY <1>1
<1>14. D * n * s = s * (D * n)
  BY <1>1
<1>15. PICK a \in Int, b \in Int, c \in Int :
          a = (o * o * m) * E /\ b = s * (E * (m * m)) /\ c = D * n * s
  <2>1. \A x \in Int : \A y \in Int : x * y \in Int
    OBVIOUS
  <2> QED
    BY <1>1, <2>1
<1>16. a <= b /\ b <= c
  BY <1>11, <1>12, <1>13, <1>14, <1>15
<1>17. a <= c
  BY <1>16
<1> QED
  BY <1>7, <1>15, <1>17

LEMMA BaselineAlways == BaselineSpec => []Baseline
<1>1. BaselineInit => Baseline
  BY DEF BaselineInit, Baseline
<1>2. Baseline /\ [BaselineNext]_bvars => Baseline'
  <2> SUFFICES ASSUME Baseline, [BaselineNext]_bvars
               PROVE  Baseline'
    OBVIOUS
  <2>1. CASE \E xs \in SeqOf(Values, MaxSamples) : ComputeBaseline(xs)
    BY <2>1 DEF ComputeBaseline, Baseline
  <2>2. CASE \E m \in Values, d \in 0..1 : SetBaseline(m, d)
    BY <2>2 DEF SetBaseline, Baseline
  <2>3. CASE ResetDrift
    BY <2>3 DEF ResetDrift, Baseline
  <2>4. CASE UNCHANGED baseline
    BY <2>4 DEF Baseline
  <2> QED
    BY <2>1, <2>2, <2>3, <2>4
       DEF BaselineNext, bvars, ResetCosts, RecordDailyCost, SetExpected
<1> QED
  BY <1>1, <1>2, PTL DEF BaselineSpec

(* A value that a baseline was computed from is drift against it only if   *)
(* the samples are so many that one can lie the threshold off their mean   *)
(* (compute_baseline, detect).                                             *)
THEOREM OwnDriftTakesSamples == BaselineSpec => []OwnDriftNeedsSamples
<1>1. Baseline => OwnDriftNeedsSamples
  <2> SUFFICES ASSUME Baseline, baseline # NoBaseline, NEW i \in DOMAIN baseline.samples,
                      Drifted(baseline.samples[i])
               PROVE  LET n == Len(baseline.samples) IN
                      (ThresholdDen * ThresholdDen) * ((n - 1) * (n - 1)) > (ThresholdNum * ThresholdNum) * n
    BY DEF OwnDriftNeedsSamples
  <2>1. CASE \E xs \in SeqOf(Values, MaxSamples) : Len(xs) >= 2 /\ baseline = Computed(xs)
    <3>1. PICK xs \in SeqOf(Values, MaxSamples) : Len(xs) >= 2 /\ baseline = Computed(xs)
      BY <2>1
    <3>2. PICK n \in 0..MaxSamples : xs \in [1..n -> Values]
      BY DEF SeqOf
    <3>3. n \in 2..MaxSamples /\ xs \in [1..n -> Int] /\ Len(xs) = n
      <4>1. Values \subseteq Int
        BY BaselineAssumption DEF BaselineAssumption
      <4>2. Len(xs) = n
        BY <3>2, BaselineAssumption DEF BaselineAssumption
      <4> QED
        <5>1. xs \in [1..n -> Int]
          BY <3>2, <4>1
        <5>2. n \in 2..MaxSamples
          BY <3>1, <4>2, BaselineAssumption DEF BaselineAssumption
        <5> QED
          BY <4>2, <5>1, <5>2
    <3>4. baseline.samples = xs /\ xs # <<>> /\ i \in 1..n
      BY <3>1, <3>3 DEF Computed
    <3>5. BeyondDeviation(xs, xs[i])
      BY <3>4 DEF Drifted
    <3>6. ~((ThresholdDen * ThresholdDen) * ((n - 1) * (n - 1)) <= (ThresholdNum * ThresholdNum) * n)
      BY <3>3, <3>4, <3>5, BaselineAssumption, NearIsNoDrift
    <3>7. PICK a \in Int, b \in Int : a = (ThresholdDen * ThresholdDen) * ((n - 1) * (n - 1))
                                     /\ b = (ThresholdNum * ThresholdNum) * n
      BY <3>3, BaselineAssumption DEF BaselineAssumption
    <3> QED
      BY <3>3, <3>4, <3>6, <3>7
  <2>2. CASE \E m \in Values, d \in 0..1 : baseline = Manual(m, d)
    BY <2>2 DEF Manual
  <2> QED
    BY <2>1, <2>2 DEF Baseline
<1> QED
  BY <1>1, BaselineAlways, PTL
=============================================================================
