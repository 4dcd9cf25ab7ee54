-------------------------------- MODULE Quotas --------------------------------
(***************************************************************************)
(* QuotaManager of rate_limiting.py: daily tokens, monthly cost and bursts *)
(* per (provider, user) pair.  A caller asks (check_quota, or              *)
(* cost_aware_allocation for some tokens), makes its model call, and       *)
(* records the tokens and the cost of it, which the code takes as two      *)
(* independent arguments.  Each method runs under the lock, a caller takes *)
(* it twice.                                                               *)
(*                                                                         *)
(* The code keeps the time a day or month began and compares the time      *)
(* since with its length; the model keeps that time since, and stops it    *)
(* one tick past the length.  How much cost_aware_allocation allocates is  *)
(* in its answer only, and what the caller records does not depend on it:  *)
(* the model keeps whether it is more than nothing.  cost_today and        *)
(* requests_today, which nothing reads back but get_usage, are left out.   *)
(***************************************************************************)
EXTENDS Integers, FiniteSets, FiniteSetsExt

CONSTANTS
    Pairs,          \* (provider, user) pairs
    Callers,
    Configs,        \* the configurations that pairs are given
    MaxCharge,      \* the most tokens one call uses
    MaxCost,        \* the most one call costs
    MaxSpent,       \* bound: the cost of a month
    Day, Month,     \* their lengths in ticks
    None            \* no quota configured

ASSUME QuotaAssumption ==
    /\ Configs \subseteq [tokens: Nat, cost: Nat, burst: Nat, price: Nat]
    /\ {MaxCharge, MaxCost, MaxSpent, Day, Month} \subseteq Nat
    /\ IsFiniteSet(Callers) /\ None \notin Pairs \union Configs

VARIABLES
    config,         \* _configs: [Pairs -> Configs, or None]
    usage,          \* _usage: [Pairs -> Usage, or None without a configuration]
    call,           \* [Callers -> the pair of the call it was let through with, or None]
    had             \* history: the largest limits of a pair since its usage began, at least
                    \* one, and whether an allocation passed its spent month by

qvars == <<config, usage, call, had>>

Usage == [tokens: Nat, cost: Nat, burst: Nat, day: 0..(Day + 1), month: 0..(Month + 1)]
NewUsage == [tokens |-> 0, cost |-> 0, burst |-> 0, day |-> 0, month |-> 0]
NothingHad == [tokens |-> 1, cost |-> 1, passed |-> FALSE]

QuotaTypeOK ==
    /\ config \in [Pairs -> Configs \union {None}]
    /\ usage \in [Pairs -> Usage \union {None}]
    /\ \A p \in Pairs : config[p] # None => usage[p] \in Usage
    /\ call \in [Callers -> Pairs \union {None}]
    /\ had \in [Pairs -> [tokens: Nat \ {0}, cost: Nat \ {0}, passed: BOOLEAN]]

-----------------------------------------------------------------------------
(* Faulty variants of the definitions below; see CircuitBreaker. *)

DayResetByTheHour(u) == IF u.day >= Day THEN [u EXCEPT !.tokens = 0, !.burst = 0, !.day = 0] ELSE u
ExceededByMore(u, cfg) == u.tokens > cfg.tokens \/ u.cost > cfg.cost

-----------------------------------------------------------------------------
(* _get_day_reset and _get_month_reset: strictly more than the length.     *)
DayReset(u) ==
    IF u.day > Day THEN [u EXCEPT !.tokens = 0, !.burst = 0, !.day = 0] ELSE u
MonthReset(u) ==
    IF u.month > Month THEN [u EXCEPT !.cost = 0, !.month = 0] ELSE u
Fresh(u) == MonthReset(DayReset(u))

Charged(u, n, k) == [u EXCEPT !.tokens = @ + n, !.cost = @ + k]
Ticked(u) == [u EXCEPT !.day = Min({Day + 1, @ + 1}), !.month = Min({Month + 1, @ + 1})]

Exceeded(u, cfg) == u.tokens >= cfg.tokens \/ u.cost >= cfg.cost

(* cost_aware_allocation: something is left of the day and, where tokens   *)
(* have a price, of the month; cost_per_token is 0 by default.             *)
Allocatable(u, cfg) == u.tokens < cfg.tokens /\ (cfg.price > 0 => u.cost < cfg.cost)

QuotaInit ==
    /\ config = [p \in Pairs |-> None] /\ usage = [p \in Pairs |-> None]
    /\ call = [c \in Callers |-> None] /\ had = [p \in Pairs |-> NothingHad]

(* A pair configured again keeps its usage. *)
AddQuota(p, cfg) ==
    /\ config' = [config EXCEPT ![p] = cfg]
    /\ usage' = [usage EXCEPT ![p] = IF config[p] = None THEN NewUsage ELSE @]
    /\ had' = [had EXCEPT ![p] = [tokens |-> Max({@.tokens, cfg.tokens}),
                                  cost |-> Max({@.cost, cfg.cost}), passed |-> @.passed]]
    /\ UNCHANGED call

RemoveQuota(p) ==
    /\ config' = [config EXCEPT ![p] = None] /\ usage' = [usage EXCEPT ![p] = None]
    /\ had' = [had EXCEPT ![p] = NothingHad]
    /\ UNCHANGED call

(* What four of the methods begin with. *)
Refresh(p) ==
    /\ config[p] # None /\ usage' = [usage EXCEPT ![p] = Fresh(@)]
    /\ UNCHANGED config

(* A new month makes up for what was passed by in the old one.             *)
PassedBy(p) == had[p].passed /\ usage[p].month <= Month
Passes(p, b) == had' = [had EXCEPT ![p].passed = b]

(* Either method, for a pair without a quota. *)
Unlimited(c, p) ==
    /\ config[p] = None /\ call[c] = None /\ call' = [call EXCEPT ![c] = p]
    /\ UNCHANGED <<config, usage, had>>

CheckQuota(c, p) ==
    /\ call[c] = None /\ Refresh(p) /\ Passes(p, PassedBy(p))
    /\ call' = IF Exceeded(usage'[p], config[p]) THEN call ELSE [call EXCEPT ![c] = p]

(* cost_aware_allocation for some tokens: reserves nothing.                *)
Allocate(c, p) ==
    /\ call[c] = None /\ Refresh(p)
    /\ \/ /\ ~Allocatable(usage'[p], config[p])
          /\ Passes(p, PassedBy(p)) /\ UNCHANGED call
       \/ /\ Allocatable(usage'[p], config[p])
          /\ call' = [call EXCEPT ![c] = p]
          /\ Passes(p, PassedBy(p) \/ usage'[p].cost >= config[p].cost)

(* record_usage of a call let through; or the call failed and used nothing.*)
RecordUsage(c, p, n, k) ==
    /\ call[c] = p /\ call' = [call EXCEPT ![c] = None]
    /\ \/ config[p] = None /\ UNCHANGED <<usage, had>>
       \/ /\ config[p] # None /\ Fresh(usage[p]).cost + k <= MaxSpent
          /\ usage' = [usage EXCEPT ![p] = Charged(Fresh(@), n, k)]
          /\ Passes(p, PassedBy(p))
    /\ UNCHANGED config

(* allocate_burst looks at the day only. *)
AllocateBurst(p) ==
    /\ config[p] # None
    /\ usage' = [usage EXCEPT ![p] =
            LET u == DayReset(@)
            IN  IF u.burst < config[p].burst THEN [u EXCEPT !.burst = @ + 1] ELSE u]
    /\ UNCHANGED <<config, call, had>>

GetUsage(p) == Refresh(p) /\ Passes(p, PassedBy(p)) /\ UNCHANGED call

QuotaTick ==
    /\ usage' = [p \in Pairs |-> IF config[p] = None THEN None ELSE Ticked(usage[p])]
    /\ UNCHANGED <<config, call, had>>

QuotaNext ==
    \/ \E p \in Pairs :
          \/ \E cfg \in Configs : AddQuota(p, cfg)
          \/ RemoveQuota(p) \/ AllocateBurst(p) \/ GetUsage(p)
          \/ \E c \in Callers :
                \/ Unlimited(c, p) \/ CheckQuota(c, p) \/ Allocate(c, p)
                \/ \E n \in 0..MaxCharge, k \in 0..MaxCost : RecordUsage(c, p, n, k)
    \/ QuotaTick

QuotaSpec == QuotaInit /\ [][QuotaNext]_qvars

-----------------------------------------------------------------------------
(* Callers let through at once, before a removal, a reset or a change of   *)
(* the limits even, are all recorded later; still a pair exceeds the       *)
(* largest daily tokens it had by no more than one largest call for each   *)
(* caller, and the calls still under way have room in that.  The same      *)
(* holds of the monthly cost, unless in this month an allocation without a *)
(* price let a caller pass by what was spent (check_quota and record_usage *)
(* take the lock apart, cost_aware_allocation does not look at the cost    *)
(* when cost_per_token is 0).                                              *)
OverrunBounded ==
    \A p \in Pairs : config[p] # None =>
        LET room == Cardinality({c \in Callers : call[c] # p}) IN
        /\ usage[p].tokens < had[p].tokens + room * MaxCharge
        /\ ~had[p].passed => usage[p].cost < had[p].cost + room * MaxCost

(* An exhausted quota lets nobody in again before strictly more than its   *)
(* day, or month, has passed since the first use that it counts, or the    *)
(* limit is raised: whatever is called at the boundary tick, or configured *)
(* again, gives nothing back.                                              *)
ExhaustedUntilReset ==
    [][\A p \in Pairs : config[p] # None /\ config'[p] # None =>
          /\ usage[p].tokens >= config[p].tokens /\ usage'[p].tokens < config'[p].tokens =>
                usage[p].day > Day \/ config'[p].tokens > config[p].tokens
          /\ usage[p].cost >= config[p].cost /\ usage'[p].cost < config'[p].cost =>
                usage[p].month > Month \/ config'[p].cost > config[p].cost]_qvars
=============================================================================
