----------------------------- MODULE MCOperations -----------------------------
(* The limiters, the quotas, the prompt scores, the baselines, the SLA       *)
(* checks, the chaos experiments and the Redis memory share no state: a      *)
(* behaviour is one of one of them.  A request costs two ticks of refill,    *)
(* and the burst is full again just when the clock ends; two callers on a  *)
(* quota that one of them can exhaust; two overlapping evaluations; two      *)
(* scenarios, so that one meets the injections of the other; two clients and *)
(* room for one row, one of them without its embedding model.                *)
EXTENDS RateLimiters, Quotas, PromptRegression, Baselines, SlaChecks, Chaos, RedisMemory

\* A quota whose tokens cost nothing, as by default, and one whose allocations look at the cost.
MCConfigs == {[tokens |-> 3, cost |-> 2, burst |-> 1, price |-> 0],
              [tokens |-> 2, cost |-> 3, burst |-> 2, price |-> 1]}

VARIABLE part   \* which of them runs

AllVars == <<part, lvars, qvars, pvars, bvars, svars, xvars, rvars>>
OperationsInit ==
    /\ part \in {"limiter", "quotas", "scores", "baselines", "sla", "chaos", "redis"}
    /\ LimiterInit /\ QuotaInit /\ RegressionInit /\ BaselineInit /\ SlaInit /\ ChaosInit /\ RedisInit
    /\ part # "limiter" => kind = "bucket"
OperationsNext ==
    \/ part = "limiter" /\ LimiterNext /\ UNCHANGED <<part, qvars, pvars, bvars, svars, xvars, rvars>>
    \/ part = "quotas" /\ QuotaNext /\ UNCHANGED <<part, lvars, pvars, bvars, svars, xvars, rvars>>
    \/ part = "scores" /\ RegressionNext /\ UNCHANGED <<part, lvars, qvars, bvars, svars, xvars, rvars>>
    \/ part = "baselines" /\ BaselineNext /\ UNCHANGED <<part, lvars, qvars, pvars, svars, xvars, rvars>>
    \/ part = "sla" /\ SlaNext /\ UNCHANGED <<part, lvars, qvars, pvars, bvars, xvars, rvars>>
    \/ part = "chaos" /\ ChaosNext /\ UNCHANGED <<part, lvars, qvars, pvars, bvars, svars, rvars>>
    \/ part = "redis" /\ RedisNext /\ UNCHANGED <<part, lvars, qvars, pvars, bvars, svars, xvars>>
OperationsSpec == OperationsInit /\ [][OperationsNext]_AllVars
====
