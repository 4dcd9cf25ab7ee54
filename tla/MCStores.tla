----------------------------- MODULE MCStores -----------------------------
(* Three stores share no state: a behaviour is one of one of them.          *)
(* Virtual keys: two callers on one key and one more key, budgets of        *)
(* nothing and of two, estimates up to two, so that the whole overshoot can *)
(* be reached.  Memories: two compactors, so that a plan can be overtaken;  *)
(* a budget of two rows and room for four, so that two memories can be      *)
(* distilled or merged twice over, or one of them evicted between a load    *)
(* and its application.  Costs: two days, two connections that roll up or   *)
(* threads that export, two records on each side.                           *)
EXTENDS VirtualKeys, MemoryStoreHistory, CostLog, TLC

CONSTANTS a1, a2, r1, r2, r3
VARIABLE part   \* which of them runs

MCRunIds == {r1, r2, r3}
MCPair == {a1, a2}          \* callers, compactors, or rollup jobs
MCSymmetry == Permutations(MCPair)

AllVars == <<part, vars, hvars, lvars>>
StoresInit ==
    /\ part \in {"keys", "memories", "costs"}
    /\ Init /\ HInit /\ CostInit
StoresNext ==
    \/ part = "keys" /\ Next /\ UNCHANGED <<part, hvars, lvars>>
    \/ part = "memories" /\ HNext /\ UNCHANGED <<part, vars, lvars>>
    \/ part = "costs" /\ CostNext /\ UNCHANGED <<part, vars, hvars>>
StoresSpec == StoresInit /\ [][StoresNext]_AllVars
=============================================================================
