----------------------------- MODULE MCAgents -----------------------------
(* The checkpointed runs of the control plane, the message bus, the team,   *)
(* the guards of one agent, the fan-outs and the sequential chains share no *)
(* state: a behaviour is one of one of them.  Runs: two workers, so each    *)
(* call can fall between the read and the write of another; two users, two  *)
(* steps.                                                                   *)
EXTENDS AgentRunsHistory, MessageBus, AgentTeam, AgentGuards, FanOut, Chains

VARIABLE part   \* which of them runs

MCTypes == {<<"a">>, <<"a", "b">>}
MCFilters == {<<>>, <<"a", "*">>}
MCNests == {<<1, 2>>, <<3, 1>>}

AllVars == <<part, hvars, bvars, tvars, gvars, fvars, cvars>>
AgentsInit ==
    /\ part \in {"runs", "bus", "team", "guards", "fanout", "chains"}
    /\ HInit /\ BusInit /\ TeamInit /\ GuardInit /\ FanOutInit /\ ChainInit
    /\ part # "fanout" => kind = "agents"
    /\ part # "chains" => chain = "sequential"
AgentsNext ==
    \/ part = "runs" /\ HNext /\ UNCHANGED <<part, bvars, tvars, gvars, fvars, cvars>>
    \/ part = "bus" /\ BusNext /\ UNCHANGED <<part, hvars, tvars, gvars, fvars, cvars>>
    \/ part = "team" /\ TeamNext /\ UNCHANGED <<part, hvars, bvars, gvars, fvars, cvars>>
    \/ part = "guards" /\ GuardNext /\ UNCHANGED <<part, hvars, bvars, tvars, fvars, cvars>>
    \/ part = "fanout" /\ FanOutNext /\ UNCHANGED <<part, hvars, bvars, tvars, gvars, cvars>>
    \/ part = "chains" /\ ChainNext /\ UNCHANGED <<part, hvars, bvars, tvars, gvars, fvars>>
AgentsSpec == AgentsInit /\ [][AgentsNext]_AllVars /\ Resuming
=============================================================================
