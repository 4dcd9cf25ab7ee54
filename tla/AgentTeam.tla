----------------------------- MODULE AgentTeam ------------------------------
(***************************************************************************)
(* AgentTeam of agent_team.py: rounds of a supervisor that answers or      *)
(* delegates, with a cost limit for the team and one for each agent; and   *)
(* AgentSupervisor of agent_templates.py, which registers the workers,     *)
(* builds the team when they changed, and delegates past it.  One caller   *)
(* at a time: neither class locks.  Costs are whole units.                 *)
(***************************************************************************)
EXTENDS Integers, FiniteSets
CONSTANTS Names,       \* names that may be registered
          TeamLimit,   \* cost_limit_usd of the team
          AgentLimit,  \* cost_limit_usd of each agent
          Prices,      \* what one response may cost
          TopPrice,    \* the dearest of them
          MaxRounds,   \* max_rounds
          MaxRuns      \* bound: calls of run
ASSUME TeamAssumption ==
    /\ TeamLimit \in Nat \ {0} /\ AgentLimit \in Nat \ {0} /\ MaxRuns \in Nat /\ MaxRounds \in Nat \ {0}
    /\ TopPrice \in Nat /\ Prices \subseteq 0..TopPrice
    /\ Names \cap {"supervisor", "answer", "neither"} = {}   \* a worker "supervisor" would share its costs

VARIABLES workers,    \* AgentSupervisor._workers
          team,       \* AgentSupervisor._team, with the totals of that AgentTeam
          loop,       \* the run in progress
          runs        \* history: runs of the present team
tvars == <<workers, team, loop, runs>>

NotRunning == [phase |-> "idle", round |-> 0, worker |-> "supervisor"]
NoTeam == [agents |-> {}, total |-> 0, costs |-> [n \in Names \union {"supervisor"} |-> 0],
           turns |-> [w \in Names |-> 0]]
NewTeam(agents) == [NoTeam EXCEPT !.agents = agents]

TeamTypeOK ==
    /\ workers \subseteq Names /\ runs \in 0..MaxRuns
    /\ team \in [agents : SUBSET Names, total : Nat,
                 costs : [Names \union {"supervisor"} -> Nat], turns : [Names -> Nat]]
    /\ loop \in [phase : {"idle", "supervise", "dispatch"}, round : 0..MaxRounds,
                 worker : Names \union {"supervisor"}]

TeamInit == workers = {} /\ team = NoTeam /\ loop = NotRunning /\ runs = 0

\* add_worker and remove_worker drop the team, and with it what it has spent.
AddWorker(w) ==
    /\ loop = NotRunning /\ workers' = workers \union {w} /\ team' = NoTeam /\ runs' = 0
    /\ UNCHANGED loop
RemoveWorker(w) ==
    /\ loop = NotRunning /\ w \in workers /\ workers' = workers \ {w} /\ team' = NoTeam /\ runs' = 0
    /\ UNCHANGED loop

\* run: the team is built again if the workers are not its agents.
Run ==
    /\ loop = NotRunning /\ workers # {} /\ runs < MaxRuns /\ runs' = runs + 1
    /\ team' = IF team.agents = workers THEN team ELSE NewTeam(workers)
    /\ loop' = [phase |-> "supervise", round |-> 0, worker |-> "supervisor"]
    /\ UNCHANGED workers

\* _record_cost: the totals, before the limit is looked at.
Charged(name, price) ==
    [team EXCEPT !.total = @ + price, !.costs = [team.costs EXCEPT ![name] = @ + price]]
OverLimit(charged) == charged.total >= TeamLimit

NextRound == IF loop.round + 1 = MaxRounds THEN NotRunning
             ELSE [phase |-> "supervise", round |-> loop.round + 1, worker |-> "supervisor"]
Chosen(next) == CASE next = "answer" -> NotRunning
                  [] next = "neither" -> NextRound
                  [] OTHER -> [loop EXCEPT !.phase = "dispatch", !.worker = next]

\* A faulty variant of the definition below; see CircuitBreaker.
SupervisorGoesOn(price, next) ==
    /\ loop.phase = "supervise" /\ team' = Charged("supervisor", price)
    /\ loop' = Chosen(next) /\ UNCHANGED <<workers, runs>>

\* The supervisor responds: it answers (which ends the run, as an unknown agent does),
\* delegates to `next`, or says neither and is asked again.  The team's limit ends the run
\* first.
SupervisorResponds(price, next) ==
    /\ loop.phase = "supervise" /\ team' = Charged("supervisor", price)
    /\ loop' = (IF OverLimit(Charged("supervisor", price)) THEN NotRunning ELSE Chosen(next))
    /\ UNCHANGED <<workers, runs>>

\* _dispatch_to_agent: an agent at its limit is refused.
RefuseAgent ==
    /\ loop.phase = "dispatch" /\ team.costs[loop.worker] >= AgentLimit
    /\ loop' = NotRunning /\ UNCHANGED <<workers, team, runs>>

\* The agent responds.  Past the team's limit its turn is charged and not in its history.
AgentResponds(price) ==
    LET charged == Charged(loop.worker, price) IN
    /\ loop.phase = "dispatch" /\ team.costs[loop.worker] < AgentLimit
    /\ IF OverLimit(charged) THEN team' = charged /\ loop' = NotRunning
       ELSE /\ team' = [charged EXCEPT !.turns[loop.worker] = @ + 1]
            /\ loop' = NextRound
    /\ UNCHANGED <<workers, runs>>

\* A client raises, and so does run.
ClientRaises == loop # NotRunning /\ loop' = NotRunning /\ UNCHANGED <<workers, team, runs>>

TeamNext ==
    \/ \E w \in Names : AddWorker(w) \/ RemoveWorker(w)
    \/ Run \/ RefuseAgent \/ ClientRaises
    \/ \E price \in Prices :
          \/ AgentResponds(price)
          \/ \E next \in team.agents \union {"answer", "neither"} : SupervisorResponds(price, next)
TeamSpec == TeamInit /\ [][TeamNext]_tvars

\* The limits are looked at after a response is paid for: an agent overruns its own by less
\* than one response, whatever the runs, and the team by one response for each of its runs,
\* since an exhausted team still asks its supervisor once (_record_cost, _dispatch_to_agent).
OverspendBounded ==
    /\ team.total < TeamLimit + runs * TopPrice
    /\ \A w \in Names : team.costs[w] < AgentLimit + TopPrice
=============================================================================
