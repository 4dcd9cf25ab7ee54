----------------------- MODULE ResilientClientHistory -----------------------
(***************************************************************************)
(* The resilient client beside a count of the calls it makes to providers  *)
(* whose circuit is OPEN: the history variable `late` watches requests     *)
(* begin a call, and forgets a provider's calls when its circuit leaves    *)
(* OPEN.  The client asks the breaker once per provider and then makes up  *)
(* to MaxAttempts calls, whatever other requests do to the circuit in the  *)
(* meantime, so that an OPEN circuit is still called.                      *)
(***************************************************************************)
EXTENDS ResilientClient

VARIABLE late   \* [Requests -> [Providers -> calls begun since p's circuit opened]]

hvars == <<circuit, cache, req, late>>

HInit == Init /\ late = [r \in Requests |-> [p \in Providers |-> 0]]

(* The step hands a call to the executor: the first attempt, or a retry.   *)
Calls(r, p) ==
    /\ req[r] # req'[r] /\ req'[r].phase = "waiting"
    /\ Provider(r) = p

Counted ==
    late' = [r \in Requests |-> [p \in Providers |->
                IF circuit'[p].state # "OPEN" THEN 0
                ELSE late[r][p] + (IF Calls(r, p) THEN 1 ELSE 0)]]

HNext == Next /\ Counted

HSpec == HInit /\ [][HNext]_hvars
HFairSpec == HSpec /\ Fairness
HHangingSpec == HSpec /\ HangingFairness

-----------------------------------------------------------------------------
(* However many requests were past their check when a circuit opened, and  *)
(* however late they get to their calls: while it stays OPEN, each of them *)
(* calls the provider no more often than one admission allows, and the one *)
(* whose failure opened it has spent a part of that before.  Requests that *)
(* end and start again meanwhile get no second allowance                   *)
(* (_execute_with_failover asks the breaker once and then retries).        *)
WithinOneAdmission(p) ==
    /\ \A r \in Requests : late[r][p] <= MaxAttempts
    /\ \E r \in Requests : late[r][p] < MaxAttempts

OpenLimitsCalls ==
    \A p \in Providers : circuit[p].state = "OPEN" => WithinOneAdmission(p)
=============================================================================
