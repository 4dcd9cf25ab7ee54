------------------------------ MODULE SlaChecks ------------------------------
(***************************************************************************)
(* SLAChecker of scheduled_scanning.py for one provider: latency samples,  *)
(* errors and uptime checks with their ages, and the three compliance      *)
(* checks over a window, which callers may ask for at any time and which   *)
(* change nothing.  The code keeps every record for ever and filters by    *)
(* age; the model forgets a record once it is too old for the window.      *)
(***************************************************************************)
EXTENDS Integers, Functions

CONSTANTS
    Window,             \* look-back window in ticks, its far end included
    Latencies,
    MaxLatency, MaxErrorPercent, MinUptimePercent,
    MaxRecords          \* bounds the records inside the window

ASSUME SlaAssumption ==
    /\ {Window, MaxLatency, MaxRecords} \subseteq Nat /\ Latencies \subseteq Nat
    /\ MaxErrorPercent \in 0..99 /\ MinUptimePercent \in 1..100

VARIABLES
    latency,            \* [Latencies -> [ages -> number of samples]]
    errors, ups, downs, \* [ages -> number of records]
    lastBad, lastGood   \* history: for each check the age of the last record that tells for
                        \* a breach, and of the last that tells against it; Never if too old

records == <<latency, errors, ups, downs>>
svars == <<records, lastBad, lastGood>>

Ages == 0..Window
Never == Window + 1
SlaKinds == {"latency", "error", "uptime"}
Nothing == [a \in Ages |-> 0]
Total(f) == FoldFunction(+, 0, f)

(* A faulty variant of the definition below; see CircuitBreaker. *)
AgedForEver(f) ==
    [a \in Ages |-> IF a = 0 THEN 0 ELSE f[a - 1] + (IF a = Window THEN f[a] ELSE 0)]

Aged(f) == [a \in Ages |-> IF a = 0 THEN 0 ELSE f[a - 1]]
One(f) == [f EXCEPT ![0] = @ + 1]

Samples == Total([l \in Latencies |-> Total(latency[l])])
LatencySum == Total([l \in Latencies |-> l * Total(latency[l])])
Checks == Total(ups) + Total(downs)

-----------------------------------------------------------------------------
(* check_latency: the average, against the limit and 80% of it.            *)
LatencyStatus ==
    IF LatencySum > MaxLatency * Samples THEN "BREACHED"
    ELSE IF 10 * LatencySum > 8 * MaxLatency * Samples THEN "WARNING" ELSE "COMPLIANT"

(* check_error_rate: uptime checks of either outcome count as error-free.  *)
ErrorStatus ==
    IF 100 * Total(errors) > MaxErrorPercent * (Checks + Total(errors)) THEN "BREACHED"
    ELSE IF 1000 * Total(errors) > 8 * MaxErrorPercent * (Checks + Total(errors))
         THEN "WARNING" ELSE "COMPLIANT"

(* check_uptime: below the minimum, or within one percent of it.           *)
UptimeStatus ==
    IF 100 * Total(ups) < MinUptimePercent * Checks THEN "BREACHED"
    ELSE IF 10000 * Total(ups) < 101 * MinUptimePercent * Checks THEN "WARNING" ELSE "COMPLIANT"

Status(k) ==
    CASE k = "latency" -> LatencyStatus [] k = "error" -> ErrorStatus [] k = "uptime" -> UptimeStatus

SlaInit ==
    /\ latency = [l \in Latencies |-> Nothing]
    /\ errors = Nothing /\ ups = Nothing /\ downs = Nothing
    /\ lastBad = [k \in SlaKinds |-> Never] /\ lastGood = lastBad

Records == Total(errors) + Checks + Samples
Now(last, kinds) == [k \in SlaKinds |-> IF k \in kinds THEN 0 ELSE last[k]]
Tells(bad, good) ==
    Records < MaxRecords /\ lastBad' = Now(lastBad, bad) /\ lastGood' = Now(lastGood, good)

RecordLatency(l) ==
    /\ latency' = [latency EXCEPT ![l] = One(@)]
    /\ IF l > MaxLatency THEN Tells({"latency"}, {}) ELSE Tells({}, {"latency"})
    /\ UNCHANGED <<errors, ups, downs>>

RecordError ==
    /\ errors' = One(errors) /\ Tells({"error"}, {})
    /\ UNCHANGED <<latency, ups, downs>>

RecordUptime(up) ==
    /\ \/ up /\ ups' = One(ups) /\ UNCHANGED downs /\ Tells({}, {"uptime", "error"})
       \/ ~up /\ downs' = One(downs) /\ UNCHANGED ups /\ Tells({"uptime"}, {"error"})
    /\ UNCHANGED <<latency, errors>>

Older(last) == [k \in SlaKinds |-> IF last[k] = Never THEN Never ELSE last[k] + 1]
SlaTick ==
    /\ latency' = [l \in Latencies |-> Aged(latency[l])]
    /\ errors' = Aged(errors) /\ ups' = Aged(ups) /\ downs' = Aged(downs)
    /\ lastBad' = Older(lastBad) /\ lastGood' = Older(lastGood)

ResetSla ==
    /\ latency' = [l \in Latencies |-> Nothing]
    /\ errors' = Nothing /\ ups' = Nothing /\ downs' = Nothing
    /\ lastBad' = [k \in SlaKinds |-> Never] /\ lastGood' = lastBad'

SlaNext ==
    \/ \E l \in Latencies : RecordLatency(l)
    \/ RecordError
    \/ \E up \in BOOLEAN : RecordUptime(up)
    \/ SlaTick \/ ResetSla

SlaSpec == SlaInit /\ [][SlaNext]_svars

-----------------------------------------------------------------------------
(* However records and time alternate, a check reports a breach only while *)
(* its window, whose far end counts, holds a record that tells for one: a  *)
(* sample over the limit, an error, a failed uptime check.  While it holds *)
(* such records and none that tell against it, it reports the breach       *)
(* (check_latency, check_error_rate, check_uptime: `ts >= cutoff`).        *)
BreachesFollowRecords ==
    \A k \in SlaKinds :
        /\ Status(k) = "BREACHED" => lastBad[k] # Never
        /\ lastBad[k] # Never /\ lastGood[k] = Never => Status(k) = "BREACHED"
=============================================================================
