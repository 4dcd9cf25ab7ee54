---------------------------- MODULE MCIngestion ----------------------------
(* Trace ingestion and verdicts are rows of different tables: a behaviour   *)
(* is one of one of them.  Two clients race on each of two keys, with       *)
(* traces for both races to be lost; one reader, two evaluators, a floor    *)
(* and a ceiling in the middle of the values, so that each can be missed,   *)
(* met and missed again.                                                    *)
EXTENDS TraceIngestion, VerdictsHistory

VARIABLE part   \* which of them runs

MCFloors == {"accuracy"}
MCCeilings == {"latency_ms"}
MCThreshold == [m \in MCFloors \cup MCCeilings |-> 1]

AllVars == <<part, ivars, wvars>>
BothInit == part \in {"ingestion", "verdicts"} /\ IngestInit /\ WatchedInit
BothNext ==
    \/ part = "ingestion" /\ IngestNext /\ UNCHANGED <<part, wvars>>
    \/ part = "verdicts" /\ WatchedNext /\ UNCHANGED <<part, ivars>>
BothSpec == BothInit /\ [][BothNext]_AllVars /\ IngestFairness /\ Evaluating
=============================================================================
