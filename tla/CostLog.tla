------------------------------- MODULE CostLog -------------------------------
(***************************************************************************)
(* The cost records: SqliteCostStore of cost_store.py with its daily       *)
(* rollup, and CostTracker of cost_tracker.py with its exports.  A file    *)
(* database opens a connection per call, and a rollup reads before its     *)
(* first write begins the transaction: other connections write in between. *)
(* An export takes the tracker's lock twice and writes its file without    *)
(* it: other threads record, reset and export in between.                  *)
(***************************************************************************)
EXTENDS Integers, Sequences, SequencesExt, FiniteSets, FiniteSetsExt
CONSTANTS Days,         \* number of days
          Amounts,      \* cost_usd of a record
          Jobs,         \* connections that roll up, threads that export
          MaxRecords,   \* bound: rows of cost_log
          MaxKept       \* bound: records of the tracker
ASSUME CostAssumption ==
    Days \in Nat \ {0} /\ {MaxRecords, MaxKept} \subseteq Nat /\ Amounts \subseteq Nat

VARIABLES today,      \* the date
          log,        \* cost_log
          rollup,     \* total_cost per day in daily_rollup, None where there is no row
          job,        \* per job: what it is doing and what it has read
          kept,       \* number of CostTracker._records
          exported    \* the file as last written: call_count, number of records, and
                      \* whether the tracker was reset after the first was counted
lvars == <<today, log, rollup, job, kept, exported>>

None == -1
Dates == 1..Days
Record == [day : Dates, cost : Amounts]
AtRest == [doing |-> "nothing"]
NoFile == [calls |-> 0, records |-> 0, reset |-> FALSE]

\* The rows of a day, and the total_cost of every day.  created_at is the text
\* "<date> <time>" and a window of dates ends at the text "<date>T23:59:59"; the blank
\* sorts before the T, so that a window takes in the whole of its last day.
Sum(rows, ids) == SumFunctionOnSet([i \in DOMAIN rows |-> rows[i].cost], ids)
OfDay(rows, d) == {i \in DOMAIN rows : rows[i].day = d}
Totals(rows) == [d \in Dates |-> IF OfDay(rows, d) = {} THEN None ELSE Sum(rows, OfDay(rows, d))]

CostTypeOK ==
    /\ today \in Dates /\ log \in Seq(Record) /\ rollup \in [Dates -> Int] /\ kept \in 0..MaxKept
    /\ \A j \in Jobs : job[j].doing \in {"nothing", "rollup", "summary", "copy"}
    /\ exported \in [calls : 0..MaxKept, records : 0..MaxKept, reset : BOOLEAN]

CostInit ==
    /\ today = 1 /\ log = <<>> /\ rollup = [d \in Dates |-> None]
    /\ job = [j \in Jobs |-> AtRest] /\ kept = 0 /\ exported = NoFile

RecordRequest(cost) ==
    /\ Len(log) < MaxRecords /\ log' = Append(log, [day |-> today, cost |-> cost])
    /\ UNCHANGED <<today, rollup, job, kept, exported>>

\* run_daily_rollup: the SELECT, then the INSERT OR REPLACEs in one transaction.
RollupReads(j) ==
    /\ job[j] = AtRest /\ job' = [job EXCEPT ![j] = [doing |-> "rollup", totals |-> Totals(log)]]
    /\ UNCHANGED <<today, log, rollup, kept, exported>>
\* A faulty variant of the definition below; see CircuitBreaker.
RollupAdds(j) ==
    /\ job[j].doing = "rollup" /\ job' = [job EXCEPT ![j] = AtRest]
    /\ rollup' = [d \in Dates |-> IF job[j].totals[d] = None THEN rollup[d]
                                  ELSE Max({rollup[d], 0}) + job[j].totals[d]]
    /\ UNCHANGED <<today, log, kept, exported>>
RollupWrites(j) ==
    /\ job[j].doing = "rollup" /\ job' = [job EXCEPT ![j] = AtRest]
    /\ rollup' = [d \in Dates |-> IF job[j].totals[d] = None THEN rollup[d] ELSE job[j].totals[d]]
    /\ UNCHANGED <<today, log, kept, exported>>

\* CostTracker: record and reset, under its lock.  Only a reset between the two looks of
\* an export is of interest to its file.
Keep ==
    /\ kept < MaxKept /\ kept' = kept + 1
    /\ UNCHANGED <<today, log, rollup, job, exported>>
Reset ==
    /\ kept' = 0
    /\ job' = [j \in Jobs |-> IF job[j].doing = "summary" THEN [job[j] EXCEPT !.reset = TRUE] ELSE job[j]]
    /\ UNCHANGED <<today, log, rollup, exported>>

\* export_json: the summary under the lock, the records under the lock again, the file.
ExportSummary(j) ==
    /\ job[j] = AtRest /\ job' = [job EXCEPT ![j] = [doing |-> "summary", calls |-> kept, reset |-> FALSE]]
    /\ UNCHANGED <<today, log, rollup, kept, exported>>
ExportCopies(j) ==
    /\ job[j].doing = "summary"
    /\ job' = [job EXCEPT ![j] = [doing |-> "copy", calls |-> job[j].calls, records |-> kept,
                                  reset |-> job[j].reset]]
    /\ UNCHANGED <<today, log, rollup, kept, exported>>
\* A faulty variant of the definition below: the summary is asked for as the data is put
\* together, after the records were copied.
ExportSummarisesLast(j) ==
    /\ job[j].doing = "copy" /\ job' = [job EXCEPT ![j] = AtRest]
    /\ exported' = [calls |-> kept, records |-> job[j].records, reset |-> job[j].reset]
    /\ UNCHANGED <<today, log, rollup, kept>>
ExportWrites(j) ==
    /\ job[j].doing = "copy" /\ job' = [job EXCEPT ![j] = AtRest]
    /\ exported' = [calls |-> job[j].calls, records |-> job[j].records, reset |-> job[j].reset]
    /\ UNCHANGED <<today, log, rollup, kept>>

NextDay == today < Days /\ today' = today + 1 /\ UNCHANGED <<log, rollup, job, kept, exported>>

CostNext ==
    \/ \E cost \in Amounts : RecordRequest(cost)
    \/ \E j \in Jobs : \/ RollupReads(j) \/ RollupWrites(j)
                       \/ ExportSummary(j) \/ ExportCopies(j) \/ ExportWrites(j)
    \/ Keep \/ Reset \/ NextDay
CostSpec == CostInit /\ [][CostNext]_lvars

\* A rollup never shows more than the records of its day add up to, nor a day without
\* records: rollups that overtake each other leave an old total, never a doubled one
\* (SqliteCostStore.run_daily_rollup).
RollupNeverOverstates ==
    \A d \in Dates : rollup[d] <= Totals(log)[d]

\* A file never counts a call that it does not list, whichever thread wrote it and whatever
\* was recorded while it was put together: records that come between the two looks are
\* listed and not counted.  Only a reset between them may leave totals without their
\* records (CostTracker.export_json).
ExportsListWhatTheyCount == exported.calls <= exported.records \/ exported.reset
=============================================================================
