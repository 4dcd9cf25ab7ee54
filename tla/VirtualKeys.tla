---------------------------- MODULE VirtualKeys ----------------------------
(***************************************************************************)
(* Virtual keys of control_plane.py: budgets that callers are authorized   *)
(* against before a model call and charged to after it.                    *)
(*                                                                         *)
(* `authorize` reads the budget and reserves nothing; `record_spend`, when *)
(* the call is over, appends to the ledger and adds to the key's total in  *)
(* one transaction, once per run id.  Of the key row it reads first only   *)
(* the id matters, which never changes, so that read is no step of its     *)
(* own.  Keys are never revoked, amounts are whole cents.                  *)
(*                                                                         *)
(* How callers use the two methods is the environment: a caller records    *)
(* what it was authorized for under a run id of its own, repeats the call  *)
(* when it is not sure of the outcome, or dies and records nothing.        *)
(***************************************************************************)
EXTENDS Integers, FiniteSets

CONSTANTS
    Callers,        \* threads that make model calls
    Keys,           \* virtual keys that may be created
    Models,         \* model names
    RunIds,         \* run ids; every call takes a fresh one
    Budgets,        \* budgets a key may be created with
    MaxEstimate     \* no call is estimated, or costs, more than this

ASSUME KeyAssumption ==
    /\ IsFiniteSet(Callers) /\ Callers # {}
    /\ Budgets \subseteq Nat
    /\ MaxEstimate \in Nat

VARIABLES
    key,            \* [Keys -> row of virtual_keys; no models: not created]
    ledger,         \* [RunIds -> row of spend, or NoEntry]
    caller          \* [Callers -> what the caller is doing]

vars == <<key, ledger, caller>>

NoKey == [models |-> {}, budget |-> 0, spent |-> 0]
KeyRow == [models: SUBSET Models, budget: Nat, spent: Nat]

Entry == [key: Keys, amount: 0..MaxEstimate]
NoEntry == [amount |-> -1]

Idle == [phase |-> "idle"]
Granted(k, estimate) == [phase |-> "granted", key |-> k, estimate |-> estimate]
Owing(phase, k, r, amount) == [phase |-> phase, key |-> k, run |-> r, amount |-> amount]

TypeOK ==
    /\ key \in [Keys -> KeyRow]
    /\ ledger \in [RunIds -> Entry \cup {NoEntry}]
    /\ caller \in [Callers ->
            {Idle}
            \cup [phase: {"granted"}, key: Keys, estimate: 0..MaxEstimate]
            \cup [phase: {"owing", "charged"}, key: Keys, run: RunIds,
                  amount: 0..MaxEstimate]]

Created(k) == key[k].models # {}
Recorded(r) == ledger[r] # NoEntry

-----------------------------------------------------------------------------
(* Faulty variants, each with the slip its name says.  No specification    *)
(* uses them: a run that checks a property is shown to notice one of them  *)
(* put in the place of the definition.                                     *)

AuthorizeBySpentOnly(c, k, m, estimate) ==
    /\ caller[c] = Idle
    /\ m \in key[k].models
    /\ key[k].spent <= key[k].budget
    /\ caller' = [caller EXCEPT ![c] = Granted(k, estimate)]
    /\ UNCHANGED <<key, ledger>>

RecordChargesTwice(c) ==
    LET o == caller[c] IN
    /\ o.phase \in {"owing", "charged"}
    /\ ledger' = [ledger EXCEPT ![o.run] = IF @ = NoEntry
                                           THEN [key |-> o.key, amount |-> o.amount] ELSE @]
    /\ key' = [key EXCEPT ![o.key].spent = @ + o.amount]
    /\ caller' = [caller EXCEPT ![c].phase = "charged"]

-----------------------------------------------------------------------------
Init ==
    /\ key = [k \in Keys |-> NoKey]
    /\ ledger = [r \in RunIds |-> NoEntry]
    /\ caller = [c \in Callers |-> Idle]

(* create_virtual_key: the key is new (its id and digest are random).      *)
CreateKey(k, models, budget) ==
    /\ ~Created(k) /\ models # {}
    /\ key' = [key EXCEPT ![k] = [models |-> models, budget |-> budget, spent |-> 0]]
    /\ UNCHANGED <<ledger, caller>>

(* authorize, when it raises nothing: the key exists, allows the model and *)
(* has room for the estimate.  A refusal changes nothing.                  *)
Authorize(c, k, m, estimate) ==
    /\ caller[c] = Idle
    /\ m \in key[k].models
    /\ key[k].spent + estimate <= key[k].budget
    /\ caller' = [caller EXCEPT ![c] = Granted(k, estimate)]
    /\ UNCHANGED <<key, ledger>>

Refused(c, k, m, estimate) ==
    /\ caller[c] = Idle
    /\ \/ m \notin key[k].models
       \/ key[k].spent + estimate > key[k].budget
    /\ UNCHANGED vars

(* The model call is over and cost no more than estimated.                 *)
Finish(c, r, amount) ==
    /\ caller[c].phase = "granted"
    /\ amount <= caller[c].estimate
    /\ ~Recorded(r)
    /\ \A d \in Callers : caller[d].phase \in {"owing", "charged"} => caller[d].run # r
    /\ caller' = [caller EXCEPT ![c] = Owing("owing", caller[c].key, r, amount)]
    /\ UNCHANGED <<key, ledger>>

(* record_spend, the first time or again: a run id that is in the ledger   *)
(* (a UNIQUE column) raises IntegrityError, which ends the call quietly.   *)
RecordSpend(c) ==
    LET o == caller[c] IN
    /\ o.phase \in {"owing", "charged"}
    /\ ledger' = [ledger EXCEPT ![o.run] = IF @ = NoEntry
                                           THEN [key |-> o.key, amount |-> o.amount] ELSE @]
    /\ key' = [key EXCEPT ![o.key].spent = IF Recorded(o.run) THEN @ ELSE @ + o.amount]
    /\ caller' = [caller EXCEPT ![c].phase = "charged"]

(* The caller is told that the spend is recorded, or it is lost with a     *)
(* restart or gives up on a locked database: the same to the model.        *)
Leave(c) ==
    /\ caller[c] # Idle
    /\ caller' = [caller EXCEPT ![c] = Idle]
    /\ UNCHANGED <<key, ledger>>

Next ==
    \/ \E k \in Keys, models \in SUBSET Models, b \in Budgets : CreateKey(k, models, b)
    \/ \E c \in Callers :
          \/ \E k \in Keys, m \in Models, estimate \in 0..MaxEstimate :
                Authorize(c, k, m, estimate) \/ Refused(c, k, m, estimate)
          \/ \E r \in RunIds, amount \in 0..MaxEstimate : Finish(c, r, amount)
          \/ RecordSpend(c) \/ Leave(c)

Spec == Init /\ [][Next]_vars

-----------------------------------------------------------------------------
(* A key may be overspent, since nothing is reserved, but by less than one *)
(* estimate for each caller but one: all of them were authorized when the  *)
(* budget still had room, and only one of them can be the last to check.   *)
Overshoot == MaxEstimate * (Cardinality(Callers) - 1)

OvershootBounded ==
    \A k \in Keys : key[k].spent <= key[k].budget + Overshoot

(* A caller whose record_spend succeeded, first or repeated, finds its run *)
(* in the ledger, under its key and with its amount.                       *)
ChargedIsInLedger ==
    \A c \in Callers : caller[c].phase = "charged" =>
        ledger[caller[c].run] = [key |-> caller[c].key, amount |-> caller[c].amount]

(* The ledger only grows, and each step adds to a key's total exactly what *)
(* it adds to the ledger: no repeated call charges a run twice.            *)
NewEntry(r) == ~Recorded(r) /\ Recorded(r)'

ChargesMatchLedger ==
    [][/\ \A r \in RunIds : Recorded(r) => ledger'[r] = ledger[r]
       /\ \A k \in Keys :
             \/ key'[k].spent = key[k].spent
                /\ \A r \in RunIds : NewEntry(r) => ledger'[r].key # k \/ ledger'[r].amount = 0
             \/ \E r \in RunIds :
                   /\ NewEntry(r) /\ ledger'[r].key = k
                   /\ key'[k].spent = key[k].spent + ledger'[r].amount
      ]_vars
=============================================================================
