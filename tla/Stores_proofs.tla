--------------------------- MODULE Stores_proofs ----------------------------
(***************************************************************************)
(* What three stores in SQLite keep while their callers overlap: virtual    *)
(* keys with their ledger, the memory store with its compactors, and the   *)
(* log of costs.  They share no state, so each has an invariant of its own. *)
(***************************************************************************)
EXTENDS VirtualKeys, MemoryStoreHistory, CostLog, Sums, TLAPS

-----------------------------------------------------------------------------
(* Virtual keys, for any callers, keys, runs and budgets: the types, the   *)
(* ledger a charged caller finds, the bound on overspending a key, and that *)
(* the ledger and the charges of keys tell the same.                       *)

(* Callers that were authorized on a key and have not been charged yet,    *)
(* and what each of them may still cost.                                   *)
Open(k) == {c \in Callers : caller[c].phase \in {"granted", "owing"} /\ caller[c].key = k}
Due == [c \in Callers |->
           IF caller[c].phase = "granted" THEN caller[c].estimate ELSE caller[c].amount]

(* What a budget b leaves room for when n callers are open.                *)
Room(b, n) == b + MaxEstimate * (Cardinality(Callers) - n)

(* The last of the open callers to be authorized saw the budget hold its   *)
(* estimate; each of the others can add one estimate to that.  When that   *)
(* caller is no longer open, its own is spent or given up.                 *)
WithinReach(b, s, O, due) ==
    \/ s <= Room(b, Cardinality(O) + 1)
    \/ \E z \in O : s + due[z] <= Room(b, Cardinality(O))

-----------------------------------------------------------------------------
LEMMA RoomSteps ==
    ASSUME KeyAssumption, NEW b \in Nat, NEW n \in Int
    PROVE  /\ Room(b, n) \in Int
           /\ Room(b, n) = Room(b, n + 1) + MaxEstimate
           /\ Room(b, n - 1) = Room(b, n) + MaxEstimate
<1> DEFINE N == Cardinality(Callers)
<1>1. N \in Nat /\ MaxEstimate \in Nat
  BY FS_CardinalityType DEF KeyAssumption
<1> HIDE DEF N
<1>2. \A i \in Int : /\ MaxEstimate * i \in Int
                     /\ MaxEstimate * (i + 1) = MaxEstimate * i + MaxEstimate
  BY <1>1
<1>3. MaxEstimate * (N - n) \in Int
  BY <1>1, <1>2
<1>4. MaxEstimate * (N - n) = MaxEstimate * (N - (n + 1)) + MaxEstimate
  <2>1. (N - (n + 1)) + 1 = N - n
    BY <1>1
  <2> QED
    BY <1>1, <1>2, <2>1
<1>5. MaxEstimate * (N - (n - 1)) = MaxEstimate * (N - n) + MaxEstimate
  <2>1. (N - n) + 1 = N - (n - 1)
    BY <1>1
  <2> QED
    BY <1>1, <1>2, <2>1
<1>6. MaxEstimate * (N - (n + 1)) \in Int
  BY <1>1, <1>2
<1> QED
  BY <1>1, <1>3, <1>4, <1>5, <1>6 DEF Room, N

(* There is room for the budget itself whatever callers are open.          *)
LEMMA RoomHoldsBudget ==
    ASSUME KeyAssumption, NEW b \in Nat, NEW O \in SUBSET Callers
    PROVE  b <= Room(b, Cardinality(O))
<1>1. Cardinality(O) \in Nat /\ Cardinality(Callers) \in Nat
      /\ Cardinality(O) <= Cardinality(Callers)
  BY FS_CardinalityType, FS_Subset DEF KeyAssumption
<1>2. \A m, i \in Nat : m * i \in Nat
  OBVIOUS
<1>3. Cardinality(Callers) - Cardinality(O) \in Nat
  BY <1>1
<1>4. MaxEstimate * (Cardinality(Callers) - Cardinality(O)) \in Nat
  BY <1>2, <1>3 DEF KeyAssumption
<1> QED
  BY <1>4 DEF Room

(* An open caller leaves, having spent at most what it was due.            *)
LEMMA ReachAfterLeaving ==
    ASSUME KeyAssumption, NEW b \in Nat, NEW s \in Int, NEW t \in Int,
           NEW O \in SUBSET Callers, NEW c \in O,
           NEW due, NEW due2,
           \A z \in O : due[z] \in 0..MaxEstimate,
           \A z \in O \ {c} : due2[z] = due[z],
           t <= s + due[c],
           WithinReach(b, s, O, due)
    PROVE  WithinReach(b, t, O \ {c}, due2)
<1> DEFINE a == Cardinality(O)
<1>1. IsFiniteSet(O) /\ a \in Nat
  BY FS_CardinalityType, FS_Subset DEF KeyAssumption
<1>2. Cardinality(O \ {c}) = a - 1
  BY <1>1, FS_RemoveElement
<1> HIDE DEF a
<1>3. /\ Room(b, a - 1) \in Int /\ Room(b, a) \in Int /\ Room(b, a + 1) \in Int
      /\ Room(b, a - 1) = Room(b, a) + MaxEstimate
      /\ Room(b, a) = Room(b, a + 1) + MaxEstimate
  <2>1. a \in Int /\ a - 1 \in Int /\ a + 1 \in Int
    BY <1>1
  <2>2. Room(b, a - 1) \in Int /\ Room(b, a) \in Int /\ Room(b, a + 1) \in Int
    BY <2>1, RoomSteps
  <2>3. Room(b, a - 1) = Room(b, a) + MaxEstimate /\ Room(b, a) = Room(b, a + 1) + MaxEstimate
    BY <2>1, RoomSteps
  <2> QED
    BY <2>2, <2>3
<1>4. due[c] \in 0..MaxEstimate /\ MaxEstimate \in Nat
  BY DEF KeyAssumption
<1>5. CASE s <= Room(b, a + 1)
  <2>1. t <= Room(b, a)
    BY <1>3, <1>4, <1>5
  <2> QED
    BY <2>1, <1>1, <1>2 DEF WithinReach
<1>6. CASE s + due[c] <= Room(b, a)
  <2>1. t <= Room(b, a)
    BY <1>3, <1>4, <1>6
  <2> QED
    BY <2>1, <1>1, <1>2 DEF WithinReach
<1>7. ASSUME NEW z \in O \ {c}, s + due[z] <= Room(b, a)
      PROVE  WithinReach(b, t, O \ {c}, due2)
  <2>1. due[z] \in 0..MaxEstimate /\ due2[z] = due[z]
    OBVIOUS
  <2>2. t + due2[z] <= Room(b, a - 1)
    BY <1>3, <1>4, <1>7, <2>1
  <2> QED
    BY <2>2, <1>2 DEF WithinReach
<1> QED
  BY <1>5, <1>6, <1>7 DEF WithinReach, a

(* A caller joins, having seen the budget hold its estimate.               *)
LEMMA ReachAfterJoining ==
    ASSUME KeyAssumption, NEW b \in Nat, NEW s \in Int,
           NEW O \in SUBSET Callers, NEW c \in Callers, NEW due,
           s + due[c] <= b, due[c] \in 0..MaxEstimate
    PROVE  WithinReach(b, s, O \cup {c}, due)
<1>1. b <= Room(b, Cardinality(O \cup {c}))
  BY RoomHoldsBudget
<1>2. Cardinality(O \cup {c}) \in Nat
  BY FS_CardinalityType, FS_Subset DEF KeyAssumption
<1>3. Room(b, Cardinality(O \cup {c})) \in Int
  BY <1>2, RoomSteps
<1>4. s + due[c] <= Room(b, Cardinality(O \cup {c}))
  BY <1>1, <1>3
<1> QED
  BY <1>4 DEF WithinReach

(* The open callers stay, each owing no more than before; the budget does  *)
(* not shrink and the total does not grow.                                 *)
LEMMA ReachWhileOpen ==
    ASSUME KeyAssumption, NEW b \in Nat, NEW b2 \in Nat, b <= b2,
           NEW s \in Int, NEW t \in Int, t <= s,
           NEW O \in SUBSET Callers, NEW due, NEW due2,
           \A z \in O : due[z] \in Int /\ due2[z] \in Int /\ due2[z] <= due[z],
           WithinReach(b, s, O, due)
    PROVE  WithinReach(b2, t, O, due2)
<1> DEFINE a == Cardinality(O)
<1>1. a \in Nat
  BY FS_CardinalityType, FS_Subset DEF KeyAssumption
<1> HIDE DEF a
<1>2. ASSUME NEW n \in Int PROVE Room(b, n) \in Int /\ Room(b2, n) \in Int /\ Room(b, n) <= Room(b2, n)
  <2> DEFINE m == MaxEstimate * (Cardinality(Callers) - n)
  <2>1. Room(b, n) = b + m /\ Room(b2, n) = b2 + m /\ Room(b, n) \in Int /\ Room(b2, n) \in Int
    BY RoomSteps DEF Room
  <2>2. Cardinality(Callers) \in Nat /\ MaxEstimate \in Nat
    BY FS_CardinalityType DEF KeyAssumption
  <2>3. \A i, j \in Int : i * j \in Int
    OBVIOUS
  <2>4. m \in Int
    BY <2>2, <2>3
  <2> QED
    BY <2>1, <2>4
<1>3. CASE s <= Room(b, a + 1)
  BY <1>1, <1>2, <1>3 DEF WithinReach, a
<1>4. ASSUME NEW z \in O, s + due[z] <= Room(b, a)
      PROVE  WithinReach(b2, t, O, due2)
  <2>1. t + due2[z] <= Room(b2, a)
    BY <1>1, <1>2, <1>4
  <2> QED
    BY <2>1 DEF WithinReach, a
<1> QED
  BY <1>3, <1>4 DEF WithinReach, a
-----------------------------------------------------------------------------
(* Runs under way are distinct, and an uncharged one is not in the ledger. *)
RunsDistinct ==
    \A c, d \in Callers :
        /\ caller[c].phase \in {"owing", "charged"} /\ caller[d].phase \in {"owing", "charged"}
           /\ caller[c].run = caller[d].run => c = d
        /\ caller[c].phase = "owing" => ~Recorded(caller[c].run)

UncreatedHasNoBudget == \A k \in Keys : ~Created(k) => key[k].budget = 0

Reach == \A k \in Keys : WithinReach(key[k].budget, key[k].spent, Open(k), Due)

IInv == TypeOK /\ RunsDistinct /\ UncreatedHasNoBudget /\ ChargedIsInLedger /\ Reach

CallerStates ==
    {Idle}
    \cup [phase: {"granted"}, key: Keys, estimate: 0..MaxEstimate]
    \cup [phase: {"owing", "charged"}, key: Keys, run: RunIds, amount: 0..MaxEstimate]

(* The fields a caller carries in each phase, and the rows it may build.   *)
LEMMA CallerFields ==
    ASSUME TypeOK, NEW c \in Callers
    PROVE  /\ caller[c].phase \in {"idle", "granted", "owing", "charged"}
           /\ caller[c].phase = "granted" =>
                 caller[c].key \in Keys /\ caller[c].estimate \in 0..MaxEstimate
           /\ caller[c].phase \in {"owing", "charged"} =>
                 /\ caller[c].key \in Keys /\ caller[c].run \in RunIds
                 /\ caller[c].amount \in 0..MaxEstimate
           /\ caller[c].phase = "idle" => caller[c] = Idle
  BY DEF TypeOK, Idle

LEMMA BuiltCallers ==
    /\ Idle \in CallerStates /\ Idle.phase = "idle"
    /\ \A k \in Keys, e \in 0..MaxEstimate :
          /\ Granted(k, e) \in CallerStates /\ Granted(k, e).phase = "granted"
          /\ Granted(k, e).key = k /\ Granted(k, e).estimate = e
    /\ \A k \in Keys, r \in RunIds, a \in 0..MaxEstimate, ph \in {"owing", "charged"} :
          LET o == Owing(ph, k, r, a) IN
          /\ o \in CallerStates /\ o.phase = ph /\ o.key = k /\ o.run = r /\ o.amount = a
  BY DEF CallerStates, Idle, Granted, Owing

LEMMA ChargedCaller ==
    ASSUME NEW o \in CallerStates, o.phase \in {"owing", "charged"}
    PROVE  LET p == [o EXCEPT !.phase = "charged"] IN
           /\ p \in CallerStates /\ p.phase = "charged"
           /\ p.key = o.key /\ p.run = o.run /\ p.amount = o.amount
<1>1. o \in [phase: {"owing", "charged"}, key: Keys, run: RunIds, amount: 0..MaxEstimate]
  BY DEF CallerStates, Idle
<1> QED
  BY <1>1 DEF CallerStates

LEMMA EntriesAreRecorded ==
    ASSUME NEW k \in Keys, NEW a \in 0..MaxEstimate
    PROVE  /\ [key |-> k, amount |-> a] \in Entry
           /\ [key |-> k, amount |-> a] # NoEntry
<1>1. [key |-> k, amount |-> a].amount \in 0..MaxEstimate /\ NoEntry.amount = -1
  BY DEF NoEntry
<1>2. -1 \notin 0..MaxEstimate
  OBVIOUS
<1> QED
  BY <1>1, <1>2 DEF Entry

(* The arithmetic types of the quantities the reach is about.              *)
LEMMA ReachTypes ==
    ASSUME KeyAssumption, TypeOK
    PROVE  /\ \A k \in Keys : key[k].budget \in Nat /\ key[k].spent \in Nat
           /\ \A k \in Keys : Open(k) \in SUBSET Callers
           /\ \A k \in Keys : \A z \in Open(k) : Due[z] \in 0..MaxEstimate
<1>1. \A k \in Keys : key[k].budget \in Nat /\ key[k].spent \in Nat
  BY DEF TypeOK, KeyRow
<1>2. ASSUME NEW k \in Keys, NEW z \in Open(k) PROVE Due[z] \in 0..MaxEstimate
  BY CallerFields DEF Open, Due
<1> QED
  BY <1>1, <1>2 DEF Open

-----------------------------------------------------------------------------
LEMMA InitIInv == ASSUME KeyAssumption, Init PROVE IInv
<1> USE DEF Init
<1>1. TypeOK
  <2>1. NoKey \in KeyRow
    BY DEF NoKey, KeyRow
  <2> QED
    BY <2>1 DEF TypeOK
<1>2. \A c \in Callers : caller[c].phase = "idle"
  BY BuiltCallers
<1>3. RunsDistinct /\ ChargedIsInLedger
  BY <1>2 DEF RunsDistinct, ChargedIsInLedger
<1>4. UncreatedHasNoBudget
  BY DEF UncreatedHasNoBudget, NoKey
<1>5. ASSUME NEW k \in Keys PROVE WithinReach(key[k].budget, key[k].spent, Open(k), Due)
  <2>1. key[k].budget = 0 /\ key[k].spent = 0 /\ Open(k) = {}
    BY <1>2 DEF NoKey, Open
  <2>2. Cardinality(Callers) \in Nat /\ Cardinality(Callers) # 0 /\ Cardinality({}) = 0
    BY FS_CardinalityType, FS_EmptySet DEF KeyAssumption
  <2>3. Cardinality(Callers) - (0 + 1) \in Nat
    BY <2>2
  <2>4. \A m, i \in Nat : m * i \in Nat
    OBVIOUS
  <2>5. MaxEstimate * (Cardinality(Callers) - (0 + 1)) \in Nat
    BY <2>3, <2>4 DEF KeyAssumption
  <2> QED
    BY <2>1, <2>2, <2>5 DEF WithinReach, Room
<1> QED
  BY <1>1, <1>3, <1>4, <1>5 DEF IInv, Reach

-----------------------------------------------------------------------------
LEMMA CreateKeyKeeps ==
    ASSUME KeyAssumption, IInv,
           NEW k \in Keys, NEW models \in SUBSET Models, NEW b \in Budgets, CreateKey(k, models, b)
    PROVE  IInv'
<1> USE DEF IInv, CreateKey
<1> DEFINE row == [models |-> models, budget |-> b, spent |-> 0]
<1>0. row \in KeyRow /\ row.budget = b /\ row.spent = 0 /\ row.models # {} /\ b \in Nat
  BY DEF KeyRow, KeyAssumption
<1>1. /\ key \in [Keys -> KeyRow] /\ key' \in [Keys -> KeyRow] /\ key'[k] = row
      /\ \A j \in Keys \ {k} : key'[j] = key[j]
  BY <1>0 DEF TypeOK
<1> HIDE DEF row
<1>2. TypeOK'
  BY <1>1 DEF TypeOK
<1>3. RunsDistinct' /\ ChargedIsInLedger'
  BY DEF RunsDistinct, ChargedIsInLedger, Recorded
<1>4. UncreatedHasNoBudget'
  BY <1>0, <1>1 DEF UncreatedHasNoBudget, Created
<1>5. ASSUME NEW j \in Keys
      PROVE  WithinReach(key'[j].budget, key'[j].spent, Open(j)', Due')
  <2>1. Open(j)' = Open(j) /\ Due' = Due
    BY DEF Open, Due
  <2>2. /\ key[j].budget \in Nat /\ key[j].spent \in Nat /\ key'[j].budget \in Nat
        /\ key'[j].spent \in Nat /\ key[j].budget <= key'[j].budget /\ key'[j].spent <= key[j].spent
    <3>1. CASE j = k
      BY <1>0, <1>1, <3>1, ReachTypes DEF UncreatedHasNoBudget
    <3>2. CASE j # k
      BY <1>1, <3>2, ReachTypes
    <3> QED
      BY <3>1, <3>2
  <2>3. Open(j) \in SUBSET Callers /\ \A z \in Open(j) : Due[z] \in Int
    BY ReachTypes
  <2>4. WithinReach(key[j].budget, key[j].spent, Open(j), Due)
    BY DEF Reach
  <2>5. WithinReach(key'[j].budget, key'[j].spent, Open(j), Due)
    BY <2>2, <2>3, <2>4, ReachWhileOpen
  <2> QED
    BY <2>1, <2>5
<1> QED
  BY <1>2, <1>3, <1>4, <1>5 DEF Reach

LEMMA AuthorizeKeeps ==
    ASSUME KeyAssumption, IInv,
           NEW c \in Callers, NEW k \in Keys, NEW m \in Models, NEW e \in 0..MaxEstimate,
           Authorize(c, k, m, e)
    PROVE  IInv'
<1> USE DEF IInv, Authorize
<1>1. /\ caller' \in [Callers -> CallerStates] /\ caller'[c] = Granted(k, e)
      /\ \A d \in Callers \ {c} : caller'[d] = caller[d]
  BY BuiltCallers DEF TypeOK, CallerStates
<1>2. /\ caller'[c].phase = "granted" /\ caller'[c].key = k /\ caller'[c].estimate = e
      /\ caller[c].phase = "idle"
  BY <1>1, BuiltCallers
<1>3. TypeOK'
  BY <1>1 DEF TypeOK, CallerStates
<1>4. RunsDistinct' /\ ChargedIsInLedger' /\ UncreatedHasNoBudget'
  BY <1>1, <1>2 DEF RunsDistinct, ChargedIsInLedger, UncreatedHasNoBudget, Recorded, Created
<1>5. Due'[c] = e /\ \A d \in Callers \ {c} : Due'[d] = Due[d]
  BY <1>1, <1>2 DEF Due
<1>6. ASSUME NEW j \in Keys
      PROVE  WithinReach(key'[j].budget, key'[j].spent, Open(j)', Due')
  <2>0. /\ key[j].budget \in Nat /\ key[j].spent \in Nat /\ Open(j) \in SUBSET Callers
        /\ \A z \in Open(j) : Due[z] \in 0..MaxEstimate
    BY ReachTypes
  <2>1. CASE j = k
    <3>1. Open(j)' = Open(j) \cup {c}
      BY <1>1, <1>2, <2>1 DEF Open
    <3>2. key[j].spent \in Int /\ key[j].spent + Due'[c] <= key[j].budget /\ Due'[c] \in 0..MaxEstimate
      BY <1>5, <2>0, <2>1
    <3> HIDE DEF IInv, Authorize
    <3>3. WithinReach(key[j].budget, key[j].spent, Open(j) \cup {c}, Due')
      BY <2>0, <3>2, ReachAfterJoining
    <3> QED
      BY <3>1, <3>3 DEF Authorize
  <2>2. CASE j # k
    <3>1. Open(j)' = Open(j) /\ c \notin Open(j)
      BY <1>1, <1>2, <2>2 DEF Open
    <3>2. \A z \in Open(j) : Due[z] \in Int /\ Due'[z] \in Int /\ Due'[z] <= Due[z]
      BY <1>5, <2>0, <3>1
    <3>3. WithinReach(key[j].budget, key[j].spent, Open(j), Due)
      BY DEF Reach
    <3>4. /\ key[j].spent \in Int /\ key[j].spent <= key[j].spent
          /\ key[j].budget <= key[j].budget
      BY <2>0
    <3> HIDE DEF IInv, Authorize
    <3>5. WithinReach(key[j].budget, key[j].spent, Open(j), Due')
      BY <2>0, <3>2, <3>3, <3>4, ReachWhileOpen
    <3> QED
      BY <3>1, <3>5 DEF Authorize
  <2> QED
    BY <2>1, <2>2
<1> QED
  BY <1>3, <1>4, <1>6 DEF Reach

LEMMA FinishKeeps ==
    ASSUME KeyAssumption, IInv,
           NEW c \in Callers, NEW r \in RunIds, NEW a \in 0..MaxEstimate, Finish(c, r, a)
    PROVE  IInv'
<1> USE DEF IInv, Finish
<1>0. caller[c].key \in Keys /\ caller[c].estimate \in 0..MaxEstimate
  BY CallerFields
<1>1. /\ caller' \in [Callers -> CallerStates] /\ caller'[c] = Owing("owing", caller[c].key, r, a)
      /\ \A d \in Callers \ {c} : caller'[d] = caller[d]
  BY <1>0, BuiltCallers DEF TypeOK, CallerStates
<1>2. /\ caller'[c].phase = "owing" /\ caller'[c].key = caller[c].key
      /\ caller'[c].run = r /\ caller'[c].amount = a
  BY <1>0, <1>1, BuiltCallers
<1>3. TypeOK'
  BY <1>1 DEF TypeOK, CallerStates
<1>4. RunsDistinct' /\ ChargedIsInLedger' /\ UncreatedHasNoBudget'
  BY <1>1, <1>2 DEF RunsDistinct, ChargedIsInLedger, UncreatedHasNoBudget, Recorded, Created
<1>5. Due'[c] = a /\ Due[c] = caller[c].estimate /\ \A d \in Callers \ {c} : Due'[d] = Due[d]
  BY <1>1, <1>2 DEF Due
<1>6. ASSUME NEW j \in Keys
      PROVE  WithinReach(key'[j].budget, key'[j].spent, Open(j)', Due')
  <2>0. /\ key[j].budget \in Nat /\ key[j].spent \in Nat /\ Open(j) \in SUBSET Callers
        /\ \A z \in Open(j) : Due[z] \in 0..MaxEstimate
    BY ReachTypes
  <2>1. Open(j)' = Open(j)
    BY <1>1, <1>2 DEF Open
  <2>2. \A z \in Open(j) : Due[z] \in Int /\ Due'[z] \in Int /\ Due'[z] <= Due[z]
    BY <1>0, <1>5, <2>0
  <2>3. WithinReach(key[j].budget, key[j].spent, Open(j), Due)
    BY DEF Reach
  <2>4. /\ key[j].spent \in Int /\ key[j].spent <= key[j].spent
        /\ key[j].budget <= key[j].budget
    BY <2>0
  <2> HIDE DEF IInv, Finish
  <2>5. WithinReach(key[j].budget, key[j].spent, Open(j), Due')
    BY <2>0, <2>2, <2>3, <2>4, ReachWhileOpen
  <2> QED
    BY <2>1, <2>5 DEF Finish
<1> QED
  BY <1>3, <1>4, <1>6 DEF Reach

(* A caller that stops being open, or was not, keeps every key in reach    *)
(* when it adds to its own key no more than it was due.                    *)
LEMMA ReachWhenClosing ==
    ASSUME KeyAssumption, TypeOK, Reach, NEW c \in Callers, NEW j \in Keys,
           \A d \in Callers \ {c} : caller'[d] = caller[d],
           caller'[c].phase \in {"idle", "charged"},
           key'[j].budget = key[j].budget, key'[j].spent \in Nat,
           c \in Open(j) => key'[j].spent <= key[j].spent + Due[c],
           c \notin Open(j) => key'[j].spent <= key[j].spent
    PROVE  WithinReach(key'[j].budget, key'[j].spent, Open(j)', Due')
<1>0. /\ key[j].budget \in Nat /\ key[j].spent \in Int /\ key'[j].spent \in Int
      /\ Open(j) \in SUBSET Callers /\ \A z \in Open(j) : Due[z] \in 0..MaxEstimate
      /\ key[j].budget <= key[j].budget
  BY ReachTypes
<1>1. Open(j)' = Open(j) \ {c}
  BY DEF Open
<1>2. \A d \in Callers \ {c} : Due'[d] = Due[d]
  BY DEF Due
<1>3. WithinReach(key[j].budget, key[j].spent, Open(j), Due)
  BY DEF Reach
<1>4. CASE c \in Open(j)
  <2>1. key'[j].spent <= key[j].spent + Due[c] /\ \A z \in Open(j) \ {c} : Due'[z] = Due[z]
    BY <1>0, <1>2, <1>4
  <2>2. WithinReach(key[j].budget, key'[j].spent, Open(j) \ {c}, Due')
    BY <1>0, <1>3, <1>4, <2>1, ReachAfterLeaving
  <2> QED
    BY <1>1, <2>2
<1>5. CASE c \notin Open(j)
  <2>1. key'[j].spent <= key[j].spent /\ Open(j)' = Open(j)
    BY <1>1, <1>5
  <2>2. \A z \in Open(j) : Due[z] \in Int /\ Due'[z] \in Int /\ Due'[z] <= Due[z]
    BY <1>0, <1>2, <1>5
  <2>3. WithinReach(key[j].budget, key'[j].spent, Open(j), Due')
    BY <1>0, <1>3, <2>1, <2>2, ReachWhileOpen
  <2> QED
    BY <2>1, <2>3
<1> QED
  BY <1>4, <1>5

LEMMA LeaveKeeps ==
    ASSUME KeyAssumption, IInv, NEW c \in Callers, Leave(c) PROVE IInv'
<1> USE DEF IInv, Leave
<1>1. /\ caller' \in [Callers -> CallerStates] /\ caller'[c].phase = "idle"
      /\ \A d \in Callers \ {c} : caller'[d] = caller[d]
  BY BuiltCallers DEF TypeOK, CallerStates
<1>2. TypeOK'
  BY <1>1 DEF TypeOK, CallerStates
<1>3. RunsDistinct' /\ ChargedIsInLedger' /\ UncreatedHasNoBudget'
  BY <1>1 DEF RunsDistinct, ChargedIsInLedger, UncreatedHasNoBudget, Recorded, Created
<1>4. ASSUME NEW j \in Keys
      PROVE  WithinReach(key'[j].budget, key'[j].spent, Open(j)', Due')
  <2>1. /\ key'[j].budget = key[j].budget /\ key'[j].spent \in Nat
        /\ key'[j].spent <= key[j].spent
        /\ c \in Open(j) => key'[j].spent <= key[j].spent + Due[c]
    BY ReachTypes
  <2>2. TypeOK /\ Reach /\ caller'[c].phase \in {"idle", "charged"}
    BY <1>1
  <2> HIDE DEF IInv, Leave
  <2> QED
    BY <1>1, <2>1, <2>2, ReachWhenClosing
<1> QED
  BY <1>2, <1>3, <1>4 DEF Reach

LEMMA RecordSpendKeeps ==
    ASSUME KeyAssumption, IInv, NEW c \in Callers, RecordSpend(c) PROVE IInv'
<1> USE DEF IInv, RecordSpend
<1> DEFINE o == caller[c]
           k == o.key
           r == o.run
           entry == [key |-> o.key, amount |-> o.amount]
           total == IF Recorded(r) THEN key[k].spent ELSE key[k].spent + o.amount
           row == [key[k] EXCEPT !.spent = total]
<1>0. /\ o.phase \in {"owing", "charged"} /\ k \in Keys /\ r \in RunIds
      /\ o.amount \in 0..MaxEstimate
      /\ caller \in [Callers -> CallerStates] /\ key \in [Keys -> KeyRow]
      /\ ledger \in [RunIds -> Entry \cup {NoEntry}] /\ MaxEstimate \in Nat
  BY CallerFields DEF TypeOK, CallerStates, KeyAssumption
<1>1. entry \in Entry /\ entry # NoEntry
  BY <1>0, EntriesAreRecorded
<1>2. /\ caller' \in [Callers -> CallerStates] /\ caller'[c].phase = "charged"
      /\ caller'[c].key = k /\ caller'[c].run = r /\ caller'[c].amount = o.amount
      /\ \A d \in Callers \ {c} : caller'[d] = caller[d]
  <2>1. caller'[c] = [o EXCEPT !.phase = "charged"]
    BY <1>0
  <2>2. o \in CallerStates
    BY <1>0
  <2>3. [o EXCEPT !.phase = "charged"] \in CallerStates
    BY <1>0, <2>2, ChargedCaller
  <2>4. /\ caller'[c].phase = "charged" /\ caller'[c].key = k
        /\ caller'[c].run = r /\ caller'[c].amount = o.amount
    BY <1>0, <2>1, <2>2, ChargedCaller
  <2> QED
    BY <1>0, <2>1, <2>3, <2>4
<1>3. /\ total \in Nat /\ row \in KeyRow /\ row.budget = key[k].budget /\ row.spent = total
      /\ row.models = key[k].models
  BY <1>0 DEF KeyRow
<1>4. /\ key' \in [Keys -> KeyRow] /\ key'[k] = row
      /\ \A j \in Keys \ {k} : key'[j] = key[j]
  <2>1. key' = [key EXCEPT ![k] = row]
    BY <1>0
  <2> HIDE DEF row
  <2> QED
    BY <1>0, <1>3, <2>1
<1>5. /\ ledger' \in [RunIds -> Entry \cup {NoEntry}]
      /\ ledger'[r] = IF Recorded(r) THEN ledger[r] ELSE entry
      /\ \A q \in RunIds \ {r} : ledger'[q] = ledger[q]
  BY <1>0, <1>1 DEF Recorded
<1> HIDE DEF row, total, entry
<1>6. TypeOK'
  BY <1>2, <1>4, <1>5 DEF TypeOK, CallerStates
<1>7. \A d \in Callers \ {c} : caller[d].phase \in {"owing", "charged"} =>
                                  caller[d].run \in RunIds /\ caller[d].run # r
  BY <1>0, CallerFields DEF RunsDistinct
<1>8. RunsDistinct'
  BY <1>2, <1>5, <1>7 DEF RunsDistinct, Recorded
<1>9. ledger'[r] = entry
  <2>1. CASE o.phase = "charged"
    BY <1>0, <1>1, <1>5, <2>1 DEF ChargedIsInLedger, Recorded, entry
  <2>2. CASE o.phase = "owing"
    BY <1>0, <1>5, <2>2 DEF RunsDistinct
  <2> QED
    BY <1>0, <2>1, <2>2
<1>10. ChargedIsInLedger'
  BY <1>2, <1>5, <1>7, <1>9 DEF ChargedIsInLedger, entry
<1>11. UncreatedHasNoBudget'
  BY <1>3, <1>4 DEF UncreatedHasNoBudget, Created
<1>12. ASSUME NEW j \in Keys
       PROVE  WithinReach(key'[j].budget, key'[j].spent, Open(j)', Due')
  <2>0. key[j].spent \in Nat /\ key'[j].spent \in Nat /\ key'[j].budget = key[j].budget
    BY <1>3, <1>4, ReachTypes
  <2>1. c \in Open(j) => key'[j].spent <= key[j].spent + Due[c]
    <3>1. CASE c \in Open(j)
      <4>1. j = k /\ o.phase = "owing" /\ Due[c] = o.amount
        BY <1>0, <3>1 DEF Open, Due
      <4> QED
        BY <1>0, <1>3, <1>4, <4>1, <2>0 DEF total
    <3> QED
      BY <3>1
  <2>2. c \notin Open(j) => key'[j].spent <= key[j].spent
    <3>1. CASE c \notin Open(j) /\ j = k
      <4>1. o.phase = "charged"
        BY <1>0, <3>1 DEF Open
      <4>2. Recorded(r)
        BY <1>0, <1>1, <4>1 DEF ChargedIsInLedger, Recorded, entry
      <4> QED
        BY <1>0, <1>3, <1>4, <3>1, <4>2, <2>0 DEF total
    <3>2. CASE j # k
      BY <1>4, <2>0, <3>2
    <3> QED
      BY <3>1, <3>2
  <2>3. TypeOK /\ Reach /\ caller'[c].phase \in {"idle", "charged"}
    BY <1>2
  <2> HIDE DEF IInv, RecordSpend
  <2> QED
    BY <1>2, <2>0, <2>1, <2>2, <2>3, ReachWhenClosing
<1> QED
  BY <1>6, <1>8, <1>10, <1>11, <1>12 DEF Reach

-----------------------------------------------------------------------------
LEMMA StutterKeeps == ASSUME IInv, UNCHANGED vars PROVE IInv'
  BY DEF IInv, vars, TypeOK, RunsDistinct, UncreatedHasNoBudget, ChargedIsInLedger, Reach,
         Recorded, Created, Open, Due

LEMMA NextIInv == ASSUME KeyAssumption, IInv, [Next]_vars PROVE IInv'
<1>1. CASE Next
  BY <1>1, CreateKeyKeeps, AuthorizeKeeps, FinishKeeps, RecordSpendKeeps, LeaveKeeps, StutterKeeps
     DEF Next, Refused
<1>2. CASE UNCHANGED vars
  BY <1>2, StutterKeeps
<1> QED
  BY <1>1, <1>2

(* A key in reach is overspent by no more than the bound.                  *)
LEMMA ReachBounds == ASSUME KeyAssumption, TypeOK, Reach PROVE OvershootBounded
<1> SUFFICES ASSUME NEW k \in Keys PROVE key[k].spent <= key[k].budget + Overshoot
  BY DEF OvershootBounded
<1> DEFINE N == Cardinality(Callers)
           a == Cardinality(Open(k))
<1>0. /\ key[k].budget \in Nat /\ key[k].spent \in Nat /\ Open(k) \in SUBSET Callers
      /\ \A z \in Open(k) : Due[z] \in 0..MaxEstimate
  BY ReachTypes
<1>1. /\ N \in Nat /\ a \in Nat /\ MaxEstimate \in Nat /\ (Open(k) # {} => a # 0)
  BY <1>0, FS_CardinalityType, FS_Subset, FS_EmptySet DEF KeyAssumption
<1> HIDE DEF N, a
<1>2. ASSUME NEW n \in Nat, n # 0, key[k].spent <= Room(key[k].budget, n)
      PROVE  key[k].spent <= key[k].budget + Overshoot
  <2>1. MaxEstimate * (n - 1) \in Nat
    <3>1. n - 1 \in Nat /\ \A m, i \in Nat : m * i \in Nat
      BY <1>2
    <3> QED
      BY <1>1, <3>1
  <2>2. MaxEstimate * (N - 1) = MaxEstimate * (N - n) + MaxEstimate * (n - 1)
    <3>1. \A x, i, j \in Int : x * (i + j) = x * i + x * j
      OBVIOUS
    <3>2. N - 1 = (N - n) + (n - 1) /\ N - n \in Int /\ n - 1 \in Int
      BY <1>1
    <3> QED
      BY <1>1, <3>1, <3>2
  <2>3. MaxEstimate * (N - n) \in Int
    <3>1. \A x, i \in Int : x * i \in Int
      OBVIOUS
    <3> QED
      BY <1>1, <3>1
  <2>4. key[k].spent <= key[k].budget + MaxEstimate * (N - n)
    BY <1>2 DEF Room, N
  <2> QED
    BY <1>0, <2>1, <2>2, <2>3, <2>4 DEF Overshoot, N
<1>3. CASE key[k].spent <= Room(key[k].budget, a + 1)
  BY <1>1, <1>2, <1>3
<1>4. ASSUME NEW z \in Open(k), key[k].spent + Due[z] <= Room(key[k].budget, a)
      PROVE  key[k].spent <= key[k].budget + Overshoot
  <2>1. a # 0 /\ Room(key[k].budget, a) \in Int /\ Due[z] \in 0..MaxEstimate
    <3>1. a \in Int /\ key[k].budget \in Nat
      BY <1>0, <1>1
    <3>2. Room(key[k].budget, a) \in Int
      BY <3>1, RoomSteps
    <3> QED
      BY <1>0, <1>1, <3>2
  <2>2. key[k].spent <= Room(key[k].budget, a)
    BY <1>0, <1>1, <1>4, <2>1
  <2> QED
    BY <1>1, <1>2, <2>1, <2>2
<1> QED
  BY <1>3, <1>4 DEF Reach, WithinReach, a

(* Of the callers authorized on a key and not yet charged, all but one have *)
(* room for a maximal estimate (authorize_key, record_spend).              *)
THEOREM IInvAlways == Spec => []IInv
<1>1. KeyAssumption /\ Init => IInv
  BY InitIInv
<1>2. KeyAssumption /\ IInv /\ [Next]_vars => IInv'
  BY NextIInv
<1> QED
  BY KeyAssumption, <1>1, <1>2, PTL DEF Spec

(* Keys, ledger and callers have their types.                              *)
THEOREM KeysTypeCorrect == Spec => []TypeOK
  BY IInvAlways, PTL DEF IInv

(* Whoever was told that a spend is recorded finds it in the ledger under  *)
(* its key and with its amount, however callers overlap (record_spend).    *)
THEOREM ChargesInLedger == Spec => []ChargedIsInLedger
  BY IInvAlways, PTL DEF IInv

(* With any number of callers authorized against one budget at the same    *)
(* time, the key is overspent by at most one estimate for each caller but  *)
(* one (authorize reserves nothing, record_spend checks nothing).          *)
THEOREM OverspendingBounded == Spec => []OvershootBounded
<1>1. KeyAssumption /\ IInv => OvershootBounded
  BY ReachBounds DEF IInv
<1> QED
  BY KeyAssumption, IInvAlways, <1>1, PTL

-----------------------------------------------------------------------------
(* The ledger and the totals.                                              *)

(* Nobody is charged under a key that does not exist yet.                  *)
KeysInUse ==
    /\ \A k \in Keys : ~Created(k) => key[k].spent = 0
    /\ \A c \in Callers : caller[c].phase \in {"granted", "owing", "charged"} => Created(caller[c].key)

(* What recording a spend does to its key, its run and its caller.         *)
LEMMA SpendRecorded ==
    ASSUME TypeOK, NEW c \in Callers, RecordSpend(c)
    PROVE  LET o == caller[c] IN
           /\ o.phase \in {"owing", "charged"} /\ o.key \in Keys /\ o.run \in RunIds
           /\ o.amount \in 0..MaxEstimate
           /\ \A k \in Keys : key'[k].models = key[k].models /\ (k # o.key => key'[k] = key[k])
           /\ key'[o.key].spent = IF Recorded(o.run) THEN key[o.key].spent ELSE key[o.key].spent + o.amount
           /\ \A r \in RunIds \ {o.run} : ledger'[r] = ledger[r]
           /\ Recorded(o.run) => ledger'[o.run] = ledger[o.run]
           /\ ~Recorded(o.run) => /\ ledger'[o.run] = [key |-> o.key, amount |-> o.amount]
                                  /\ Recorded(o.run)'
           /\ \A d \in Callers \ {c} : caller'[d] = caller[d]
           /\ caller'[c].phase = "charged" /\ caller'[c].key = o.key
<1> USE DEF RecordSpend
<1> DEFINE o == caller[c]
           entry == [key |-> o.key, amount |-> o.amount]
           total == IF Recorded(o.run) THEN key[o.key].spent ELSE key[o.key].spent + o.amount
<1>1. /\ o.phase \in {"owing", "charged"} /\ o.key \in Keys /\ o.run \in RunIds
      /\ o.amount \in 0..MaxEstimate /\ o \in CallerStates /\ caller \in [Callers -> CallerStates]
      /\ key \in [Keys -> KeyRow] /\ ledger \in [RunIds -> Entry \cup {NoEntry}]
  BY CallerFields DEF TypeOK, CallerStates
<1>2. key' = [key EXCEPT ![o.key] = [key[o.key] EXCEPT !.spent = total]]
  BY <1>1
<1>3. /\ \A k \in Keys : key'[k].models = key[k].models /\ (k # o.key => key'[k] = key[k])
      /\ key'[o.key].spent = total
  <2> HIDE DEF total
  <2> QED
    BY <1>1, <1>2 DEF KeyRow
<1>4. entry # NoEntry
  BY <1>1, EntriesAreRecorded
<1>5. /\ ledger'[o.run] = IF Recorded(o.run) THEN ledger[o.run] ELSE entry
      /\ \A r \in RunIds \ {o.run} : ledger'[r] = ledger[r]
  BY <1>1 DEF Recorded
<1>6. caller' = [caller EXCEPT ![c] = [o EXCEPT !.phase = "charged"]]
  BY <1>1
<1>7. /\ \A d \in Callers \ {c} : caller'[d] = caller[d]
      /\ caller'[c].phase = "charged" /\ caller'[c].key = o.key
  BY <1>1, <1>6, ChargedCaller
<1> QED
  BY <1>1, <1>3, <1>4, <1>5, <1>7 DEF Recorded

LEMMA KeysInUseStep ==
    ASSUME KeyAssumption, IInv, KeysInUse, [Next]_vars
    PROVE  KeysInUse'
<1> USE DEF KeysInUse
<1>1. TypeOK
  BY DEF IInv
<1>2. ASSUME NEW k \in Keys, NEW models \in SUBSET Models, NEW b \in Budgets, CreateKey(k, models, b)
      PROVE  KeysInUse'
  <2>1. /\ key \in [Keys -> KeyRow] /\ caller' = caller /\ models # {}
        /\ key' = [key EXCEPT ![k] = [models |-> models, budget |-> b, spent |-> 0]]
    BY <1>1, <1>2 DEF CreateKey, TypeOK
  <2>2. /\ Created(k)' /\ \A j \in Keys \ {k} : key'[j] = key[j]
    BY <2>1 DEF Created
  <2>3. \A c \in Callers : caller[c].phase \in {"granted", "owing", "charged"} => caller[c].key \in Keys
    BY <1>1, CallerFields
  <2> QED
    BY <2>1, <2>2, <2>3 DEF Created
<1>3. ASSUME NEW c \in Callers, NEW k \in Keys, NEW m \in Models, NEW estimate \in 0..MaxEstimate,
             Authorize(c, k, m, estimate)
      PROVE  KeysInUse'
  <2>1. /\ key' = key /\ Created(k)
        /\ caller' = [caller EXCEPT ![c] = Granted(k, estimate)] /\ caller \in [Callers -> CallerStates]
    BY <1>1, <1>3 DEF Authorize, Created, TypeOK, CallerStates
  <2> QED
    BY <2>1 DEF Created, Granted
<1>4. ASSUME NEW c \in Callers, NEW r \in RunIds, NEW amount \in 0..MaxEstimate, Finish(c, r, amount)
      PROVE  KeysInUse'
  <2>1. /\ key' = key /\ caller[c].phase = "granted" /\ caller \in [Callers -> CallerStates]
        /\ caller' = [caller EXCEPT ![c] = Owing("owing", caller[c].key, r, amount)]
    BY <1>1, <1>4 DEF Finish, TypeOK, CallerStates
  <2> QED
    BY <2>1 DEF Created, Owing
<1>5. ASSUME NEW c \in Callers, RecordSpend(c)
      PROVE  KeysInUse'
  <2>1. /\ caller[c].phase \in {"owing", "charged"} /\ caller[c].key \in Keys
        /\ \A k \in Keys : key'[k].models = key[k].models /\ (k # caller[c].key => key'[k] = key[k])
        /\ \A d \in Callers \ {c} : caller'[d] = caller[d]
        /\ caller'[c].phase = "charged" /\ caller'[c].key = caller[c].key
    BY <1>1, <1>5, SpendRecorded
  <2>2. \A k \in Keys : Created(k)' <=> Created(k)
    BY <2>1 DEF Created
  <2>3. \A d \in Callers : caller[d].phase \in {"granted", "owing", "charged"} => caller[d].key \in Keys
    BY <1>1, CallerFields
  <2>4. \A d \in Callers : caller'[d].phase \in {"granted", "owing", "charged"} =>
           caller[d].phase \in {"granted", "owing", "charged"} /\ caller'[d].key = caller[d].key
    BY <2>1
  <2>5. \A k \in Keys : ~Created(k)' => key'[k].spent = 0
    BY <2>1, <2>2
  <2> QED
    BY <2>2, <2>3, <2>4, <2>5
<1>6. ASSUME NEW c \in Callers, Leave(c)
      PROVE  KeysInUse'
  <2>1. key' = key /\ caller' = [caller EXCEPT ![c] = Idle] /\ caller \in [Callers -> CallerStates]
    BY <1>1, <1>6 DEF Leave, TypeOK, CallerStates
  <2> QED
    BY <2>1 DEF Created, Idle
<1>7. UNCHANGED vars => KeysInUse'
  BY DEF vars, Created
<1> QED
  BY <1>2, <1>3, <1>4, <1>5, <1>6, <1>7 DEF Next, Refused

(* Only keys that exist are charged (authorize_key, record_spend).         *)
THEOREM KeysInUseAlways == Spec => []KeysInUse
<1>1. Init => KeysInUse
  BY DEF Init, KeysInUse, Created, NoKey, Idle
<1>2. KeyAssumption /\ IInv /\ KeysInUse /\ [Next]_vars => KeysInUse'
  BY KeysInUseStep
<1> QED
  BY KeyAssumption, IInvAlways, <1>1, <1>2, PTL DEF Spec

(* What a step adds to the total of a key is what it adds to the ledger.   *)
ChargesMatch ==
    /\ \A r \in RunIds : Recorded(r) => ledger'[r] = ledger[r]
    /\ \A k \in Keys :
          \/ key'[k].spent = key[k].spent
             /\ \A r \in RunIds : NewEntry(r) => ledger'[r].key # k \/ ledger'[r].amount = 0
          \/ \E r \in RunIds :
                /\ NewEntry(r) /\ ledger'[r].key = k
                /\ key'[k].spent = key[k].spent + ledger'[r].amount

LEMMA ChargesStep ==
    ASSUME IInv, KeysInUse, Next
    PROVE  ChargesMatch
<1>1. TypeOK
  BY DEF IInv
<1>2. ASSUME NEW c \in Callers, RecordSpend(c)
      PROVE  ChargesMatch
  <2> DEFINE o == caller[c]
  <2>1. /\ o.key \in Keys /\ o.run \in RunIds /\ o.amount \in 0..MaxEstimate
        /\ \A k \in Keys : k # o.key => key'[k] = key[k]
        /\ key'[o.key].spent = IF Recorded(o.run) THEN key[o.key].spent ELSE key[o.key].spent + o.amount
        /\ \A r \in RunIds \ {o.run} : ledger'[r] = ledger[r]
        /\ Recorded(o.run) => ledger'[o.run] = ledger[o.run]
        /\ ~Recorded(o.run) => /\ ledger'[o.run] = [key |-> o.key, amount |-> o.amount]
                               /\ Recorded(o.run)'
    BY <1>1, <1>2, SpendRecorded
  <2>2. \A r \in RunIds : NewEntry(r) => r = o.run /\ ~Recorded(o.run)
    BY <2>1 DEF NewEntry, Recorded
  <2> HIDE DEF o
  <2>3. CASE Recorded(o.run)
    BY <2>1, <2>2, <2>3 DEF ChargesMatch
  <2>4. CASE ~Recorded(o.run)
    <3>1. NewEntry(o.run) /\ ledger'[o.run].key = o.key /\ ledger'[o.run].amount = o.amount
      BY <2>1, <2>4 DEF NewEntry
    <3> QED
      BY <2>1, <2>2, <2>4, <3>1 DEF ChargesMatch
  <2> QED
    BY <2>3, <2>4
<1>3. ASSUME UNCHANGED ledger, \A k \in Keys : key'[k].spent = key[k].spent
      PROVE  ChargesMatch
  BY <1>3 DEF ChargesMatch, NewEntry, Recorded
<1>4. ASSUME NEW k \in Keys, NEW models \in SUBSET Models, NEW b \in Budgets, CreateKey(k, models, b)
      PROVE  ChargesMatch
  <2>1. key[k].spent = 0 /\ UNCHANGED ledger
    BY <1>4 DEF CreateKey, KeysInUse
  <2>2. \A j \in Keys : key'[j].spent = key[j].spent
    BY <1>1, <1>4, <2>1 DEF CreateKey, TypeOK
  <2> QED
    BY <1>3, <2>1, <2>2
<1> QED
  BY <1>2, <1>3, <1>4 DEF Next, Authorize, Refused, Finish, Leave, vars

(* However often record_spend is repeated, and whichever callers run it,   *)
(* each run is charged to its key once, with the amount in its ledger row. *)
THEOREM ChargesMatchTheLedger == Spec => ChargesMatchLedger
<1>1. IInv /\ KeysInUse /\ [Next]_vars => [ChargesMatch]_vars
  BY ChargesStep
<1>2. [ChargesMatch]_vars =>
        [/\ \A r \in RunIds : Recorded(r) => ledger'[r] = ledger[r]
         /\ \A k \in Keys :
               \/ key'[k].spent = key[k].spent
                  /\ \A r \in RunIds : NewEntry(r) => ledger'[r].key # k \/ ledger'[r].amount = 0
               \/ \E r \in RunIds :
                     /\ NewEntry(r) /\ ledger'[r].key = k
                     /\ key'[k].spent = key[k].spent + ledger'[r].amount]_vars
  BY DEF ChargesMatch
<1> QED
  BY <1>1, <1>2, IInvAlways, KeysInUseAlways, PTL DEF Spec, ChargesMatchLedger

-----------------------------------------------------------------------------
(* The memory store, for any contents, budgets and compactors: the budget of *)
(* originals, what a compaction may bring back, and what it may not lose.  *)

Originals == {m \in DOMAIN memories : memories[m].status # "distilled"}

(* What may happen to the rows of a plan before it is applied: they can go, *)
(* change their status and be merged, but never turn into distilled ones,  *)
(* and none that is inserted later has the id of one of them.              *)
PlansHoldOriginals ==
    \A c \in Compactors : plan[c] # NoPlan =>
        \A m \in DOMAIN plan[c].rows :
            m \in 1..made /\ (m \in DOMAIN memories => memories[m].status # "distilled")

(* The table and the plans are functions, which MemoryTypeOK does not say. *)
MemoryFunctions ==
    /\ plan = [c \in Compactors |-> plan[c]]
    /\ memories = [m \in DOMAIN memories |-> memories[m]]

MemoryIInv ==
    /\ MemoryTypeOK
    /\ MemoryFunctions
    /\ OriginalsWithinBudget
    /\ PlansHoldOriginals

-----------------------------------------------------------------------------
(* What all steps but a store and an applied plan do to the table.         *)
Undisturbed ==
    /\ DOMAIN memories' \subseteq DOMAIN memories
    /\ memories' = [m \in DOMAIN memories' |-> memories'[m]]
    /\ \A m \in DOMAIN memories' :
          /\ memories'[m] \in Memory
          /\ memories'[m].status = memories[m].status
          /\ memories'[m].topic = memories[m].topic
          /\ memories'[m].holds = memories[m].holds
    /\ made' = made

LEMMA RestrictUndisturbed ==
    ASSUME MemoryTypeOK, NEW doomed, memories' = Without(doomed), made' = made
    PROVE  Undisturbed
BY DEF MemoryTypeOK, Without, Restrict, Undisturbed

LEMMA ClientUndisturbed ==
    ASSUME MemoryTypeOK, MemoryFunctions,
           \/ \E m \in MemoryIds : Forget(m) \/ Expire(m)
           \/ \E ids \in SUBSET MemoryIds : Decay(ids)
           \/ LookUp \/ Age
           \/ \E c \in Compactors : Load(c) \/ Drop(c)
    PROVE  Undisturbed
<1>1. ASSUME NEW m, Expire(m) PROVE Undisturbed
  <2>1. memories' = [memories EXCEPT ![m].expired = TRUE] /\ m \in DOMAIN memories /\ made' = made
    BY <1>1 DEF Expire
  <2>2. [memories[m] EXCEPT !.expired = TRUE] \in Memory
    BY <2>1 DEF MemoryTypeOK, Memory
  <2>3. /\ [memories[m] EXCEPT !.expired = TRUE].status = memories[m].status
        /\ [memories[m] EXCEPT !.expired = TRUE].topic = memories[m].topic
        /\ [memories[m] EXCEPT !.expired = TRUE].holds = memories[m].holds
    BY <2>1 DEF MemoryTypeOK, Memory
  <2> QED
    BY <2>1, <2>2, <2>3 DEF Undisturbed, MemoryTypeOK, MemoryFunctions
<1>2. ASSUME NEW ids, Decay(ids) PROVE Undisturbed
  <2>1. memories' = [m \in DOMAIN memories |->
                        IF m \in ids THEN [memories[m] EXCEPT !.weak = TRUE] ELSE memories[m]]
    BY <1>2 DEF Decay
  <2>2. ASSUME NEW m \in DOMAIN memories
        PROVE  /\ [memories[m] EXCEPT !.weak = TRUE] \in Memory
               /\ [memories[m] EXCEPT !.weak = TRUE].status = memories[m].status
               /\ [memories[m] EXCEPT !.weak = TRUE].topic = memories[m].topic
               /\ [memories[m] EXCEPT !.weak = TRUE].holds = memories[m].holds
    BY DEF MemoryTypeOK, Memory
  <2> QED
    BY <1>2, <2>1, <2>2 DEF Undisturbed, MemoryTypeOK, Decay
<1>3. ASSUME NEW m, Forget(m) PROVE Undisturbed
  BY <1>3, RestrictUndisturbed DEF Forget
<1>4. CASE LookUp
  BY <1>4, RestrictUndisturbed DEF LookUp, Purged
<1>5. ASSUME NEW c, Load(c) PROVE Undisturbed
  BY <1>5, RestrictUndisturbed DEF Load, Purged
<1>6. ASSUME UNCHANGED <<memories, made>> PROVE Undisturbed
  BY <1>6 DEF Undisturbed, MemoryTypeOK, MemoryFunctions
<1> QED
  BY <1>1, <1>2, <1>3, <1>4, <1>5, <1>6 DEF Age, Drop

LEMMA ClientFrame ==
    ASSUME MemoryTypeOK,
           \/ \E m \in MemoryIds : Forget(m) \/ Expire(m)
           \/ \E ids \in SUBSET MemoryIds : Decay(ids)
           \/ LookUp \/ Age
    PROVE  UNCHANGED plan /\ stale' \in 0..made
<1>1. made \in Nat /\ stale \in 0..made
  BY DEF MemoryTypeOK
<1>2. ASSUME NEW m, Forget(m) \/ Expire(m) PROVE UNCHANGED <<stale, plan>>
  BY <1>2 DEF Forget, Expire
<1>3. ASSUME NEW ids, Decay(ids) PROVE UNCHANGED <<stale, plan>>
  BY <1>3 DEF Decay
<1>4. ASSUME LookUp PROVE UNCHANGED <<stale, plan>>
  BY <1>4 DEF LookUp
<1>5. ASSUME Age PROVE UNCHANGED plan /\ stale' \in 0..made
  BY <1>1, <1>5 DEF Age
<1> QED
  BY <1>1, <1>2, <1>3, <1>4, <1>5

(* A step that leaves rows as they are keeps the budget of originals.      *)
LEMMA FiniteTable ==
    ASSUME MemoryTypeOK
    PROVE  /\ IsFiniteSet(DOMAIN memories) /\ IsFiniteSet(Originals)
           /\ Cardinality(Originals) \in Nat
<1>1. IsFiniteSet(1..made)
  BY FS_Interval DEF MemoryTypeOK
<1>2. IsFiniteSet(DOMAIN memories)
  BY <1>1, FS_Subset DEF MemoryTypeOK
<1> QED
  BY <1>2, FS_Subset, FS_CardinalityType DEF Originals

LEMMA FewerOriginals ==
    ASSUME MemoryTypeOK, OriginalsWithinBudget, Originals' \subseteq Originals
    PROVE  OriginalsWithinBudget'
<1>1. Cardinality(Originals') <= Cardinality(Originals) /\ Cardinality(Originals') \in Nat
  BY FiniteTable, FS_Subset, FS_CardinalityType
<1>2. RowBudget \in Nat
  BY MemoryAssumption
<1> QED
  BY <1>1, <1>2, FiniteTable DEF OriginalsWithinBudget, Originals

LEMMA UndisturbedIInv ==
    ASSUME MemoryIInv, Undisturbed, stale' \in 0..made, UNCHANGED plan
    PROVE  MemoryIInv'
<1> USE DEF MemoryIInv
<1>1. MemoryTypeOK' /\ MemoryFunctions'
  BY DEF MemoryTypeOK, MemoryFunctions, Undisturbed
<1>2. OriginalsWithinBudget'
  BY FewerOriginals DEF Undisturbed, Originals
<1>3. PlansHoldOriginals'
  BY DEF PlansHoldOriginals, Undisturbed
<1> QED
  BY <1>1, <1>2, <1>3

LEMMA LoadIInv ==
    ASSUME MemoryIInv, NEW c \in Compactors, Load(c)
    PROVE  MemoryIInv'
<1> USE DEF MemoryIInv
<1> DEFINE active == Active(Purged)
           loaded == [phase |-> "loaded",
                      stale |-> {m \in active : m <= stale /\ Purged[m].weak},
                      rows |-> [m \in active |-> [topic |-> Purged[m].topic,
                                                  holds |-> Purged[m].holds]]]
<1>1. memories' = Purged /\ plan' = [plan EXCEPT ![c] = loaded] /\ UNCHANGED <<made, stale>>
  BY DEF Load
<1>2. Undisturbed
  BY <1>1, RestrictUndisturbed DEF Purged
<1>3. /\ active \subseteq DOMAIN Purged
      /\ \A m \in active : memories'[m].status = "active" /\ Purged[m] \in Memory /\ m \in 1..made
  BY <1>1, <1>2 DEF Active, Undisturbed, MemoryTypeOK
<1>4. /\ plan' = [d \in Compactors |-> plan'[d]]
      /\ \A d \in Compactors : plan'[d] = IF d = c THEN loaded ELSE plan[d]
  BY <1>1 DEF MemoryFunctions
<1>5. /\ loaded.phase = "loaded" /\ loaded.stale \subseteq DOMAIN loaded.rows
      /\ \A m \in DOMAIN loaded.rows : loaded.rows[m] \in [topic: Topics, holds: SUBSET MemoryIds]
  BY <1>3 DEF Memory
<1>6. MemoryTypeOK' /\ MemoryFunctions'
  <2>1. \A d \in Compactors : plan'[d] = NoPlan \/
          /\ plan'[d].phase = "loaded"
          /\ plan'[d].stale \subseteq DOMAIN plan'[d].rows
          /\ \A m \in DOMAIN plan'[d].rows :
                plan'[d].rows[m] \in [topic: Topics, holds: SUBSET MemoryIds]
    BY <1>4, <1>5 DEF MemoryTypeOK
  <2> QED
    BY <1>1, <1>2, <1>4, <2>1 DEF MemoryTypeOK, MemoryFunctions, Undisturbed
<1>7. OriginalsWithinBudget'
  BY <1>2, FewerOriginals DEF Undisturbed, Originals
<1>8. PlansHoldOriginals'
  <2> SUFFICES ASSUME NEW d \in Compactors, plan'[d] # NoPlan, NEW m \in DOMAIN plan'[d].rows
               PROVE  m \in 1..made /\ (m \in DOMAIN memories' => memories'[m].status # "distilled")
    BY <1>1 DEF PlansHoldOriginals
  <2>1. CASE d = c
    BY <1>3, <1>4, <2>1
  <2>2. CASE d # c
    BY <1>2, <1>4, <2>2 DEF PlansHoldOriginals, Undisturbed
  <2> QED
    BY <2>1, <2>2
<1> QED
  BY <1>6, <1>7, <1>8

LEMMA DropIInv ==
    ASSUME MemoryIInv, NEW c \in Compactors, Drop(c)
    PROVE  MemoryIInv'
<1> USE DEF MemoryIInv
<1>1. /\ plan' = [d \in Compactors |-> IF d = c THEN NoPlan ELSE plan[d]]
      /\ UNCHANGED <<memories, made, stale>>
  BY DEF Drop, MemoryFunctions
<1>2. MemoryTypeOK' /\ MemoryFunctions'
  BY <1>1 DEF MemoryTypeOK, MemoryFunctions
<1>3. OriginalsWithinBudget'
  BY <1>1 DEF OriginalsWithinBudget
<1>4. PlansHoldOriginals'
  BY <1>1 DEF PlansHoldOriginals
<1> QED
  BY <1>2, <1>3, <1>4

(* What a store does, its evictions included: at most the budget is left.  *)
Stored(topic, weak) ==
    /\ made' = made + 1 /\ made < MaxIds /\ UNCHANGED <<stale, plan>>
    /\ DOMAIN memories' \subseteq DOMAIN memories \cup {made + 1}
    /\ memories' = [m \in DOMAIN memories' |-> memories'[m]]
    /\ \A m \in DOMAIN memories' \ {made + 1} : memories'[m] = memories[m]
    /\ made + 1 \in DOMAIN memories' =>
          memories'[made + 1] = [status |-> "active", topic |-> topic, weak |-> weak,
                                 holds |-> {made + 1}, expired |-> FALSE]
    /\ Cardinality(DOMAIN memories') <= RowBudget

LEMMA StoreRows ==
    ASSUME MemoryIInv, NEW topic \in Topics, NEW weak \in BOOLEAN, Store(topic, weak)
    PROVE  Stored(topic, weak)
<1> USE DEF MemoryIInv
<1> DEFINE id == made + 1
           row == [status |-> "active", topic |-> topic, weak |-> weak,
                   holds |-> {id}, expired |-> FALSE]
           all == [m \in DOMAIN Purged \cup {id} |-> IF m = id THEN row ELSE Purged[m]]
           surplus == IF Surplus(all) > 0 THEN Surplus(all) ELSE 0
<1>1. PICK doomed \in kSubset(surplus, DOMAIN all) : memories' = Restrict(all, DOMAIN all \ doomed)
  BY DEF Store
<1>2. id \notin DOMAIN memories /\ DOMAIN Purged \subseteq DOMAIN memories
  BY DEF MemoryTypeOK, Purged, Without, Restrict
<1>3. /\ DOMAIN all = DOMAIN Purged \cup {id}
      /\ all[id] = row
      /\ \A m \in DOMAIN all \ {id} : all[m] = memories[m]
  BY <1>2 DEF Purged, Without, Restrict
<1>4. DOMAIN memories' = DOMAIN all \ doomed
  BY <1>1 DEF Restrict
<1>5. Cardinality(DOMAIN memories') <= RowBudget
  <2>1. IsFiniteSet(DOMAIN all) /\ Cardinality(DOMAIN all) \in Nat
    <3>1. IsFiniteSet(DOMAIN Purged)
      BY <1>2, FiniteTable, FS_Subset
    <3> QED
      BY <3>1, <1>3, FS_AddElement, FS_CardinalityType
  <2>2. doomed \subseteq DOMAIN all /\ Cardinality(doomed) = surplus
    BY DEF kSubset
  <2>3. DOMAIN all \cap doomed = doomed
    BY <2>2
  <2>4. Cardinality(DOMAIN all \ doomed) = Cardinality(DOMAIN all) - surplus
    <3> HIDE DEF all, surplus
    <3> QED
      BY <2>1, <2>2, <2>3, FS_Difference
  <2> QED
    BY <1>4, <2>1, <2>4, MemoryAssumption DEF Surplus
<1>6. made < MaxIds /\ made' = id /\ UNCHANGED <<stale, plan>>
  BY DEF Store
<1>7. /\ memories' = [m \in DOMAIN memories' |-> memories'[m]]
      /\ \A m \in DOMAIN memories' : memories'[m] = all[m]
  BY <1>1 DEF Restrict
<1> QED
  BY <1>2, <1>3, <1>4, <1>5, <1>6, <1>7 DEF Stored

LEMMA StoreIInv ==
    ASSUME MemoryIInv, NEW topic \in Topics, NEW weak \in BOOLEAN, Store(topic, weak)
    PROVE  MemoryIInv'
<1> USE DEF MemoryIInv
<1> DEFINE row == [status |-> "active", topic |-> topic, weak |-> weak,
                   holds |-> {made + 1}, expired |-> FALSE]
<1>0. Stored(topic, weak)
  BY StoreRows
<1>1. row \in Memory
  BY <1>0, MemoryAssumption DEF Stored, Memory, Statuses, MemoryIds, MemoryTypeOK
<1>2. \A m \in DOMAIN memories' : memories'[m] \in Memory
  BY <1>0, <1>1 DEF Stored, MemoryTypeOK
<1>3. MemoryTypeOK' /\ MemoryFunctions'
  BY <1>0, <1>2, MemoryAssumption DEF Stored, MemoryTypeOK, MemoryFunctions
<1>4. OriginalsWithinBudget'
  <2>1. IsFiniteSet(DOMAIN memories) /\ IsFiniteSet(DOMAIN memories')
    <3>1. IsFiniteSet(DOMAIN memories \cup {made + 1})
      BY FiniteTable, FS_AddElement
    <3> QED
      BY <1>0, <3>1, FiniteTable, FS_Subset DEF Stored
  <2>2. Cardinality(Originals') <= Cardinality(DOMAIN memories')
    BY <2>1, FS_Subset DEF Originals
  <2> QED
    BY <1>0, <2>1, <2>2, FS_Subset, FS_CardinalityType, MemoryAssumption
    DEF Stored, OriginalsWithinBudget, Originals
<1>5. PlansHoldOriginals'
  BY <1>0 DEF Stored, PlansHoldOriginals, MemoryTypeOK
<1> QED
  BY <1>3, <1>4, <1>5

-----------------------------------------------------------------------------
DistilledIds(p) == {DistilledId(p, t) : t \in Clusters(p)}
Kept(p) == {Keeper(p, t) : t \in Merges(p)}

LEMMA PlanShape ==
    ASSUME MemoryIInv, NEW c \in Compactors, plan[c] # NoPlan
    PROVE  /\ plan[c].stale \subseteq DOMAIN plan[c].rows
           /\ DOMAIN plan[c].rows \subseteq 1..made
           /\ IsFiniteSet(DOMAIN plan[c].rows)
           /\ \A m \in DOMAIN plan[c].rows :
                 plan[c].rows[m].topic \in Topics /\ plan[c].rows[m].holds \subseteq MemoryIds
           /\ IsFiniteSet(Clusters(plan[c])) /\ Clusters(plan[c]) \subseteq Topics
<1> USE DEF MemoryIInv
<1> DEFINE p == plan[c]
           D == DOMAIN p.rows
<1>1. p.stale \subseteq D /\ \A m \in D : p.rows[m].topic \in Topics /\ p.rows[m].holds \subseteq MemoryIds
  BY DEF MemoryTypeOK
<1>2. D \subseteq 1..made
  BY DEF PlansHoldOriginals
<1>3. IsFiniteSet(D)
  BY <1>2, FS_Interval, FS_Subset DEF MemoryTypeOK
<1>4. IsFiniteSet(Clusters(p))
  <2> DEFINE f == [m \in D |-> p.rows[m].topic]
             T == {f[m] : m \in D}
  <2>1. f \in Surjection(D, T)
    BY DEF Surjection
  <2>2. IsFiniteSet(T)
    BY <2>1, <1>3, FS_Surjection
  <2>3. Clusters(p) \subseteq T
    BY DEF Clusters, Cluster, Group
  <2> QED
    BY <2>2, <2>3, FS_Subset
<1> QED
  BY <1>1, <1>2, <1>3, <1>4 DEF Clusters

(* The kept row of a group is the newest of it, and one of it.             *)
LEMMA KeeperInGroup ==
    ASSUME MemoryIInv, NEW c \in Compactors, plan[c] # NoPlan, NEW t \in Merges(plan[c])
    PROVE  Keeper(plan[c], t) \in Group(plan[c], t)
<1>1. Group(plan[c], t) \subseteq 0..made
  BY PlanShape DEF Group
<1>2. Group(plan[c], t) # {}
  BY FS_EmptySet DEF Merges
<1> QED
  BY <1>1, <1>2, MaxOfBounded DEF Keeper, MemoryIInv, MemoryTypeOK

(* Distilled rows get ids of their own, the next ones.                     *)
LEMMA DistilledIdsAreNew ==
    ASSUME MemoryIInv, NEW c \in Compactors, plan[c] # NoPlan
    PROVE  /\ \A t, u \in Clusters(plan[c]) :
                 DistilledId(plan[c], t) = DistilledId(plan[c], u) => t = u
           /\ Cardinality(DistilledIds(plan[c])) \in Nat
           /\ DistilledIds(plan[c])
                 \subseteq (made + 1)..(made + Cardinality(DistilledIds(plan[c])))
<1> DEFINE C == Clusters(plan[c])
           Upto(t) == {u \in C : u <= t}
           f == [t \in C |-> DistilledId(plan[c], t)]
<1>1. IsFiniteSet(C) /\ C \subseteq Nat /\ made \in Nat
  <2>1. IsFiniteSet(C) /\ C \subseteq Topics
    BY PlanShape
  <2>2. made \in Nat
    BY DEF MemoryIInv, MemoryTypeOK
  <2> QED
    BY <2>1, <2>2, MemoryAssumption
<1>2. \A t \in C : IsFiniteSet(Upto(t)) /\ Cardinality(Upto(t)) \in Nat
                   /\ Cardinality(Upto(t)) <= Cardinality(C)
  BY <1>1, FS_Subset, FS_CardinalityType
<1>3. \A t \in C : Cardinality(Upto(t)) # 0
  <2> TAKE t \in C
  <2>1. t \in Upto(t)
    BY <1>1
  <2> QED
    BY <2>1, <1>2, FS_EmptySet
<1>4. ASSUME NEW t \in C, NEW u \in C, t < u
      PROVE  Cardinality(Upto(t)) # Cardinality(Upto(u))
  <2>1. Upto(t) \subseteq Upto(u) /\ u \in Upto(u) /\ u \notin Upto(t)
    BY <1>1, <1>4
  <2> QED
    BY <2>1, <1>2, FS_Subset
<1>5. \A t, u \in C : f[t] = f[u] => t = u
  <2> SUFFICES ASSUME NEW t \in C, NEW u \in C, f[t] = f[u] PROVE t = u
    OBVIOUS
  <2>1. Cardinality(Upto(t)) = Cardinality(Upto(u))
    BY <1>1, <1>2 DEF DistilledId
  <2> QED
    BY <2>1, <1>1, <1>4
<1>6. f \in Bijection(C, DistilledIds(plan[c]))
  BY <1>5 DEF Bijection, Injection, IsInjective, Surjection, DistilledIds
<1>7. Cardinality(DistilledIds(plan[c])) = Cardinality(C) /\ Cardinality(C) \in Nat
  <2>1. ExistsBijection(C, DistilledIds(plan[c]))
    BY <1>6 DEF ExistsBijection
  <2> QED
    BY <1>1, <2>1, FS_Bijection, FS_CardinalityType
<1>8. \A t \in C : DistilledId(plan[c], t) \in (made + 1)..(made + Cardinality(C))
  BY <1>1, <1>2, <1>3, <1>7 DEF DistilledId
<1> QED
  BY <1>5, <1>7, <1>8 DEF DistilledIds

(* What applying a plan does to each row.                                  *)
Applied(p) ==
    /\ DOMAIN memories' = DOMAIN memories \cup DistilledIds(p)
    /\ memories' = [m \in DOMAIN memories' |-> memories'[m]]
    /\ \A m \in DOMAIN memories' : memories'[m] \in Memory
    /\ \A t \in Clusters(p) :
          /\ memories'[DistilledId(p, t)].status = "distilled"
          /\ memories'[DistilledId(p, t)].holds = Contents(p, Cluster(p, t))
    /\ \A m \in DOMAIN memories :
          /\ m \in Kept(p) => /\ memories'[m].status = "active"
                              /\ memories'[m].holds = MergedContents(p, memories[m].topic)
          /\ m \in Sources(p) \ Kept(p) => memories'[m].status = "archived"
          /\ m \notin Sources(p) \cup Kept(p) => memories'[m] = memories[m]
    /\ made' = made + Cardinality(DistilledIds(p)) /\ made' <= MaxIds
    /\ UNCHANGED stale

LEMMA ContentsType ==
    ASSUME MemoryIInv, NEW c \in Compactors, plan[c] # NoPlan,
           NEW ids \in SUBSET DOMAIN plan[c].rows
    PROVE  Contents(plan[c], ids) \subseteq MemoryIds
BY PlanShape DEF Contents

LEMMA ApplyRows ==
    ASSUME MemoryIInv, NEW c \in Compactors, Apply(c)
    PROVE  Applied(plan[c])
<1> DEFINE p == plan[c]
           Updated(m) ==
               LET row == memories[m] IN
               CASE m \in Kept(p) -> [row EXCEPT !.status = "active",
                                                 !.holds = MergedContents(p, row.topic)]
                 [] m \in Sources(p) \ Kept(p) -> Archived(row)
                 [] OTHER -> row
           Distilled(id) ==
               LET t == CHOOSE u \in Clusters(p) : DistilledId(p, u) = id IN
               [status |-> "distilled", topic |-> t, weak |-> TRUE,
                holds |-> Contents(p, Cluster(p, t)), expired |-> FALSE]
           ids == DistilledIds(p)
<1>1. /\ p # NoPlan
      /\ memories' = [m \in DOMAIN memories \cup ids |->
                         IF m \in ids THEN Distilled(m) ELSE Updated(m)]
      /\ made' = made + Cardinality(ids) /\ made' <= MaxIds /\ UNCHANGED stale
  BY DEF Apply, DistilledIds, Kept
<1>2. made \in Nat /\ ids \cap DOMAIN memories = {}
  <2>1. ids \subseteq (made + 1)..(made + Cardinality(ids))
    BY <1>1, DistilledIdsAreNew
  <2> QED
    BY <2>1 DEF MemoryIInv, MemoryTypeOK
<1>3. ASSUME NEW t \in Clusters(p)
      PROVE  Distilled(DistilledId(p, t)) =
                [status |-> "distilled", topic |-> t, weak |-> TRUE,
                 holds |-> Contents(p, Cluster(p, t)), expired |-> FALSE]
  BY <1>1, DistilledIdsAreNew
<1>4. ASSUME NEW t \in Clusters(p)
      PROVE  /\ [status |-> "distilled", topic |-> t, weak |-> TRUE,
                 holds |-> Contents(p, Cluster(p, t)), expired |-> FALSE] \in Memory
  <2>1. Cluster(p, t) \subseteq DOMAIN p.rows
    BY DEF Cluster, Group
  <2>2. Contents(p, Cluster(p, t)) \subseteq MemoryIds
    BY <1>1, <2>1, ContentsType
  <2> QED
    BY <2>2 DEF Memory, Statuses, Clusters
<1>5. \A t \in Clusters(p) : DistilledId(p, t) \in ids
  BY DEF DistilledIds
<1>6. ASSUME NEW m \in DOMAIN memories
      PROVE  /\ Updated(m) \in Memory
             /\ m \in Kept(p) => /\ Updated(m).status = "active"
                                 /\ Updated(m).holds = MergedContents(p, memories[m].topic)
             /\ m \in Sources(p) \ Kept(p) => Updated(m).status = "archived"
             /\ m \notin Sources(p) \cup Kept(p) => Updated(m) = memories[m]
  <2>1. memories[m] \in Memory
    BY DEF MemoryIInv, MemoryTypeOK
  <2>2. MergedContents(p, memories[m].topic) \subseteq MemoryIds
    <3>1. Group(p, memories[m].topic) \subseteq DOMAIN p.rows
      BY DEF Group
    <3> QED
      BY <1>1, <3>1, ContentsType DEF MergedContents
  <2>3. CASE m \in Kept(p)
    BY <2>1, <2>2, <2>3 DEF Memory, Statuses
  <2>4. CASE m \in Sources(p) \ Kept(p)
    BY <2>1, <2>4 DEF Memory, Statuses, Archived
  <2>5. CASE m \notin Sources(p) \cup Kept(p)
    BY <2>1, <2>5
  <2> QED
    BY <2>3, <2>4, <2>5
<1> HIDE DEF Updated, Distilled
<1>7. \A m \in DOMAIN memories : memories'[m] = Updated(m)
  BY <1>1, <1>2
<1>8. \A t \in Clusters(p) : memories'[DistilledId(p, t)] = Distilled(DistilledId(p, t))
  BY <1>1, <1>5
<1>9. \A m \in ids : memories'[m] \in Memory
  BY <1>3, <1>4, <1>8 DEF DistilledIds
<1>10. DOMAIN memories' = DOMAIN memories \cup ids
  BY <1>1
<1>11. memories' = [m \in DOMAIN memories' |-> memories'[m]]
  BY <1>1
<1>12. \A m \in DOMAIN memories' : memories'[m] \in Memory
  BY <1>6, <1>7, <1>9, <1>10
<1>13. \A t \in Clusters(p) :
          /\ memories'[DistilledId(p, t)].status = "distilled"
          /\ memories'[DistilledId(p, t)].holds = Contents(p, Cluster(p, t))
  <2> TAKE t \in Clusters(p)
  <2>1. memories'[DistilledId(p, t)] =
            [status |-> "distilled", topic |-> t, weak |-> TRUE,
             holds |-> Contents(p, Cluster(p, t)), expired |-> FALSE]
    BY <1>3, <1>8
  <2> QED
    BY <2>1
<1>14. \A m \in DOMAIN memories :
          /\ m \in Kept(p) => /\ memories'[m].status = "active"
                              /\ memories'[m].holds = MergedContents(p, memories[m].topic)
          /\ m \in Sources(p) \ Kept(p) => memories'[m].status = "archived"
          /\ m \notin Sources(p) \cup Kept(p) => memories'[m] = memories[m]
  BY <1>6, <1>7
<1> QED
  BY <1>1, <1>10, <1>11, <1>12, <1>13, <1>14 DEF Applied

(* Rows that an applied plan touches are no distilled ones.                *)
LEMMA TouchedAreInPlan ==
    ASSUME MemoryIInv, NEW c \in Compactors, plan[c] # NoPlan
    PROVE  Sources(plan[c]) \cup Kept(plan[c]) \subseteq DOMAIN plan[c].rows
<1>1. Sources(plan[c]) \subseteq DOMAIN plan[c].rows
  BY PlanShape DEF Sources, Group
<1>2. Kept(plan[c]) \subseteq DOMAIN plan[c].rows
  BY KeeperInGroup DEF Kept, Group
<1> QED
  BY <1>1, <1>2

LEMMA ApplyIInv ==
    ASSUME MemoryIInv, NEW c \in Compactors, Apply(c)
    PROVE  MemoryIInv'
<1> DEFINE p == plan[c]
           ids == DistilledIds(p)
<1>1. /\ p # NoPlan /\ Applied(p)
      /\ plan' = [plan EXCEPT ![c] = NoPlan]
  BY ApplyRows DEF Apply
<1>2. /\ Cardinality(ids) \in Nat
      /\ ids \subseteq (made + 1)..(made + Cardinality(ids))
      /\ Sources(p) \cup Kept(p) \subseteq DOMAIN p.rows
  BY <1>1, DistilledIdsAreNew, TouchedAreInPlan
<1>3. /\ made \in 0..MaxIds /\ stale \in 0..made /\ DOMAIN memories \subseteq 1..made
      /\ \A m \in DOMAIN p.rows : m \in DOMAIN memories => memories[m].status # "distilled"
  BY <1>1 DEF MemoryIInv, MemoryTypeOK, PlansHoldOriginals
<1>4. \A d \in Compactors : plan'[d] = IF d = c THEN NoPlan ELSE plan[d]
  BY <1>1 DEF MemoryIInv, MemoryFunctions
<1>5. /\ made' \in 0..MaxIds /\ stale' \in 0..made' /\ DOMAIN memories' \subseteq 1..made'
      /\ \A m \in 1..made : m \in 1..made'
  BY <1>1, <1>2, <1>3, MemoryAssumption DEF Applied
<1>6. MemoryTypeOK'
  <2>1. \A d \in Compactors : plan'[d] = NoPlan \/
          /\ plan'[d].phase = "loaded"
          /\ plan'[d].stale \subseteq DOMAIN plan'[d].rows
          /\ \A m \in DOMAIN plan'[d].rows :
                plan'[d].rows[m] \in [topic: Topics, holds: SUBSET MemoryIds]
    BY <1>4 DEF MemoryIInv, MemoryTypeOK
  <2> QED
    BY <1>1, <1>5, <2>1 DEF MemoryTypeOK, Applied
<1>7. MemoryFunctions'
  BY <1>1 DEF MemoryIInv, MemoryFunctions, Applied
<1>8. \A m \in ids : memories'[m].status = "distilled"
  BY <1>1 DEF Applied, DistilledIds
<1>9. \A m \in DOMAIN memories :
         (memories'[m].status = "distilled") <=> (memories[m].status = "distilled")
  <2> TAKE m \in DOMAIN memories
  <2>1. CASE m \in Sources(p) \cup Kept(p)
    BY <1>1, <1>2, <1>3, <2>1 DEF Applied
  <2>2. CASE m \notin Sources(p) \cup Kept(p)
    BY <1>1, <2>2 DEF Applied
  <2> QED
    BY <2>1, <2>2
<1>10. OriginalsWithinBudget'
  <2>1. Originals' \subseteq Originals
    BY <1>1, <1>8, <1>9 DEF Originals, Applied
  <2> QED
    BY <2>1, FewerOriginals DEF MemoryIInv
<1>11. PlansHoldOriginals'
  <2> SUFFICES ASSUME NEW d \in Compactors, plan'[d] # NoPlan, NEW m \in DOMAIN plan'[d].rows
               PROVE  m \in 1..made' /\ (m \in DOMAIN memories' => memories'[m].status # "distilled")
    BY DEF PlansHoldOriginals
  <2>1. plan'[d] = plan[d] /\ plan[d] # NoPlan
    BY <1>4
  <2>2. m \in 1..made /\ (m \in DOMAIN memories => memories[m].status # "distilled")
    BY <2>1 DEF MemoryIInv, PlansHoldOriginals
  <2>3. m \in DOMAIN memories' => m \in DOMAIN memories
    BY <1>1, <1>2, <1>3, <2>2 DEF Applied
  <2> QED
    BY <1>5, <1>9, <2>2, <2>3
<1> QED
  BY <1>6, <1>7, <1>10, <1>11 DEF MemoryIInv

LEMMA InitMemory == MemoryInit => MemoryIInv
<1> SUFFICES ASSUME MemoryInit PROVE MemoryIInv
  OBVIOUS
<1>1. DOMAIN memories = {} /\ made = 0 /\ stale = 0 /\ plan = [c \in Compactors |-> NoPlan]
  BY DEF MemoryInit
<1>2. MemoryTypeOK
  BY <1>1, MemoryAssumption DEF MemoryTypeOK
<1>3. MemoryFunctions
  BY <1>1 DEF MemoryFunctions, MemoryInit
<1>4. OriginalsWithinBudget
  <2>1. {m \in DOMAIN memories : memories[m].status # "distilled"} = {}
    BY <1>1
  <2> QED
    BY <2>1, FS_EmptySet, MemoryAssumption DEF OriginalsWithinBudget
<1>5. PlansHoldOriginals
  BY <1>1 DEF PlansHoldOriginals
<1> QED
  BY <1>2, <1>3, <1>4, <1>5 DEF MemoryIInv

LEMMA NextMemory == MemoryIInv /\ [MemoryNext]_mvars => MemoryIInv'
<1> SUFFICES ASSUME MemoryIInv, [MemoryNext]_mvars PROVE MemoryIInv'
  OBVIOUS
<1>1. ASSUME NEW topic \in Topics, NEW weak \in BOOLEAN, Store(topic, weak) PROVE MemoryIInv'
  BY <1>1, StoreIInv
<1>2. ASSUME NEW c \in Compactors, Load(c) PROVE MemoryIInv'
  BY <1>2, LoadIInv
<1>3. ASSUME NEW c \in Compactors, Drop(c) PROVE MemoryIInv'
  BY <1>3, DropIInv
<1>4. ASSUME NEW c \in Compactors, Apply(c) PROVE MemoryIInv'
  BY <1>4, ApplyIInv
<1>5. ASSUME \/ \E m \in MemoryIds : Forget(m) \/ Expire(m)
             \/ \E ids \in SUBSET MemoryIds : Decay(ids)
             \/ LookUp \/ Age
      PROVE  MemoryIInv'
  <2>1. Undisturbed
    BY <1>5, ClientUndisturbed DEF MemoryIInv
  <2>2. UNCHANGED plan /\ stale' \in 0..made
    BY <1>5, ClientFrame DEF MemoryIInv
  <2> QED
    BY <2>1, <2>2, UndisturbedIInv
<1>6. CASE UNCHANGED mvars
  <2>1. Undisturbed
    BY <1>6 DEF mvars, Undisturbed, MemoryIInv, MemoryTypeOK, MemoryFunctions
  <2> QED
    BY <1>6, <2>1, UndisturbedIInv DEF mvars, MemoryIInv, MemoryTypeOK
<1> QED
  BY <1>1, <1>2, <1>3, <1>4, <1>5, <1>6 DEF MemoryNext

(* The plans in flight hold rows that were originals and are no others now *)
(* (load_for_compaction).                                                  *)
THEOREM MemoryIInvAlways == MemorySpec => []MemoryIInv
BY InitMemory, NextMemory, PTL DEF MemorySpec

(* The table and the plans in flight keep their shapes.                    *)
THEOREM MemoryTypeCorrect == MemorySpec => []MemoryTypeOK
BY MemoryIInvAlways, PTL DEF MemoryIInv

(* Whatever is stored, forgotten, expired and compacted in whatever order, *)
(* no more originals than the budget are ever in the table                 *)
(* (_evict_if_over_budget, compact).                                       *)
THEOREM OriginalsAreBudgeted == MemorySpec => []OriginalsWithinBudget
BY MemoryIInvAlways, PTL DEF MemoryIInv

-----------------------------------------------------------------------------
FromPlans ==
    /\ \A c \in Compactors : Load(c) =>
          Contents(plan'[c], DOMAIN plan'[c].rows) \subseteq Findable
    /\ \/ Returning \subseteq {made + 1}
       \/ \E c \in Compactors :
             Apply(c) /\ Returning \subseteq Contents(plan[c], DOMAIN plan[c].rows)

LEMMA LoadFindable ==
    ASSUME MemoryIInv, NEW c \in Compactors, Load(c)
    PROVE  Contents(plan'[c], DOMAIN plan'[c].rows) \subseteq Findable
<1> DEFINE active == Active(Purged)
           loaded == [phase |-> "loaded",
                      stale |-> {m \in active : m <= stale /\ Purged[m].weak},
                      rows |-> [m \in active |-> [topic |-> Purged[m].topic,
                                                  holds |-> Purged[m].holds]]]
<1>1. plan'[c] = loaded
  BY DEF Load, MemoryIInv, MemoryFunctions
<1>2. DOMAIN loaded.rows = active /\ \A m \in active : loaded.rows[m].holds = Purged[m].holds
  OBVIOUS
<1>3. ASSUME NEW m \in active PROVE Purged[m].holds \subseteq Findable
  <2>1. m \in DOMAIN memories /\ Purged[m] = memories[m] /\ memories[m].status = "active"
    BY DEF Active, Purged, Without, Restrict
  <2> QED
    BY <2>1 DEF Findable
<1> QED
  BY <1>1, <1>2, <1>3 DEF Contents

LEMMA UndisturbedFindable ==
    ASSUME Undisturbed
    PROVE  Returning = {}
BY DEF Undisturbed, Returning, Findable

LEMMA StoreReturns ==
    ASSUME MemoryIInv, NEW topic \in Topics, NEW weak \in BOOLEAN, Store(topic, weak)
    PROVE  Returning \subseteq {made + 1}
<1>1. Stored(topic, weak)
  BY StoreRows
<1>2. ASSUME NEW m \in DOMAIN memories', memories'[m].status # "archived", NEW x \in memories'[m].holds
      PROVE  x \in Findable \cup {made + 1}
  <2>1. CASE m = made + 1
    BY <1>1, <1>2, <2>1 DEF Stored
  <2>2. CASE m # made + 1
    BY <1>1, <1>2, <2>2 DEF Stored, Findable
  <2> QED
    BY <2>1, <2>2
<1> QED
  BY <1>2 DEF Returning, Findable

LEMMA ApplyReturns ==
    ASSUME MemoryIInv, NEW c \in Compactors, Apply(c)
    PROVE  Returning \subseteq Contents(plan[c], DOMAIN plan[c].rows)
<1> DEFINE p == plan[c]
           D == DOMAIN p.rows
<1>1. p # NoPlan /\ Applied(p)
  BY ApplyRows DEF Apply
<1>2. \A t \in Topics : /\ Contents(p, Cluster(p, t)) \subseteq Contents(p, D)
                         /\ MergedContents(p, t) \subseteq Contents(p, D)
  BY DEF Contents, MergedContents, Cluster, Group
<1>3. ASSUME NEW m \in DOMAIN memories', memories'[m].status # "archived", NEW x \in memories'[m].holds
      PROVE  x \in Findable \cup Contents(p, D)
  <2>1. CASE m \in DistilledIds(p)
    <3>1. PICK t \in Clusters(p) : m = DistilledId(p, t)
      BY <2>1 DEF DistilledIds
    <3> QED
      BY <1>1, <1>2, <1>3, <3>1 DEF Applied, Clusters
  <2>2. CASE m \in DOMAIN memories /\ m \in Kept(p)
    BY <1>1, <1>2, <1>3, <2>2 DEF Applied, MemoryIInv, MemoryTypeOK, Memory
  <2>3. CASE m \in DOMAIN memories /\ m \in Sources(p) \ Kept(p)
    BY <1>1, <1>3, <2>3 DEF Applied
  <2>4. CASE m \in DOMAIN memories /\ m \notin Sources(p) \cup Kept(p)
    BY <1>1, <1>3, <2>4 DEF Applied, Findable
  <2> QED
    BY <1>1, <2>1, <2>2, <2>3, <2>4 DEF Applied
<1> QED
  BY <1>3 DEF Returning, Findable

LEMMA NextReturns == MemoryIInv /\ [MemoryNext]_mvars => [FromPlans]_mvars
<1> SUFFICES ASSUME MemoryIInv, MemoryNext PROVE FromPlans
  OBVIOUS
<1>1. \A c \in Compactors : Load(c) => Contents(plan'[c], DOMAIN plan'[c].rows) \subseteq Findable
  BY LoadFindable
<1>2. CASE \E topic \in Topics, weak \in BOOLEAN : Store(topic, weak)
  BY <1>1, <1>2, StoreReturns DEF FromPlans
<1>3. CASE \E c \in Compactors : Apply(c)
  BY <1>1, <1>3, ApplyReturns DEF FromPlans
<1>4. CASE \/ \E m \in MemoryIds : Forget(m) \/ Expire(m)
           \/ \E ids \in SUBSET MemoryIds : Decay(ids)
           \/ LookUp \/ Age
           \/ \E c \in Compactors : Load(c) \/ Drop(c)
  <2>1. Undisturbed
    BY <1>4, ClientUndisturbed DEF MemoryIInv
  <2> QED
    BY <1>1, <2>1, UndisturbedFindable DEF FromPlans
<1> QED
  BY <1>2, <1>3, <1>4 DEF MemoryNext

(* For any number of compactors, a plan holds only what could be found     *)
(* when it was loaded, and what is no longer found comes back only by one  *)
(* (compact).                                                              *)
THEOREM ReturnsFromPlans == MemorySpec => ReturnsOnlyFromPlans
<1>1. MemoryIInv /\ [MemoryNext]_mvars => [FromPlans]_mvars
  BY NextReturns
<1> QED
  BY <1>1, MemoryIInvAlways, PTL DEF MemorySpec, ReturnsOnlyFromPlans, FromPlans

-----------------------------------------------------------------------------
(* What a plan says of its rows stays true until another one is applied.   *)
PlansAreCurrent ==
    \A c \in Compactors \ overtaken : plan[c] # NoPlan =>
        \A m \in DOMAIN plan[c].rows \cap DOMAIN memories :
            /\ memories[m].topic = plan[c].rows[m].topic
            /\ memories[m].holds = plan[c].rows[m].holds

HIInv == MemoryIInv /\ PlansAreCurrent

LEMMA NextCurrent == MemoryIInv /\ PlansAreCurrent /\ [HNext]_hvars => PlansAreCurrent'
<1> SUFFICES ASSUME MemoryIInv, PlansAreCurrent, [HNext]_hvars PROVE PlansAreCurrent'
  OBVIOUS
<1>1. CASE Undisturbed /\ UNCHANGED <<plan, overtaken>>
  BY <1>1 DEF Undisturbed, PlansAreCurrent
<1>2. ASSUME NEW topic \in Topics, NEW weak \in BOOLEAN, Store(topic, weak), UNCHANGED overtaken
      PROVE  PlansAreCurrent'
  <2>1. Stored(topic, weak)
    BY <1>2, StoreRows
  <2>2. \A c \in Compactors : plan[c] # NoPlan => made + 1 \notin DOMAIN plan[c].rows
    BY DEF MemoryIInv, MemoryTypeOK, PlansHoldOriginals
  <2> QED
    BY <1>2, <2>1, <2>2 DEF Stored, PlansAreCurrent
<1>3. ASSUME NEW c \in Compactors, HLoad(c) PROVE PlansAreCurrent'
  <2>1. Undisturbed /\ memories' = Purged
    BY <1>3, RestrictUndisturbed DEF HLoad, Load, Purged, MemoryIInv
  <2>2. /\ \A d \in Compactors \ {c} : plan'[d] = plan[d]
        /\ plan'[c].rows = [m \in Active(Purged) |-> [topic |-> Purged[m].topic,
                                                      holds |-> Purged[m].holds]]
    BY <1>3 DEF HLoad, Load, MemoryIInv, MemoryFunctions
  <2>3. overtaken' = overtaken \ {c}
    BY <1>3 DEF HLoad
  <2> SUFFICES ASSUME NEW d \in Compactors \ overtaken', plan'[d] # NoPlan,
                      NEW m \in DOMAIN plan'[d].rows \cap DOMAIN memories'
               PROVE  /\ memories'[m].topic = plan'[d].rows[m].topic
                      /\ memories'[m].holds = plan'[d].rows[m].holds
    BY DEF PlansAreCurrent
  <2>4. CASE d = c
    BY <2>1, <2>2, <2>4
  <2>5. CASE d # c
    BY <2>1, <2>2, <2>3, <2>5 DEF PlansAreCurrent, Undisturbed
  <2> QED
    BY <2>4, <2>5
<1>4. ASSUME NEW c \in Compactors, HApply(c) PROVE PlansAreCurrent'
  BY <1>4 DEF HApply, PlansAreCurrent
<1>5. ASSUME NEW c \in Compactors, HDrop(c) PROVE PlansAreCurrent'
  <2>1. /\ plan' = [d \in Compactors |-> IF d = c THEN NoPlan ELSE plan[d]]
        /\ UNCHANGED memories /\ overtaken' = overtaken \ {c}
    BY <1>5 DEF HDrop, Drop, MemoryIInv, MemoryFunctions
  <2> QED
    BY <2>1 DEF PlansAreCurrent
<1>6. CASE /\ \/ \E m \in MemoryIds : Forget(m) \/ Expire(m)
              \/ \E ids \in SUBSET MemoryIds : Decay(ids)
              \/ LookUp \/ Age
           /\ UNCHANGED overtaken
  <2>1. Undisturbed
    BY <1>6, ClientUndisturbed DEF MemoryIInv
  <2>2. UNCHANGED plan
    BY <1>6, ClientFrame DEF MemoryIInv
  <2> QED
    BY <1>1, <1>6, <2>1, <2>2
<1>7. CASE UNCHANGED hvars
  BY <1>7 DEF hvars, PlansAreCurrent
<1> QED
  BY <1>2, <1>3, <1>4, <1>5, <1>6, <1>7 DEF HNext, ClientStep

LEMMA ApplyKeeps ==
    ASSUME HIInv, NEW c \in Compactors \ overtaken, Apply(c)
    PROVE  Findable \subseteq Findable' \cup Orphaned(plan[c])
<1> DEFINE p == plan[c]
<1>1. p # NoPlan /\ Applied(p) /\ MemoryIInv
  BY ApplyRows DEF Apply, HIInv
<1>2. Sources(p) \cup Kept(p) \subseteq DOMAIN p.rows
  BY <1>1, TouchedAreInPlan
<1>3. \A m \in DOMAIN p.rows \cap DOMAIN memories :
         memories[m].topic = p.rows[m].topic /\ memories[m].holds = p.rows[m].holds
  BY <1>1 DEF HIInv, PlansAreCurrent
<1>4. ASSUME NEW t \in Merges(p), NEW x \in MergedContents(p, t), Keeper(p, t) \in DOMAIN memories
      PROVE  x \in Findable'
  <2> DEFINE k == Keeper(p, t)
  <2>1. k \in Kept(p) /\ k \in Group(p, t)
    BY <1>1, KeeperInGroup DEF Kept
  <2>2. memories[k].topic = t
    BY <1>3, <1>4, <2>1 DEF Group
  <2>3. memories'[k].status = "active" /\ memories'[k].holds = MergedContents(p, t) /\ k \in DOMAIN memories'
    BY <1>1, <1>4, <2>1, <2>2 DEF Applied
  <2> QED
    BY <1>4, <2>3 DEF Findable
<1> SUFFICES ASSUME NEW m \in DOMAIN memories, memories[m].status # "archived",
                    NEW x \in memories[m].holds, x \notin Orphaned(p)
             PROVE  x \in Findable'
  BY DEF Findable
<1>5. CASE m \notin Sources(p) \cup Kept(p)
  <2>1. memories'[m] = memories[m] /\ m \in DOMAIN memories'
    BY <1>1, <1>5 DEF Applied
  <2> QED
    BY <2>1 DEF Findable
<1>6. ASSUME NEW t \in Merges(p), m \in Group(p, t) PROVE x \in Findable'
  <2>1. x \in MergedContents(p, t)
    BY <1>3, <1>6 DEF MergedContents, Contents, Group
  <2>2. Keeper(p, t) \in DOMAIN memories
    BY <1>6, <2>1 DEF Orphaned, MergedContents
  <2> QED
    BY <1>4, <2>1, <2>2
<1>7. CASE m \in Kept(p)
  BY <1>1, <1>6, <1>7, KeeperInGroup DEF Kept
<1>8. CASE m \in p.stale
  <2> DEFINE t == p.rows[m].topic
             id == DistilledId(p, t)
  <2>1. m \in DOMAIN p.rows /\ t \in Topics
    BY <1>1, <1>8, PlanShape
  <2>2. m \in Cluster(p, t) /\ t \in Clusters(p)
    BY <1>8, <2>1 DEF Cluster, Group, Clusters
  <2>3. x \in Contents(p, Cluster(p, t))
    BY <1>3, <2>1, <2>2 DEF Contents
  <2>4. id \in DOMAIN memories' /\ memories'[id].status = "distilled"
        /\ memories'[id].holds = Contents(p, Cluster(p, t))
    BY <1>1, <2>2 DEF Applied, DistilledIds
  <2> QED
    BY <2>3, <2>4 DEF Findable
<1> QED
  BY <1>5, <1>6, <1>7, <1>8 DEF Sources

(* For any number of compactors and whatever clients do in between, a plan *)
(* that no other one overtook takes nothing out of the reach of search but *)
(* the groups whose newest memory is gone (compact, select_merges).        *)
THEOREM CompactionKeeps == HSpec => CompactionKeepsContents
<1>1. HInit => HIInv
  <2>1. HInit => PlansAreCurrent
    BY DEF HInit, MemoryInit, PlansAreCurrent
  <2> QED
    BY <2>1, InitMemory DEF HInit, HIInv
<1>2. HIInv /\ [HNext]_hvars => HIInv'
  <2>1. [HNext]_hvars => [MemoryNext]_mvars
    BY DEF HNext, hvars, mvars, ClientStep, HLoad, HApply, HDrop, MemoryNext
  <2> QED
    BY <2>1, NextMemory, NextCurrent DEF HIInv
<1>3. HIInv => \A c \in Compactors \ overtaken :
                  Apply(c) => Findable \subseteq Findable' \cup Orphaned(plan[c])
  BY ApplyKeeps
<1> QED
  BY <1>1, <1>2, <1>3, PTL DEF HSpec, CompactionKeepsContents

-----------------------------------------------------------------------------
(* Recorded costs, for any days and amounts.  What the daily roll-up holds  *)
(* are sums over sets of rows, so that one row more changes each by that   *)
(* row's cost.                                                             *)

CostOf(rows) == [i \in DOMAIN rows |-> rows[i].cost]

LEMMA RowSums ==
    ASSUME CostAssumption, NEW rows \in Seq(Record), NEW ids \in SUBSET DOMAIN rows
    PROVE  /\ IsFiniteSet(ids) /\ \A i \in ids : CostOf(rows)[i] \in Nat
           /\ Sum(rows, ids) = SumFunctionOnSet(CostOf(rows), ids)
           /\ Sum(rows, ids) \in Nat
<1>1. DOMAIN rows = 1..Len(rows) /\ Len(rows) \in Nat /\ \A i \in DOMAIN rows : rows[i] \in Record
  OBVIOUS
<1>2. IsFiniteSet(1..Len(rows))
  BY <1>1, FS_Interval
<1>3. IsFiniteSet(ids)
  BY <1>1, <1>2, FS_Subset
<1>4. \A i \in ids : CostOf(rows)[i] \in Nat
  BY <1>1 DEF CostOf, Record, CostAssumption
<1>5. Sum(rows, ids) = SumFunctionOnSet(CostOf(rows), ids)
  BY DEF Sum, CostOf
<1> QED
  BY <1>3, <1>4, <1>5, SumOfNaturals

(* One more row. *)
LEMMA RowAdded ==
    ASSUME CostAssumption, NEW rows \in Seq(Record), NEW r \in Record,
           NEW ids \in SUBSET DOMAIN rows
    PROVE  LET n == Len(rows) + 1  more == Append(rows, r) IN
           /\ more \in Seq(Record) /\ n \in DOMAIN more /\ ids \in SUBSET DOMAIN more
           /\ r.cost \in Nat
           /\ Sum(more, ids) = Sum(rows, ids)
           /\ Sum(more, ids \cup {n}) = Sum(rows, ids) + r.cost
<1> DEFINE n == Len(rows) + 1
           more == Append(rows, r)
<1>1. /\ more \in Seq(Record) /\ DOMAIN more = 1..n /\ DOMAIN rows = 1..Len(rows) /\ Len(rows) \in Nat
      /\ more[n] = r /\ \A i \in DOMAIN rows : more[i] = rows[i]
  OBVIOUS
<1>2. ids \in SUBSET DOMAIN more /\ n \in DOMAIN more /\ n \notin ids /\ ids \cup {n} \in SUBSET DOMAIN more
  BY <1>1
<1>3. r.cost \in Nat /\ CostOf(more)[n] = r.cost /\ \A i \in ids : CostOf(more)[i] = CostOf(rows)[i]
  BY <1>1, <1>2 DEF CostOf, Record, CostAssumption
<1> HIDE DEF n, more
<1>4. Sum(more, ids) = Sum(rows, ids)
  BY <1>1, <1>2, <1>3, RowSums, SameSum
<1>5. /\ IsFiniteSet(ids) /\ \A i \in ids \cup {n} : CostOf(more)[i] \in Int
      /\ Sum(more, ids \cup {n}) = SumFunctionOnSet(CostOf(more), ids \cup {n})
      /\ Sum(more, ids) = SumFunctionOnSet(CostOf(more), ids)
  <2>1. /\ \A i \in ids \cup {n} : CostOf(more)[i] \in Nat
        /\ Sum(more, ids \cup {n}) = SumFunctionOnSet(CostOf(more), ids \cup {n})
    BY <1>1, <1>2, RowSums
  <2>2. IsFiniteSet(ids) /\ Sum(more, ids) = SumFunctionOnSet(CostOf(more), ids)
    BY <1>1, <1>2, RowSums
  <2> QED
    BY <2>1, <2>2
<1>6. Sum(more, ids \cup {n}) = Sum(more, ids) + CostOf(more)[n]
  BY <1>2, <1>5, AddElement
<1> QED
  BY <1>1, <1>2, <1>3, <1>4, <1>6 DEF n, more

LEMMA DayGrows ==
    ASSUME NEW rows \in Seq(Record), NEW r \in Record, NEW d \in Dates
    PROVE  /\ OfDay(rows, d) \in SUBSET DOMAIN rows
           /\ OfDay(Append(rows, r), d) = IF r.day = d THEN OfDay(rows, d) \cup {Len(rows) + 1}
                                                       ELSE OfDay(rows, d)
<1>1. /\ DOMAIN Append(rows, r) = 1..(Len(rows) + 1) /\ DOMAIN rows = 1..Len(rows) /\ Len(rows) \in Nat
      /\ Append(rows, r)[Len(rows) + 1] = r /\ \A i \in DOMAIN rows : Append(rows, r)[i] = rows[i]
  OBVIOUS
<1> DEFINE more == Append(rows, r)
<1> HIDE DEF more
<1> QED
  BY <1>1 DEF OfDay, more

-----------------------------------------------------------------------------
(* Rollups.  What a job has read was true when it read it, and the rows of *)
(* a day only become more.  Exports.  Unless a reset came between, the     *)
(* records that a job has counted or copied are among those that are kept. *)
JobStates ==
    {AtRest} \cup [doing : {"rollup"}, totals : [Dates -> Int]]
             \cup [doing : {"summary"}, calls : 0..MaxKept, reset : BOOLEAN]
             \cup [doing : {"copy"}, calls : 0..MaxKept, records : 0..MaxKept, reset : BOOLEAN]

Truthful(s) ==
    /\ s.doing = "rollup" => \A d \in Dates : s.totals[d] <= Totals(log)[d]
    /\ s.doing = "summary" => s.calls <= kept \/ s.reset
    /\ s.doing = "copy" => s.calls <= s.records \/ s.reset

CostIInv ==
    /\ CostTypeOK /\ job \in [Jobs -> JobStates] /\ \A j \in Jobs : Truthful(job[j])
    /\ RollupNeverOverstates /\ ExportsListWhatTheyCount

LEMMA TotalsGrow ==
    ASSUME CostAssumption, NEW rows \in Seq(Record), NEW r \in Record, NEW d \in Dates
    PROVE  /\ Totals(rows)[d] \in Int /\ Totals(Append(rows, r))[d] \in Int
           /\ Totals(rows)[d] <= Totals(Append(rows, r))[d]
<1> DEFINE more == Append(rows, r)
<1>1. OfDay(rows, d) \in SUBSET DOMAIN rows
  BY DayGrows
<1>2. /\ more \in Seq(Record) /\ r.cost \in Nat /\ Sum(rows, OfDay(rows, d)) \in Nat
      /\ Sum(more, OfDay(rows, d)) = Sum(rows, OfDay(rows, d))
      /\ Sum(more, OfDay(rows, d) \cup {Len(rows) + 1}) = Sum(rows, OfDay(rows, d)) + r.cost
  BY <1>1, RowSums, RowAdded
<1>3. /\ Totals(rows)[d] = (IF OfDay(rows, d) = {} THEN -1 ELSE Sum(rows, OfDay(rows, d)))
      /\ Totals(more)[d] = (IF OfDay(more, d) = {} THEN -1 ELSE Sum(more, OfDay(more, d)))
  BY DEF Totals, None
<1>4. OfDay(more, d) = IF r.day = d THEN OfDay(rows, d) \cup {Len(rows) + 1} ELSE OfDay(rows, d)
  BY DayGrows
<1> DEFINE before == Sum(rows, OfDay(rows, d))
           after == Sum(more, OfDay(more, d))
<1>5. before \in Nat /\ after \in Nat /\ before <= after
  BY <1>2, <1>4
<1>6. OfDay(rows, d) \subseteq OfDay(more, d)
  BY <1>4
<1> HIDE DEF more, before, after
<1>7. /\ Totals(rows)[d] = (IF OfDay(rows, d) = {} THEN -1 ELSE before)
      /\ Totals(more)[d] = (IF OfDay(more, d) = {} THEN -1 ELSE after)
  BY <1>3 DEF before, after
<1>8. /\ Totals(rows)[d] \in Int /\ Totals(more)[d] \in Int
      /\ Totals(rows)[d] <= Totals(more)[d]
  BY <1>5, <1>6, <1>7
<1> QED
  BY <1>8 DEF more

LEMMA TotalsType ==
    ASSUME CostAssumption, NEW rows \in Seq(Record)
    PROVE  Totals(rows) \in [Dates -> Int] /\ \A d \in Dates : Totals(rows)[d] >= None
<1>1. ASSUME NEW d \in Dates
      PROVE  (IF OfDay(rows, d) = {} THEN None ELSE Sum(rows, OfDay(rows, d))) \in Int
             /\ (IF OfDay(rows, d) = {} THEN None ELSE Sum(rows, OfDay(rows, d))) >= None
  <2>1. OfDay(rows, d) \in SUBSET DOMAIN rows
    BY DEF OfDay
  <2>2. Sum(rows, OfDay(rows, d)) \in Nat
    BY <2>1, RowSums
  <2> QED
    BY <2>2 DEF None
<1> QED
  BY <1>1 DEF Totals

LEMMA InitCost == ASSUME CostAssumption, CostInit PROVE CostIInv
<1> USE DEF CostInit
<1>1. log \in Seq(Record) /\ Dates \subseteq Int /\ 1 \in Dates
  BY DEF CostAssumption, Dates
<1>2. CostTypeOK
  BY <1>1 DEF CostTypeOK, CostAssumption, None, AtRest, NoFile
<1>3. job \in [Jobs -> JobStates] /\ \A j \in Jobs : Truthful(job[j])
  BY DEF JobStates, Truthful, AtRest
<1>4. RollupNeverOverstates
  BY <1>1, TotalsType DEF RollupNeverOverstates
<1>5. exported.calls = 0 /\ exported.records = 0
  BY DEF NoFile
<1>6. ExportsListWhatTheyCount
  BY <1>5 DEF ExportsListWhatTheyCount
<1> QED
  BY <1>2, <1>3, <1>4, <1>6 DEF CostIInv

LEMMA JobTypes ==
    ASSUME CostIInv, NEW j \in Jobs
    PROVE  /\ job[j] \in JobStates /\ Truthful(job[j])
           /\ job[j].doing \in {"nothing", "rollup", "summary", "copy"}
           /\ job[j].doing = "rollup" => job[j].totals \in [Dates -> Int]
           /\ job[j].doing \in {"summary", "copy"} => job[j].calls \in 0..MaxKept /\ job[j].reset \in BOOLEAN
           /\ job[j].doing = "copy" => job[j].records \in 0..MaxKept
<1>1. job[j] \in JobStates /\ Truthful(job[j])
  BY DEF CostIInv
<1> QED
  BY <1>1 DEF JobStates, AtRest

LEMMA RecordRequestKeeps ==
    ASSUME CostAssumption, CostIInv, NEW cost \in Amounts, RecordRequest(cost)
    PROVE  CostIInv'
<1> DEFINE r == [day |-> today, cost |-> cost]
<1>1. r \in Record /\ log \in Seq(Record) /\ log' = Append(log, r)
  BY DEF RecordRequest, Record, CostIInv, CostTypeOK
<1> HIDE DEF r
<1>2. log' \in Seq(Record)
  BY <1>1
<1>3. \A d \in Dates : /\ Totals(log)[d] \in Int /\ Totals(log')[d] \in Int
                       /\ Totals(log)[d] <= Totals(log')[d]
  BY <1>1, TotalsGrow
<1>4. CostTypeOK' /\ ExportsListWhatTheyCount'
  BY <1>2 DEF CostIInv, CostTypeOK, RecordRequest, ExportsListWhatTheyCount
<1>5. job' \in [Jobs -> JobStates]
  BY DEF CostIInv, RecordRequest
<1>6. RollupNeverOverstates'
  BY <1>3 DEF CostIInv, CostTypeOK, RollupNeverOverstates, RecordRequest
<1>7. ASSUME NEW j \in Jobs
      PROVE  Truthful(job[j])'
  <2>1. Truthful(job[j])
    BY JobTypes
  <2>2. ASSUME job[j].doing = "rollup", NEW d \in Dates
        PROVE  job[j].totals[d] <= Totals(log')[d]
    <3>1. job[j].totals[d] \in Int
      BY <2>2, JobTypes
    <3> QED
      BY <1>3, <2>1, <2>2, <3>1 DEF Truthful
  <2>3. job' = job /\ kept' = kept
    BY DEF RecordRequest
  <2> QED
    BY <2>1, <2>2, <2>3 DEF Truthful
<1> QED
  BY <1>4, <1>5, <1>6, <1>7 DEF CostIInv

(* A job goes from one state to another. *)
LEMMA JobGoes ==
    ASSUME CostIInv, NEW j \in Jobs, NEW state \in JobStates, job' = [job EXCEPT ![j] = state],
           UNCHANGED <<log, kept>>, Truthful(state)
    PROVE  /\ job' \in [Jobs -> JobStates] /\ (\A k \in Jobs : Truthful(job[k]))'
           /\ \A k \in Jobs : job'[k].doing \in {"nothing", "rollup", "summary", "copy"}
<1>1. job' \in [Jobs -> JobStates] /\ \A k \in Jobs : job'[k] = IF k = j THEN state ELSE job[k]
  BY DEF CostIInv
<1>2. state.doing \in {"nothing", "rollup", "summary", "copy"}
  BY DEF JobStates, AtRest
<1>3. \A k \in Jobs : job'[k].doing \in {"nothing", "rollup", "summary", "copy"}
  BY <1>1, <1>2, JobTypes
<1>4. \A k \in Jobs : Truthful(job'[k])
  BY <1>1 DEF CostIInv
<1>5. (\A k \in Jobs : Truthful(job[k]))'
  BY <1>4 DEF Truthful
<1> QED
  BY <1>1, <1>3, <1>5

LEMMA RollupReadsKeeps ==
    ASSUME CostAssumption, CostIInv, NEW j \in Jobs, RollupReads(j) PROVE CostIInv'
<1> DEFINE state == [doing |-> "rollup", totals |-> Totals(log)]
<1>1. Totals(log) \in [Dates -> Int]
  BY TotalsType DEF CostIInv, CostTypeOK
<1>2. state \in JobStates /\ Truthful(state)
  BY <1>1 DEF JobStates, Truthful
<1>3. job' = [job EXCEPT ![j] = state] /\ UNCHANGED <<today, log, rollup, kept, exported>>
  BY DEF RollupReads
<1> HIDE DEF state
<1>4. /\ job' \in [Jobs -> JobStates] /\ (\A k \in Jobs : Truthful(job[k]))'
      /\ \A k \in Jobs : job'[k].doing \in {"nothing", "rollup", "summary", "copy"}
  BY <1>2, <1>3, JobGoes
<1> QED
  BY <1>3, <1>4 DEF CostIInv, CostTypeOK, RollupNeverOverstates, ExportsListWhatTheyCount

LEMMA RestIsTruthful == AtRest \in JobStates /\ Truthful(AtRest)
BY DEF AtRest, JobStates, Truthful

LEMMA RollupWritesKeeps ==
    ASSUME CostAssumption, CostIInv, NEW j \in Jobs, RollupWrites(j) PROVE CostIInv'
<1>1. /\ job' \in [Jobs -> JobStates] /\ (\A k \in Jobs : Truthful(job[k]))'
      /\ \A k \in Jobs : job'[k].doing \in {"nothing", "rollup", "summary", "copy"}
  BY RestIsTruthful, JobGoes DEF RollupWrites
<1>2. /\ job[j].doing = "rollup" /\ job[j].totals \in [Dates -> Int]
      /\ \A d \in Dates : job[j].totals[d] <= Totals(log)[d]
  BY JobTypes DEF RollupWrites, Truthful
<1>3. rollup' \in [Dates -> Int] /\ RollupNeverOverstates'
  BY <1>2 DEF RollupWrites, CostIInv, CostTypeOK, RollupNeverOverstates
<1>4. CostTypeOK' /\ ExportsListWhatTheyCount'
  BY <1>1, <1>3 DEF RollupWrites, CostIInv, CostTypeOK, ExportsListWhatTheyCount
<1> QED
  BY <1>1, <1>3, <1>4 DEF CostIInv

LEMMA ExportSummaryKeeps ==
    ASSUME CostAssumption, CostIInv, NEW j \in Jobs, ExportSummary(j) PROVE CostIInv'
<1> DEFINE state == [doing |-> "summary", calls |-> kept, reset |-> FALSE]
<1>1. kept \in 0..MaxKept /\ kept \in Int
  BY DEF CostIInv, CostTypeOK
<1>2. state \in JobStates /\ Truthful(state)
  BY <1>1 DEF JobStates, Truthful
<1>3. job' = [job EXCEPT ![j] = state] /\ UNCHANGED <<today, log, rollup, kept, exported>>
  BY DEF ExportSummary
<1> HIDE DEF state
<1>4. /\ job' \in [Jobs -> JobStates] /\ (\A k \in Jobs : Truthful(job[k]))'
      /\ \A k \in Jobs : job'[k].doing \in {"nothing", "rollup", "summary", "copy"}
  BY <1>2, <1>3, JobGoes
<1> QED
  BY <1>3, <1>4 DEF CostIInv, CostTypeOK, RollupNeverOverstates, ExportsListWhatTheyCount

LEMMA ExportCopiesKeeps ==
    ASSUME CostAssumption, CostIInv, NEW j \in Jobs, ExportCopies(j) PROVE CostIInv'
<1> DEFINE state == [doing |-> "copy", calls |-> job[j].calls, records |-> kept, reset |-> job[j].reset]
<1>1. /\ kept \in 0..MaxKept /\ job[j].calls \in 0..MaxKept /\ job[j].reset \in BOOLEAN
      /\ job[j].calls <= kept \/ job[j].reset
  BY JobTypes DEF ExportCopies, Truthful, CostIInv, CostTypeOK
<1>2. state \in JobStates
  BY <1>1 DEF JobStates
<1>3. state.doing = "copy" /\ state.calls = job[j].calls /\ state.records = kept /\ state.reset = job[j].reset
  OBVIOUS
<1>4. job' = [job EXCEPT ![j] = state] /\ UNCHANGED <<today, log, rollup, kept, exported>>
  BY DEF ExportCopies
<1> HIDE DEF state
<1>5. Truthful(state)
  <2>1. state.calls <= state.records \/ state.reset
    BY <1>1, <1>3, Zenon
  <2> QED
    BY <1>3, <2>1 DEF Truthful
<1>6. /\ job' \in [Jobs -> JobStates] /\ (\A k \in Jobs : Truthful(job[k]))'
      /\ \A k \in Jobs : job'[k].doing \in {"nothing", "rollup", "summary", "copy"}
  BY <1>2, <1>4, <1>5, JobGoes
<1> QED
  BY <1>4, <1>6 DEF CostIInv, CostTypeOK, RollupNeverOverstates, ExportsListWhatTheyCount

LEMMA ExportWritesKeeps ==
    ASSUME CostAssumption, CostIInv, NEW j \in Jobs, ExportWrites(j) PROVE CostIInv'
<1>1. /\ job' \in [Jobs -> JobStates] /\ (\A k \in Jobs : Truthful(job[k]))'
      /\ \A k \in Jobs : job'[k].doing \in {"nothing", "rollup", "summary", "copy"}
  BY RestIsTruthful, JobGoes DEF ExportWrites
<1>2. /\ job[j].calls \in 0..MaxKept /\ job[j].records \in 0..MaxKept /\ job[j].reset \in BOOLEAN
      /\ job[j].calls <= job[j].records \/ job[j].reset
  BY JobTypes DEF ExportWrites, Truthful
<1>3. exported' = [calls |-> job[j].calls, records |-> job[j].records, reset |-> job[j].reset]
  BY DEF ExportWrites
<1>4. exported' \in [calls : 0..MaxKept, records : 0..MaxKept, reset : BOOLEAN]
  BY <1>2, <1>3
<1>5. ExportsListWhatTheyCount'
  <2>1. exported'.calls = job[j].calls /\ exported'.records = job[j].records /\ exported'.reset = job[j].reset
    BY <1>3
  <2>2. exported'.calls <= exported'.records \/ exported'.reset
    BY <1>2, <2>1, Zenon
  <2> QED
    BY <2>2 DEF ExportsListWhatTheyCount
<1> QED
  BY <1>1, <1>4, <1>5 DEF ExportWrites, CostIInv, CostTypeOK, RollupNeverOverstates

LEMMA KeepKeeps == ASSUME CostAssumption, CostIInv, Keep PROVE CostIInv'
<1>1. kept \in 0..MaxKept /\ kept' = kept + 1 /\ kept' \in 0..MaxKept
  BY DEF Keep, CostIInv, CostTypeOK, CostAssumption
<1>2. ASSUME NEW j \in Jobs
      PROVE  Truthful(job[j])'
  <2>1. job' = job /\ log' = log /\ Truthful(job[j])
    BY JobTypes DEF Keep
  <2>2. ASSUME job[j].doing = "summary", ~job[j].reset
        PROVE  job[j].calls <= kept'
    <3>1. job[j].calls \in 0..MaxKept /\ job[j].calls <= kept
      BY <2>1, <2>2, JobTypes DEF Truthful
    <3> QED
      BY <1>1, <3>1
  <2> QED
    BY <2>1, <2>2 DEF Truthful
<1> QED
  BY <1>1, <1>2 DEF Keep, CostIInv, CostTypeOK, RollupNeverOverstates, ExportsListWhatTheyCount

LEMMA ResetKeeps == ASSUME CostAssumption, CostIInv, Reset PROVE CostIInv'
<1>1. ASSUME NEW j \in Jobs, job[j].doing = "summary"
      PROVE  /\ [job[j] EXCEPT !.reset = TRUE] \in JobStates
             /\ [job[j] EXCEPT !.reset = TRUE].doing = "summary"
             /\ [job[j] EXCEPT !.reset = TRUE].reset
  <2>1. job[j] \in [doing : {"summary"}, calls : 0..MaxKept, reset : BOOLEAN]
    BY <1>1, JobTypes DEF JobStates, AtRest
  <2>2. [job[j] EXCEPT !.reset = TRUE] \in [doing : {"summary"}, calls : 0..MaxKept, reset : BOOLEAN]
    BY <2>1
  <2>3. [job[j] EXCEPT !.reset = TRUE].reset
    BY <2>1
  <2> QED
    BY <2>2, <2>3 DEF JobStates
<1>2. /\ job' \in [Jobs -> JobStates]
      /\ \A j \in Jobs : /\ job'[j].doing = job[j].doing
                         /\ job[j].doing = "summary" => job'[j].reset
                         /\ job[j].doing # "summary" => job'[j] = job[j]
  BY <1>1, JobTypes DEF Reset
<1>3. ASSUME NEW j \in Jobs
      PROVE  Truthful(job[j])'
  <2>1. Truthful(job[j]) /\ log' = log
    BY JobTypes DEF Reset
  <2>2. CASE job[j].doing = "summary"
    BY <1>2, <2>2 DEF Truthful
  <2>3. CASE job[j].doing # "summary"
    <3>1. job'[j] = job[j]
      BY <1>2, <2>3
    <3> QED
      BY <2>1, <2>3, <3>1 DEF Truthful
  <2> QED
    BY <2>2, <2>3
<1>4. CostTypeOK'
  BY <1>2, JobTypes DEF CostIInv, CostTypeOK, CostAssumption, Reset
<1>5. RollupNeverOverstates' /\ ExportsListWhatTheyCount'
  BY DEF CostIInv, RollupNeverOverstates, ExportsListWhatTheyCount, Reset
<1> QED
  BY <1>2, <1>3, <1>4, <1>5 DEF CostIInv

LEMMA NextCost == ASSUME CostAssumption, CostIInv, [CostNext]_lvars PROVE CostIInv'
<1>1. CASE NextDay
  <2>1. (\A j \in Jobs : Truthful(job[j]))'
    BY <1>1 DEF NextDay, CostIInv, Truthful
  <2> QED
    BY <1>1, <2>1 DEF NextDay, CostIInv, CostTypeOK, RollupNeverOverstates, ExportsListWhatTheyCount,
                      Dates, CostAssumption
<1>2. CASE UNCHANGED lvars
  <2>1. (\A j \in Jobs : Truthful(job[j]))'
    BY <1>2 DEF lvars, CostIInv, Truthful
  <2> QED
    BY <1>2, <2>1 DEF lvars, CostIInv, CostTypeOK, RollupNeverOverstates, ExportsListWhatTheyCount
<1> QED
  BY <1>1, <1>2, RecordRequestKeeps, RollupReadsKeeps, RollupWritesKeeps, ExportSummaryKeeps,
     ExportCopiesKeeps, ExportWritesKeeps, KeepKeeps, ResetKeeps DEF CostNext

(* Jobs hold totals that were those of the log, and exports hold records   *)
(* that are still kept (run_daily_rollup, export_json).                    *)
THEOREM CostIInvAlways == CostSpec => []CostIInv
<1>1. CostInit => CostIInv
  BY CostAssumption, InitCost
<1>2. CostIInv /\ [CostNext]_lvars => CostIInv'
  BY CostAssumption, NextCost
<1> QED
  BY <1>1, <1>2, PTL DEF CostSpec

(* Rows, rollup and exports have their types (cost_store.py,               *)
(* cost_tracker.py).                                                       *)
THEOREM CostTypeCorrect == CostSpec => []CostTypeOK
BY CostIInvAlways, PTL DEF CostIInv

(* However rollups overtake each other and the rows that arrive, no day is *)
(* shown to cost more than its rows do (run_daily_rollup).                 *)
THEOREM RollupStaysBelow == CostSpec => []RollupNeverOverstates
BY CostIInvAlways, PTL DEF CostIInv

(* However many threads record, reset and export, a file lists every call  *)
(* that it counts unless a reset came while it was put together            *)
(* (export_json).                                                          *)
THEOREM ExportsList == CostSpec => []ExportsListWhatTheyCount
BY CostIInvAlways, PTL DEF CostIInv
=============================================================================
