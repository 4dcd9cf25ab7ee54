--------------------------- MODULE Agents_proofs ----------------------------
(***************************************************************************)
(* What the control plane and the agents' code keep whatever the limits, the *)
(* users, the threads and the tasks: who decided what in a run, how far a  *)
(* team overspends, what a dead letter tells, that a fan-out leaves nobody *)
(* at work, when a message is queued, and what the status of a chain tells. *)
(* The parts share no state, so each has an invariant of its own.          *)
(***************************************************************************)
EXTENDS AgentRunsHistory, AgentTeam, AgentGuards, FanOut, MessageBus, Chains, TLAPS

-----------------------------------------------------------------------------
(* Agent runs, for any numbers of workers, users and steps.                *)

(* What a worker holds between its read and its write stays true of the    *)
(* history, whatever the others write meanwhile.                           *)
HeldReads ==
    \A w \in Workers :
        /\ op[w].call = "decide" => asked[op[w].step] \ {op[w].reviewer} # {}
        /\ op[w].call = "resume" /\ op[w].remaining = {} => wasDone

(* A pending request was made by somebody the history knows.               *)
RequestersAsked ==
    \A s \in Steps : checkpoint[s].state = "WAITING_APPROVAL" =>
                        checkpoint[s].requester \in asked[s]

DoneNoted == AllDone => wasDone

IInv == /\ HTypeOK
        /\ HeldReads /\ RequestersAsked /\ DoneNoted
        /\ ReviewerIffDecided /\ DecidedBySomebodyElse /\ CompletedOnceDone

-----------------------------------------------------------------------------
(* The rows and the calls the actions build have their types.              *)
LEMMA BuiltRows ==
    /\ NoRow \in Row /\ NoRow.state = "NONE" /\ NoRow.reviewer = Nobody
    /\ [state |-> "COMPLETED", requester |-> Nobody, reviewer |-> Nobody] \in Row
    /\ \A u \in Users :
          [state |-> "WAITING_APPROVAL", requester |-> u, reviewer |-> Nobody] \in Row
  BY DEF NoRow, Row, CheckpointStates, DoneStates, DecidedStates

LEMMA BuiltCalls ==
    /\ Idle \in Calls /\ Idle.call = "none"
    /\ \A s \in Steps, u \in Users, v \in DecidedStates :
          [call |-> "decide", step |-> s, reviewer |-> u, verdict |-> v] \in Calls
    /\ \A R \in SUBSET Steps : [call |-> "resume", remaining |-> R] \in Calls
  BY DEF Idle, Calls

(* A call in progress carries the fields its kind needs.                   *)
LEMMA HeldCalls ==
    ASSUME NEW c \in Calls
    PROVE  /\ c.call = "decide" =>
                 c.step \in Steps /\ c.reviewer \in Users /\ c.verdict \in DecidedStates
           /\ c.call = "resume" => c.remaining \in SUBSET Steps
  BY DEF Idle, Calls

-----------------------------------------------------------------------------
LEMMA InitIInv == HInit => IInv
<1> SUFFICES ASSUME HInit PROVE IInv
  OBVIOUS
<1> USE DEF HInit, Init
<1>1. HTypeOK
  BY BuiltRows, BuiltCalls DEF HTypeOK, TypeOK, RunStates
<1>2. HeldReads
  BY BuiltCalls DEF HeldReads
<1>3. \A s \in Steps : checkpoint[s].state = "NONE" /\ checkpoint[s].reviewer = Nobody
  BY BuiltRows
<1>4. RequestersAsked /\ ReviewerIffDecided /\ DecidedBySomebodyElse
  BY <1>3 DEF RequestersAsked, ReviewerIffDecided, DecidedBySomebodyElse, DecidedStates
<1>5. DoneNoted /\ CompletedOnceDone
  BY DEF DoneNoted, AllDone, Exists, CompletedOnceDone
<1> QED
  BY <1>1, <1>2, <1>4, <1>5 DEF IInv

(* The history of completion is the same for every action.                 *)
LEMMA NoteKeeps == ASSUME IInv, Note PROVE wasDone' \in BOOLEAN /\ DoneNoted' /\ (wasDone => wasDone')
  BY DEF IInv, HTypeOK, Note, DoneNoted

-----------------------------------------------------------------------------
LEMMA CreateRunKeeps ==
    ASSUME IInv, NEW steps \in SUBSET Steps, HCreateRun(steps) PROVE IInv'
<1> USE DEF HCreateRun, CreateRun, IInv
<1>1. HTypeOK'
  BY NoteKeeps DEF HTypeOK, TypeOK, RunStates
<1>2. HeldReads'
  BY NoteKeeps DEF HeldReads
<1>3. RequestersAsked' /\ ReviewerIffDecided' /\ DecidedBySomebodyElse'
  BY DEF RequestersAsked, ReviewerIffDecided, DecidedBySomebodyElse
<1>4. CompletedOnceDone'
  BY DEF CompletedOnceDone
<1> QED
  BY NoteKeeps, <1>1, <1>2, <1>3, <1>4

LEMMA CompleteStepKeeps ==
    ASSUME IInv, NEW w \in Workers, NEW s \in Steps, HCompleteStep(w, s) PROVE IInv'
<1> USE DEF HCompleteStep, CompleteStep, IInv
<1>0. checkpoint \in [Steps -> Row]
  BY DEF HTypeOK, TypeOK
<1>1. HTypeOK'
  BY NoteKeeps, BuiltRows DEF HTypeOK, TypeOK
<1>2. HeldReads'
  BY NoteKeeps DEF HeldReads
<1>3. /\ checkpoint'[s].state = "COMPLETED" /\ checkpoint'[s].reviewer = Nobody
      /\ \A t \in Steps \ {s} : checkpoint'[t] = checkpoint[t]
  BY <1>0
<1>4. RequestersAsked' /\ ReviewerIffDecided' /\ DecidedBySomebodyElse'
  BY <1>3 DEF RequestersAsked, ReviewerIffDecided, DecidedBySomebodyElse, DecidedStates
<1>5. CompletedOnceDone'
  BY NoteKeeps DEF CompletedOnceDone
<1> QED
  BY NoteKeeps, <1>1, <1>2, <1>4, <1>5

LEMMA RequestApprovalKeeps ==
    ASSUME IInv, NEW w \in Workers, NEW u \in Users, NEW s \in Steps, HRequestApproval(w, u, s)
    PROVE  IInv'
<1> USE DEF HRequestApproval, RequestApproval, IInv
<1>0. checkpoint \in [Steps -> Row] /\ asked \in [Steps -> SUBSET Users] /\ op \in [Workers -> Calls]
  BY DEF HTypeOK, TypeOK
<1>1. HTypeOK'
  BY NoteKeeps, BuiltRows DEF HTypeOK, TypeOK, RunStates
<1>a. /\ asked'[s] = asked[s] \cup {u}
      /\ \A t \in Steps : asked[t] \subseteq asked'[t]
  BY <1>0
<1>2. HeldReads'
  BY <1>0, <1>a, NoteKeeps, HeldCalls DEF HeldReads
<1>3. /\ checkpoint'[s].state = "WAITING_APPROVAL" /\ checkpoint'[s].reviewer = Nobody
      /\ checkpoint'[s].requester = u
      /\ \A t \in Steps \ {s} : checkpoint'[t] = checkpoint[t]
  BY <1>0
<1>4. RequestersAsked' /\ ReviewerIffDecided' /\ DecidedBySomebodyElse'
  BY <1>0, <1>a, <1>3 DEF RequestersAsked, ReviewerIffDecided, DecidedBySomebodyElse, DecidedStates
<1>5. CompletedOnceDone'
  BY <1>0 DEF CompletedOnceDone, HTypeOK, TypeOK
<1> QED
  BY NoteKeeps, <1>1, <1>2, <1>4, <1>5

LEMMA ReadApprovalKeeps ==
    ASSUME IInv, NEW w \in Workers, NEW u \in Users, NEW s \in Steps, NEW v \in DecidedStates,
           HReadApproval(w, u, s, v)
    PROVE  IInv'
<1> USE DEF HReadApproval, ReadApproval, IInv
<1>0. op \in [Workers -> Calls]
  BY DEF HTypeOK, TypeOK
<1>1. HTypeOK'
  BY NoteKeeps, BuiltCalls DEF HTypeOK, TypeOK, storeVars
<1>a. checkpoint[s].requester \in asked[s] \ {u}
  BY DEF RequestersAsked
<1>2. HeldReads'
  <2> SUFFICES ASSUME NEW x \in Workers
               PROVE  /\ op'[x].call = "decide" => asked'[op'[x].step] \ {op'[x].reviewer} # {}
                      /\ op'[x].call = "resume" /\ op'[x].remaining = {} => wasDone'
    BY DEF HeldReads
  <2>1. CASE x = w
    <3>1. op'[x] = [call |-> "decide", step |-> s, reviewer |-> u, verdict |-> v]
      BY <1>0, <2>1
    <3> QED
      BY <1>a, <3>1
  <2>2. CASE x # w
    BY <1>0, <2>2, NoteKeeps DEF HeldReads
  <2> QED
    BY <2>1, <2>2
<1>3. RequestersAsked' /\ ReviewerIffDecided' /\ DecidedBySomebodyElse' /\ CompletedOnceDone'
  BY NoteKeeps DEF RequestersAsked, ReviewerIffDecided, DecidedBySomebodyElse, CompletedOnceDone, storeVars
<1> QED
  BY NoteKeeps, <1>1, <1>2, <1>3

LEMMA WriteVerdictKeeps ==
    ASSUME AgentAssumption, IInv, NEW w \in Workers, HWriteVerdict(w) PROVE IInv'
<1> USE DEF HWriteVerdict, WriteVerdict, IInv
<1> DEFINE s == op[w].step
           row == [checkpoint[s] EXCEPT !.state = op[w].verdict, !.reviewer = op[w].reviewer]
<1>0. /\ checkpoint \in [Steps -> Row] /\ op \in [Workers -> Calls]
      /\ s \in Steps /\ op[w].reviewer \in Users /\ op[w].verdict \in DecidedStates
  BY HeldCalls DEF HTypeOK, TypeOK
<1>1. /\ row \in Row /\ row.state = op[w].verdict /\ row.reviewer = op[w].reviewer
      /\ row.requester = checkpoint[s].requester
  BY <1>0 DEF Row, CheckpointStates
<1>2. checkpoint' = [checkpoint EXCEPT ![s] = row]
  BY <1>0 DEF Row
<1>3. checkpoint'[s] = row /\ \A t \in Steps \ {s} : checkpoint'[t] = checkpoint[t]
  BY <1>0, <1>2
<1>4. HTypeOK'
  <2>1. checkpoint' \in [Steps -> Row] /\ op' \in [Workers -> Calls]
    BY <1>0, <1>1, <1>2, BuiltCalls
  <2>2. run' \in [state: RunStates, steps: SUBSET Steps]
    BY DEF HTypeOK, TypeOK, RunStates
  <2> QED
    BY <2>1, <2>2, NoteKeeps DEF HTypeOK, TypeOK
<1>5. HeldReads'
  <2> SUFFICES ASSUME NEW x \in Workers
               PROVE  /\ op'[x].call = "decide" => asked'[op'[x].step] \ {op'[x].reviewer} # {}
                      /\ op'[x].call = "resume" /\ op'[x].remaining = {} => wasDone'
    BY DEF HeldReads
  <2>1. CASE x = w
    BY <1>0, <2>1, BuiltCalls
  <2>2. CASE x # w
    BY <1>0, <2>2, NoteKeeps DEF HeldReads
  <2> QED
    BY <2>1, <2>2
<1>6. asked[s] \ {row.reviewer} # {}
  BY <1>1 DEF HeldReads
<1>7. row.reviewer # Nobody
  BY <1>0, <1>1 DEF AgentAssumption
<1> HIDE DEF s, row
<1>8. RequestersAsked' /\ ReviewerIffDecided' /\ DecidedBySomebodyElse'
  BY <1>0, <1>1, <1>3, <1>6, <1>7
     DEF RequestersAsked, ReviewerIffDecided, DecidedBySomebodyElse, DecidedStates
<1>9. CompletedOnceDone'
  BY DEF CompletedOnceDone, HTypeOK, TypeOK
<1> QED
  BY NoteKeeps, <1>4, <1>5, <1>8, <1>9

LEMMA ReadProgressKeeps ==
    ASSUME IInv, NEW w \in Workers, HReadProgress(w) PROVE IInv'
<1> USE DEF HReadProgress, ReadProgress, IInv
<1>0. op \in [Workers -> Calls] /\ run.steps \in SUBSET Steps /\ Remaining \in SUBSET Steps
  BY DEF HTypeOK, TypeOK, Remaining
<1>1. HTypeOK'
  BY <1>0, NoteKeeps, BuiltCalls DEF HTypeOK, TypeOK, storeVars
<1>2. HeldReads'
  <2> SUFFICES ASSUME NEW x \in Workers
               PROVE  /\ op'[x].call = "decide" => asked'[op'[x].step] \ {op'[x].reviewer} # {}
                      /\ op'[x].call = "resume" /\ op'[x].remaining = {} => wasDone'
    BY DEF HeldReads
  <2>1. CASE x = w
    <3>1. op'[x] = [call |-> "resume", remaining |-> Remaining]
      BY <1>0, <2>1
    <3> QED
      BY <3>1, NoteKeeps DEF DoneNoted, AllDone
  <2>2. CASE x # w
    BY <1>0, <2>2, NoteKeeps DEF HeldReads
  <2> QED
    BY <2>1, <2>2
<1>3. RequestersAsked' /\ ReviewerIffDecided' /\ DecidedBySomebodyElse' /\ CompletedOnceDone'
  BY NoteKeeps DEF RequestersAsked, ReviewerIffDecided, DecidedBySomebodyElse, CompletedOnceDone, storeVars
<1> QED
  BY NoteKeeps, <1>1, <1>2, <1>3

(* What a worker that goes idle leaves of the reads held by the others.    *)
LEMMA IdleKeepsReads ==
    ASSUME IInv, NEW w \in Workers, op' = [op EXCEPT ![w] = Idle], UNCHANGED asked, wasDone => wasDone'
    PROVE  HeldReads'
<1>0. op \in [Workers -> Calls]
  BY DEF IInv, HTypeOK, TypeOK
<1> SUFFICES ASSUME NEW x \in Workers
             PROVE  /\ op'[x].call = "decide" => asked'[op'[x].step] \ {op'[x].reviewer} # {}
                    /\ op'[x].call = "resume" /\ op'[x].remaining = {} => wasDone'
  BY DEF HeldReads
<1>1. CASE x = w
  BY <1>0, <1>1, BuiltCalls
<1>2. CASE x # w
  BY <1>0, <1>2 DEF IInv, HeldReads
<1> QED
  BY <1>1, <1>2

LEMMA WriteResumedKeeps ==
    ASSUME IInv, NEW w \in Workers, HWriteResumed(w) PROVE IInv'
<1> USE DEF HWriteResumed, WriteResumed, IInv
<1>1. HTypeOK'
  BY NoteKeeps, BuiltCalls DEF HTypeOK, TypeOK, RunStates
<1>2. HeldReads'
  BY NoteKeeps, IdleKeepsReads
<1>3. RequestersAsked' /\ ReviewerIffDecided' /\ DecidedBySomebodyElse'
  BY DEF RequestersAsked, ReviewerIffDecided, DecidedBySomebodyElse
<1>4. CompletedOnceDone'
  BY NoteKeeps DEF CompletedOnceDone, HeldReads, HTypeOK, TypeOK
<1> QED
  BY NoteKeeps, <1>1, <1>2, <1>3, <1>4

LEMMA AbortKeeps ==
    ASSUME IInv, NEW w \in Workers, HAbort(w) PROVE IInv'
<1> USE DEF HAbort, Abort, IInv, storeVars
<1>1. HTypeOK'
  BY NoteKeeps, BuiltCalls DEF HTypeOK, TypeOK
<1>2. HeldReads'
  BY NoteKeeps, IdleKeepsReads
<1>3. RequestersAsked' /\ ReviewerIffDecided' /\ DecidedBySomebodyElse' /\ CompletedOnceDone'
  BY NoteKeeps DEF RequestersAsked, ReviewerIffDecided, DecidedBySomebodyElse, CompletedOnceDone
<1> QED
  BY NoteKeeps, <1>1, <1>2, <1>3

-----------------------------------------------------------------------------
LEMMA NextIInv == ASSUME AgentAssumption, IInv, [HNext]_hvars PROVE IInv'
<1>1. CASE HNext
  BY <1>1, CreateRunKeeps, CompleteStepKeeps, RequestApprovalKeeps, ReadApprovalKeeps,
     WriteVerdictKeeps, ReadProgressKeeps, WriteResumedKeeps, AbortKeeps DEF HNext
<1>2. CASE UNCHANGED hvars
  BY <1>2 DEF hvars, IInv, HTypeOK, TypeOK, HeldReads, RequestersAsked, DoneNoted, AllDone, Exists,
     Remaining, Done, ReviewerIffDecided, DecidedBySomebodyElse, CompletedOnceDone
<1> QED
  BY <1>1, <1>2

(* What a worker has read stays true of the history (decide_agent_approval, *)
(* resume_agent_run).                                                      *)
THEOREM IInvAlways == HSpec => []IInv
<1>1. AgentAssumption /\ IInv /\ [HNext]_hvars => IInv'
  BY NextIInv
<1> QED
  BY AgentAssumption, InitIInv, <1>1, PTL DEF HSpec

(* Rows, run states and calls in progress have their types, for any number *)
(* of workers (control_plane.py, the agent run methods).                   *)
THEOREM AgentRunsTypeCorrect == HSpec => []HTypeOK
  BY IInvAlways, PTL DEF IInv

(* A row names a reviewer exactly when it holds a verdict, although the    *)
(* row may have been replaced since the decider read it.                   *)
THEOREM ReviewerCorrect == HSpec => []ReviewerIffDecided
  BY IInvAlways, PTL DEF IInv

(* Whoever decided a step is not the only one who ever asked for it,       *)
(* however many deciders and requesters overlap (decide_agent_approval).   *)
THEOREM DeciderCorrect == HSpec => []DecidedBySomebodyElse
  BY IInvAlways, PTL DEF IInv

(* A run becomes COMPLETED only after a moment at which every one of its   *)
(* steps was completed or approved (resume_agent_run).                     *)
THEOREM CompletionCorrect == HSpec => []CompletedOnceDone
  BY IInvAlways, PTL DEF IInv

-----------------------------------------------------------------------------
(* The team.  Between responses the loop knows more than the bound: before *)
(* the supervisor is asked, only the runs before this one have overrun the *)
(* limit, and a delegated turn is paid from a total still below it.        *)

Earlier(k) == TeamLimit + k * TopPrice

TeamInv ==
    /\ TeamTypeOK
    /\ loop.phase # "idle" => runs >= 1 /\ loop.round < MaxRounds
    /\ loop.phase = "idle" => team.total < Earlier(runs)
    /\ loop.phase = "supervise" => team.total < Earlier(runs - 1)
    /\ loop.phase = "dispatch" => team.total < TeamLimit /\ loop.worker \in Names
    /\ \A w \in Names : team.costs[w] < AgentLimit + TopPrice

LEMMA EarlierGrows ==
    ASSUME NEW k \in Nat
    PROVE  /\ Earlier(k) \in Nat /\ Earlier(k) >= TeamLimit
           /\ Earlier(k + 1) = Earlier(k) + TopPrice
           /\ k >= 1 => Earlier(k - 1) \in Nat /\ Earlier(k - 1) >= TeamLimit
                        /\ Earlier(k) = Earlier(k - 1) + TopPrice
<1>1. ASSUME NEW i \in Nat
      PROVE  i * TopPrice \in Nat /\ (i + 1) * TopPrice = i * TopPrice + TopPrice
  BY TeamAssumption
<1>2. ASSUME k >= 1
      PROVE  (k - 1) * TopPrice \in Nat /\ k * TopPrice = (k - 1) * TopPrice + TopPrice
  <2>1. k - 1 \in Nat /\ (k - 1) + 1 = k
    BY <1>2
  <2> QED
    BY <2>1, <1>1
<1> QED
  BY <1>1, <1>2, TeamAssumption DEF Earlier

LEMMA ChargedTeam ==
    ASSUME TeamTypeOK, NEW name \in Names \union {"supervisor"}, NEW price \in Prices
    PROVE  LET charged == Charged(name, price) IN
           /\ charged \in [agents : SUBSET Names, total : Nat,
                           costs : [Names \union {"supervisor"} -> Nat], turns : [Names -> Nat]]
           /\ charged.agents = team.agents
           /\ charged.total = team.total + price
           /\ charged.total <= team.total + TopPrice
           /\ charged.costs[name] <= team.costs[name] + TopPrice
           /\ \A w \in Names \ {name} : charged.costs[w] = team.costs[w]
<1>1. price \in Nat /\ price <= TopPrice /\ TopPrice \in Nat
  BY TeamAssumption
<1> DEFINE costs == [team.costs EXCEPT ![name] = @ + price]
<1>2. /\ costs \in [Names \union {"supervisor"} -> Nat] /\ costs[name] = team.costs[name] + price
      /\ costs[name] <= team.costs[name] + TopPrice
      /\ \A w \in Names \ {name} : costs[w] = team.costs[w]
  BY <1>1 DEF TeamTypeOK
<1>3. Charged(name, price) = [team EXCEPT !.total = @ + price, !.costs = costs]
  BY DEF Charged
<1> HIDE DEF costs
<1>4. team.total + price \in Nat
  BY <1>1 DEF TeamTypeOK
<1>5. Charged(name, price) \in [agents : SUBSET Names, total : Nat,
                              costs : [Names \union {"supervisor"} -> Nat], turns : [Names -> Nat]]
  BY <1>2, <1>3, <1>4 DEF TeamTypeOK
<1>6. /\ Charged(name, price).agents = team.agents
      /\ Charged(name, price).total = team.total + price
      /\ Charged(name, price).costs = costs
  BY <1>3 DEF TeamTypeOK
<1> QED
  BY <1>1, <1>2, <1>4, <1>5, <1>6 DEF TeamTypeOK

LEMMA InitTeamInv == TeamInit => TeamInv
<1> SUFFICES ASSUME TeamInit
             PROVE  TeamInv
  OBVIOUS
<1>1. TeamTypeOK
  BY TeamAssumption DEF TeamInit, TeamTypeOK, NoTeam, NotRunning
<1>2. team.total = 0 /\ (\A w \in Names : team.costs[w] = 0) /\ loop.phase = "idle" /\ runs = 0
  BY DEF TeamInit, NoTeam, NotRunning
<1>3. Earlier(0) \in Nat /\ Earlier(0) >= TeamLimit
  BY EarlierGrows
<1> QED
  BY <1>1, <1>2, <1>3, TeamAssumption DEF TeamInv

(* The loop stops: what is spent stays within the bound of its runs.       *)
LEMMA StopTeamInv ==
    ASSUME TeamInv, UNCHANGED <<workers, runs>>, loop' = NotRunning, TeamTypeOK',
           team'.total < Earlier(runs), \A w \in Names : team'.costs[w] < AgentLimit + TopPrice
    PROVE  TeamInv'
BY DEF TeamInv, NotRunning, Earlier

LEMMA TeamInvTotals ==
    ASSUME TeamInv
    PROVE  /\ team.total \in Nat /\ team.total < Earlier(runs) /\ runs \in Nat
           /\ \A w \in Names : team.costs[w] \in Nat
<1>1. team.total \in Nat /\ runs \in Nat /\ \A w \in Names : team.costs[w] \in Nat
  BY TeamAssumption DEF TeamInv, TeamTypeOK
<1>2. Earlier(runs) \in Nat /\ Earlier(runs) >= TeamLimit
      /\ (runs >= 1 => Earlier(runs - 1) \in Nat /\ Earlier(runs) = Earlier(runs - 1) + TopPrice)
  BY <1>1, EarlierGrows
<1>3. loop.phase \in {"idle", "supervise", "dispatch"}
  BY DEF TeamInv, TeamTypeOK
<1> QED
  BY <1>1, <1>2, <1>3, TeamAssumption DEF TeamInv

LEMMA RunTeamInv ==
    ASSUME TeamInv, Run
    PROVE  TeamInv'
<1>1. runs \in Nat /\ runs' = runs + 1 /\ runs' \in 0..MaxRuns
  BY TeamAssumption DEF Run, TeamInv, TeamTypeOK
<1>2. /\ team' \in [agents : SUBSET Names, total : Nat,
                    costs : [Names \union {"supervisor"} -> Nat], turns : [Names -> Nat]]
      /\ \/ team'.total = team.total /\ team'.costs = team.costs
         \/ team'.total = 0 /\ \A w \in Names : team'.costs[w] = 0
  <2>1. workers \subseteq Names /\ (team' = team \/ team' = NewTeam(workers))
    BY DEF Run, TeamInv, TeamTypeOK
  <2>2. CASE team' = team
    BY <2>2 DEF TeamInv, TeamTypeOK
  <2>3. CASE team' = NewTeam(workers)
    BY <2>1, <2>3 DEF NewTeam, NoTeam
  <2> QED
    BY <2>1, <2>2, <2>3
<1>3. loop'.phase = "supervise" /\ loop'.round = 0 /\ workers' = workers
      /\ loop' \in [phase : {"idle", "supervise", "dispatch"}, round : 0..MaxRounds,
                    worker : Names \union {"supervisor"}]
  BY TeamAssumption DEF Run
<1>4. TeamTypeOK'
  BY <1>1, <1>2, <1>3 DEF TeamInv, TeamTypeOK
<1>5. team'.total < Earlier(runs)
  BY <1>1, <1>2, TeamInvTotals, EarlierGrows, TeamAssumption
<1>6. Earlier(runs' - 1) = Earlier(runs)
  BY <1>1
<1>7. \A w \in Names : team'.costs[w] < AgentLimit + TopPrice
  BY <1>2, TeamAssumption DEF TeamInv
<1>8. Earlier(runs - 1)' = Earlier(runs' - 1)
  BY DEF Earlier
<1> QED
  BY <1>1, <1>3, <1>4, <1>5, <1>6, <1>7, <1>8, TeamAssumption DEF TeamInv

LEMMA SupervisorTeamInv ==
    ASSUME TeamInv, NEW price \in Prices, NEW next \in team.agents \union {"answer", "neither"},
           SupervisorResponds(price, next)
    PROVE  TeamInv'
<1>1. /\ runs \in Nat /\ runs >= 1 /\ loop.round < MaxRounds
      /\ team.total \in Nat /\ team.total < Earlier(runs - 1) /\ team.agents \subseteq Names
  BY TeamInvTotals DEF SupervisorResponds, TeamInv, TeamTypeOK
<1>2. /\ team' \in [agents : SUBSET Names, total : Nat,
                    costs : [Names \union {"supervisor"} -> Nat], turns : [Names -> Nat]]
      /\ team'.total <= team.total + TopPrice
      /\ \A w \in Names : team'.costs[w] = team.costs[w]
  <2>1. "supervisor" \in Names \union {"supervisor"} /\ Names \ {"supervisor"} = Names
    BY TeamAssumption
  <2>2. team' = Charged("supervisor", price) /\ TeamTypeOK
    BY DEF SupervisorResponds, TeamInv
  <2> QED
    BY <2>1, <2>2, ChargedTeam
<1>3. team'.total < Earlier(runs)
  BY <1>1, <1>2, EarlierGrows, TeamAssumption
<1>4. CASE loop' = NotRunning
  <2>1. TeamTypeOK'
    BY <1>2, <1>4, TeamAssumption DEF SupervisorResponds, TeamInv, TeamTypeOK, NotRunning
  <2> QED
    BY <1>2, <1>3, <1>4, <2>1, StopTeamInv DEF SupervisorResponds, TeamInv
<1>5. CASE loop' # NotRunning
  <2>1. ~OverLimit(team') /\ loop' = Chosen(next) /\ UNCHANGED <<workers, runs>>
    BY <1>5 DEF SupervisorResponds
  <2>2. team'.total < TeamLimit
    BY <1>2, <2>1, TeamAssumption DEF OverLimit
  <2>3. CASE next \in Names
    <3>1. loop' = [loop EXCEPT !.phase = "dispatch", !.worker = next]
      BY <2>1, <2>3, TeamAssumption DEF Chosen
    <3>2. /\ loop'.phase = "dispatch" /\ loop'.worker \in Names /\ loop'.round = loop.round
          /\ loop' \in [phase : {"idle", "supervise", "dispatch"}, round : 0..MaxRounds,
                        worker : Names \union {"supervisor"}]
      BY <2>3, <3>1 DEF TeamInv, TeamTypeOK
    <3>3. TeamTypeOK'
      BY <1>2, <2>1, <3>2 DEF TeamInv, TeamTypeOK
    <3> QED
      BY <1>1, <1>2, <2>1, <2>2, <3>2, <3>3 DEF TeamInv
  <2>4. CASE next = "neither"
    <3>1. loop' = [phase |-> "supervise", round |-> loop.round + 1, worker |-> "supervisor"]
          /\ loop.round + 1 # MaxRounds
      BY <1>5, <2>1, <2>4 DEF Chosen, NextRound
    <3>2. loop.round \in Nat /\ MaxRounds \in Nat /\ loop.round + 1 < MaxRounds
      BY <1>1, <3>1, TeamAssumption DEF TeamInv, TeamTypeOK
    <3>3. /\ loop'.phase = "supervise" /\ loop'.round < MaxRounds
          /\ loop' \in [phase : {"idle", "supervise", "dispatch"}, round : 0..MaxRounds,
                        worker : Names \union {"supervisor"}]
      BY <3>1, <3>2
    <3>4. TeamTypeOK'
      BY <1>2, <2>1, <3>3 DEF TeamInv, TeamTypeOK
    <3>5. team'.total < Earlier(runs - 1)
      BY <1>1, <1>2, <2>2, EarlierGrows, TeamAssumption
    <3>6. Earlier(runs - 1)' = Earlier(runs - 1)
      BY <2>1 DEF Earlier
    <3> QED
      BY <1>1, <1>2, <2>1, <3>3, <3>4, <3>5, <3>6 DEF TeamInv
  <2>5. CASE next = "answer"
    BY <1>5, <2>1, <2>5 DEF Chosen
  <2> QED
    BY <1>1, <2>3, <2>4, <2>5
<1> QED
  BY <1>4, <1>5

LEMMA AgentTeamInv ==
    ASSUME TeamInv, NEW price \in Prices, AgentResponds(price)
    PROVE  TeamInv'
<1> DEFINE name == loop.worker
           charged == Charged(name, price)
<1>1. /\ runs \in Nat /\ runs >= 1 /\ loop.round < MaxRounds /\ loop.round \in Nat
      /\ team.total \in Nat /\ team.total < TeamLimit /\ name \in Names
      /\ team.costs[name] \in Nat /\ team.costs[name] < AgentLimit
  BY TeamInvTotals, TeamAssumption DEF AgentResponds, TeamInv, TeamTypeOK
<1>2. /\ charged \in [agents : SUBSET Names, total : Nat,
                      costs : [Names \union {"supervisor"} -> Nat], turns : [Names -> Nat]]
      /\ charged.total <= team.total + TopPrice
      /\ charged.costs[name] <= team.costs[name] + TopPrice
      /\ \A w \in Names \ {name} : charged.costs[w] = team.costs[w]
  BY <1>1, ChargedTeam DEF TeamInv
<1> HIDE DEF charged
<1>3. \A w \in Names : charged.costs[w] < AgentLimit + TopPrice
  <2>1. charged.costs[name] < AgentLimit + TopPrice
    BY <1>1, <1>2, TeamAssumption
  <2> QED
    BY <1>2, <2>1 DEF TeamInv
<1>4. charged.total < Earlier(runs)
  BY <1>1, <1>2, EarlierGrows, TeamAssumption
<1>5. CASE OverLimit(charged)
  <2>1. team' = charged /\ loop' = NotRunning /\ UNCHANGED <<workers, runs>>
    BY <1>5 DEF AgentResponds, charged
  <2>2. TeamTypeOK'
    BY <1>2, <2>1, TeamAssumption DEF TeamInv, TeamTypeOK, NotRunning
  <2> QED
    BY <1>3, <1>4, <2>1, <2>2, StopTeamInv
<1>6. CASE ~OverLimit(charged)
  <2>1. /\ team' = [charged EXCEPT !.turns[loop.worker] = @ + 1] /\ UNCHANGED <<workers, runs>>
        /\ loop' = IF loop.round + 1 = MaxRounds THEN NotRunning
                   ELSE [phase |-> "supervise", round |-> loop.round + 1, worker |-> "supervisor"]
    BY <1>6 DEF AgentResponds, NextRound, charged
  <2>2. /\ team' \in [agents : SUBSET Names, total : Nat,
                      costs : [Names \union {"supervisor"} -> Nat], turns : [Names -> Nat]]
        /\ team'.total = charged.total /\ team'.costs = charged.costs
    BY <1>1, <1>2, <2>1
  <2>3. CASE loop.round + 1 = MaxRounds
    <3>1. TeamTypeOK'
      BY <2>1, <2>2, <2>3, TeamAssumption DEF TeamInv, TeamTypeOK, NotRunning
    <3> QED
      BY <1>3, <1>4, <2>1, <2>2, <2>3, <3>1, StopTeamInv
  <2>4. CASE loop.round + 1 # MaxRounds
    <3>1. /\ loop'.phase = "supervise" /\ loop'.round < MaxRounds
          /\ loop' \in [phase : {"idle", "supervise", "dispatch"}, round : 0..MaxRounds,
                        worker : Names \union {"supervisor"}]
      BY <1>1, <2>1, <2>4, TeamAssumption
    <3>2. TeamTypeOK'
      BY <2>1, <2>2, <3>1 DEF TeamInv, TeamTypeOK
    <3>3. team'.total < Earlier(runs - 1)
      BY <1>1, <1>2, <1>6, <2>2, EarlierGrows, TeamAssumption DEF OverLimit
    <3>4. Earlier(runs - 1)' = Earlier(runs - 1)
      BY <2>1 DEF Earlier
    <3> QED
      BY <1>1, <1>3, <2>1, <2>2, <3>1, <3>2, <3>3, <3>4 DEF TeamInv
  <2> QED
    BY <2>3, <2>4
<1> QED
  BY <1>5, <1>6

LEMMA NextTeamInv ==
    ASSUME TeamInv, [TeamNext]_tvars
    PROVE  TeamInv'
<1>1. ASSUME NEW w \in Names, AddWorker(w) \/ RemoveWorker(w)
      PROVE  TeamInv'
  <2>1. /\ team' = NoTeam /\ loop' = NotRunning /\ runs' = 0 /\ workers' \subseteq Names
    BY <1>1 DEF AddWorker, RemoveWorker, TeamInv, TeamTypeOK
  <2>2. TeamTypeOK'
    BY <2>1, TeamAssumption DEF TeamTypeOK, NoTeam, NotRunning
  <2>3. team'.total = 0 /\ (\A v \in Names : team'.costs[v] = 0) /\ loop'.phase = "idle"
    BY <2>1 DEF NoTeam, NotRunning
  <2>4. Earlier(0) \in Nat /\ Earlier(0) >= TeamLimit /\ Earlier(runs)' = Earlier(0)
    BY <2>1, EarlierGrows DEF Earlier
  <2> QED
    BY <2>1, <2>2, <2>3, <2>4, TeamAssumption DEF TeamInv
<1>2. CASE RefuseAgent \/ ClientRaises
  <2>1. loop' = NotRunning /\ UNCHANGED <<workers, team, runs>>
    BY <1>2 DEF RefuseAgent, ClientRaises
  <2>2. TeamTypeOK'
    BY <2>1, TeamAssumption DEF TeamInv, TeamTypeOK, NotRunning
  <2> QED
    BY <2>1, <2>2, TeamInvTotals, StopTeamInv DEF TeamInv
<1>3. CASE UNCHANGED tvars
  BY <1>3 DEF tvars, TeamInv, TeamTypeOK, Earlier
<1> QED
  BY <1>1, <1>2, <1>3, RunTeamInv, SupervisorTeamInv, AgentTeamInv DEF TeamNext

(* Between responses the totals are as far as the place in the round allows *)
(* (AgentTeam.run).                                                        *)
THEOREM TeamInvAlways == TeamSpec => []TeamInv
<1>1. TeamInv /\ [TeamNext]_tvars => TeamInv'
  BY NextTeamInv
<1> QED
  BY InitTeamInv, <1>1, PTL DEF TeamSpec

(* A team overruns its limit by at most one response for each of its runs, *)
(* and an agent its own by less than one (_record_cost,                    *)
(* _dispatch_to_agent).                                                    *)
THEOREM OverspendAlwaysBounded == TeamSpec => []OverspendBounded
<1>1. TeamInv => OverspendBounded
  BY TeamInvTotals DEF TeamInv, OverspendBounded, Earlier
<1> QED
  BY TeamInvAlways, <1>1, PTL

-----------------------------------------------------------------------------
(* The guards of one agent.  A run's phase tells how many of its attempts  *)
(* are behind it, and letters are those of runs that are over.             *)

Counted(t) ==
    /\ attempt[t] = "idle" => calls[t] = 0
    /\ attempt[t] \in {"calling", "sleeping"} => calls[t] <= MaxRetries
    /\ attempt[t] = "failed" => calls[t] = MaxRetries + 1

GuardInv ==
    /\ GuardTypeOK
    /\ \A t \in Threads : Counted(t)
    /\ OneProbePerOpening
    /\ DeadAfterAllAttempts

LEMMA InitGuardInv == GuardInit => GuardInv
<1> SUFFICES ASSUME GuardInit
             PROVE  GuardInv
  OBVIOUS
<1>1. GuardTypeOK
  <2>1. open \in BOOLEAN
    BY DEF GuardInit
  <2>2. failures \in 0..MaxFailures /\ openings \in Nat /\ probes \in Nat
        /\ retryCount \in 0..(MaxRetries + 1) /\ turn \in [Threads -> 0..FallbackAgents]
        /\ calls \in [Threads -> 0..(MaxRetries + 1)]
    BY GuardAssumption DEF GuardInit
  <2>3. deadLetters \subseteq [by : Threads, retries : 0..(MaxRetries + 1)]
        /\ attempt \in [Threads -> {"idle", "calling", "sleeping", "failed", "done"}]
    BY DEF GuardInit
  <2> QED
    BY <2>1, <2>2, <2>3 DEF GuardTypeOK
<1>2. ~open /\ openings = 0 /\ probes = 0
  BY DEF GuardInit
<1>3. OneProbePerOpening
  BY <1>2 DEF OneProbePerOpening
<1>4. (\A t \in Threads : Counted(t)) /\ DeadAfterAllAttempts
  BY DEF GuardInit, Counted, DeadAfterAllAttempts
<1> QED
  BY <1>1, <1>3, <1>4 DEF GuardInv

LEMMA BreakerGuardInv ==
    ASSUME GuardInv, RecordFailure \/ TryProbe
    PROVE  GuardInv'
<1>1. UNCHANGED <<policy, turn>>
  BY DEF RecordFailure, TryProbe
<1>2. OneProbePerOpening' /\ failures' \in 0..MaxFailures /\ open' \in BOOLEAN
      /\ openings' \in Nat /\ probes' \in Nat
  <2>1. CASE RecordFailure
    <3>1. failures' \in 0..MaxFailures
      BY <2>1, GuardAssumption DEF RecordFailure, GuardInv, GuardTypeOK
    <3>2. openings \in Nat /\ probes \in Nat /\ probes' = probes
          /\ openings = probes + (IF open THEN 1 ELSE 0)
      BY <2>1 DEF RecordFailure, GuardInv, GuardTypeOK, OneProbePerOpening
    <3>3. CASE open
      <4>1. open' /\ openings' = openings + 0
        BY <2>1, <3>3 DEF RecordFailure
      <4> QED
        BY <2>1, <3>1, <3>2, <3>3, <4>1 DEF RecordFailure, OneProbePerOpening
    <3>4. CASE ~open /\ failures' >= FailureThreshold
      <4>1. open' /\ openings' = openings + 1
        BY <2>1, <3>4 DEF RecordFailure
      <4> QED
        BY <2>1, <3>1, <3>2, <3>4, <4>1 DEF RecordFailure, OneProbePerOpening
    <3>5. CASE ~open /\ ~(failures' >= FailureThreshold)
      <4>1. ~open' /\ openings' = openings + 0
        BY <2>1, <3>5 DEF RecordFailure
      <4> QED
        BY <2>1, <3>1, <3>2, <3>5, <4>1 DEF RecordFailure, OneProbePerOpening
    <3> QED
      BY <3>3, <3>4, <3>5
  <2>2. CASE TryProbe
    <3>1. open /\ ~open' /\ probes' = probes + 1 /\ UNCHANGED <<failures, openings>>
          /\ openings \in Nat /\ probes \in Nat /\ failures \in 0..MaxFailures
          /\ openings = probes + (IF open THEN 1 ELSE 0)
      BY <2>2 DEF TryProbe, GuardInv, GuardTypeOK, OneProbePerOpening
    <3>2. open' \in BOOLEAN
      BY <2>2 DEF TryProbe
    <3> QED
      BY <3>1, <3>2 DEF OneProbePerOpening
  <2> QED
    BY <2>1, <2>2
<1> QED
  BY <1>1, <1>2 DEF policy, GuardInv, GuardTypeOK, Counted, DeadAfterAllAttempts

LEMMA AttemptGuardInv ==
    ASSUME GuardInv, NEW t \in Threads, Attempt(t)
    PROVE  GuardInv'
<1>1. calls[t] \in 0..MaxRetries /\ 0 \in 0..MaxRetries
  BY GuardAssumption DEF Attempt, GuardInv, GuardTypeOK, Counted
<1>2. GuardTypeOK' /\ OneProbePerOpening'
  BY <1>1, GuardAssumption DEF Attempt, breaker, GuardInv, GuardTypeOK, OneProbePerOpening
<1>3. \A u \in Threads : Counted(u)'
  BY <1>1, GuardAssumption DEF Attempt, GuardInv, GuardTypeOK, Counted
<1>4. DeadAfterAllAttempts'
  BY DEF Attempt, GuardInv, GuardTypeOK, DeadAfterAllAttempts
<1> QED
  BY <1>2, <1>3, <1>4 DEF GuardInv

LEMMA AttemptEndsGuardInv ==
    ASSUME GuardInv, NEW t \in Threads, AttemptSucceeds(t) \/ AttemptFails(t)
    PROVE  GuardInv'
<1>1. /\ attempt[t] = "calling" /\ calls[t] \in Nat /\ calls[t] <= MaxRetries
      /\ calls' = [calls EXCEPT ![t] = calls[t] + 1] /\ calls[t] + 1 \in 0..(MaxRetries + 1)
      /\ retryCount' \in {retryCount, calls[t] + 1}
      /\ UNCHANGED <<breaker, deadLetters, turn>>
  BY GuardAssumption DEF AttemptSucceeds, AttemptFails, GuardInv, GuardTypeOK, Counted
<1>2. \/ attempt' = [attempt EXCEPT ![t] = "done"]
      \/ attempt' = [attempt EXCEPT ![t] = "failed"] /\ calls[t] + 1 > MaxRetries
      \/ attempt' = [attempt EXCEPT ![t] = "sleeping"] /\ ~(calls[t] + 1 > MaxRetries)
  BY <1>1 DEF AttemptSucceeds, AttemptFails, Exhausted, GuardInv, GuardTypeOK
<1>3. GuardTypeOK' /\ OneProbePerOpening'
  BY <1>1, <1>2 DEF breaker, GuardInv, GuardTypeOK, OneProbePerOpening
<1>4. \A u \in Threads : Counted(u)'
  <2>1. Counted(t)'
    BY <1>1, <1>2, GuardAssumption DEF Counted, GuardInv, GuardTypeOK
  <2>2. \A u \in Threads \ {t} : Counted(u)'
    BY <1>1, <1>2 DEF Counted, GuardInv, GuardTypeOK
  <2> QED
    BY <2>1, <2>2
<1>5. DeadAfterAllAttempts'
  BY <1>1, <1>2 DEF GuardInv, GuardTypeOK, DeadAfterAllAttempts
<1> QED
  BY <1>3, <1>4, <1>5 DEF GuardInv

LEMMA DeadLetterGuardInv ==
    ASSUME GuardInv, NEW t \in Threads, DeadLetter(t)
    PROVE  GuardInv'
<1> DEFINE letter == [by |-> t, retries |-> retryCount]
<1>1. /\ attempt[t] = "failed" /\ calls[t] = MaxRetries + 1
      /\ attempt' = [attempt EXCEPT ![t] = "done"]
      /\ deadLetters' \subseteq deadLetters \union {letter}
      /\ UNCHANGED <<breaker, retryCount, calls, turn>>
  BY DEF DeadLetter, GuardInv, Counted
<1>2. letter \in [by : Threads, retries : 0..(MaxRetries + 1)] /\ letter.by = t
  BY DEF GuardInv, GuardTypeOK
<1> HIDE DEF letter
<1>3. \A other \in deadLetters : other.by # t
  BY <1>1 DEF GuardInv, DeadAfterAllAttempts
<1>4. GuardTypeOK' /\ OneProbePerOpening'
  BY <1>1, <1>2 DEF breaker, GuardInv, GuardTypeOK, OneProbePerOpening
<1>5. \A u \in Threads : Counted(u)'
  BY <1>1 DEF GuardInv, GuardTypeOK, Counted
<1>6. DeadAfterAllAttempts'
  BY <1>1, <1>2, <1>3 DEF GuardInv, GuardTypeOK, DeadAfterAllAttempts
<1> QED
  BY <1>4, <1>5, <1>6 DEF GuardInv

LEMMA RunAgainGuardInv ==
    ASSUME GuardInv, NEW t \in Threads, RunAgain(t)
    PROVE  GuardInv'
<1>1. GuardTypeOK' /\ OneProbePerOpening'
  BY GuardAssumption DEF RunAgain, breaker, GuardInv, GuardTypeOK, OneProbePerOpening
<1>2. \A u \in Threads : Counted(u)'
  BY GuardAssumption DEF RunAgain, GuardInv, GuardTypeOK, Counted
<1>3. DeadAfterAllAttempts'
  BY DEF RunAgain, GuardInv, GuardTypeOK, DeadAfterAllAttempts
<1> QED
  BY <1>1, <1>2, <1>3 DEF GuardInv

LEMMA FallbackGuardInv ==
    ASSUME GuardInv, NEW t \in Threads, Fallback(t) \/ FallbackRaises(t) \/ FallbackAnswers(t)
    PROVE  GuardInv'
<1>1. UNCHANGED <<breaker, policy>> /\ turn' \in [Threads -> 0..FallbackAgents]
  BY GuardAssumption DEF Fallback, FallbackRaises, FallbackAnswers, GuardInv, GuardTypeOK
<1> QED
  BY <1>1 DEF breaker, policy, GuardInv, GuardTypeOK, Counted, OneProbePerOpening,
              DeadAfterAllAttempts

LEMMA NextGuardInv ==
    ASSUME GuardInv, [GuardNext]_gvars
    PROVE  GuardInv'
<1>1. CASE UNCHANGED gvars
  BY <1>1 DEF gvars, GuardInv, GuardTypeOK, Counted, OneProbePerOpening, DeadAfterAllAttempts
<1> QED
  BY <1>1, BreakerGuardInv, AttemptGuardInv, AttemptEndsGuardInv, DeadLetterGuardInv,
     RunAgainGuardInv, FallbackGuardInv DEF GuardNext

(* The calls of a run are those of its attempt (AgentRetryPolicy.execute). *)
THEOREM GuardInvAlways == GuardSpec => []GuardInv
<1>1. GuardInv /\ [GuardNext]_gvars => GuardInv'
  BY NextGuardInv
<1> QED
  BY InitGuardInv, <1>1, PTL DEF GuardSpec

(* One thread probes for each time the circuit opens (try_probe).          *)
THEOREM ProbesAreSingle == GuardSpec => []OneProbePerOpening
<1>1. GuardInv => OneProbePerOpening
  BY DEF GuardInv
<1> QED
  BY GuardInvAlways, <1>1, PTL

(* A dead letter is one of a run that made all its attempts and is over,   *)
(* and the only one of that run (run_with_retry).                          *)
THEOREM LettersAreDead == GuardSpec => []DeadAfterAllAttempts
<1>1. GuardInv => DeadAfterAllAttempts
  BY DEF GuardInv
<1> QED
  BY GuardInvAlways, <1>1, PTL

-----------------------------------------------------------------------------
(* Fan-outs.  Only what has ended is in the context, so a step that reads   *)
(* sees none that may still read, itself included.                         *)

EndedFirst ==
    /\ context \subseteq {j \in Ids : Ended(j)}
    /\ \A i \in Ids : saw[i] \subseteq {j \in Ids : Ended(j)}
FanOutInv == FanOutTypeOK /\ EndedFirst /\ SightIsOrdered

LEMMA InitFanOut == FanOutInit => FanOutInv
BY DEF FanOutInit, FanOutInv, FanOutTypeOK, EndedFirst, SightIsOrdered

(* Reading adds nothing that leads back to the reader.                     *)
LEMMA ReadKeeps ==
    ASSUME FanOutInv, NEW i \in Ids, Read(i)
    PROVE  FanOutInv'
<1>1. /\ ~Ended(i) /\ saw' = [saw EXCEPT ![i] = @ \union context]
      /\ UNCHANGED <<kind, task, gathered, context, caller>>
  BY DEF Read, Ended
<1>2. \A j \in Ids : saw'[j] = IF j = i THEN saw[i] \union context ELSE saw[j]
  BY <1>1 DEF FanOutInv, FanOutTypeOK
<1>3. FanOutTypeOK' /\ EndedFirst'
  BY <1>1, <1>2 DEF FanOutInv, FanOutTypeOK, EndedFirst, Ended
<1>4. \A j \in Ids : i \notin saw'[j]
  BY <1>1, <1>3 DEF EndedFirst, Ended
<1>5. ASSUME NEW S \in SUBSET Ids, S # {} PROVE \E j \in S : saw'[j] \cap S = {}
  <2>1. CASE S = {i}
    BY <1>4, <2>1
  <2>2. CASE S \ {i} # {}
    <3>1. PICK j \in S \ {i} : saw[j] \cap (S \ {i}) = {}
      BY <2>2 DEF FanOutInv, SightIsOrdered
    <3>2. saw'[j] = saw[j] /\ i \notin saw'[j]
      BY <1>2, <1>4, <3>1
    <3> QED
      BY <3>1, <3>2
  <2> QED
    BY <1>5, <2>1, <2>2
<1> QED
  BY <1>3, <1>5 DEF FanOutInv, SightIsOrdered

LEMMA NextFanOut ==
    ASSUME FanOutInv, [FanOutNext]_fvars
    PROVE  FanOutInv'
<1>1. ASSUME NEW i \in Ids, Start(i) \/ \E how \in {"done", "failed"} : End(i, how)
      PROVE  FanOutInv'
  <2>1. ~Ended(i) /\ UNCHANGED <<kind, gathered, context, saw, caller>>
    BY <1>1 DEF Start, End, Ended
  <2>2. /\ task' \in [Ids -> {"queued", "running", "done", "failed"}]
        /\ \A j \in Ids \ {i} : task'[j] = task[j]
    BY <1>1 DEF Start, End, FanOutInv, FanOutTypeOK
  <2>3. EndedFirst'
    BY <2>1, <2>2 DEF FanOutInv, EndedFirst, Ended
  <2> QED
    BY <2>1, <2>2, <2>3 DEF FanOutInv, FanOutTypeOK, SightIsOrdered
<1>2. ASSUME NEW i \in Ids, Gather(i)
      PROVE  FanOutInv'
  BY <1>2 DEF Gather, FanOutInv, FanOutTypeOK, EndedFirst, Ended, SightIsOrdered
<1>3. CASE Submit \/ Timeout \/ Leave
  BY <1>3 DEF Submit, Timeout, Leave, FanOutInv, FanOutTypeOK, EndedFirst, Ended, SightIsOrdered
<1>4. CASE UNCHANGED fvars
  BY <1>4 DEF fvars, FanOutInv, FanOutTypeOK, EndedFirst, Ended, SightIsOrdered
<1> QED
  BY <1>1, <1>2, <1>3, <1>4, ReadKeeps DEF FanOutNext

THEOREM FanOutInvAlways == FanOutSpec => []FanOutInv
<1>1. FanOutInv /\ [FanOutNext]_fvars => FanOutInv'
  BY NextFanOut
<1> QED
  BY InitFanOut, <1>1, PTL DEF FanOutSpec

(* However many steps and workers a parallel chain has, what its steps     *)
(* read of one another never goes in a ring (ParallelChain.run).           *)
THEOREM SightAlwaysOrdered == FanOutSpec => []SightIsOrdered
<1>1. FanOutInv => SightIsOrdered
  BY DEF FanOutInv
<1> QED
  BY <1>1, FanOutInvAlways, PTL

-----------------------------------------------------------------------------
(* The message bus.  Between two of its locks a publish call remembers     *)
(* which handlers are left: with those it has called they are all that     *)
(* were taken, and no other call, and no queue, has its message.           *)

PublishersOwn ==
    \A t \in Publishers : publishing[t].msg # 0 =>
        /\ publishing[t].msg <= sent
        /\ owed[publishing[t].msg] \subseteq called[publishing[t].msg] \union publishing[t].left
        /\ \A u \in Publishers : publishing[u].msg = publishing[t].msg => u = t

QueuedWereSent == \A a \in Agents : \A j \in 1..Len(queues[a]) : queues[a][j] <= sent

BusInv ==
    /\ BusTypeOK
    /\ owed \in [Messages -> SUBSET Subscription]
    /\ called \in [Messages -> SUBSET Subscription]
    /\ PublishersOwn
    /\ QueuedWereSent
    /\ QueuedAfterHandlers

LEMMA InitBusInv == BusInit => BusInv
<1> SUFFICES ASSUME BusInit
             PROVE  BusInv
  OBVIOUS
<1>1. BusTypeOK
  BY BusAssumption DEF BusInit, BusTypeOK, Quiet
<1>2. owed \in [Messages -> SUBSET Subscription] /\ called \in [Messages -> SUBSET Subscription]
  BY DEF BusInit
<1>3. PublishersOwn /\ QueuedWereSent /\ QueuedAfterHandlers
  BY DEF BusInit, PublishersOwn, QueuedWereSent, QueuedAfterHandlers, Quiet
<1> QED
  BY <1>1, <1>2, <1>3 DEF BusInv

LEMMA SubscribeBusInv ==
    ASSUME BusInv, NEW filter \in Filters, NEW guarded \in BOOLEAN, Subscribe(filter, guarded)
    PROVE  BusInv'
<1>1. nextId + 1 \in 1..MaxSubs
  BY BusAssumption DEF Subscribe, BusInv, BusTypeOK
<1>2. [id |-> nextId + 1, filter |-> filter, guarded |-> guarded] \in Subscription
  BY <1>1 DEF Subscription
<1>3. BusTypeOK'
  BY <1>1, <1>2 DEF Subscribe, BusInv, BusTypeOK
<1> QED
  BY <1>3 DEF Subscribe, BusInv, PublishersOwn, QueuedWereSent, QueuedAfterHandlers

LEMMA PublishBusInv ==
    ASSUME BusInv, NEW t \in Publishers, NEW type \in Types, NEW to \in Agents \union {Everybody},
           Publish(t, type, to)
    PROVE  BusInv'
<1> DEFINE m == sent + 1
<1>1. PICK taken \in SUBSET Subscription :
        /\ publishing' = [publishing EXCEPT ![t] = [msg |-> m, to |-> to, left |-> taken]]
        /\ owed' = [owed EXCEPT ![m] = taken]
  BY DEF Publish, BusInv, BusTypeOK
<1>2. m \in Messages /\ sent \in Nat /\ sent' = m /\ UNCHANGED <<subs, nextId, queues, called>>
  BY BusAssumption DEF Publish, BusInv, BusTypeOK, Messages
<1>3. BusTypeOK' /\ owed' \in [Messages -> SUBSET Subscription]
  BY <1>1, <1>2, BusAssumption DEF BusInv, BusTypeOK, Messages
<1>4. PublishersOwn'
  <2>1. \A u \in Publishers \ {t} : publishing'[u] = publishing[u]
                                    /\ (publishing[u].msg # 0 => publishing[u].msg <= sent)
    BY <1>1 DEF BusInv, BusTypeOK, PublishersOwn
  <2>2. publishing'[t].msg = m /\ publishing'[t].left = taken /\ owed'[m] = taken
    BY <1>1, <1>2 DEF BusInv, BusTypeOK
  <2>3. \A u \in Publishers : publishing[u].msg \in Nat
    BY BusAssumption DEF BusInv, BusTypeOK, Messages
  <2> QED
    BY <1>1, <1>2, <2>1, <2>2, <2>3 DEF BusInv, PublishersOwn
<1>5. QueuedWereSent' /\ QueuedAfterHandlers'
  <2>1. \A a \in Agents : \A j \in 1..Len(queues[a]) :
           queues[a][j] \in Messages /\ queues[a][j] <= sent /\ queues[a][j] # m
    <3>1. \A a \in Agents : \A j \in 1..Len(queues[a]) : queues[a][j] \in Messages
      BY DEF BusInv, BusTypeOK
    <3>2. \A a \in Agents : \A j \in 1..Len(queues[a]) : queues[a][j] <= sent
      BY DEF BusInv, QueuedWereSent
    <3>3. \A k \in Messages : k <= sent => k # m
      BY <1>2, BusAssumption DEF Messages
    <3> QED
      BY <3>1, <3>2, <3>3
  <2>2. QueuedWereSent'
    BY <1>2, <2>1, BusAssumption DEF QueuedWereSent, Messages
  <2>3. \A k \in Messages : k # m => owed'[k] = owed[k]
    BY <1>1, <1>2 DEF BusInv
  <2>4. \A u \in Publishers : publishing'[u].msg \in {publishing[u].msg, m}
    BY <1>1 DEF BusInv, BusTypeOK
  <2>5. QueuedAfterHandlers'
    BY <1>2, <2>1, <2>3, <2>4 DEF BusInv, QueuedAfterHandlers
  <2> QED
    BY <2>2, <2>5
<1> QED
  BY <1>2, <1>3, <1>4, <1>5 DEF BusInv

(* While the queues stay, only what the handlers and publishers do with    *)
(* the messages in them matters.                                           *)
LEMMA QueuesKept ==
    ASSUME BusInv, UNCHANGED queues,
           \A a \in Agents : \A j \in 1..Len(queues[a]) :
               owed'[queues[a][j]] \subseteq called'[queues[a][j]],
           \A a \in Agents : \A j \in 1..Len(queues[a]) :
               \A u \in Publishers : publishing'[u].msg # queues[a][j]
    PROVE  QueuedAfterHandlers'
<1>1. \A a \in Agents : \A j \in 1..Len(queues[a]) :
         \A b \in Agents : \A k \in 1..Len(queues[b]) :
            queues[b][k] = queues[a][j] => a = b /\ j = k
  BY DEF BusInv, QueuedAfterHandlers
<1>2. \A a \in Agents : \A j \in 1..Len(queues'[a]) :
         /\ owed'[queues'[a][j]] \subseteq called'[queues'[a][j]]
         /\ \A b \in Agents : \A k \in 1..Len(queues'[b]) :
               queues'[b][k] = queues'[a][j] => a = b /\ j = k
         /\ \A u \in Publishers : publishing'[u].msg # queues'[a][j]
  BY <1>1
<1> QED
  BY <1>2, Zenon DEF QueuedAfterHandlers

LEMMA HandlerBusInv ==
    ASSUME BusInv, NEW t \in Publishers, NEW s \in publishing[t].left,
           HandlerReturns(t, s) \/ HandlerRaises(t, s)
    PROVE  BusInv'
<1>1. CASE HandlerReturns(t, s)
  <2>1. publishing' = [publishing EXCEPT ![t].left = @ \ {s}] /\ s \in Subscription
        /\ called' = [called EXCEPT ![publishing[t].msg] = @ \union {s}]
        /\ UNCHANGED <<subs, nextId, queues, sent, owed>>
    BY <1>1 DEF HandlerReturns, BusInv, BusTypeOK
  <2>2. BusTypeOK' /\ called' \in [Messages -> SUBSET Subscription]
    BY <2>1 DEF BusInv, BusTypeOK
  <2>3. \A u \in Publishers : publishing'[u].msg = publishing[u].msg
                              /\ publishing[u].left \subseteq publishing'[u].left \union {s}
                              /\ (u # t => publishing'[u].left = publishing[u].left)
    BY <2>1 DEF BusInv, BusTypeOK
  <2>4. \A k \in Messages : called[k] \subseteq called'[k]
                            /\ (k = publishing[t].msg => s \in called'[k])
    BY <2>1 DEF BusInv
  <2>5. \A u \in Publishers : publishing[u].msg # 0 => publishing[u].msg \in Messages
    BY DEF BusInv, BusTypeOK
  <2>6. PublishersOwn'
    <3> SUFFICES ASSUME NEW u \in Publishers, publishing'[u].msg # 0
                 PROVE  /\ publishing'[u].msg <= sent'
                        /\ owed'[publishing'[u].msg]
                              \subseteq called'[publishing'[u].msg] \union publishing'[u].left
                        /\ \A v \in Publishers : publishing'[v].msg = publishing'[u].msg => v = u
      BY DEF PublishersOwn
    <3>1. publishing[u].msg # 0 /\ publishing[u].msg \in Messages
      BY <2>3, <2>5
    <3>2. publishing[u].msg <= sent
          /\ owed[publishing[u].msg] \subseteq called[publishing[u].msg] \union publishing[u].left
          /\ \A v \in Publishers : publishing[v].msg = publishing[u].msg => v = u
      BY <3>1 DEF BusInv, PublishersOwn
    <3> QED
      BY <2>1, <2>3, <2>4, <3>1, <3>2
  <2>7. QueuedWereSent' /\ QueuedAfterHandlers'
    <3>1. \A a \in Agents : \A j \in 1..Len(queues[a]) : queues[a][j] \in Messages
      BY DEF BusInv, BusTypeOK
    <3>2. QueuedWereSent'
      BY <2>1 DEF BusInv, QueuedWereSent
    <3>3. \A a \in Agents : \A j \in 1..Len(queues[a]) :
             owed'[queues[a][j]] \subseteq called'[queues[a][j]]
      BY <2>1, <2>4, <3>1 DEF BusInv, QueuedAfterHandlers
    <3>4. \A a \in Agents : \A j \in 1..Len(queues[a]) :
             \A u \in Publishers : publishing'[u].msg # queues[a][j]
      BY <2>3 DEF BusInv, QueuedAfterHandlers
    <3>5. QueuedAfterHandlers'
      <4>1. UNCHANGED queues
        BY <2>1
      <4> QED
        BY <3>3, <3>4, <4>1, QueuesKept, Zenon
    <3> QED
      BY <3>2, <3>5
  <2> QED
    BY <2>1, <2>2, <2>6, <2>7 DEF BusInv
<1>2. CASE HandlerRaises(t, s)
  <2>1. publishing' = [publishing EXCEPT ![t] = Quiet]
        /\ UNCHANGED <<subs, nextId, queues, sent, owed, called>>
    BY <1>2 DEF HandlerRaises
  <2>2. BusTypeOK'
    BY <2>1 DEF BusInv, BusTypeOK, Quiet
  <2>3. \A u \in Publishers : publishing'[u] = publishing[u] \/ publishing'[u].msg = 0
    BY <2>1 DEF BusInv, BusTypeOK, Quiet
  <2>4. PublishersOwn' /\ QueuedWereSent'
    BY <2>1, <2>3 DEF BusInv, PublishersOwn, QueuedWereSent
  <2>5. QueuedAfterHandlers'
    <3>1. \A a \in Agents : \A j \in 1..Len(queues[a]) : queues[a][j] # 0
      BY BusAssumption DEF BusInv, BusTypeOK, Messages
    <3>2. \A a \in Agents : \A j \in 1..Len(queues[a]) :
             /\ owed[queues[a][j]] \subseteq called[queues[a][j]]
             /\ \A u \in Publishers : publishing[u].msg # queues[a][j]
      BY DEF BusInv, QueuedAfterHandlers
    <3>3. \A a \in Agents : \A j \in 1..Len(queues[a]) :
             owed'[queues[a][j]] \subseteq called'[queues[a][j]]
      BY <2>1, <3>2
    <3>4. \A a \in Agents : \A j \in 1..Len(queues[a]) :
             \A u \in Publishers : publishing'[u].msg # queues[a][j]
      BY <2>3, <3>1, <3>2
    <3>5. UNCHANGED queues
      BY <2>1
    <3> QED
      BY <3>3, <3>4, <3>5, QueuesKept, Zenon
  <2> QED
    BY <2>1, <2>2, <2>4, <2>5 DEF BusInv
<1> QED
  BY <1>1, <1>2

LEMMA EnqueueBusInv ==
    ASSUME BusInv, NEW t \in Publishers, Enqueue(t)
    PROVE  BusInv'
<1>1. PICK m \in Messages : m = publishing[t].msg /\ m # 0 /\ publishing[t].left = {}
  BY DEF Enqueue, BusInv, BusTypeOK
<1>2. publishing' = [publishing EXCEPT ![t] = Quiet]
      /\ UNCHANGED <<subs, nextId, sent, owed, called>>
  BY DEF Enqueue
<1>3. /\ owed[m] \subseteq called[m] /\ m <= sent
      /\ \A u \in Publishers : publishing'[u] = publishing[u] \/ publishing'[u].msg = 0
      /\ \A u \in Publishers : publishing'[u].msg # m
  BY <1>1, <1>2 DEF BusInv, BusTypeOK, PublishersOwn, Quiet
<1>4. \A a \in Agents : \A j \in 1..Len(queues[a]) :
         /\ queues[a][j] \in Messages /\ queues[a][j] # 0 /\ queues[a][j] # m
         /\ queues[a][j] <= sent
         /\ owed[queues[a][j]] \subseteq called[queues[a][j]]
         /\ \A u \in Publishers : publishing'[u].msg # queues[a][j]
  <2>1. \A a \in Agents : \A j \in 1..Len(queues[a]) : queues[a][j] \in Messages
    BY DEF BusInv, BusTypeOK
  <2>2. \A k \in Messages : k # 0
    BY BusAssumption DEF Messages
  <2>3. \A a \in Agents : \A j \in 1..Len(queues[a]) :
           /\ queues[a][j] # m /\ owed[queues[a][j]] \subseteq called[queues[a][j]]
           /\ \A u \in Publishers : publishing[u].msg # queues[a][j]
    BY <1>1 DEF BusInv, QueuedAfterHandlers
  <2>4. \A a \in Agents : \A j \in 1..Len(queues[a]) : queues[a][j] <= sent
    BY DEF BusInv, QueuedWereSent
  <2> QED
    BY <1>3, <2>1, <2>2, <2>3, <2>4
<1>5. PublishersOwn' /\ publishing' \in [Publishers -> [msg : {0} \union Messages,
                                to : Agents \union {Everybody}, left : SUBSET Subscription]]
  <2>1. PublishersOwn'
    BY <1>2, <1>3 DEF BusInv, PublishersOwn
  <2>2. Quiet \in [msg : {0} \union Messages, to : Agents \union {Everybody},
                   left : SUBSET Subscription]
    BY DEF Quiet
  <2> QED
    BY <1>2, <2>1, <2>2 DEF BusInv, BusTypeOK
<1>6. CASE UNCHANGED queues
  <2>1. BusTypeOK' /\ QueuedWereSent'
    BY <1>2, <1>5, <1>6 DEF BusInv, BusTypeOK, QueuedWereSent
  <2>2. QueuedAfterHandlers'
    BY <1>2, <1>4, <1>6 DEF BusInv, QueuedAfterHandlers
  <2> QED
    BY <1>2, <1>5, <2>1, <2>2 DEF BusInv
<1>7. CASE ~UNCHANGED queues
  <2>1. PICK b \in Agents : queues' = [queues EXCEPT ![b] = Append(@, m)]
    BY <1>1, <1>7 DEF Enqueue, BusInv, BusTypeOK
  <2>2. /\ queues[b] \in Seq(Messages) /\ Len(queues[b]) \in Nat
        /\ queues'[b] = Append(queues[b], m) /\ queues'[b] \in Seq(Messages)
        /\ Len(queues'[b]) = Len(queues[b]) + 1
        /\ queues'[b][Len(queues[b]) + 1] = m
        /\ \A j \in 1..Len(queues[b]) : queues'[b][j] = queues[b][j]
        /\ \A a \in Agents \ {b} : queues'[a] = queues[a]
    BY <2>1 DEF BusInv, BusTypeOK
  <2>3. BusTypeOK'
    BY <1>2, <1>5, <2>1, <2>2 DEF BusInv, BusTypeOK
  <2>4. \A a \in Agents : \A j \in 1..Len(queues'[a]) :
           \/ a = b /\ j = Len(queues[b]) + 1 /\ queues'[a][j] = m
           \/ j \in 1..Len(queues[a]) /\ queues'[a][j] = queues[a][j] /\ queues'[a][j] # m
    BY <1>4, <2>2
  <2>5. QueuedWereSent'
    BY <1>2, <1>3, <1>4, <2>4 DEF QueuedWereSent
  <2>6. ASSUME NEW a \in Agents, NEW j \in 1..Len(queues'[a])
        PROVE  /\ owed'[queues'[a][j]] \subseteq called'[queues'[a][j]]
               /\ \A u \in Publishers : publishing'[u].msg # queues'[a][j]
    <3>1. CASE queues'[a][j] = m
      BY <1>2, <1>3, <3>1
    <3>2. CASE j \in 1..Len(queues[a]) /\ queues'[a][j] = queues[a][j]
      BY <1>2, <1>4, <3>2
    <3> QED
      BY <2>4, <3>1, <3>2
  <2>7. ASSUME NEW a \in Agents, NEW j \in 1..Len(queues'[a]),
               NEW c \in Agents, NEW k \in 1..Len(queues'[c]), queues'[c][k] = queues'[a][j]
        PROVE  a = c /\ j = k
    BY <2>4, <2>7 DEF BusInv, QueuedAfterHandlers
  <2>8. QueuedAfterHandlers'
    BY <2>6, <2>7 DEF QueuedAfterHandlers
  <2> QED
    BY <1>2, <1>5, <2>3, <2>5, <2>8 DEF BusInv
<1> QED
  BY <1>6, <1>7

LEMMA NextBusInv ==
    ASSUME BusInv, [BusNext]_bvars
    PROVE  BusInv'
<1>1. ASSUME NEW s \in subs, Unsubscribe(s)
      PROVE  BusInv'
  BY <1>1 DEF Unsubscribe, BusInv, BusTypeOK, PublishersOwn, QueuedWereSent, QueuedAfterHandlers
<1>2. CASE UNCHANGED bvars
  BY <1>2 DEF bvars, BusInv, BusTypeOK, PublishersOwn, QueuedWereSent, QueuedAfterHandlers
<1> QED
  BY <1>1, <1>2, SubscribeBusInv, PublishBusInv, HandlerBusInv, EnqueueBusInv DEF BusNext

(* A message has one publisher, and what is queued was sent (MessageBus).  *)
THEOREM BusInvAlways == BusSpec => []BusInv
<1>1. BusInv /\ [BusNext]_bvars => BusInv'
  BY NextBusInv
<1> QED
  BY InitBusInv, <1>1, PTL DEF BusSpec

(* A queued message is in one queue, once, and every handler that was      *)
(* subscribed when it was published has returned (publish).                *)
THEOREM QueuedLast == BusSpec => []QueuedAfterHandlers
<1>1. BusInv => QueuedAfterHandlers
  BY DEF BusInv
<1> QED
  BY BusInvAlways, <1>1, PTL

-----------------------------------------------------------------------------
(* The chains.  A status is written by the failing step, or by the nested   *)
(* run that failed, so the invariant follows each run, those that wait for  *)
(* the innermost included: at any place it has come to, its status is that  *)
(* of the failed records in its result.                                    *)

Tells(c, st, rs) == st = "failed" <=> c \in {"sequential", "conditional"} /\ Raised(rs)

(* A gate inside the chain is that of an additional section.               *)
Position ==
    /\ chain \in Kinds /\ section \in 0..LastSection /\ step \in Nat
    /\ phase \in {"running", "returned", "raised"}
    /\ chain = "conditional" /\ step = 0 => section > 2
    /\ chain \notin {"conditional", "approval"} => section # 0

Results ==
    /\ tries \in 0..(MaxTries - 1) /\ status \in Statuses /\ records \subseteq StepRecord

(* The status is right at every step, not only when the run is over.       *)
StatusSoFar == phase # "raised" => Tells(chain, status, records)

(* A run that waits is a conditional chain at one of its steps.             *)
Frame == [section : 1..(2 + ExtraGates), step : Nat \ {0}, records : SUBSET StepRecord, status : Statuses]
Waiting ==
    /\ outer \in Seq(Frame)
    /\ outer # <<>> => chain = "conditional"
    /\ \A i \in DOMAIN outer : Tells("conditional", outer[i].status, outer[i].records)

ChainIInv == Position /\ Results /\ StatusSoFar /\ Waiting

-----------------------------------------------------------------------------
LEMMA LastSections ==
    ASSUME chain \in Kinds
    PROVE  LastSection \in 1..(2 + ExtraGates) /\ ExtraGates \in Nat
BY ChainAssumption DEF LastSection, Kinds

(* Where a step that is over leads.                                        *)
LEMMA MovesOnward ==
    ASSUME Position, chain' = chain, NEW s \in 1..LastSection, NEW k \in Nat,
           Finish \/ AfterSection(s) \/ AfterStep(s, k)
    PROVE  Position' /\ phase' # "raised"
<1>1. LastSection \in Nat /\ LastSection' = LastSection
  BY LastSections DEF Position, LastSection
<1>2. CASE Finish
  BY <1>1, <1>2 DEF Position, Finish
<1>3. CASE s # LastSection /\ Go(s + 1, IF chain = "conditional" /\ s >= 2 THEN 0 ELSE 1)
  <2>1. s + 1 \in 0..LastSection /\ s \in Nat
    BY <1>1, <1>3
  <2> QED
    BY <1>1, <1>3, <2>1 DEF Position, Go
<1>4. CASE Go(s, k + 1)
  <2>1. k + 1 \in Nat /\ k + 1 # 0 /\ s \in 0..LastSection
    BY <1>1
  <2> QED
    BY <1>1, <1>4, <2>1 DEF Position, Go
<1> QED
  BY <1>2, <1>3, <1>4 DEF AfterSection, AfterStep

(* A failed record of the run itself, and the records of one it waited for. *)
LEMMA FailAdds ==
    ASSUME Position, records \subseteq StepRecord, NEW raised \in BOOLEAN, Fail(raised)
    PROVE  /\ records' \subseteq StepRecord
           /\ Raised(records') <=> Raised(records) \/ (raised /\ section <= 2)
<1> DEFINE r == [within |-> {section}, raised |-> raised]
<1>1. section \in Nat
  BY LastSections DEF Position
<1>2. r \in StepRecord /\ r.raised = raised /\ (r.within \subseteq 0..2 <=> section <= 2)
  BY <1>1 DEF StepRecord
<1>3. records' = records \cup {r}
  BY DEF Fail
<1> HIDE DEF r
<1> QED
  BY <1>2, <1>3 DEF Raised

LEMMA AroundKeeps ==
    ASSUME NEW s \in Nat, NEW rs, rs \subseteq StepRecord
    PROVE  /\ Around(s, rs) \subseteq StepRecord
           /\ Raised(Around(s, rs)) <=> Raised(rs) /\ s <= 2
<1>1. \A r \in rs : LET q == [r EXCEPT !.within = @ \cup {s}] IN
          /\ q \in StepRecord /\ q.raised = r.raised
          /\ q.within \subseteq 0..2 <=> r.within \subseteq 0..2 /\ s <= 2
  <2> TAKE r \in rs
  <2> DEFINE q == [r EXCEPT !.within = @ \cup {s}]
  <2>1. r \in StepRecord
    OBVIOUS
  <2>2. q = [within |-> r.within \cup {s}, raised |-> r.raised]
    BY <2>1 DEF StepRecord
  <2>3. r.within \subseteq Nat /\ r.raised \in BOOLEAN
    BY <2>1 DEF StepRecord
  <2>4. q.within = r.within \cup {s} /\ q.raised = r.raised
    BY <2>2
  <2>5. q \in StepRecord
    BY <2>2, <2>3 DEF StepRecord
  <2>6. s \in 0..2 <=> s <= 2
    OBVIOUS
  <2> QED
    BY <2>4, <2>5, <2>6
<1>2. ASSUME Raised(Around(s, rs)) PROVE Raised(rs) /\ s <= 2
  <2>1. PICK r \in rs : LET q == [r EXCEPT !.within = @ \cup {s}] IN q.raised /\ q.within \subseteq 0..2
    BY <1>2 DEF Around, Raised
  <2> QED
    BY <1>1, <2>1 DEF Raised
<1>3. ASSUME Raised(rs), s <= 2 PROVE Raised(Around(s, rs))
  <2>1. PICK r \in rs : r.raised /\ r.within \subseteq 0..2
    BY <1>3 DEF Raised
  <2> DEFINE q == [r EXCEPT !.within = @ \cup {s}]
  <2>2. q.raised /\ q.within \subseteq 0..2
    BY <1>1, <1>3, <2>1
  <2>3. q \in Around(s, rs)
    BY DEF Around
  <2> QED
    BY <2>2, <2>3 DEF Raised
<1>4. Around(s, rs) \subseteq StepRecord
  BY <1>1 DEF Around
<1> QED
  BY <1>2, <1>3, <1>4

(* The three kinds of step within a run: one that leaves the status, one    *)
(* that fails the chain, and one that records nothing.                     *)
LEMMA QuietStep ==
    ASSUME ChainIInv, phase = "running", chain' = chain, outer' = outer, Position',
           tries' \in 0..(MaxTries - 1), status' = status, NEW raised \in BOOLEAN, Fail(raised),
           raised => chain \notin {"sequential", "conditional"} \/ section > 2
    PROVE  ChainIInv'
<1>1. /\ records' \subseteq StepRecord
      /\ Raised(records') <=> Raised(records) \/ (raised /\ section <= 2)
  BY FailAdds DEF ChainIInv, Results
<1>2. section \in Nat
  BY LastSections DEF ChainIInv, Position
<1>3. section > 2 => ~(section <= 2)
  BY <1>2
<1>4. StatusSoFar'
  BY <1>1, <1>3 DEF ChainIInv, StatusSoFar, Tells
<1> QED
  BY <1>1, <1>4 DEF ChainIInv, Results, Waiting, Tells

LEMMA FailingStep ==
    ASSUME ChainIInv, chain' = chain, outer' = outer, chain \in {"sequential", "conditional"}, Position',
           tries' = tries, status' = "failed", section <= 2, Fail(TRUE)
    PROVE  ChainIInv'
<1>1. records' \subseteq StepRecord /\ Raised(records')
  BY FailAdds DEF ChainIInv, Results
<1> QED
  BY <1>1 DEF ChainIInv, Results, StatusSoFar, Waiting, Tells, Statuses

LEMMA SilentStep ==
    ASSUME ChainIInv, chain' = chain, outer' = outer, phase # "raised", Position',
           tries' \in 0..(MaxTries - 1), records' = records,
           status' = status \/ (status' = "denied" /\ chain = "approval")
    PROVE  ChainIInv'
<1>1. StatusSoFar'
  BY DEF ChainIInv, StatusSoFar, Tells
<1>2. Results'
  BY DEF ChainIInv, Results, Statuses
<1> QED
  BY <1>1, <1>2 DEF ChainIInv, Waiting, Tells

-----------------------------------------------------------------------------
(* A run that starts waits for nothing; the one around it is kept as it is. *)
LEMMA NestKeeps ==
    ASSUME ChainIInv, Nest
    PROVE  ChainIInv'
<1> DEFINE frame == [section |-> section, step |-> step, records |-> records, status |-> status]
<1>1. /\ phase = "running" /\ chain = "conditional" /\ section > 0 /\ step > 0
      /\ outer' = Append(outer, frame) /\ section' = 0 /\ step' = 1 /\ records' = {}
      /\ status' = "completed" /\ UNCHANGED <<chain, tries, phase>>
  BY DEF Nest, At
<1>2. frame \in Frame
  <2>1. LastSection = 2 + ExtraGates /\ ExtraGates \in Nat
    BY <1>1, ChainAssumption DEF LastSection
  <2>2. section \in 1..(2 + ExtraGates) /\ step \in Nat \ {0}
    BY <1>1, <2>1 DEF ChainIInv, Position
  <2>3. records \in SUBSET StepRecord /\ status \in Statuses
    BY DEF ChainIInv, Results
  <2> QED
    BY <2>2, <2>3 DEF Frame
<1>3. frame.status = status /\ frame.records = records
  OBVIOUS
<1>4. Tells("conditional", status, records)
  BY <1>1 DEF ChainIInv, StatusSoFar
<1> HIDE DEF frame
<1>5. Waiting'
  <2>1. outer \in Seq(Frame) /\ \A i \in DOMAIN outer : Tells("conditional", outer[i].status, outer[i].records)
    BY DEF ChainIInv, Waiting
  <2>2. outer' \in Seq(Frame)
    BY <1>1, <1>2, <2>1
  <2>3. \A i \in DOMAIN outer' : outer'[i] = frame \/ (i \in DOMAIN outer /\ outer'[i] = outer[i])
    BY <1>1, <2>1
  <2>4. \A i \in DOMAIN outer' : Tells("conditional", outer'[i].status, outer'[i].records)
    BY <1>3, <1>4, <2>1, <2>3
  <2> QED
    BY <1>1, <2>2, <2>4 DEF Waiting, Tells
<1>6. Position'
  BY <1>1, ChainAssumption DEF ChainIInv, Position, LastSection
<1>7. StatusSoFar'
  BY <1>1 DEF StatusSoFar, Tells, Raised
<1>8. Results'
  BY <1>1 DEF ChainIInv, Results, Statuses
<1> QED
  BY <1>5, <1>6, <1>7, <1>8 DEF ChainIInv

(* A run that goes on has the records of the one it waited for, and its    *)
(* status if it looks at it.                                               *)
LEMMA ResumeKeeps ==
    ASSUME ChainIInv, Resume
    PROVE  ChainIInv'
<1> DEFINE frame == Last(outer)
<1>1. /\ phase = "returned" /\ outer # <<>> /\ chain = "conditional" /\ outer \in Seq(Frame)
      /\ \A i \in DOMAIN outer : Tells("conditional", outer[i].status, outer[i].records)
      /\ outer' = Front(outer) /\ UNCHANGED <<chain, tries>>
  BY DEF Resume, ChainIInv, Waiting
<1>2. Len(outer) \in Nat /\ Len(outer) # 0 /\ Len(outer) \in DOMAIN outer
  BY <1>1
<1>3. frame \in Frame /\ Tells("conditional", frame.status, frame.records)
  BY <1>1, <1>2 DEF Last
<1>4. /\ records' = frame.records \cup Around(frame.section, records)
      /\ status' = (IF status = "failed" /\ frame.section <= 2 THEN "failed" ELSE frame.status)
      /\ AfterStep(frame.section, frame.step)
  BY DEF Resume
<1> HIDE DEF frame
<1>5. /\ frame.section \in 1..(2 + ExtraGates) /\ frame.step \in Nat /\ frame.records \subseteq StepRecord
      /\ frame.status \in Statuses
  BY <1>3 DEF Frame
<1>6. Position' /\ phase' # "raised"
  <2>1. LastSection = 2 + ExtraGates
    BY <1>1 DEF LastSection
  <2>2. frame.section \in 1..LastSection /\ Position
    BY <1>5, <2>1 DEF ChainIInv
  <2> QED
    BY <1>1, <1>4, <1>5, <2>2, MovesOnward
<1>7. records \subseteq StepRecord /\ frame.section \in Nat
  <2>1. ExtraGates \in Nat
    BY ChainAssumption
  <2> QED
    BY <1>5, <2>1 DEF ChainIInv, Results
<1>8. /\ records' \subseteq StepRecord
      /\ Raised(records') <=> Raised(frame.records) \/ (Raised(records) /\ frame.section <= 2)
  <2>1. /\ Around(frame.section, records) \subseteq StepRecord
        /\ Raised(Around(frame.section, records)) <=> Raised(records) /\ frame.section <= 2
    BY <1>7, AroundKeeps
  <2>2. Raised(records') <=> Raised(frame.records) \/ Raised(Around(frame.section, records))
    BY <1>4 DEF Raised
  <2> QED
    BY <1>4, <1>5, <2>1, <2>2
<1>9. Tells("conditional", status, records)
  BY <1>1 DEF ChainIInv, StatusSoFar
<1>10. status' \in Statuses /\ (status' = "failed" <=> Raised(records'))
  BY <1>3, <1>4, <1>5, <1>8, <1>9 DEF Tells, Statuses
<1>11. Waiting'
  <2>1. outer' \in Seq(Frame) /\ \A i \in DOMAIN outer' : i \in DOMAIN outer /\ outer'[i] = outer[i]
    <3>1. outer' = SubSeq(outer, 1, Len(outer) - 1)
      BY <1>1 DEF Front
    <3>2. Len(outer) - 1 \in 0..Len(outer)
      BY <1>2
    <3> QED
      BY <1>1, <1>2, <3>1, <3>2
  <2> QED
    BY <1>1, <2>1 DEF Waiting, Tells
<1> QED
  BY <1>1, <1>6, <1>8, <1>10, <1>11 DEF ChainIInv, Results, StatusSoFar, Tells

-----------------------------------------------------------------------------
LEMMA ChainsStep ==
    ASSUME ChainIInv, ChainNext
    PROVE  ChainIInv'
<1>1. /\ Position /\ tries \in 0..(MaxTries - 1) /\ 0 \in 0..(MaxTries - 1)
      /\ LastSection \in Nat /\ section \in Nat /\ step \in Nat /\ LastSection' = LastSection
      /\ section > 0 => section \in 1..LastSection
  <2>1. chain' = chain
    BY DEF ChainNext, StepReturns, RetryStep, SequentialFails, GatePasses, GateFails, BranchFails,
       Nest, Resume, MapRaises, ReduceFails, ToolsAnswer, ToolsRaise, Approve, Deny, DeniedStepFails,
       SkipAgent, AgentRaises
  <2>2. LastSection \in Nat /\ LastSection' = LastSection
    BY <2>1, LastSections DEF ChainIInv, Position, LastSection
  <2>3. Position /\ tries \in 0..(MaxTries - 1) /\ 0 \in 0..(MaxTries - 1)
    BY ChainAssumption DEF ChainIInv, Results
  <2>4. section \in Nat /\ step \in Nat /\ (section > 0 => section \in 1..LastSection)
    BY <2>2, <2>3 DEF Position
  <2> QED
    BY <2>2, <2>3, <2>4
<1>2. ASSUME NEW failed \in BOOLEAN, StepReturns(failed) PROVE ChainIInv'
  <2>1. /\ phase = "running" /\ section > 0 /\ AfterStep(section, step)
        /\ tries' = 0 /\ UNCHANGED <<chain, status, outer>>
        /\ Fail(FALSE) \/ UNCHANGED records
    BY <1>2 DEF StepReturns, AtStep
  <2>2. Position'
    BY <1>1, <2>1, MovesOnward
  <2>3. CASE Fail(FALSE)
    BY <1>1, <2>1, <2>2, <2>3, QuietStep
  <2>4. CASE UNCHANGED records
    BY <1>1, <2>1, <2>2, <2>4, SilentStep
  <2> QED
    BY <2>1, <2>3, <2>4
<1>3. CASE RetryStep
  <2>1. /\ tries' \in 0..(MaxTries - 1)
        /\ UNCHANGED <<chain, section, step, records, status, outer, phase>>
    BY <1>1, <1>3, ChainAssumption DEF RetryStep
  <2>2. Position'
    BY <1>1, <2>1 DEF Position
  <2> QED
    BY <1>3, <2>1, <2>2, SilentStep DEF RetryStep, At
<1>4. CASE SequentialFails
  <2>1. chain = "sequential" /\ section <= 2 /\ phase = "running"
    BY <1>1, <1>4 DEF SequentialFails, At, Position, LastSection
  <2>2. Position'
    BY <1>1, <1>4, <2>1, MovesOnward, LastSections DEF SequentialFails, Finish, Position
  <2> QED
    BY <1>4, <2>1, <2>2, FailingStep DEF SequentialFails
<1>5. CASE GatePasses
  <2>1. /\ phase = "running" /\ chain = "conditional" /\ UNCHANGED <<chain, tries, records, status, outer>>
        /\ section' \in 0..LastSection /\ step' = 1 /\ phase' = "running"
    BY <1>1, <1>5, LastSections DEF GatePasses, AtGate, At, Position, Go
  <2>2. Position'
    BY <1>1, <2>1 DEF Position
  <2> QED
    BY <1>1, <2>1, <2>2, SilentStep
<1>6. CASE GateFails
  <2>1. phase = "running" /\ chain = "conditional" /\ Fail(TRUE) /\ UNCHANGED <<chain, tries, outer>>
    BY <1>6 DEF GateFails, AtGate, At
  <2>2. CASE section = 0
    <3>1. status' = "failed" /\ Finish
      BY <1>6, <2>2 DEF GateFails
    <3>2. Position'
      BY <1>1, <2>1, <3>1 DEF Finish, Position
    <3> QED
      BY <1>1, <2>1, <2>2, <3>1, <3>2, FailingStep
  <2>3. CASE section # 0
    <3>1. section > 2 /\ status' = status /\ AfterSection(section)
      BY <1>1, <1>6, <2>1, <2>3 DEF GateFails, AtGate, Position
    <3>2. Position'
      BY <1>1, <2>1, <3>1, MovesOnward
    <3> QED
      BY <1>1, <2>1, <3>1, <3>2, QuietStep
  <2> QED
    BY <2>2, <2>3
<1>7. CASE BranchFails
  <2>1. /\ phase = "running" /\ chain = "conditional" /\ section > 0 /\ Fail(TRUE)
        /\ UNCHANGED <<chain, tries, outer>> /\ AfterSection(section)
        /\ status' = (IF section <= 2 THEN "failed" ELSE status)
    BY <1>7 DEF BranchFails, AtStep, At
  <2>2. Position'
    BY <1>1, <2>1, MovesOnward
  <2>3. CASE section <= 2
    BY <1>1, <2>1, <2>2, <2>3, FailingStep
  <2>4. CASE ~(section <= 2)
    <3>1. section > 2 /\ status' = status
      BY <1>1, <2>1, <2>4
    <3> QED
      BY <1>1, <2>1, <2>2, <3>1, QuietStep
  <2> QED
    BY <2>3, <2>4
<1>8. CASE MapRaises \/ AgentRaises
  <2>1. /\ phase' = "raised" /\ UNCHANGED <<chain, section, step, tries, outer>>
        /\ chain # "conditional" /\ status' \in Statuses
        /\ Fail(TRUE) \/ UNCHANGED records
    BY <1>8 DEF MapRaises, AgentRaises, At, ChainIInv, Results, Statuses
  <2>2. Position' /\ StatusSoFar'
    BY <1>1, <2>1 DEF Position, StatusSoFar
  <2>3. records' \subseteq StepRecord
    BY <1>1, <2>1, FailAdds DEF ChainIInv, Results
  <2> QED
    BY <1>1, <2>1, <2>2, <2>3 DEF ChainIInv, Results, Waiting, Tells
<1>9. CASE ReduceFails \/ ToolsRaise \/ DeniedStepFails
  <2>1. /\ phase = "running" /\ chain \notin {"sequential", "conditional"}
        /\ UNCHANGED <<chain, tries, status, outer>> /\ Fail(TRUE)
        /\ Finish \/ AfterStep(section, step)
    BY <1>9 DEF ReduceFails, ToolsRaise, DeniedStepFails, At
  <2>2. Finish \/ section > 0
    <3>1. section = 1 \/ section = 2 \/ chain = "tools"
      BY <1>9 DEF ReduceFails, ToolsRaise, DeniedStepFails, At
    <3>2. chain = "tools" => section # 0
      BY <1>1 DEF Position
    <3> QED
      BY <1>1, <3>1, <3>2
  <2>3. Position'
    <3>1. CASE Finish
      BY <1>1, <2>1, <3>1 DEF Finish, Position
    <3>2. CASE section > 0 /\ AfterStep(section, step)
      BY <1>1, <2>1, <3>2, MovesOnward
    <3> QED
      BY <2>1, <2>2, <3>1, <3>2
  <2> QED
    BY <1>1, <2>1, <2>3, QuietStep
<1>10. CASE ToolsAnswer \/ Approve
  <2>1. /\ phase = "running" /\ Finish /\ UNCHANGED <<chain, tries, records, status, outer>>
    BY <1>10 DEF ToolsAnswer, Approve, At
  <2>2. Position'
    BY <1>1, <2>1 DEF Finish, Position
  <2> QED
    BY <1>1, <2>1, <2>2, SilentStep
<1>11. CASE SkipAgent
  <2>1. /\ phase = "running" /\ UNCHANGED <<chain, tries, records, status, outer>>
        /\ AfterStep(section, step)
    BY <1>11 DEF SkipAgent, At
  <2>2. section > 0
    BY <1>1, <1>11 DEF SkipAgent, At, Position
  <2>3. Position'
    BY <1>1, <2>1, <2>2, MovesOnward
  <2> QED
    BY <1>1, <2>1, <2>3, SilentStep
<1>12. CASE Deny
  <2>1. /\ phase = "running" /\ chain = "approval" /\ status' = "denied"
        /\ UNCHANGED <<chain, tries, records, outer>> /\ section = 0 /\ AfterSection(section)
    BY <1>12 DEF Deny, At
  <2>2. Position'
    BY <1>1, <2>1 DEF AfterSection, Go, Position, LastSection, Finish
  <2> QED
    BY <1>1, <2>1, <2>2, SilentStep
<1>13. CASE Nest \/ Resume
  BY <1>13, NestKeeps, ResumeKeeps
<1> QED
  BY <1>2, <1>3, <1>4, <1>5, <1>6, <1>7, <1>8, <1>9, <1>10, <1>11, <1>12, <1>13 DEF ChainNext

(* A run is always where its template has a step or a gate, and its status *)
(* is that of the steps it has recorded; so is each run that waits for it. *)
THEOREM ChainIInvAlways == ChainSpec => []ChainIInv
<1>1. ChainInit => ChainIInv
  <2> SUFFICES ASSUME ChainInit PROVE ChainIInv
    OBVIOUS
  <2>1. LastSection \in 1..(2 + ExtraGates) /\ ExtraGates \in Nat
    BY LastSections DEF ChainInit
  <2>2. Position
    BY <2>1 DEF ChainInit, Position
  <2>3. Results
    BY ChainAssumption DEF ChainInit, Results, Statuses
  <2>4. StatusSoFar
    BY DEF ChainInit, StatusSoFar, Tells, Raised
  <2>5. Waiting
    <3>1. outer = <<>>
      BY DEF ChainInit
    <3> QED
      BY <3>1 DEF Waiting
  <2> QED
    BY <2>2, <2>3, <2>4, <2>5 DEF ChainIInv
<1>2. ChainIInv /\ [ChainNext]_cvars => ChainIInv'
  <2>1. ChainIInv /\ UNCHANGED cvars => ChainIInv'
    BY DEF ChainIInv, Position, Results, StatusSoFar, Waiting, Tells, LastSection, cvars
  <2> QED
    BY <2>1, ChainsStep
<1> QED
  BY <1>1, <1>2, PTL DEF ChainSpec

(* Kinds, places, results and statuses have their types (chain_templates). *)
THEOREM ChainTypeCorrect == ChainSpec => []ChainTypeOK
<1>1. ChainIInv => ChainTypeOK
  <2> SUFFICES ASSUME ChainIInv PROVE ChainTypeOK
    OBVIOUS
  <2>1. section \in 0..(2 + ExtraGates)
    BY LastSections DEF ChainIInv, Position
  <2>2. \A i \in DOMAIN outer : outer[i].records \subseteq StepRecord /\ outer[i].status \in Statuses
    <3> SUFFICES ASSUME NEW i \in DOMAIN outer PROVE outer[i] \in Frame
      BY DEF Frame
    <3> QED
      BY DEF ChainIInv, Waiting
  <2> QED
    BY <2>1, <2>2 DEF ChainIInv, Position, Results, ChainTypeOK
<1> QED
  BY <1>1, ChainIInvAlways, PTL

(* However many steps, sections and levels a chain has, and whatever of     *)
(* them raises or returns a failed record, its status tells just those     *)
(* that raised where it looks (run of the chains).                         *)
THEOREM StatusTells == ChainSpec => []StatusTellsFailure
<1>1. ChainIInv => StatusTellsFailure
  BY DEF ChainIInv, StatusSoFar, Tells, StatusTellsFailure
<1> QED
  BY <1>1, ChainIInvAlways, PTL

=============================================================================
