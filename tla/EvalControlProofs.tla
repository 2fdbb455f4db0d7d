------------------------- MODULE EvalControlProofs -------------------------
(***************************************************************************)
(* What EvalControl's runs check on small instances, proved for any number *)
(* of submissions, runs, retries and faults; and that the control plane    *)
(* implements KingOfTheHill, every transaction being one of its steps or   *)
(* none.                                                                   *)
(***************************************************************************)
EXTENDS EvalControl, TLAPS

----------------------------------------------------------------------------
(* The inductive invariant. *)

\* Attempts belong to submissions, and only a succeeded attempt won.
RowRefs ==
  /\ \A r \in Runs : attempts[r].state # "NONE" => attempts[r].sub \in Subs
  /\ \A r \in Runs : evals[r].won => attempts[r].state = "SUCCEEDED"

\* A process at work holds a run that was claimed.
ProcRefs ==
  \A f \in Followers : proc[f].pc # "idle" =>
    proc[f].run \in Runs /\ attempts[proc[f].run].state # "NONE"

IInv == TypeOK /\ RowRefs /\ ProcRefs /\ OneEvalAtATime /\ CrownNeedsTwoWins

LEMMA InitIInv == Init => IInv
  <1> SUFFICES ASSUME Init PROVE IInv
    OBVIOUS
  <1> USE CountsAssumption, CommitAssumption
  <1>1. TypeOK
    <2>1. king \in Kings
      BY DEF Init, Kings
    <2>2. QED
      BY <2>1 DEF Init, TypeOK, SubRow, AttemptRow, EvalRow, ProcRow, Idle, PCs, SubStates, AttemptStates, EvalStates, Priorities, Kings
  <1>2. RowRefs /\ ProcRefs
    BY DEF Init, RowRefs, ProcRefs, Idle
  <1>3. OneEvalAtATime
    BY DEF Init, OneEvalAtATime, InState, ActiveAttempt
  <1>4. CrownNeedsTwoWins
    BY DEF Init, CrownNeedsTwoWins, InState
  <1>5. QED
    BY <1>1, <1>2, <1>3, <1>4 DEF IInv

----------------------------------------------------------------------------
(* Type correctness, one step per action.  The rows' sets are opened only where a   *)
(* row changes.                                                                     *)

LEMMA HeartbeatType ==
  ASSUME TypeOK, NEW r \in Runs
  PROVE  Heartbeat(r) \in [Runs -> AttemptRow]
  <1>1. (attempts[r].leased \/ attempts[r].state = "RUNNING") \in BOOLEAN
    OBVIOUS
  <1>2. [attempts[r] EXCEPT !.leased = @ \/ attempts[r].state = "RUNNING"] \in AttemptRow
    BY <1>1, Zenon DEF TypeOK, AttemptRow
  <1>3. QED
    BY <1>2, Zenon DEF TypeOK, Heartbeat

LEMMA RecordType ==
  ASSUME TypeOK, NEW r \in Runs, NEW e \in Events, RecordRemoteEvent(r, e)
  PROVE  evals' \in [Runs -> EvalRow]
  <1>0. evals[r].state \in EvalStates /\ {"GENERATING", "SCORING", "VERDICT_READY"} \subseteq EvalStates
    BY DEF TypeOK, EvalRow, EvalStates, ActiveEval
  <1>1. RecordedState(r, e) \in EvalStates
    BY <1>0, Zenon DEF RecordedState, EvalStateAfter
  <1>2. QED
    BY <1>1 DEF TypeOK, EvalRow, RecordRemoteEvent

LEMMA MarkSucceededType ==
  ASSUME TypeOK, NEW r \in Runs, NEW won \in BOOLEAN, MarkSucceeded(r, won),
         attempts[r].sub \in Subs
  PROVE  /\ subs' \in [Subs -> SubRow]
         /\ attempts' \in [Runs -> AttemptRow]
         /\ evals' \in [Runs -> EvalRow]
  <1> DEFINE s == attempts[r].sub
             next == AfterDuel(s, r, won)
             prio == IF next = "EVAL_QUEUED" THEN 0 ELSE subs[s].prio
  <1>1. subs' \in [Subs -> SubRow]
    <2>1. next \in SubStates
      BY DEF AfterDuel, SubStates
    <2>2. prio \in Priorities
      BY DEF TypeOK, SubRow, Priorities
    <2>3. [[subs[s] EXCEPT !.state = next] EXCEPT !.prio = prio] \in SubRow
      BY <2>1, <2>2, Zenon DEF TypeOK, SubRow
    <2>4. QED
      BY <2>3, Zenon DEF TypeOK, MarkSucceeded
  <1>2. attempts' \in [Runs -> AttemptRow]
    BY DEF TypeOK, MarkSucceeded, AttemptRow, AttemptStates
  <1>3. evals' \in [Runs -> EvalRow]
    <2>1. [[evals[r] EXCEPT !.state = "SUCCEEDED"] EXCEPT !.won = won] \in EvalRow
      BY Zenon DEF TypeOK, EvalRow, EvalStates
    <2>2. QED
      BY <2>1, Zenon DEF TypeOK, MarkSucceeded
  <1>4. QED
    BY <1>1, <1>2, <1>3

LEMMA MarkFailedType ==
  ASSUME TypeOK, NEW r \in Runs, NEW retryable \in BOOLEAN, MarkFailed(r, retryable),
         attempts[r].sub \in Subs
  PROVE  /\ subs' \in [Subs -> SubRow]
         /\ attempts' \in [Runs -> AttemptRow]
         /\ evals' \in [Runs -> EvalRow]
  <1> DEFINE s == attempts[r].sub
             next == IF retryable THEN "EVAL_RETRYABLE" ELSE "TERMINAL_INVALID"
             failed == IF retryable THEN "FAILED_RETRYABLE" ELSE "FAILED_TERMINAL"
  <1>1. subs' \in [Subs -> SubRow]
    <2>1. next \in SubStates
      BY DEF SubStates
    <2>2. subs[s].retry + 1 \in Nat
      BY DEF TypeOK, SubRow
    <2>3. [[subs[s] EXCEPT !.state = next] EXCEPT !.retry = subs[s].retry + 1] \in SubRow
      BY <2>1, <2>2, Zenon DEF TypeOK, SubRow
    <2>4. QED
      BY <2>3, Zenon DEF TypeOK, MarkFailed
  <1>2. attempts' \in [Runs -> AttemptRow]
    <2>1. failed \in AttemptStates
      BY DEF AttemptStates, FailedAttempt
    <2>2. [attempts[r] EXCEPT !.state = failed] \in AttemptRow
      BY <2>1, Zenon DEF TypeOK, AttemptRow
    <2>3. QED
      BY <2>2, Zenon DEF TypeOK, MarkFailed
  <1>3. evals' \in [Runs -> EvalRow]
    <2>1. failed \in EvalStates
      BY DEF EvalStates
    <2>2. [evals[r] EXCEPT !.state = failed] \in EvalRow
      BY <2>1, Zenon DEF TypeOK, EvalRow
    <2>3. QED
      BY <2>2, Zenon DEF TypeOK, MarkFailed
  <1>4. QED
    BY <1>1, <1>2, <1>3

LEMMA RejectionsType ==
  ASSUME TypeOK
  PROVE  AfterRejections \in [Subs -> SubRow]
  <1>1. ASSUME NEW s \in Subs
        PROVE  [subs[s] EXCEPT !.state = "TERMINAL_INVALID"] \in SubRow
    BY DEF TypeOK, SubRow, SubStates
  <1>2. QED
    BY <1>1, Zenon DEF TypeOK, AfterRejections

\* Any row may change its state, and its retry count by one.
LEMMA RowTypes ==
  ASSUME TypeOK, NEW s \in Subs, NEW st \in SubStates
  PROVE  /\ [subs[s] EXCEPT !.state = st] \in SubRow
         /\ [[subs[s] EXCEPT !.state = st] EXCEPT !.retry = subs[s].retry + 1] \in SubRow
  <1>1. subs[s].retry + 1 \in Nat
    BY DEF TypeOK, SubRow
  <1>2. QED
    BY <1>1, Zenon DEF TypeOK, SubRow

----------------------------------------------------------------------------
(* What keeps each conjunct. *)

Promoted == {"EVAL_WIN", "SET_REIGN_RETRYABLE", "REIGN_SET"}

LEMMA OneEvalKept ==
  ASSUME OneEvalAtATime,
         \A r \in Runs : attempts'[r].state = attempts[r].state /\ attempts'[r].sub = attempts[r].sub,
         \A s \in Subs : InState(s, {"EVAL_RUNNING"})' <=> InState(s, {"EVAL_RUNNING"})
  PROVE  OneEvalAtATime'
  BY DEF OneEvalAtATime, ActiveAttempt

\* The only RUNNING attempt ends together with its submission's EVAL_RUNNING.
LEMMA OneEvalEnds ==
  ASSUME OneEvalAtATime, NEW r \in Runs, attempts[r].state = "RUNNING",
         attempts'[r].state # "RUNNING",
         \A q \in Runs \ {r} : attempts'[q] = attempts[q],
         subs'[attempts[r].sub].state # "EVAL_RUNNING",
         \A s \in Subs \ {attempts[r].sub} : subs'[s] = subs[s]
  PROVE  OneEvalAtATime'
  <1>1. \A q \in Runs : attempts'[q].state # "RUNNING"
    BY DEF OneEvalAtATime
  <1>2. ASSUME NEW s \in Subs, InState(s, {"EVAL_RUNNING"})'
        PROVE  FALSE
    <2>1. s # attempts[r].sub
      BY <1>2 DEF InState
    <2>2. InState(s, {"EVAL_RUNNING"})
      BY <1>2, <2>1 DEF InState
    <2>3. PICK q \in Runs : attempts[q].sub = s /\ attempts[q].state = "RUNNING"
      BY <2>2 DEF OneEvalAtATime, ActiveAttempt
    <2>4. QED
      BY <2>1, <2>3 DEF OneEvalAtATime
  <1>3. QED
    BY <1>1, <1>2 DEF OneEvalAtATime, ActiveAttempt

\* A won run stays won, and whoever becomes a winner has two of them.
LEMMA CrownKept ==
  ASSUME CrownNeedsTwoWins,
         \A s \in Subs : WonRuns(s) \subseteq WonRuns(s)',
         \A s \in Subs : InState(s, Promoted)' =>
           InState(s, Promoted) \/ \E q, r \in WonRuns(s)' : q # r
  PROVE  CrownNeedsTwoWins'
  BY DEF CrownNeedsTwoWins, Promoted

LEMMA ProcRefsKept ==
  ASSUME ProcRefs,
         \A r \in Runs : attempts[r].state # "NONE" => attempts'[r].state # "NONE",
         \A f \in Followers : \/ proc'[f].pc = "idle"
                              \/ proc[f].pc # "idle" /\ proc'[f].run = proc[f].run
  PROVE  ProcRefs'
  BY DEF ProcRefs

\* A step that leaves the database alone.
LEMMA RowsKept ==
  ASSUME IInv, UNCHANGED <<subs, attempts, evals>>
  PROVE  RowRefs' /\ OneEvalAtATime' /\ CrownNeedsTwoWins'
  <1>1. RowRefs'
    BY DEF IInv, RowRefs
  <1>2. OneEvalAtATime'
    BY DEF IInv, OneEvalAtATime, InState, ActiveAttempt
  <1>3. CrownNeedsTwoWins'
    BY DEF IInv, CrownNeedsTwoWins, InState, WonRuns
  <1>4. QED
    BY <1>1, <1>2, <1>3

\* A step that only moves submissions, none of them from, to or among the running and
\* the promoted.
LEMMA SubsMoved ==
  ASSUME IInv, UNCHANGED <<attempts, evals>>,
         \A s \in Subs : InState(s, {"EVAL_RUNNING"})' <=> InState(s, {"EVAL_RUNNING"}),
         \A s \in Subs : InState(s, Promoted)' => InState(s, Promoted)
  PROVE  RowRefs' /\ OneEvalAtATime' /\ CrownNeedsTwoWins'
  <1>1. RowRefs'
    BY DEF IInv, RowRefs
  <1>2. OneEvalAtATime'
    BY OneEvalKept DEF IInv
  <1>3. \A s \in Subs : WonRuns(s) \subseteq WonRuns(s)'
    BY DEF WonRuns
  <1>4. CrownNeedsTwoWins'
    BY <1>3, CrownKept DEF IInv
  <1>5. QED
    BY <1>1, <1>2, <1>4

----------------------------------------------------------------------------
(* The environment, the requeuer and the claims that start nothing. *)

LEMMA PassPreEvalInv == ASSUME IInv, NEW s \in Subs, PassPreEval(s) PROVE IInv'
  <1> USE DEF PassPreEval
  <1>1. TypeOK'
    <2>1. [[subs[s] EXCEPT !.state = "PRE_EVAL_PASSED"] EXCEPT !.retry = 0] \in SubRow
      BY DEF IInv, TypeOK, SubRow, SubStates
    <2>2. subs' \in [Subs -> SubRow]
      BY <2>1, Zenon DEF IInv, TypeOK
    <2>3. QED
      BY <2>2 DEF IInv, TypeOK
  <1>2. ProcRefs'
    BY DEF IInv, ProcRefs
  <1>3. \A t \in Subs : /\ InState(t, {"EVAL_RUNNING"})' <=> InState(t, {"EVAL_RUNNING"})
                        /\ InState(t, Promoted)' => InState(t, Promoted)
    BY DEF IInv, TypeOK, InState, Promoted
  <1>4. QED
    BY <1>1, <1>2, <1>3, SubsMoved DEF IInv

LEMMA EnvironmentInv ==
  ASSUME IInv, (\E h \in Hotkeys : Reregister(h)) \/ CrownGenesis
  PROVE  IInv'
  <1>1. TypeOK'
    BY DEF IInv, TypeOK, Reregister, CrownGenesis, Kings
  <1>2. ProcRefs'
    BY DEF IInv, ProcRefs, Reregister, CrownGenesis
  <1>3. QED
    BY <1>1, <1>2, RowsKept DEF IInv, Reregister, CrownGenesis

LEMMA LeaseExpiresInv == ASSUME IInv, NEW r \in Runs, LeaseExpires(r) PROVE IInv'
  <1> USE DEF LeaseExpires
  <1>1. TypeOK'
    <2>1. [attempts[r] EXCEPT !.leased = FALSE] \in AttemptRow
      BY Zenon DEF IInv, TypeOK, AttemptRow
    <2>2. attempts' \in [Runs -> AttemptRow]
      BY <2>1, Zenon DEF IInv, TypeOK
    <2>3. faults' \in 0..MaxFaults
      BY CountsAssumption DEF IInv, TypeOK
    <2>4. QED
      BY <2>2, <2>3 DEF IInv, TypeOK
  <1>2. \A q \in Runs : attempts'[q].state = attempts[q].state /\ attempts'[q].sub = attempts[q].sub
    BY DEF IInv, TypeOK, AttemptRow
  <1>3. RowRefs' /\ ProcRefs'
    BY <1>2 DEF IInv, RowRefs, ProcRefs
  <1>4. OneEvalAtATime'
    BY <1>2, OneEvalKept DEF IInv, InState
  <1>5. CrownNeedsTwoWins'
    BY <1>2 DEF IInv, CrownNeedsTwoWins, WonRuns, InState
  <1>6. QED
    BY <1>1, <1>3, <1>4, <1>5 DEF IInv

LEMMA RequeuerInv == ASSUME IInv, Requeuer PROVE IInv'
  <1>1. ASSUME QueuePreEvalPassed
        PROVE  IInv'
    <2> USE <1>1 DEF QueuePreEvalPassed
    <2>1. TypeOK'
      <3>1. "EVAL_QUEUED" \in SubStates
        BY DEF SubStates
      <3>2. subs' \in [Subs -> SubRow]
        BY <3>1, RowTypes, Zenon DEF IInv, TypeOK
      <3>3. QED
        BY <3>2 DEF IInv, TypeOK
    <2>2. ProcRefs'
      BY DEF IInv, ProcRefs
    <2>3. \A t \in Subs : /\ InState(t, {"EVAL_RUNNING"})' <=> InState(t, {"EVAL_RUNNING"})
                          /\ InState(t, Promoted)' => InState(t, Promoted)
      BY DEF IInv, TypeOK, SubRow, InState, Promoted
    <2>4. QED
      BY <2>1, <2>2, <2>3, SubsMoved DEF IInv
  <1>2. ASSUME RequeueRetryable
        PROVE  IInv'
    <2> USE <1>2 DEF RequeueRetryable
    <2>1. TypeOK'
      <3>1. {"TERMINAL_INVALID", "EVAL_QUEUED"} \subseteq SubStates
        BY DEF SubStates
      <3>2. ASSUME NEW s \in Subs
            PROVE  [subs[s] EXCEPT !.state = IF RetryCapped(s) THEN "TERMINAL_INVALID"
                                             ELSE "EVAL_QUEUED"] \in SubRow
        BY <3>1, RowTypes, Zenon DEF IInv
      <3>3. subs' \in [Subs -> SubRow]
        BY <3>2, Zenon DEF IInv, TypeOK
      <3>4. QED
        BY <3>3 DEF IInv, TypeOK
    <2>2. ProcRefs'
      BY DEF IInv, ProcRefs
    <2>3. \A t \in Subs : /\ InState(t, {"EVAL_RUNNING"})' <=> InState(t, {"EVAL_RUNNING"})
                          /\ InState(t, Promoted)' => InState(t, Promoted)
      BY DEF IInv, TypeOK, SubRow, InState, Promoted
    <2>4. QED
      BY <2>1, <2>2, <2>3, SubsMoved DEF IInv
  <1>3. QED
    BY <1>1, <1>2 DEF Requeuer

\* What the rejections ahead of a claim leave as it was.
LEMMA RejectionsMove ==
  ASSUME TypeOK, NEW s \in Subs
  PROVE  \/ AfterRejections[s] = subs[s]
         \/ /\ subs[s].state = "EVAL_QUEUED"
            /\ AfterRejections[s].state = "TERMINAL_INVALID"
  BY DEF AfterRejections, RejectedAhead, Eligible, InState, TypeOK, SubRow

LEMMA IdleClaimInv ==
  ASSUME IInv, ClaimNothing \/ \E s \in Subs : ClaimWithoutKing(s)
  PROVE  IInv'
  <1>1. ASSUME ClaimNothing
        PROVE  IInv'
    <2> USE <1>1 DEF ClaimNothing
    <2>1. TypeOK'
      BY RejectionsType DEF IInv, TypeOK
    <2>2. ProcRefs'
      BY DEF IInv, ProcRefs
    <2>3. \A t \in Subs : /\ InState(t, {"EVAL_RUNNING"})' <=> InState(t, {"EVAL_RUNNING"})
                          /\ InState(t, Promoted)' => InState(t, Promoted)
      BY RejectionsMove DEF IInv, InState, Promoted
    <2>4. QED
      BY <2>1, <2>2, <2>3, SubsMoved DEF IInv
  <1>2. ASSUME NEW s \in Subs, ClaimWithoutKing(s)
        PROVE  IInv'
    <2> USE <1>2 DEF ClaimWithoutKing
    <2>1. AfterRejections[s] \in SubRow /\ AfterRejections[s].retry + 1 \in Nat
      BY RejectionsType DEF IInv, SubRow
    <2>2. TypeOK'
      <3>1. "EVAL_RETRYABLE" \in SubStates
        BY DEF SubStates
      <3>2. [[AfterRejections[s] EXCEPT !.state = "EVAL_RETRYABLE"]
               EXCEPT !.retry = AfterRejections[s].retry + 1] \in SubRow
        BY <2>1, <3>1, Zenon DEF SubRow
      <3>3. subs' \in [Subs -> SubRow]
        BY <3>2, RejectionsType, Zenon DEF IInv
      <3>4. QED
        BY <3>3 DEF IInv, TypeOK
    <2>3. ProcRefs'
      BY DEF IInv, ProcRefs
    <2>4. \A t \in Subs : /\ InState(t, {"EVAL_RUNNING"})' <=> InState(t, {"EVAL_RUNNING"})
                          /\ InState(t, Promoted)' => InState(t, Promoted)
      <3>1. InState(s, {"EVAL_QUEUED"})
        BY DEF First, Candidates, Eligible
      <3>2. subs'[s].state = "EVAL_RETRYABLE"
        BY <2>1, RejectionsType DEF IInv, SubRow
      <3>3. \A t \in Subs \ {s} : subs'[t] = AfterRejections[t]
        BY RejectionsType DEF IInv
      <3>4. ASSUME NEW t \in Subs
            PROVE  \/ subs'[t] = subs[t]
                   \/ /\ subs[t].state = "EVAL_QUEUED"
                      /\ subs'[t].state \in {"EVAL_RETRYABLE", "TERMINAL_INVALID"}
        <4>1. CASE t = s
          BY <4>1, <3>1, <3>2 DEF InState
        <4>2. CASE t # s
          BY <4>2, <3>3, RejectionsMove DEF IInv
        <4>3. QED
          BY <4>1, <4>2
      <3>5. QED
        BY <3>4 DEF InState, Promoted
    <2>5. QED
      BY <2>2, <2>3, <2>4, SubsMoved DEF IInv
  <1>3. QED
    BY <1>1, <1>2

----------------------------------------------------------------------------
(* Claiming, sweeping and completing: the steps that start and end an attempt. *)

LEMMA ClaimNextEvalInv ==
  ASSUME IInv, NEW s \in Subs, NEW r \in Runs, ClaimNextEval(s, r)
  PROVE  IInv'
  <1> USE DEF ClaimNextEval
  <1> DEFINE attempt == [state |-> "RUNNING", sub |-> s, leased |-> TRUE]
             eval == [state |-> "DISPATCHED", king |-> king, remote |-> FALSE,
                      won |-> FALSE, recorded |-> {}]
             work == [Idle EXCEPT !.pc = "claimed", !.run = r]
  <1>1. TypeOK'
    <2>1. [AfterRejections[s] EXCEPT !.state = "EVAL_RUNNING"] \in SubRow
      <3>1. "EVAL_RUNNING" \in SubStates
        BY DEF SubStates
      <3>2. QED
        BY <3>1, RejectionsType, Zenon DEF IInv, SubRow
    <2>2. subs' \in [Subs -> SubRow]
      BY <2>1, RejectionsType, Zenon DEF IInv
    <2>3. attempt \in AttemptRow
      BY DEF AttemptRow, AttemptStates
    <2>4. attempts' \in [Runs -> AttemptRow]
      BY <2>3, Zenon DEF IInv, TypeOK
    <2>5. eval \in EvalRow
      BY DEF IInv, TypeOK, EvalRow, EvalStates, ActiveEval
    <2>6. evals' \in [Runs -> EvalRow]
      BY <2>5, Zenon DEF IInv, TypeOK
    <2>7. work \in ProcRow
      BY DEF ProcRow, Idle, PCs
    <2>8. proc' \in [Followers -> ProcRow]
      BY <2>7, Zenon DEF IInv, TypeOK
    <2>9. QED
      BY <2>2, <2>4, <2>6, <2>8 DEF IInv, TypeOK
  <1>2. /\ attempts'[r] = attempt
        /\ \A q \in Runs \ {r} : attempts'[q] = attempts[q]
        /\ ~evals'[r].won
        /\ \A q \in Runs \ {r} : evals'[q] = evals[q]
    BY DEF IInv, TypeOK
  <1>3. RowRefs'
    BY <1>2 DEF IInv, RowRefs
  <1>4. ProcRefs'
    <2>1. ASSUME NEW f \in Followers, proc'[f].pc # "idle"
          PROVE  proc'[f].run \in Runs /\ attempts'[proc'[f].run].state # "NONE"
      <3>1. CASE f = "dispatcher"
        <4>1. proc'[f].run = r
          BY <3>1 DEF IInv, TypeOK, Idle
        <4>2. QED
          BY <4>1, <1>2
      <3>2. CASE f # "dispatcher"
        <4>1. proc'[f] = proc[f]
          BY <3>2 DEF IInv, TypeOK
        <4>2. QED
          BY <4>1, <2>1, <1>2 DEF IInv, ProcRefs
      <3>3. QED
        BY <3>1, <3>2
    <2>2. QED
      BY <2>1 DEF ProcRefs
  <1>5. /\ subs'[s].state = "EVAL_RUNNING"
        /\ \A t \in Subs \ {s} : subs'[t] = AfterRejections[t]
    BY RejectionsType DEF IInv, SubRow
  <1>6. \A t \in Subs \ {s} : subs'[t].state # "EVAL_RUNNING"
    BY <1>5, RejectionsMove DEF IInv, ClaimGate, InState
  <1>7. OneEvalAtATime'
    <2>1. \A q \in Runs : attempts[q].state # "RUNNING"
      BY DEF IInv, OneEvalAtATime, ActiveAttempt, RowRefs, ClaimGate, InState
    <2>2. QED
      BY <2>1, <1>2, <1>5, <1>6 DEF OneEvalAtATime, ActiveAttempt, InState
  <1>8. CrownNeedsTwoWins'
    <2>1. \A t \in Subs : WonRuns(t) \subseteq WonRuns(t)'
      BY <1>2 DEF WonRuns, IInv, RowRefs
    <2>2. \A t \in Subs : InState(t, Promoted)' => InState(t, Promoted)
      BY <1>5, RejectionsMove DEF IInv, InState, Promoted
    <2>3. QED
      BY <2>1, <2>2, CrownKept DEF IInv
  <1>9. QED
    BY <1>1, <1>3, <1>4, <1>7, <1>8 DEF IInv

LEMMA SweepInv == ASSUME IInv, SweepAbandoned PROVE IInv'
  <1> USE DEF SweepAbandoned
  <1> DEFINE swept == {r \in Runs : Expired(r)}
             owners == {attempts[r].sub : r \in swept}
  <1>1. PICK r \in Runs : Expired(r)
    OBVIOUS
  <1>2. swept = {r} /\ owners = {attempts[r].sub} /\ attempts[r].sub \in Subs
    BY <1>1 DEF Expired, IInv, OneEvalAtATime
  <1>3. /\ attempts'[r] = [attempts[r] EXCEPT !.state = "ABANDONED"]
        /\ \A q \in Runs \ {r} : attempts'[q] = attempts[q]
    BY <1>2
  <1>4. /\ evals'[r] = [evals[r] EXCEPT !.state = "FAILED_RETRYABLE"]
        /\ \A q \in Runs \ {r} : evals'[q] = evals[q]
    BY <1>2
  <1>5. /\ subs'[attempts[r].sub] = [[subs[attempts[r].sub] EXCEPT !.state = "EVAL_RETRYABLE"]
                                       EXCEPT !.retry = @ + 1]
        /\ \A s \in Subs \ {attempts[r].sub} : subs'[s] = subs[s]
    BY <1>2
  <1>6. TypeOK'
    <2>1. {"EVAL_RETRYABLE"} \subseteq SubStates
      BY DEF SubStates
    <2>2. \A s \in Subs : subs'[s] \in SubRow
      BY <1>2, <1>5, <2>1, RowTypes, Zenon DEF IInv, TypeOK
    <2>3. \A q \in Runs : attempts'[q] \in AttemptRow
      BY <1>3, Zenon DEF IInv, TypeOK, AttemptRow, AttemptStates, FailedAttempt
    <2>4. \A q \in Runs : evals'[q] \in EvalRow
      <3>1. [evals[r] EXCEPT !.state = "FAILED_RETRYABLE"] \in EvalRow
        BY Zenon DEF IInv, TypeOK, EvalRow, EvalStates
      <3>2. QED
        BY <1>4, <3>1, Zenon DEF IInv, TypeOK
    <2>5. subs' \in [Subs -> SubRow] /\ attempts' \in [Runs -> AttemptRow] /\ evals' \in [Runs -> EvalRow]
      BY <2>2, <2>3, <2>4, Zenon
    <2>6. QED
      BY <2>5 DEF IInv, TypeOK
  <1>13. UNCHANGED proc
    OBVIOUS
  <1> HIDE DEF SweepAbandoned, swept, owners
  <1>7. /\ attempts'[r].state = "ABANDONED" /\ attempts'[r].sub = attempts[r].sub
        /\ evals'[r].won = evals[r].won
        /\ subs'[attempts[r].sub].state = "EVAL_RETRYABLE"
    <2>1. attempts'[r].state = "ABANDONED" /\ attempts'[r].sub = attempts[r].sub
      BY <1>3 DEF IInv, TypeOK, AttemptRow
    <2>2. evals'[r].won = evals[r].won
      BY <1>4 DEF IInv, TypeOK, EvalRow
    <2>3. subs'[attempts[r].sub].state = "EVAL_RETRYABLE"
      <3>1. subs[attempts[r].sub] \in SubRow
        BY <1>2 DEF IInv, TypeOK
      <3>2. QED
        BY <1>5, <3>1 DEF SubRow
    <2>4. QED
      BY <2>1, <2>2, <2>3
  <1>8. attempts[r].state = "RUNNING"
    BY <1>1 DEF Expired
  <1>9. RowRefs' /\ ProcRefs'
    <2>1. RowRefs'
      <3>1. SUFFICES ASSUME NEW q \in Runs
                     PROVE  /\ attempts'[q].state # "NONE" => attempts'[q].sub \in Subs
                            /\ evals'[q].won => attempts'[q].state = "SUCCEEDED"
        BY DEF RowRefs
      <3>2. CASE q = r
        BY <1>2, <1>7, <1>8, <3>2 DEF IInv, RowRefs
      <3>3. CASE q # r
        BY <1>3, <1>4, <3>3 DEF IInv, RowRefs
      <3>4. QED
        BY <3>2, <3>3
    <2>2. \A q \in Runs : attempts[q].state # "NONE" => attempts'[q].state # "NONE"
      BY <1>3, <1>7
    <2>3. ProcRefs'
      BY <1>13, <2>2 DEF IInv, ProcRefs
    <2>4. QED
      BY <2>1, <2>3
  <1>10. OneEvalAtATime'
    BY <1>3, <1>5, <1>7, <1>8, OneEvalEnds DEF IInv
  <1>11. CrownNeedsTwoWins'
    <2>1. \A s \in Subs : WonRuns(s) \subseteq WonRuns(s)'
      BY <1>3, <1>4, <1>7 DEF WonRuns
    <2>2. \A s \in Subs : InState(s, Promoted)' => InState(s, Promoted)
      BY <1>5, <1>7 DEF InState, Promoted
    <2>3. QED
      BY <2>1, <2>2, CrownKept DEF IInv
  <1>12. QED
    BY <1>6, <1>9, <1>10, <1>11 DEF IInv

\* Both completions: the latch held, the attempt ends with its submission's duel.
LEMMA MarkSucceededInv ==
  ASSUME IInv, NEW r \in Runs, NEW won \in BOOLEAN, Latch(r), MarkSucceeded(r, won)
  PROVE  /\ RowRefs' /\ OneEvalAtATime' /\ CrownNeedsTwoWins'
         /\ attempts'[r].state = "SUCCEEDED"
         /\ \A q \in Runs \ {r} : attempts'[q] = attempts[q]
  <1> DEFINE s == attempts[r].sub
  <1> USE DEF MarkSucceeded
  <1>1. s \in Subs /\ attempts[r].state = "RUNNING"
    BY DEF Latch, IInv, RowRefs
  <1>2. /\ attempts'[r].state = "SUCCEEDED" /\ attempts'[r].sub = s
        /\ \A q \in Runs \ {r} : attempts'[q] = attempts[q]
    BY DEF IInv, TypeOK, AttemptRow
  <1>3. /\ evals'[r].won = won
        /\ \A q \in Runs \ {r} : evals'[q] = evals[q]
    BY DEF IInv, TypeOK, EvalRow
  <1>4. /\ subs'[s].state = AfterDuel(s, r, won)
        /\ \A t \in Subs \ {s} : subs'[t] = subs[t]
    BY <1>1 DEF IInv, TypeOK, SubRow
  <1>5. RowRefs'
    BY <1>1, <1>2, <1>3 DEF IInv, RowRefs
  <1>6. OneEvalAtATime'
    <2>1. AfterDuel(s, r, won) # "EVAL_RUNNING"
      BY DEF AfterDuel
    <2>2. QED
      BY <1>1, <1>2, <1>4, <2>1, OneEvalEnds DEF IInv
  <1>7. CrownNeedsTwoWins'
    <2>1. ~evals[r].won
      BY <1>1 DEF IInv, RowRefs
    <2>2. \A t \in Subs : WonRuns(t) \subseteq WonRuns(t)'
      BY <1>2, <1>3, <2>1 DEF WonRuns
    <2>3. ASSUME NEW t \in Subs, InState(t, Promoted)'
          PROVE  InState(t, Promoted) \/ \E p, q \in WonRuns(t)' : p # q
      <3>1. CASE t # s
        BY <3>1, <1>4, <2>3 DEF InState
      <3>2. CASE t = s
        <4>1. AfterDuel(s, r, won) = "EVAL_WIN"
          <5>1. AfterDuel(s, r, won) \in Promoted
            BY <3>2, <1>4, <2>3 DEF InState
          <5>2. AfterDuel(s, r, won) \in {"COMPLETE_LOSS", "EVAL_QUEUED", "EVAL_WIN"}
            BY DEF AfterDuel
          <5>3. QED
            BY <5>1, <5>2 DEF Promoted
        <4>2. won /\ PriorWins(s, r) # {}
          BY <4>1 DEF AfterDuel
        <4>3. PICK q \in PriorWins(s, r) : TRUE
          BY <4>2
        <4>4. q \in WonRuns(t)' /\ r \in WonRuns(t)' /\ q # r
          BY <3>2, <4>2, <4>3, <1>2, <1>3 DEF PriorWins, WonRuns
        <4>5. QED
          BY <4>4
      <3>3. QED
        BY <3>1, <3>2
    <2>4. QED
      BY <2>2, <2>3, CrownKept DEF IInv
  <1>8. QED
    BY <1>2, <1>5, <1>6, <1>7

LEMMA MarkFailedInv ==
  ASSUME IInv, NEW r \in Runs, NEW retryable \in BOOLEAN, Latch(r), MarkFailed(r, retryable)
  PROVE  /\ RowRefs' /\ OneEvalAtATime' /\ CrownNeedsTwoWins'
         /\ attempts'[r].state \in FailedAttempt
         /\ \A q \in Runs \ {r} : attempts'[q] = attempts[q]
  <1> DEFINE s == attempts[r].sub
  <1> USE DEF MarkFailed
  <1>1. s \in Subs /\ attempts[r].state = "RUNNING"
    BY DEF Latch, IInv, RowRefs
  <1>2. /\ attempts'[r].state \in {"FAILED_RETRYABLE", "FAILED_TERMINAL"}
        /\ attempts'[r].sub = s
        /\ \A q \in Runs \ {r} : attempts'[q] = attempts[q]
    BY DEF IInv, TypeOK, AttemptRow
  <1>3. /\ evals'[r].won = evals[r].won
        /\ \A q \in Runs \ {r} : evals'[q] = evals[q]
    BY DEF IInv, TypeOK, EvalRow
  <1>4. /\ subs'[s].state \in {"EVAL_RETRYABLE", "TERMINAL_INVALID"}
        /\ \A t \in Subs \ {s} : subs'[t] = subs[t]
    BY <1>1 DEF IInv, TypeOK, SubRow
  <1>5. RowRefs'
    BY <1>1, <1>2, <1>3 DEF IInv, RowRefs
  <1>6. OneEvalAtATime'
    BY <1>1, <1>2, <1>4, OneEvalEnds DEF IInv
  <1>7. CrownNeedsTwoWins'
    <2>1. \A t \in Subs : WonRuns(t) \subseteq WonRuns(t)'
      BY <1>2, <1>3 DEF WonRuns
    <2>2. \A t \in Subs : InState(t, Promoted)' => InState(t, Promoted)
      BY <1>4 DEF InState, Promoted
    <2>3. QED
      BY <2>1, <2>2, CrownKept DEF IInv
  <1>8. QED
    BY <1>2, <1>5, <1>6, <1>7 DEF FailedAttempt

LEMMA CompleteEvalInv == ASSUME IInv, NEW f \in Followers, CompleteEval(f) PROVE IInv'
  <1> DEFINE r == proc[f].run
             v == proc[f].verdict
  <1> USE DEF CompleteEval
  <1>1. r \in Runs /\ attempts[r].state # "NONE" /\ attempts[r].sub \in Subs
    BY DEF IInv, ProcRefs, RowRefs
  <1>2. Idle \in ProcRow
    BY DEF Idle, ProcRow, PCs
  <1>3. proc' \in [Followers -> ProcRow]
    BY <1>2, Zenon DEF IInv, TypeOK
  <1>4. \A g \in Followers : proc'[g].pc = "idle" \/ proc'[g] = proc[g]
    BY DEF IInv, TypeOK, Idle
  <1>5. CASE ~Latch(r) /\ UNCHANGED <<subs, attempts, evals>>
    <2>1. TypeOK'
      BY <1>3, <1>5 DEF IInv, TypeOK
    <2>2. ProcRefs'
      BY <1>4, <1>5, ProcRefsKept DEF IInv
    <2>3. QED
      BY <1>5, <2>1, <2>2, RowsKept DEF IInv
  <1>6. CASE Latch(r) /\ MarkSucceeded(r, v = "won")
    <2>1. (v = "won") \in BOOLEAN
      OBVIOUS
    <2>2. TypeOK'
      BY <1>1, <1>3, <1>6, <2>1, MarkSucceededType DEF IInv, TypeOK
    <2>3. /\ RowRefs' /\ OneEvalAtATime' /\ CrownNeedsTwoWins'
          /\ attempts'[r].state = "SUCCEEDED"
          /\ \A q \in Runs \ {r} : attempts'[q] = attempts[q]
      BY <1>1, <1>6, <2>1, MarkSucceededInv, Zenon
    <2>4. ProcRefs'
      BY <1>4, <2>3, ProcRefsKept DEF IInv
    <2>5. QED
      BY <2>2, <2>3, <2>4 DEF IInv
  <1>7. CASE Latch(r) /\ MarkFailed(r, v # "miner_fault")
    <2>1. (v # "miner_fault") \in BOOLEAN
      OBVIOUS
    <2>2. TypeOK'
      BY <1>1, <1>3, <1>7, <2>1, MarkFailedType DEF IInv, TypeOK
    <2>3. /\ RowRefs' /\ OneEvalAtATime' /\ CrownNeedsTwoWins'
          /\ attempts'[r].state \in FailedAttempt
          /\ \A q \in Runs \ {r} : attempts'[q] = attempts[q]
      BY <1>1, <1>7, <2>1, MarkFailedInv, Zenon
    <2>4. ProcRefs'
      BY <1>4, <2>3, ProcRefsKept DEF IInv, FailedAttempt
    <2>5. QED
      BY <2>2, <2>3, <2>4 DEF IInv
  <1>8. QED
    BY <1>5, <1>6, <1>7

LEMMA StreamBrokenInv == ASSUME IInv, StreamBroken PROVE IInv'
  <1> DEFINE r == proc["dispatcher"].run
  <1> USE DEF StreamBroken
  <1>1. r \in Runs /\ attempts[r].state # "NONE" /\ attempts[r].sub \in Subs
    BY DEF IInv, ProcRefs, RowRefs, Followers
  <1>2. Idle \in ProcRow
    BY DEF Idle, ProcRow, PCs
  <1>3. proc' \in [Followers -> ProcRow]
    BY <1>2, Zenon DEF IInv, TypeOK
  <1>4. \A g \in Followers : proc'[g].pc = "idle" \/ proc'[g] = proc[g]
    BY DEF IInv, TypeOK, Idle
  <1>5. CASE ~Latch(r) /\ UNCHANGED <<subs, attempts, evals>>
    <2>1. TypeOK'
      BY <1>3, <1>5 DEF IInv, TypeOK
    <2>2. ProcRefs'
      BY <1>4, <1>5, ProcRefsKept DEF IInv
    <2>3. QED
      BY <1>5, <2>1, <2>2, RowsKept DEF IInv
  <1>6. CASE Latch(r) /\ MarkFailed(r, TRUE)
    <2>1. TypeOK'
      BY <1>1, <1>3, <1>6, MarkFailedType DEF IInv, TypeOK
    <2>2. /\ RowRefs' /\ OneEvalAtATime' /\ CrownNeedsTwoWins'
          /\ attempts'[r].state \in FailedAttempt
          /\ \A q \in Runs \ {r} : attempts'[q] = attempts[q]
      BY <1>1, <1>6, MarkFailedInv, Zenon
    <2>3. ProcRefs'
      BY <1>4, <2>2, ProcRefsKept DEF IInv, FailedAttempt
    <2>4. QED
      BY <2>1, <2>2, <2>3 DEF IInv
  <1>7. QED
    BY <1>5, <1>6

----------------------------------------------------------------------------
(* Following: steps that touch an eval run's row but neither its result nor its attempt's *)
(* state, and steps that only move a process or the host's log.                           *)

LEMMA RowsTouched ==
  ASSUME IInv, UNCHANGED subs,
         \A q \in Runs : attempts'[q].state = attempts[q].state /\ attempts'[q].sub = attempts[q].sub,
         \A q \in Runs : evals'[q].won = evals[q].won
  PROVE  RowRefs' /\ OneEvalAtATime' /\ CrownNeedsTwoWins'
  <1>1. RowRefs'
    BY DEF IInv, RowRefs
  <1>2. OneEvalAtATime'
    BY OneEvalKept DEF IInv, InState
  <1>3. CrownNeedsTwoWins'
    BY DEF IInv, CrownNeedsTwoWins, WonRuns, InState
  <1>4. QED
    BY <1>1, <1>2, <1>3

LEMMA HeartbeatKeeps ==
  ASSUME TypeOK, NEW r \in Runs
  PROVE  \A q \in Runs : /\ Heartbeat(r)[q].state = attempts[q].state
                         /\ Heartbeat(r)[q].sub = attempts[q].sub
  BY DEF TypeOK, Heartbeat, AttemptRow

LEMMA RecordKeeps ==
  ASSUME TypeOK, NEW r \in Runs, NEW e, RecordRemoteEvent(r, e)
  PROVE  \A q \in Runs : evals'[q].won = evals[q].won
  BY DEF TypeOK, RecordRemoteEvent, EvalRow

\* A following process goes on, with another pc, position or verdict.
LEMMA ProcTypes ==
  ASSUME TypeOK, NEW f \in Followers, NEW pc \in PCs, NEW v \in Verdicts
  PROVE  /\ Idle \in ProcRow
         /\ [proc[f] EXCEPT !.pc = pc] \in ProcRow
         /\ [[proc[f] EXCEPT !.pc = pc] EXCEPT !.verdict = v] \in ProcRow
  <1>1. Idle \in ProcRow
    BY DEF Idle, ProcRow, PCs
  <1>2. QED
    BY <1>1, Zenon DEF TypeOK, ProcRow

LEMMA SeenType ==
  ASSUME TypeOK, NEW f \in Followers
  PROVE  [proc[f] EXCEPT !.seen = @ + 1] \in ProcRow
  <1>1. proc[f].seen + 1 \in Nat
    BY DEF TypeOK, ProcRow
  <1>2. QED
    BY <1>1, Zenon DEF TypeOK, ProcRow

LEMMA FollowEventInv == ASSUME IInv, NEW f \in Followers, FollowEvent(f) PROVE IInv'
  <1> DEFINE r == proc[f].run
             e == log[r][proc[f].seen + 1]
  <1> USE DEF FollowEvent
  <1>1. r \in Runs
    BY DEF IInv, ProcRefs
  <1>2. e \in Events
    <2>1. log[r] \in Seq(Events) /\ proc[f].seen \in Nat
      BY <1>1 DEF IInv, TypeOK, ProcRow
    <2>2. proc[f].seen + 1 \in 1..Len(log[r])
      BY <2>1
    <2>3. QED
      BY <2>1, <2>2
  <1>3. TypeOK'
    <2>1. proc'[f] \in ProcRow
      <3>1. CASE e \in Verdicts
        <4>1. proc'[f] = [[[proc[f] EXCEPT !.pc = "complete"] EXCEPT !.seen = @ + 1]
                            EXCEPT !.verdict = e]
          BY <3>1, Zenon DEF IInv, TypeOK
        <4>2. "complete" \in PCs /\ proc[f] \in ProcRow /\ proc[f].seen + 1 \in Nat
          BY DEF IInv, TypeOK, ProcRow, PCs
        <4>3. [[[proc[f] EXCEPT !.pc = "complete"] EXCEPT !.seen = @ + 1] EXCEPT !.verdict = e]
                 \in ProcRow
          BY <3>1, <4>2 DEF ProcRow
        <4>4. QED
          BY <4>1, <4>3
      <3>2. CASE e \notin Verdicts
        <4>1. proc'[f] = [proc[f] EXCEPT !.seen = @ + 1]
          BY <3>2, Zenon DEF IInv, TypeOK
        <4>2. QED
          BY <4>1, SeenType, Zenon DEF IInv
      <3>3. QED
        BY <3>1, <3>2
    <2>2. proc' \in [Followers -> ProcRow]
      BY <2>1 DEF IInv, TypeOK
    <2>3. attempts' \in [Runs -> AttemptRow] /\ evals' \in [Runs -> EvalRow]
      BY <1>1, <1>2, HeartbeatType, RecordType DEF IInv
    <2>4. QED
      BY <2>2, <2>3 DEF IInv, TypeOK
  <1>4. \A q \in Runs : attempts'[q].state = attempts[q].state /\ attempts'[q].sub = attempts[q].sub
    BY <1>1, HeartbeatKeeps DEF IInv
  <1>5. \A q \in Runs : evals'[q].won = evals[q].won
    BY <1>1, RecordKeeps DEF IInv
  <1>6. ProcRefs'
    <2>1. \A g \in Followers : proc'[g].pc = "idle" \/ (proc[g].pc # "idle" /\ proc'[g].run = proc[g].run)
      BY DEF IInv, TypeOK, ProcRow, ProcRefs
    <2>2. QED
      BY <1>4, <2>1, ProcRefsKept DEF IInv
  <1>7. QED
    BY <1>3, <1>4, <1>5, <1>6, RowsTouched DEF IInv

LEMMA FollowStatusInv == ASSUME IInv, NEW f \in Followers, FollowStatus(f) PROVE IInv'
  <1> DEFINE r == proc[f].run
  <1> USE DEF FollowStatus
  <1>1. r \in Runs
    BY DEF IInv, ProcRefs
  <1>2. CASE attempts' = Heartbeat(r) /\ UNCHANGED <<evals, proc>>
    <2>1. TypeOK'
      BY <1>1, <1>2, HeartbeatType DEF IInv, TypeOK
    <2>2. \A q \in Runs : attempts'[q].state = attempts[q].state /\ attempts'[q].sub = attempts[q].sub
      BY <1>1, <1>2, HeartbeatKeeps DEF IInv
    <2>3. ProcRefs'
      BY <1>2, <2>2 DEF IInv, ProcRefs
    <2>4. QED
      BY <1>2, <2>1, <2>2, <2>3, RowsTouched DEF IInv
  <1>3. CASE \E v \in Verdicts :
               /\ RecordRemoteEvent(r, v)
               /\ proc' = [proc EXCEPT ![f] = [@ EXCEPT !.pc = "complete", !.verdict = v]]
               /\ UNCHANGED attempts
    <2>1. PICK v \in Verdicts :
                 /\ RecordRemoteEvent(r, v)
                 /\ proc' = [proc EXCEPT ![f] = [@ EXCEPT !.pc = "complete", !.verdict = v]]
                 /\ UNCHANGED attempts
      BY <1>3
    <2>2. v \in Events /\ "complete" \in PCs
      BY DEF Events, PCs
    <2>3. proc' \in [Followers -> ProcRow]
      BY <2>1, <2>2, ProcTypes, Zenon DEF IInv, TypeOK
    <2>4. TypeOK'
      BY <1>1, <2>1, <2>2, <2>3, RecordType DEF IInv, TypeOK
    <2>5. \A q \in Runs : evals'[q].won = evals[q].won
      BY <1>1, <2>1, RecordKeeps DEF IInv
    <2>6. ProcRefs'
      <3>1. \A g \in Followers :
              proc'[g].pc = "idle" \/ (proc[g].pc # "idle" /\ proc'[g].run = proc[g].run)
        <4>1. SUFFICES ASSUME NEW g \in Followers
                       PROVE  proc'[g].pc = "idle" \/ (proc[g].pc # "idle" /\ proc'[g].run = proc[g].run)
          OBVIOUS
        <4>2. proc \in [Followers -> ProcRow]
          BY DEF IInv, TypeOK
        <4>3. CASE g = f
          <5>1. proc'[f] = [proc[f] EXCEPT !.pc = "complete", !.verdict = v]
            BY <2>1, <4>2
          <5>2. proc[f] \in ProcRow /\ proc[f].pc = "follow"
            BY <4>2
          <5>3. proc'[f].run = proc[f].run
            BY <5>1, <5>2 DEF ProcRow
          <5>4. QED
            BY <4>3, <5>2, <5>3
        <4>4. CASE g # f
          BY <2>1, <4>2, <4>4
        <4>5. QED
          BY <4>3, <4>4
      <3>2. QED
        BY <2>1, <3>1, ProcRefsKept DEF IInv
    <2>7. QED
      BY <2>1, <2>4, <2>5, <2>6, RowsTouched DEF IInv
  <1>4. QED
    BY <1>2, <1>3

LEMMA SetRemoteRunIdInv == ASSUME IInv, SetRemoteRunId PROVE IInv'
  <1> DEFINE r == proc["dispatcher"].run
  <1> USE DEF SetRemoteRunId
  <1>1. r \in Runs /\ "dispatcher" \in Followers
    BY DEF IInv, ProcRefs, Followers
  <1>2. TypeOK'
    <2>1. evals' \in [Runs -> EvalRow]
      BY DEF IInv, TypeOK, EvalRow
    <2>2. "follow" \in PCs /\ "won" \in Verdicts
      BY DEF PCs, Verdicts
    <2>3. proc' \in [Followers -> ProcRow]
      BY <1>1, <2>2, ProcTypes, Zenon DEF IInv, TypeOK
    <2>4. QED
      BY <1>1, <2>1, <2>3, HeartbeatType DEF IInv, TypeOK
  <1>3. \A q \in Runs : attempts'[q].state = attempts[q].state /\ attempts'[q].sub = attempts[q].sub
    BY <1>1, HeartbeatKeeps DEF IInv
  <1>4. \A q \in Runs : evals'[q].won = evals[q].won
    BY DEF IInv, TypeOK, EvalRow
  <1>5. ProcRefs'
    BY <1>1, <1>3 DEF IInv, TypeOK, ProcRow, ProcRefs
  <1>6. QED
    BY <1>2, <1>3, <1>4, <1>5, RowsTouched DEF IInv

LEMMA ReconcilerPicksInv == ASSUME IInv, NEW r \in Runs, ReconcilerPicks(r) PROVE IInv'
  <1> USE DEF ReconcilerPicks
  <1> DEFINE work == [Idle EXCEPT !.pc = "follow", !.run = r]
  <1>1. TypeOK'
    <2>1. work \in ProcRow
      BY DEF Idle, ProcRow, PCs
    <2>2. proc' \in [Followers -> ProcRow]
      BY <2>1, Zenon DEF IInv, TypeOK
    <2>3. QED
      BY <2>2 DEF IInv, TypeOK
  <1>2. ProcRefs'
    <2>1. attempts[r].state # "NONE"
      BY DEF Reconcilable, Expired
    <2>2. work.run = r
      BY DEF Idle
    <2>3. \A f \in Followers : proc'[f] = work \/ proc'[f] = proc[f]
      BY DEF IInv, TypeOK
    <2>4. QED
      BY <2>1, <2>2, <2>3 DEF IInv, ProcRefs
  <1>3. QED
    BY <1>1, <1>2, RowsKept DEF IInv

LEMMA GivesUpInv ==
  ASSUME IInv, NEW f \in Followers, FollowAborts(f) \/ FollowGivesUp(f) \/ Crash(f)
  PROVE  IInv'
  <1>1. /\ UNCHANGED <<subs, attempts, evals, king, oldReg, log>>
        /\ faults' \in 0..MaxFaults
        /\ proc[f].pc # "idle"
        /\ \/ proc' = [proc EXCEPT ![f] = Idle]
           \/ proc' = [proc EXCEPT ![f] = [@ EXCEPT !.pc = "fail"]]
    BY CountsAssumption DEF FollowAborts, FollowGivesUp, Crash, IInv, TypeOK
  <1>2. TypeOK'
    <2>1. "fail" \in PCs /\ "won" \in Verdicts
      BY DEF PCs, Verdicts
    <2>2. Idle \in ProcRow /\ [proc[f] EXCEPT !.pc = "fail"] \in ProcRow
      BY <2>1, ProcTypes, Zenon DEF IInv
    <2>3. proc' \in [Followers -> ProcRow]
      BY <1>1, <2>2, Zenon DEF IInv, TypeOK
    <2>4. QED
      BY <1>1, <2>3 DEF IInv, TypeOK
  <1>3. ProcRefs'
    <2>1. Idle.pc = "idle"
      BY DEF Idle
    <2>2. proc'[f].pc = "idle" \/ proc'[f].run = proc[f].run
      BY <1>1, <2>1 DEF IInv, TypeOK, ProcRow
    <2>3. \A g \in Followers \ {f} : proc'[g] = proc[g]
      BY <1>1 DEF IInv, TypeOK
    <2>4. QED
      BY <1>1, <2>2, <2>3 DEF IInv, ProcRefs
  <1>4. QED
    BY <1>1, <1>2, <1>3, RowsKept DEF IInv

LEMMA AcceptedType ==
  ASSUME TypeOK, NEW r \in Runs
  PROVE  [log EXCEPT ![r] = Accepted(r)] \in [Runs -> Seq(Events)]
  <1>1. "eval_started" \in Events
    BY DEF Events
  <1>2. <<"eval_started">> \in Seq(Events) /\ log[r] \in Seq(Events)
    BY <1>1 DEF TypeOK
  <1>3. Accepted(r) \in Seq(Events)
    BY <1>2, Zenon DEF Accepted
  <1>4. QED
    BY <1>3, Zenon DEF TypeOK

LEMMA StartInv == ASSUME IInv, StartRemote \/ StartFails PROVE IInv'
  <1> DEFINE r == proc["dispatcher"].run
  <1>1. /\ UNCHANGED <<subs, attempts, evals, king, oldReg>>
        /\ log' = [log EXCEPT ![r] = Accepted(r)] \/ UNCHANGED log
        /\ faults' \in 0..MaxFaults
        /\ proc["dispatcher"].pc = "claimed"
        /\ \E pc \in {"started", "fail"} : proc' = [proc EXCEPT !["dispatcher"] = [@ EXCEPT !.pc = pc]]
    BY CountsAssumption DEF StartRemote, StartFails, IInv, TypeOK
  <1>2. r \in Runs /\ "dispatcher" \in Followers
    BY <1>1 DEF IInv, ProcRefs, Followers
  <1>3. TypeOK'
    <2>1. {"started", "fail"} \subseteq PCs /\ "won" \in Verdicts
      BY DEF PCs, Verdicts
    <2>2. PICK pc \in {"started", "fail"} : proc' = [proc EXCEPT !["dispatcher"] = [@ EXCEPT !.pc = pc]]
      BY <1>1
    <2>3. pc \in PCs
      BY <2>1
    <2>4. [proc["dispatcher"] EXCEPT !.pc = pc] \in ProcRow
      BY <1>2, <2>1, <2>3, ProcTypes, Zenon DEF IInv
    <2>5. proc' \in [Followers -> ProcRow]
      BY <2>2, <2>4, Zenon DEF IInv, TypeOK
    <2>6. log' \in [Runs -> Seq(Events)]
      <3>1. [log EXCEPT ![r] = Accepted(r)] \in [Runs -> Seq(Events)]
        BY <1>2, AcceptedType DEF IInv
      <3>2. log \in [Runs -> Seq(Events)]
        BY DEF IInv, TypeOK
      <3>3. QED
        BY <1>1, <3>1, <3>2
    <2>7. QED
      BY <1>1, <2>5, <2>6 DEF IInv, TypeOK
  <1>4. ProcRefs'
    <2>1. \A g \in Followers : proc'[g].pc = "idle" \/ (proc[g].pc # "idle" /\ proc'[g].run = proc[g].run)
      BY <1>1 DEF IInv, TypeOK, ProcRow, ProcRefs
    <2>2. QED
      BY <1>1, <2>1, ProcRefsKept DEF IInv
  <1>5. QED
    BY <1>1, <1>3, <1>4, RowsKept DEF IInv

LEMMA RemoteInv == ASSUME IInv, Remote PROVE IInv'
  <1>1. UNCHANGED <<subs, attempts, evals, king, oldReg, proc>> /\ faults' \in 0..MaxFaults
    BY CountsAssumption DEF Remote, RemoteWorkerStep, CancelRemote, RemoteRestart, IInv, TypeOK
  <1>2. log' \in [Runs -> Seq(Events)]
    <2>1. ASSUME NEW r \in Runs, RemoteWorkerStep(r)
          PROVE  log' \in [Runs -> Seq(Events)]
      <3>1. PICK e \in WorkerNext(WorkerAt(r)) : log' = [log EXCEPT ![r] = Append(@, e)]
        BY <2>1 DEF RemoteWorkerStep
      <3>2. e \in Events
        BY <3>1, Zenon DEF WorkerNext, Events, Verdicts
      <3>3. QED
        BY <3>1, <3>2 DEF IInv, TypeOK
    <2>2. ASSUME NEW r \in Runs, CancelRemote(r)
          PROVE  log' \in [Runs -> Seq(Events)]
      BY <2>2 DEF CancelRemote, IInv, TypeOK, Events, Verdicts
    <2>3. CASE RemoteRestart
      BY <2>3 DEF RemoteRestart
    <2>4. QED
      BY <2>1, <2>2, <2>3 DEF Remote
  <1>3. TypeOK' /\ ProcRefs'
    BY <1>1, <1>2 DEF IInv, TypeOK, ProcRefs
  <1>4. QED
    BY <1>1, <1>3, RowsKept DEF IInv

----------------------------------------------------------------------------
(* Promotion: winners are promoted or wait, and remain winners of two duels. *)

LEMMA SetReignInv == ASSUME IInv, SetReign PROVE IInv'
  <1>1. ASSUME NEW s \in Subs, PromoteWinner(s)
        PROVE  IInv'
    <2> USE <1>1 DEF PromoteWinner
    <2>1. TypeOK'
      <3>1. "REIGN_SET" \in SubStates
        BY DEF SubStates
      <3>2. subs' \in [Subs -> SubRow]
        BY <3>1, RowTypes, Zenon DEF IInv, TypeOK
      <3>3. QED
        BY <3>2 DEF IInv, TypeOK, Kings
    <2>2. ProcRefs'
      BY DEF IInv, ProcRefs
    <2>3. InState(s, {"EVAL_WIN", "SET_REIGN_RETRYABLE"})
      BY DEF NextWinner
    <2>4. \A t \in Subs : /\ InState(t, {"EVAL_RUNNING"})' <=> InState(t, {"EVAL_RUNNING"})
                          /\ InState(t, Promoted)' => InState(t, Promoted)
      BY <2>3 DEF IInv, TypeOK, SubRow, InState, Promoted
    <2>5. QED
      BY <2>1, <2>2, <2>4, SubsMoved DEF IInv
  <1>2. ASSUME NEW s \in Subs, PromotionFails(s)
        PROVE  IInv'
    <2> USE <1>2 DEF PromotionFails
    <2>1. TypeOK'
      <3>1. "SET_REIGN_RETRYABLE" \in SubStates
        BY DEF SubStates
      <3>2. subs' \in [Subs -> SubRow]
        BY <3>1, RowTypes, Zenon DEF IInv, TypeOK
      <3>3. faults' \in 0..MaxFaults
        BY CountsAssumption DEF IInv, TypeOK
      <3>4. QED
        BY <3>2, <3>3 DEF IInv, TypeOK
    <2>2. ProcRefs'
      BY DEF IInv, ProcRefs
    <2>3. InState(s, {"EVAL_WIN", "SET_REIGN_RETRYABLE"})
      BY DEF NextWinner
    <2>4. \A t \in Subs : /\ InState(t, {"EVAL_RUNNING"})' <=> InState(t, {"EVAL_RUNNING"})
                          /\ InState(t, Promoted)' => InState(t, Promoted)
      BY <2>3 DEF IInv, TypeOK, SubRow, InState, Promoted
    <2>5. QED
      BY <2>1, <2>2, <2>4, SubsMoved DEF IInv
  <1>3. QED
    BY <1>1, <1>2 DEF SetReign

----------------------------------------------------------------------------
(* The theorems. *)

LEMMA NextIInv == IInv /\ [Next]_vars => IInv'
  <1> SUFFICES ASSUME IInv, [Next]_vars
               PROVE  IInv'
    OBVIOUS
  <1>1. CASE Requeuer
    BY <1>1, RequeuerInv
  <1>2. CASE SweepAbandoned
    BY <1>2, SweepInv
  <1>3. CASE Dispatcher
    BY <1>3, IdleClaimInv, ClaimNextEvalInv, StartInv, SetRemoteRunIdInv, StreamBrokenInv
       DEF Dispatcher
  <1>4. CASE \E r \in Runs : ReconcilerPicks(r)
    BY <1>4, ReconcilerPicksInv
  <1>5. CASE \E f \in Followers : Following(f)
    BY <1>5, FollowEventInv, FollowStatusInv, GivesUpInv, CompleteEvalInv DEF Following
  <1>6. CASE Remote
    BY <1>6, RemoteInv
  <1>7. CASE SetReign
    BY <1>7, SetReignInv
  <1>8. CASE Environment
    BY <1>8, PassPreEvalInv, EnvironmentInv, LeaseExpiresInv DEF Environment
  <1>9. CASE UNCHANGED vars
    <2>1. TypeOK' /\ ProcRefs'
      BY <1>9 DEF vars, IInv, TypeOK, ProcRefs
    <2>2. QED
      BY <1>9, <2>1, RowsKept DEF vars, IInv
  <1>10. QED
    BY <1>1, <1>2, <1>3, <1>4, <1>5, <1>6, <1>7, <1>8, <1>9 DEF Next

LEMMA SpecIInv == Spec => []IInv
  BY InitIInv, NextIInv, PTL DEF Spec

\* Every row, process and log keeps its type, however many submissions, runs and faults.
THEOREM SpecTypeOK == Spec => []TypeOK
  BY SpecIInv, PTL DEF IInv

\* Never two attempts at once, and no attempt without its submission, nor the reverse:
\* what the full_eval lock, the EVAL_RUNNING gate and the attempt latch give together.
THEOREM SpecOneEvalAtATime == Spec => []OneEvalAtATime
  BY SpecIInv, PTL DEF IInv

\* Nobody waits for promotion or reigns without two won eval runs.
THEOREM SpecCrownNeedsTwoWins == Spec => []CrownNeedsTwoWins
  BY SpecIInv, PTL DEF IInv

----------------------------------------------------------------------------
(* No step disturbs what is final. *)

FinalKept ==
  /\ \A r \in Runs : attempts[r].state \notin {"NONE", "RUNNING"} =>
                       attempts'[r].state = attempts[r].state
  /\ \A s \in Subs : InState(s, {"COMPLETE_LOSS", "TERMINAL_INVALID"}) =>
                       subs'[s].state = subs[s].state

\* The sweeper and both completions end a RUNNING attempt, whose submission is not final.
LEMMA EndingIsNotFinal ==
  ASSUME IInv, NEW r \in Runs, attempts[r].state = "RUNNING",
         \A q \in Runs \ {r} : attempts'[q] = attempts[q],
         \A s \in Subs \ {attempts[r].sub} : subs'[s] = subs[s]
  PROVE  FinalKept
  <1>1. attempts[r].sub \in Subs /\ InState(attempts[r].sub, {"EVAL_RUNNING"})
    BY DEF IInv, RowRefs, OneEvalAtATime, ActiveAttempt
  <1>2. QED
    BY <1>1 DEF FinalKept, InState

LEMMA SweepFinal == ASSUME IInv, SweepAbandoned PROVE FinalKept
  <1> USE DEF SweepAbandoned
  <1>1. PICK r \in Runs : Expired(r)
    OBVIOUS
  <1>2. \A q \in Runs : Expired(q) => q = r
    BY <1>1 DEF Expired, IInv, OneEvalAtATime
  <1>3. /\ \A q \in Runs \ {r} : attempts'[q] = attempts[q]
        /\ \A s \in Subs \ {attempts[r].sub} : subs'[s] = subs[s]
    BY <1>2
  <1>4. QED
    BY <1>1, <1>3, EndingIsNotFinal DEF Expired

LEMMA MarkFinal ==
  ASSUME IInv, NEW r \in Runs, Latch(r),
         \/ \E won \in BOOLEAN : MarkSucceeded(r, won)
         \/ \E retryable \in BOOLEAN : MarkFailed(r, retryable)
  PROVE  FinalKept
  <1>1. /\ \A q \in Runs \ {r} : attempts'[q] = attempts[q]
        /\ \A s \in Subs \ {attempts[r].sub} : subs'[s] = subs[s]
    BY DEF MarkSucceeded, MarkFailed, IInv, TypeOK
  <1>2. QED
    BY <1>1, EndingIsNotFinal DEF Latch

LEMMA CompletionFinal ==
  ASSUME IInv, StreamBroken \/ \E f \in Followers : CompleteEval(f)
  PROVE  FinalKept
  <1>1. ASSUME NEW f \in Followers, CompleteEval(f)
        PROVE  FinalKept
    <2> DEFINE r == proc[f].run
               v == proc[f].verdict
    <2>1. r \in Runs
      BY <1>1 DEF CompleteEval, IInv, ProcRefs
    <2>2. CASE UNCHANGED <<subs, attempts>>
      BY <2>2 DEF FinalKept
    <2>3. CASE Latch(r) /\ (MarkSucceeded(r, v = "won") \/ MarkFailed(r, v # "miner_fault"))
      <3>1. (v = "won") \in BOOLEAN /\ (v # "miner_fault") \in BOOLEAN
        OBVIOUS
      <3>2. QED
        BY <2>1, <2>3, <3>1, MarkFinal, Zenon
    <2>4. QED
      BY <1>1, <2>2, <2>3 DEF CompleteEval
  <1>2. ASSUME StreamBroken
        PROVE  FinalKept
    <2> DEFINE r == proc["dispatcher"].run
    <2>1. r \in Runs
      BY <1>2 DEF StreamBroken, IInv, ProcRefs, Followers
    <2>2. CASE UNCHANGED <<subs, attempts>>
      BY <2>2 DEF FinalKept
    <2>3. CASE Latch(r) /\ MarkFailed(r, TRUE)
      BY <2>1, <2>3, MarkFinal, Zenon
    <2>4. QED
      BY <1>2, <2>2, <2>3 DEF StreamBroken
  <1>3. QED
    BY <1>1, <1>2

LEMMA ClaimFinal ==
  ASSUME IInv,
         \/ ClaimNothing
         \/ \E s \in Subs : ClaimWithoutKing(s)
         \/ \E s \in Subs, r \in Runs : ClaimNextEval(s, r)
  PROVE  FinalKept
  <1>1. \A r \in Runs : attempts[r].state # "NONE" => attempts'[r] = attempts[r]
    BY DEF ClaimNothing, ClaimWithoutKing, ClaimNextEval, IInv, TypeOK
  <1>2. ASSUME NEW s \in Subs
        PROVE  InState(s, {"EVAL_QUEUED"}) \/ subs'[s] = AfterRejections[s]
    BY RejectionsType
       DEF ClaimNothing, ClaimWithoutKing, ClaimNextEval, First, Candidates, Eligible, IInv
  <1>3. QED
    BY <1>1, <1>2, RejectionsMove DEF FinalKept, InState, IInv

LEMMA NextFinalKept == IInv /\ [Next]_vars => FinalKept
  <1> SUFFICES ASSUME IInv, [Next]_vars
               PROVE  FinalKept
    OBVIOUS
  <1>1. CASE Requeuer
    BY <1>1 DEF Requeuer, QueuePreEvalPassed, RequeueRetryable, FinalKept, InState
  <1>2. CASE SweepAbandoned
    BY <1>2, SweepFinal
  <1>3. CASE Dispatcher
    <2>1. CASE SetRemoteRunId
      BY <2>1, SetRemoteRunIdInv, HeartbeatKeeps
         DEF SetRemoteRunId, FinalKept, IInv, ProcRefs, Followers
    <2>2. CASE StartRemote \/ StartFails
      BY <2>2 DEF StartRemote, StartFails, FinalKept
    <2>3. QED
      BY <1>3, <2>1, <2>2, ClaimFinal, CompletionFinal DEF Dispatcher
  <1>4. CASE \E r \in Runs : ReconcilerPicks(r)
    BY <1>4 DEF ReconcilerPicks, FinalKept
  <1>5. ASSUME NEW f \in Followers, Following(f)
        PROVE  FinalKept
    <2>1. CASE FollowEvent(f)
      BY <2>1, HeartbeatKeeps DEF FollowEvent, FinalKept, IInv, ProcRefs
    <2>2. CASE FollowStatus(f)
      BY <2>2, HeartbeatKeeps DEF FollowStatus, FinalKept, IInv, ProcRefs
    <2>3. CASE FollowAborts(f) \/ FollowGivesUp(f) \/ Crash(f)
      BY <2>3 DEF FollowAborts, FollowGivesUp, Crash, FinalKept
    <2>4. QED
      BY <1>5, <2>1, <2>2, <2>3, CompletionFinal DEF Following
  <1>6. CASE Remote
    BY <1>6 DEF Remote, RemoteWorkerStep, CancelRemote, RemoteRestart, FinalKept
  <1>7. CASE SetReign
    BY <1>7 DEF SetReign, PromoteWinner, PromotionFails, NextWinner, FinalKept, InState, IInv, TypeOK
  <1>8. CASE Environment
    BY <1>8 DEF Environment, PassPreEval, Reregister, CrownGenesis, LeaseExpires, FinalKept,
                InState, IInv, TypeOK, AttemptRow
  <1>9. CASE UNCHANGED vars
    BY <1>9 DEF vars, FinalKept
  <1>10. QED
    BY <1>1, <1>2, <1>3, <1>4, <1>5, <1>6, <1>7, <1>8, <1>9 DEF Next

\* A finalized attempt and a lost or rejected submission are never touched again, however
\* late a completion, a sweep or a requeue comes.
THEOREM SpecFinalStaysFinal == Spec => FinalStaysFinal
  <1>1. IInv /\ [Next]_vars => [FinalKept]_vars
    BY NextFinalKept
  <1>2. QED
    BY <1>1, SpecIInv, PTL DEF Spec, FinalStaysFinal, FinalKept

----------------------------------------------------------------------------
(* One verdict per hotkey. *)

OnTrial == {"EVAL_RUNNING", "EVAL_WIN", "COMPLETE_LOSS"}

\* Nobody comes to be on trial and no registration is forgotten.
LEMMA VerdictKept ==
  ASSUME OneVerdictPerHotkey, oldReg \subseteq oldReg',
         \A s \in Subs : InState(s, OnTrial)' => InState(s, OnTrial)
  PROVE  OneVerdictPerHotkey'
  BY DEF OneVerdictPerHotkey, OnTrial

\* A claim brings one submission to trial, of whose hotkey no other is.
LEMMA ClaimVerdict ==
  ASSUME IInv, OneVerdictPerHotkey, NEW s \in Subs, NEW r \in Runs, ClaimNextEval(s, r)
  PROVE  OneVerdictPerHotkey'
  <1>1. s \in Candidates
    BY DEF ClaimNextEval, First
  <1>2. \A t \in Subs \ {s} : InState(t, OnTrial)' => InState(t, OnTrial)
    <2>1. \A t \in Subs \ {s} : subs'[t] = AfterRejections[t]
      BY RejectionsType DEF ClaimNextEval, IInv
    <2>2. QED
      BY <2>1, RejectionsMove DEF InState, OnTrial, IInv
  <1>3. \A t \in Subs \ {s} : HotkeyOf[t] = HotkeyOf[s] /\ t \notin oldReg => ~InState(t, OnTrial)
    BY <1>1 DEF Candidates, AlreadyScored, InState, ScoredOrBeyond, OnTrial
  <1>4. oldReg' = oldReg
    BY DEF ClaimNextEval
  <1>5. QED
    BY <1>2, <1>3, <1>4 DEF OneVerdictPerHotkey, OnTrial

\* A completion leaves the submission on trial where it was: it was EVAL_RUNNING.
LEMMA MarkVerdict ==
  ASSUME IInv, NEW r \in Runs, Latch(r),
         \/ \E won \in BOOLEAN : MarkSucceeded(r, won)
         \/ \E retryable \in BOOLEAN : MarkFailed(r, retryable)
  PROVE  \A t \in Subs : InState(t, OnTrial)' => InState(t, OnTrial)
  <1>1. InState(attempts[r].sub, {"EVAL_RUNNING"}) /\ attempts[r].sub \in Subs
    BY DEF IInv, RowRefs, OneEvalAtATime, ActiveAttempt, Latch
  <1>2. \A t \in Subs \ {attempts[r].sub} : subs'[t] = subs[t]
    BY DEF MarkSucceeded, MarkFailed, IInv, TypeOK
  <1>3. QED
    BY <1>1, <1>2 DEF InState, OnTrial

----------------------------------------------------------------------------
(* eval_runs_one_active_uidx keeps the rows of the duels before as they were counted. *)

\* While an attempt runs, its eval run is the one the index holds, and a won run that is not
\* the index's is SUCCEEDED.
Indexed ==
  /\ \A r \in Runs : attempts[r].state = "RUNNING" => evals[r].state \in ActiveEval
  /\ \A q, r \in Runs : evals[q].state \in ActiveEval /\ evals[r].state \in ActiveEval => q = r
  /\ \A r \in Runs : evals[r].won => evals[r].state \in ActiveEval \cup {"SUCCEEDED"}

\* A step that takes runs out of the index, and attempts with them.
LEMMA IndexedLeft ==
  ASSUME Indexed,
         \A q \in Runs :
           /\ attempts'[q].state = "RUNNING" => attempts[q].state = "RUNNING"
           /\ \/ evals'[q].state = evals[q].state /\ evals'[q].won = evals[q].won
              \/ /\ attempts'[q].state # "RUNNING" /\ evals'[q].state \notin ActiveEval
                 /\ evals'[q].won => evals'[q].state = "SUCCEEDED"
  PROVE  Indexed'
  BY DEF Indexed

\* A step that writes one run, as the index allows.
LEMMA IndexedWritten ==
  ASSUME Indexed, NEW r \in Runs, IndexAllows(r, evals'[r].state),
         \A q \in Runs \ {r} : evals'[q] = evals[q] /\ attempts'[q].state = attempts[q].state,
         attempts'[r].state = "RUNNING" => evals'[r].state \in ActiveEval,
         evals'[r].won => evals'[r].state \in ActiveEval \cup {"SUCCEEDED"}
  PROVE  Indexed'
  BY DEF Indexed, IndexAllows

LEMMA RecordIndexed ==
  ASSUME IInv, Indexed, NEW r \in Runs, NEW e, RecordRemoteEvent(r, e),
         \A q \in Runs : attempts'[q].state = attempts[q].state
  PROVE  Indexed'
  <1>1. /\ evals'[r].state = RecordedState(r, e) /\ evals'[r].won = evals[r].won
        /\ \A q \in Runs \ {r} : evals'[q] = evals[q]
    BY DEF RecordRemoteEvent, IInv, TypeOK, EvalRow
  <1>2. evals'[r].state = evals[r].state \/ evals'[r].state \in ActiveEval
    BY <1>1 DEF RecordedState, EvalStateAfter, ActiveEval
  <1>3. IndexAllows(r, evals'[r].state)
    BY <1>1 DEF RecordRemoteEvent
  <1>4. attempts'[r].state = "RUNNING" => evals'[r].state \in ActiveEval
    BY <1>2 DEF Indexed
  <1>5. evals'[r].won => evals'[r].state \in ActiveEval \cup {"SUCCEEDED"}
    BY <1>1, <1>2 DEF Indexed
  <1>6. QED
    BY <1>1, <1>3, <1>4, <1>5, IndexedWritten

LEMMA MarkIndexed ==
  ASSUME IInv, Indexed, NEW r \in Runs, NEW w \in BOOLEAN, Latch(r),
         MarkSucceeded(r, w) \/ MarkFailed(r, w)
  PROVE  Indexed'
  <1>1. \A q \in Runs \ {r} : evals'[q] = evals[q] /\ attempts'[q] = attempts[q]
    BY DEF MarkSucceeded, MarkFailed, IInv, TypeOK
  <1>2. attempts'[r].state # "RUNNING" /\ evals'[r].state \notin ActiveEval
    BY DEF MarkSucceeded, MarkFailed, IInv, TypeOK, AttemptRow, EvalRow, ActiveEval
  <1>3. evals'[r].won => evals'[r].state = "SUCCEEDED"
    <2>1. ~evals[r].won
      BY DEF IInv, RowRefs, Latch
    <2>2. CASE MarkSucceeded(r, w)
      BY <2>2 DEF MarkSucceeded, IInv, TypeOK, EvalRow
    <2>3. CASE MarkFailed(r, w)
      BY <2>1, <2>3 DEF MarkFailed, IInv, TypeOK, EvalRow
    <2>4. QED
      BY <2>2, <2>3
  <1>4. QED
    BY <1>1, <1>2, <1>3, IndexedLeft

LEMMA CompletionIndexed ==
  ASSUME IInv, Indexed, StreamBroken \/ \E f \in Followers : CompleteEval(f)
  PROVE  Indexed'
  <1>1. PICK f \in Followers : (f = "dispatcher" /\ StreamBroken) \/ CompleteEval(f)
    BY DEF Followers
  <1>2. proc[f].run \in Runs
    BY <1>1 DEF StreamBroken, CompleteEval, IInv, ProcRefs
  <1>3. CASE UNCHANGED <<attempts, evals>>
    BY <1>3 DEF Indexed
  <1>4. ASSUME NEW w \in BOOLEAN, Latch(proc[f].run),
               MarkSucceeded(proc[f].run, w) \/ MarkFailed(proc[f].run, w)
        PROVE  Indexed'
    BY <1>2, <1>4, MarkIndexed
  <1>5. QED
    BY <1>1, <1>3, <1>4 DEF StreamBroken, CompleteEval

LEMMA ClaimIndexed ==
  ASSUME IInv, Indexed, NEW s \in Subs, NEW r \in Runs, ClaimNextEval(s, r)
  PROVE  Indexed'
  <1>1. /\ evals'[r].state = "DISPATCHED" /\ ~evals'[r].won
        /\ \A q \in Runs \ {r} : evals'[q] = evals[q] /\ attempts'[q] = attempts[q]
    BY DEF ClaimNextEval, IInv, TypeOK
  <1>2. IndexAllows(r, "DISPATCHED") /\ "DISPATCHED" \in ActiveEval
    BY DEF ClaimNextEval, ActiveEval
  <1>3. QED
    BY <1>1, <1>2, IndexedWritten

LEMMA SweepIndexed == ASSUME IInv, Indexed, SweepAbandoned PROVE Indexed'
  <1>1. ASSUME NEW q \in Runs
        PROVE  /\ attempts'[q].state = "RUNNING" => attempts[q].state = "RUNNING"
               /\ \/ evals'[q].state = evals[q].state /\ evals'[q].won = evals[q].won
                  \/ /\ attempts'[q].state # "RUNNING" /\ evals'[q].state \notin ActiveEval
                     /\ evals'[q].won => evals'[q].state = "SUCCEEDED"
    <2>1. CASE Expired(q)
      <3>1. ~evals[q].won
        BY <2>1 DEF Expired, IInv, RowRefs
      <3>2. /\ attempts'[q].state = "ABANDONED" /\ evals'[q].state = "FAILED_RETRYABLE"
            /\ evals'[q].won = evals[q].won
        BY <2>1 DEF SweepAbandoned, IInv, TypeOK, AttemptRow, EvalRow
      <3>3. QED
        BY <3>1, <3>2 DEF ActiveEval
    <2>2. CASE ~Expired(q)
      BY <2>2 DEF SweepAbandoned
    <2>3. QED
      BY <2>1, <2>2
  <1>2. QED
    BY <1>1, IndexedLeft

LEMMA NextIndexed == IInv /\ Indexed /\ [Next]_vars => Indexed'
  <1> SUFFICES ASSUME IInv, Indexed, [Next]_vars PROVE Indexed'
    OBVIOUS
  <1>1. CASE UNCHANGED <<attempts, evals>>
    BY <1>1 DEF Indexed
  <1>2. CASE StreamBroken \/ \E f \in Followers : CompleteEval(f)
    BY <1>2, CompletionIndexed
  <1>3. CASE SetRemoteRunId
    <2>1. proc["dispatcher"].run \in Runs
      BY <1>3 DEF SetRemoteRunId, IInv, ProcRefs, Followers
    <2>2. \A q \in Runs : /\ attempts'[q].state = attempts[q].state
                          /\ evals'[q].state = evals[q].state /\ evals'[q].won = evals[q].won
      BY <1>3, <2>1, HeartbeatKeeps DEF SetRemoteRunId, IInv, TypeOK, EvalRow
    <2>3. QED
      BY <2>2, IndexedLeft
  <1>4. ASSUME NEW f \in Followers, FollowEvent(f) \/ FollowStatus(f) PROVE Indexed'
    <2>1. proc[f].run \in Runs
      BY <1>4 DEF FollowEvent, FollowStatus, IInv, ProcRefs
    <2>2. \A q \in Runs : attempts'[q].state = attempts[q].state
      BY <1>4, <2>1, HeartbeatKeeps DEF FollowEvent, FollowStatus, IInv
    <2>3. UNCHANGED evals \/ \E e : RecordRemoteEvent(proc[f].run, e)
      BY <1>4 DEF FollowEvent, FollowStatus
    <2>4. QED
      BY <2>1, <2>2, <2>3, RecordIndexed DEF Indexed
  <1>5. ASSUME NEW r \in Runs, LeaseExpires(r) PROVE Indexed'
    BY <1>5, IndexedLeft DEF LeaseExpires, IInv, TypeOK, AttemptRow
  <1>6. QED
    BY <1>1, <1>2, <1>3, <1>4, <1>5, ClaimIndexed, SweepIndexed
       DEF Next, Requeuer, QueuePreEvalPassed, RequeueRetryable, Dispatcher, ClaimNothing,
           ClaimWithoutKing, StartRemote, StartFails, ReconcilerPicks, Following, FollowAborts,
           FollowGivesUp, Crash, Remote, RemoteWorkerStep, CancelRemote, RemoteRestart, SetReign,
           PromoteWinner, PromotionFails, Environment, PassPreEval, Reregister, CrownGenesis, vars

LEMMA SpecIndexed == Spec => []Indexed
  <1>1. Init => Indexed
    BY DEF Init, Indexed, ActiveEval
  <1>2. QED
    BY <1>1, NextIndexed, SpecIInv, PTL DEF Spec

----------------------------------------------------------------------------
(* The mapping of KingOfTheHill: what makes a step of it. *)

\* A step that only moves submissions between stages.
LEMMA Moves ==
  ASSUME NEW S \in SUBSET Subs, NEW to,
         \A s \in S : Stage(s)' = to,
         \A s \in Subs \ S : Stage(s)' = Stage(s)
  PROVE  Promise!Move(S, to)
  BY DEF Promise!Move

\* The wins are of the same runs while no run changes hands or result.
LEMMA WinsStay ==
  ASSUME \A r \in Runs : attempts'[r].sub = attempts[r].sub /\ evals'[r].won = evals[r].won
  PROVE  \A s \in Subs : WonRuns(s)' = WonRuns(s)
  BY DEF WonRuns

\* A transaction that moves nobody and gives no win is none of its steps.
LEMMA Stutters ==
  ASSUME UNCHANGED <<subs, king>>, \A s \in Subs : WonRuns(s)' = WonRuns(s)
  PROVE  UNCHANGED Promise!vars
  BY DEF Promise!vars, Stage, InState

\* Waiting submissions turned away.
LEMMA Rejects ==
  ASSUME NEW S \in SUBSET Subs, UNCHANGED <<attempts, evals, king>>,
         \A s \in S : Stage(s) = "waiting" /\ Stage(s)' = "out",
         \A s \in Subs \ S : Stage(s)' = Stage(s)
  PROVE  Promise!Next
  <1>1. Promise!Move(S, "out")
    BY Moves
  <1>2. Promise!Reject(S)
    BY <1>1 DEF Promise!Reject, WonRuns
  <1>3. QED
    BY <1>2 DEF Promise!Next

\* The end of a duel without a win.
LEMMA NoWin ==
  ASSUME NEW s \in Subs, NEW to \in {"waiting", "out"}, UNCHANGED king,
         \A t \in Subs : WonRuns(t)' = WonRuns(t),
         Stage(s) = "dueling", Stage(s)' = to,
         \A t \in Subs \ {s} : Stage(t)' = Stage(t)
  PROVE  Promise!Next
  <1>1. Promise!Move({s}, to)
    BY Moves
  <1>2. Promise!NotWon(s)
    BY <1>1 DEF Promise!NotWon
  <1>3. QED
    BY <1>2 DEF Promise!Next

----------------------------------------------------------------------------
(* The environment and the requeuer. *)

LEMMA PassPreEvalPromise ==
  ASSUME IInv, NEW s \in Subs, PassPreEval(s)
  PROVE  Promise!Next /\ \A t \in Subs : InState(t, OnTrial)' => InState(t, OnTrial)
  <1> USE DEF PassPreEval
  <1>1. /\ subs'[s].state = "PRE_EVAL_PASSED"
        /\ \A t \in Subs \ {s} : subs'[t] = subs[t]
    BY DEF IInv, TypeOK, SubRow
  <1>2. Stage(s) = "outside" /\ Stage(s)' = "waiting"
    BY <1>1 DEF Stage, InState
  <1>3. \A t \in Subs \ {s} : Stage(t)' = Stage(t)
    BY <1>1 DEF Stage, InState
  <1>4. Promise!Move({s}, "waiting")
    BY <1>2, <1>3, Moves
  <1>5. Promise!Enter(s)
    BY <1>2, <1>4 DEF Promise!Enter, WonRuns
  <1>6. QED
    BY <1>1, <1>5 DEF Promise!Next, InState, OnTrial

LEMMA RequeuerPromise ==
  ASSUME IInv, Requeuer
  PROVE  /\ Promise!Next \/ UNCHANGED Promise!vars
         /\ \A t \in Subs : InState(t, OnTrial)' => InState(t, OnTrial)
  <1>1. CASE QueuePreEvalPassed
    <2> USE <1>1 DEF QueuePreEvalPassed
    <2>1. \A t \in Subs : \/ subs'[t] = subs[t]
                          \/ subs[t].state = "PRE_EVAL_PASSED" /\ subs'[t].state = "EVAL_QUEUED"
      BY DEF IInv, TypeOK, SubRow, InState
    <2>2. \A t \in Subs : Stage(t)' = Stage(t)
      BY <2>1 DEF Stage, InState
    <2>3. UNCHANGED Promise!vars
      BY <2>2 DEF Promise!vars, WonRuns
    <2>4. QED
      BY <2>1, <2>3 DEF InState, OnTrial
  <1>2. CASE RequeueRetryable
    <2> DEFINE S == {s \in Subs : InState(s, {"EVAL_RETRYABLE"}) /\ ~ActiveAttempt(s) /\ RetryCapped(s)}
    <2> USE <1>2 DEF RequeueRetryable
    <2>1. \A t \in S : subs[t].state = "EVAL_RETRYABLE" /\ subs'[t].state = "TERMINAL_INVALID"
      BY DEF IInv, TypeOK, SubRow, InState
    <2>2. \A t \in Subs \ S : \/ subs'[t] = subs[t]
                              \/ subs[t].state = "EVAL_RETRYABLE" /\ subs'[t].state = "EVAL_QUEUED"
      BY DEF IInv, TypeOK, SubRow, InState
    <2> HIDE DEF S
    <2>3. \A t \in S : Stage(t) = "waiting" /\ Stage(t)' = "out"
      BY <2>1 DEF Stage, InState
    <2>4. \A t \in Subs \ S : Stage(t)' = Stage(t)
      BY <2>2 DEF Stage, InState
    <2>5. S \in SUBSET Subs
      BY DEF S
    <2>6. Promise!Next
      BY <2>3, <2>4, <2>5, Rejects
    <2>7. QED
      BY <2>1, <2>2, <2>6 DEF InState, OnTrial
  <1>3. QED
    BY <1>1, <1>2 DEF Requeuer

LEMMA EnvironmentPromise ==
  ASSUME IInv, Environment
  PROVE  /\ Promise!Next \/ UNCHANGED Promise!vars
         /\ \A t \in Subs : InState(t, OnTrial)' => InState(t, OnTrial)
         /\ oldReg \subseteq oldReg'
  <1>1. ASSUME NEW s \in Subs, PassPreEval(s)
        PROVE  oldReg' = oldReg
    BY <1>1 DEF PassPreEval
  <1>2. CASE \E h \in Hotkeys : Reregister(h)
    <2>1. UNCHANGED <<subs, attempts, evals, king>> /\ oldReg \subseteq oldReg'
      BY <1>2 DEF Reregister
    <2>2. QED
      BY <2>1, Stutters DEF WonRuns, InState
  <1>3. CASE CrownGenesis
    <2>1. UNCHANGED <<subs, attempts, evals, oldReg>> /\ king = NoKing /\ king' \notin Subs
      BY <1>3, CountsAssumption DEF CrownGenesis, Genesis, Subs
    <2>2. Promise!Genesis
      BY <2>1 DEF Promise!Genesis, Stage, InState, WonRuns
    <2>3. QED
      BY <2>1, <2>2 DEF Promise!Next, InState
  <1>4. CASE \E r \in Runs : LeaseExpires(r)
    <2>1. /\ UNCHANGED <<subs, evals, king, oldReg>>
          /\ \A q \in Runs : attempts'[q].sub = attempts[q].sub
      BY <1>4 DEF LeaseExpires, IInv, TypeOK, AttemptRow
    <2>2. QED
      BY <2>1, WinsStay, Stutters DEF InState
  <1>5. QED
    BY <1>1, <1>2, <1>3, <1>4, PassPreEvalPromise DEF Environment

----------------------------------------------------------------------------
(* Claims: those found ineligible are turned away with the same step. *)

LEMMA RejectionsWait ==
  ASSUME TypeOK
  PROVE  /\ \A t \in RejectedAhead : /\ subs[t].state = "EVAL_QUEUED"
                                     /\ AfterRejections[t].state = "TERMINAL_INVALID"
         /\ \A t \in Subs \ RejectedAhead : AfterRejections[t] = subs[t]
         /\ RejectedAhead \in SUBSET Subs
  BY CommitAssumption DEF AfterRejections, RejectedAhead, Eligible, InState, TypeOK, SubRow

LEMMA IdleClaimPromise ==
  ASSUME IInv, ClaimNothing \/ \E s \in Subs : ClaimWithoutKing(s)
  PROVE  Promise!Next /\ \A t \in Subs : InState(t, OnTrial)' => InState(t, OnTrial)
  <1>1. UNCHANGED <<attempts, evals, king>>
    BY DEF ClaimNothing, ClaimWithoutKing
  <1>2. \A t \in RejectedAhead : subs[t].state = "EVAL_QUEUED" /\ subs'[t].state = "TERMINAL_INVALID"
    <2>1. CASE ClaimNothing
      BY <2>1, RejectionsWait DEF ClaimNothing, IInv
    <2>2. ASSUME NEW s \in Subs, ClaimWithoutKing(s)
          PROVE  \A t \in RejectedAhead : subs'[t] = AfterRejections[t]
      <3>1. s \in Candidates
        BY <2>2 DEF ClaimWithoutKing, First
      <3>2. s \notin RejectedAhead
        BY <3>1 DEF RejectedAhead
      <3>3. \A t \in Subs \ {s} : subs'[t] = AfterRejections[t]
        BY <2>2, RejectionsType DEF ClaimWithoutKing, IInv
      <3>4. QED
        BY <3>2, <3>3, RejectionsWait DEF IInv
    <2>3. QED
      BY <2>1, <2>2, RejectionsWait DEF IInv
  <1>3. \A t \in Subs \ RejectedAhead :
          \/ subs'[t] = subs[t]
          \/ subs[t].state = "EVAL_QUEUED" /\ subs'[t].state = "EVAL_RETRYABLE"
    <2>1. CASE ClaimNothing
      BY <2>1, RejectionsWait DEF ClaimNothing, IInv
    <2>2. ASSUME NEW s \in Subs, ClaimWithoutKing(s)
          PROVE  /\ subs[s].state = "EVAL_QUEUED" /\ subs'[s].state = "EVAL_RETRYABLE"
                 /\ \A t \in Subs \ {s} : subs'[t] = AfterRejections[t]
      BY <2>2, RejectionsType
         DEF ClaimWithoutKing, First, Candidates, Eligible, InState, IInv, SubRow
    <2>3. QED
      BY <2>1, <2>2, RejectionsWait DEF IInv
  <1>4. /\ \A t \in RejectedAhead : Stage(t) = "waiting" /\ Stage(t)' = "out"
        /\ \A t \in Subs \ RejectedAhead : Stage(t)' = Stage(t)
    BY <1>2, <1>3, RejectionsWait DEF Stage, InState, IInv
  <1>5. Promise!Next
    BY <1>1, <1>4, RejectionsWait, Rejects DEF IInv
  <1>6. QED
    BY <1>2, <1>3, <1>5 DEF InState, OnTrial

LEMMA ClaimPromise ==
  ASSUME IInv, NEW s \in Subs, NEW r \in Runs, ClaimNextEval(s, r)
  PROVE  Promise!Next
  <1>1. s \in Candidates /\ s \notin RejectedAhead /\ subs[s].state = "EVAL_QUEUED"
    BY DEF ClaimNextEval, First, RejectedAhead, Candidates, Eligible, InState
  <1>2. /\ subs'[s].state = "EVAL_RUNNING"
        /\ \A t \in Subs \ {s} : subs'[t] = AfterRejections[t]
    BY RejectionsType DEF ClaimNextEval, IInv, SubRow
  <1>3. \A t \in Subs : WonRuns(t)' = WonRuns(t)
    <2>1. /\ ~evals[r].won /\ ~evals'[r].won
          /\ \A q \in Runs \ {r} : attempts'[q] = attempts[q] /\ evals'[q] = evals[q]
      BY DEF ClaimNextEval, IInv, TypeOK, RowRefs
    <2>2. QED
      BY <2>1 DEF WonRuns
  <1>4. \A t \in Subs : Stage(t) # "dueling"
    BY DEF ClaimNextEval, ClaimGate, Stage, InState
  <1>5. Stage(s) = "waiting" /\ Stage(s)' = "dueling"
    BY <1>1, <1>2 DEF Stage, InState
  <1>6. /\ \A t \in RejectedAhead : Stage(t) = "waiting" /\ Stage(t)' = "out"
        /\ \A t \in Subs \ (RejectedAhead \cup {s}) : Stage(t)' = Stage(t)
    BY <1>1, <1>2, RejectionsWait DEF Stage, InState, IInv
  <1>7. king # NoKing /\ UNCHANGED king
    BY DEF ClaimNextEval
  <1>8. Promise!Duel(s, RejectedAhead)
    BY <1>1, <1>3, <1>4, <1>5, <1>6, <1>7, RejectionsWait DEF Promise!Duel, IInv
  <1>9. QED
    BY <1>8, RejectionsWait DEF Promise!Next, IInv

----------------------------------------------------------------------------
(* The ends of a duel. *)

LEMMA SweepPromise ==
  ASSUME IInv, SweepAbandoned
  PROVE  Promise!Next /\ \A t \in Subs : InState(t, OnTrial)' => InState(t, OnTrial)
  <1>1. PICK r \in Runs : Expired(r)
    BY DEF SweepAbandoned
  <1>0. PICK s \in Subs : s = attempts[r].sub
    BY <1>1 DEF Expired
  <1>2. /\ \A q \in Runs : Expired(q) => q = r
        /\ s \in Subs /\ InState(s, {"EVAL_RUNNING"})
    BY <1>0, <1>1 DEF Expired, IInv, OneEvalAtATime
  <1>3. /\ subs'[s].state = "EVAL_RETRYABLE"
        /\ \A t \in Subs \ {s} : subs'[t] = subs[t]
    <2>1. subs[s] \in SubRow
      BY <1>2 DEF IInv, TypeOK
    <2>2. subs'[s] = [subs[s] EXCEPT !.state = "EVAL_RETRYABLE", !.retry = @ + 1]
      BY <1>0, <1>1, <1>2 DEF SweepAbandoned
    <2>3. \A t \in Subs \ {s} : subs'[t] = subs[t]
      BY <1>0, <1>1, <1>2 DEF SweepAbandoned
    <2>4. QED
      BY <2>1, <2>2, <2>3 DEF SubRow
  <1>4. /\ UNCHANGED king
        /\ \A q \in Runs : attempts'[q].sub = attempts[q].sub /\ evals'[q].won = evals[q].won
    BY DEF SweepAbandoned, IInv, TypeOK, AttemptRow, EvalRow
  <1>5. /\ Stage(s) = "dueling" /\ Stage(s)' = "waiting"
        /\ \A t \in Subs \ {s} : Stage(t)' = Stage(t)
    BY <1>2, <1>3 DEF Stage, InState
  <1>6. Promise!Next
    BY <1>2, <1>4, <1>5, WinsStay, NoWin
  <1>7. QED
    BY <1>2, <1>3, <1>6 DEF InState, OnTrial

LEMMA MarkFailedPromise ==
  ASSUME IInv, NEW r \in Runs, NEW retryable \in BOOLEAN, Latch(r), MarkFailed(r, retryable),
         UNCHANGED king
  PROVE  Promise!Next
  <1>0. PICK s \in Subs : s = attempts[r].sub
    BY DEF IInv, RowRefs, Latch
  <1>1. s \in Subs /\ InState(s, {"EVAL_RUNNING"})
    BY <1>0 DEF IInv, OneEvalAtATime, ActiveAttempt, Latch
  <1>2. /\ subs'[s].state = IF retryable THEN "EVAL_RETRYABLE" ELSE "TERMINAL_INVALID"
        /\ \A t \in Subs \ {s} : subs'[t] = subs[t]
    BY <1>0, <1>1 DEF MarkFailed, IInv, TypeOK, SubRow
  <1>3. \A q \in Runs : attempts'[q].sub = attempts[q].sub /\ evals'[q].won = evals[q].won
    BY DEF MarkFailed, IInv, TypeOK, AttemptRow, EvalRow
  <1>4. PICK to \in {"waiting", "out"} : Stage(s)' = to
    BY <1>2 DEF Stage, InState
  <1>5. Stage(s) = "dueling" /\ \A t \in Subs \ {s} : Stage(t)' = Stage(t)
    BY <1>1, <1>2 DEF Stage, InState
  <1>6. QED
    BY <1>1, <1>3, <1>4, <1>5, WinsStay, NoWin

LEMMA MarkSucceededPromise ==
  ASSUME IInv, Indexed, NEW r \in Runs, NEW won \in BOOLEAN, Latch(r), MarkSucceeded(r, won),
         UNCHANGED king
  PROVE  Promise!Next
  <1>0. PICK s \in Subs : s = attempts[r].sub
    BY DEF IInv, RowRefs, Latch
  <1>1. /\ s \in Subs /\ InState(s, {"EVAL_RUNNING"})
        /\ attempts[r].state = "RUNNING" /\ ~evals[r].won
    BY <1>0 DEF IInv, RowRefs, OneEvalAtATime, ActiveAttempt, Latch
  <1>2. /\ subs'[s].state = AfterDuel(s, r, won)
        /\ \A t \in Subs \ {s} : subs'[t] = subs[t]
    BY <1>0, <1>1 DEF MarkSucceeded, IInv, TypeOK, SubRow
  <1>3. /\ \A q \in Runs : attempts'[q].sub = attempts[q].sub
        /\ evals'[r].won = won
        /\ \A q \in Runs \ {r} : evals'[q] = evals[q]
    BY DEF MarkSucceeded, IInv, TypeOK, AttemptRow, EvalRow
  <1>4. attempts'[r].sub = s
    BY <1>0, <1>3
  <1>5. PriorWins(s, r) = WonRuns(s)
    <2>1. \A q \in Runs \ {r} : evals[q].won => evals[q].state = "SUCCEEDED"
      BY <1>1 DEF Indexed
    <2>2. QED
      BY <1>1, <2>1 DEF PriorWins, WonRuns
  <1>6. Stage(s) = "dueling" /\ \A t \in Subs \ {s} : Stage(t)' = Stage(t)
    BY <1>1, <1>2 DEF Stage, InState
  <1>7. CASE ~won
    <2>1. Stage(s)' = "out"
      BY <1>2, <1>7 DEF AfterDuel, Stage, InState
    <2>2. \A q \in Runs : evals'[q].won = evals[q].won
      <3>1. evals[r].won = FALSE
        BY <1>1 DEF IInv, TypeOK, EvalRow
      <3>2. QED
        BY <1>3, <1>7, <3>1
    <2>3. QED
      BY <1>1, <1>3, <1>6, <2>1, <2>2, WinsStay, NoWin
  <1>8. CASE won
    <2>1. \A t \in Subs : r \notin WonRuns(t)
      BY <1>1 DEF WonRuns
    <2>2. \A t \in Subs : WonRuns(t)' = IF t = s THEN WonRuns(t) \cup {r} ELSE WonRuns(t)
      BY <1>1, <1>3, <1>4, <1>8 DEF WonRuns
    <2>3. \/ Stage(s)' = "waiting" /\ WonRuns(s) = {}
          \/ Stage(s)' = "winner" /\ WonRuns(s) # {}
      BY <1>2, <1>5, <1>8 DEF AfterDuel, Stage, InState
    <2>4. \/ WonRuns(s) = {} /\ Promise!Move({s}, "waiting")
          \/ WonRuns(s) # {} /\ Promise!Move({s}, "winner")
      BY <1>1, <1>6, <2>3, Moves
    <2>5. Promise!Win(s, r)
      BY <1>1, <1>6, <2>1, <2>2, <2>4 DEF Promise!Win
    <2>6. QED
      BY <1>1, <2>5 DEF Promise!Next
  <1>9. QED
    BY <1>7, <1>8

\* Both completions, of the dispatcher and of the reconciler, and the broken stream.
LEMMA CompletionPromise ==
  ASSUME IInv, Indexed, StreamBroken \/ \E f \in Followers : CompleteEval(f)
  PROVE  /\ Promise!Next \/ UNCHANGED Promise!vars
         /\ \A t \in Subs : InState(t, OnTrial)' => InState(t, OnTrial)
  <1>1. PICK f \in Followers : (f = "dispatcher" /\ StreamBroken) \/ CompleteEval(f)
    BY DEF Followers
  <1> DEFINE r == proc[f].run
             v == proc[f].verdict
  <1>2. r \in Runs /\ UNCHANGED king
    BY <1>1 DEF StreamBroken, CompleteEval, IInv, ProcRefs
  <1>3. CASE UNCHANGED <<subs, attempts, evals>>
    BY <1>2, <1>3, Stutters DEF WonRuns, InState
  <1>4. CASE Latch(r) /\ MarkSucceeded(r, v = "won")
    <2>1. (v = "won") \in BOOLEAN
      OBVIOUS
    <2>2. QED
      BY <1>2, <1>4, <2>1, MarkSucceededPromise, MarkVerdict, Zenon
  <1>5. CASE Latch(r) /\ (MarkFailed(r, v # "miner_fault") \/ MarkFailed(r, TRUE))
    <2>1. (v # "miner_fault") \in BOOLEAN /\ TRUE \in BOOLEAN
      OBVIOUS
    <2>2. QED
      BY <1>2, <1>5, <2>1, MarkFailedPromise, MarkVerdict, Zenon
  <1>6. QED
    BY <1>1, <1>3, <1>4, <1>5 DEF StreamBroken, CompleteEval

----------------------------------------------------------------------------
(* Promotion, and the transactions that move nobody. *)

LEMMA SetReignPromise ==
  ASSUME IInv, SetReign
  PROVE  /\ Promise!Next \/ UNCHANGED Promise!vars
         /\ \A t \in Subs : InState(t, OnTrial)' => InState(t, OnTrial)
  <1>1. ASSUME NEW s \in Subs, PromoteWinner(s)
        PROVE  Promise!Next /\ \A t \in Subs : InState(t, OnTrial)' => InState(t, OnTrial)
    <2> USE <1>1 DEF PromoteWinner
    <2>1. /\ subs[s].state \in {"EVAL_WIN", "SET_REIGN_RETRYABLE"}
          /\ subs'[s].state = "REIGN_SET"
          /\ \A t \in Subs \ {s} : subs'[t] = subs[t]
      BY DEF NextWinner, InState, IInv, TypeOK, SubRow
    <2>2. /\ Stage(s) = "winner" /\ Stage(s)' = "crowned"
          /\ \A t \in Subs \ {s} : Stage(t)' = Stage(t)
      BY <2>1 DEF Stage, InState
    <2>3. \E q, r \in WonRuns(s) : q # r
      BY <2>1 DEF IInv, CrownNeedsTwoWins, InState
    <2>4. Promise!Move({s}, "crowned")
      BY <2>2, Moves
    <2>5. Promise!Crown(s)
      BY <2>2, <2>3, <2>4 DEF Promise!Crown, Promotable, WonRuns
    <2>6. QED
      BY <2>1, <2>5 DEF Promise!Next, InState, OnTrial
  <1>2. ASSUME NEW s \in Subs, PromotionFails(s)
        PROVE  /\ UNCHANGED Promise!vars
               /\ \A t \in Subs : InState(t, OnTrial)' => InState(t, OnTrial)
    <2> USE <1>2 DEF PromotionFails
    <2>1. /\ subs[s].state \in {"EVAL_WIN", "SET_REIGN_RETRYABLE"}
          /\ subs'[s].state = "SET_REIGN_RETRYABLE"
          /\ \A t \in Subs \ {s} : subs'[t] = subs[t]
      BY DEF NextWinner, InState, IInv, TypeOK, SubRow
    <2>2. \A t \in Subs : Stage(t)' = Stage(t)
      BY <2>1 DEF Stage, InState
    <2>3. QED
      BY <2>1, <2>2 DEF Promise!vars, WonRuns, InState, OnTrial
  <1>3. QED
    BY <1>1, <1>2 DEF SetReign

LEMMA FollowingPromise ==
  ASSUME IInv,
         \/ StartRemote \/ StartFails \/ SetRemoteRunId \/ Remote
         \/ \E r \in Runs : ReconcilerPicks(r)
         \/ \E f \in Followers : \/ FollowEvent(f) \/ FollowStatus(f) \/ FollowAborts(f)
                                 \/ FollowGivesUp(f) \/ Crash(f)
  PROVE  UNCHANGED Promise!vars /\ UNCHANGED subs
  <1>1. UNCHANGED <<subs, king>>
    BY DEF StartRemote, StartFails, SetRemoteRunId, Remote, RemoteWorkerStep, CancelRemote,
           RemoteRestart, ReconcilerPicks, FollowEvent, FollowStatus, FollowAborts,
           FollowGivesUp, Crash
  <1>2. \A q \in Runs : attempts'[q].sub = attempts[q].sub /\ evals'[q].won = evals[q].won
    <2>1. CASE UNCHANGED <<attempts, evals>>
      BY <2>1
    <2>2. CASE SetRemoteRunId
      BY <2>2, HeartbeatKeeps DEF SetRemoteRunId, IInv, TypeOK, EvalRow, ProcRefs, Followers
    <2>3. ASSUME NEW f \in Followers, FollowEvent(f) \/ FollowStatus(f)
          PROVE  \A q \in Runs : attempts'[q].sub = attempts[q].sub /\ evals'[q].won = evals[q].won
      <3>1. proc[f].run \in Runs
        BY <2>3 DEF FollowEvent, FollowStatus, IInv, ProcRefs
      <3>2. CASE attempts' = Heartbeat(proc[f].run) \/ UNCHANGED attempts
        BY <2>3, <3>1, <3>2, HeartbeatKeeps, RecordKeeps DEF FollowEvent, FollowStatus, IInv
      <3>3. QED
        BY <2>3, <3>2 DEF FollowEvent, FollowStatus
    <2>4. QED
      BY <2>1, <2>2, <2>3
         DEF StartRemote, StartFails, Remote, RemoteWorkerStep, CancelRemote, RemoteRestart,
             ReconcilerPicks, FollowAborts, FollowGivesUp, Crash
  <1>3. QED
    BY <1>1, <1>2, WinsStay, Stutters

----------------------------------------------------------------------------
(* The theorems. *)

LEMMA InitPromise == Init => Promise!Init /\ OneVerdictPerHotkey
  <1> SUFFICES ASSUME Init PROVE Promise!Init /\ OneVerdictPerHotkey
    OBVIOUS
  <1>1. king \notin Subs
    BY CountsAssumption, CommitAssumption DEF Init, NoKing, Genesis, Subs
  <1>2. QED
    BY <1>1 DEF Init, Promise!Init, Stage, InState, WonRuns, OneVerdictPerHotkey

LEMMA NextPromise ==
  ASSUME IInv, Indexed, OneVerdictPerHotkey, [Next]_vars
  PROVE  [Promise!Next]_(Promise!vars) /\ OneVerdictPerHotkey'
  <1> DEFINE Kept == \A t \in Subs : InState(t, OnTrial)' => InState(t, OnTrial)
  <1>1. CASE Requeuer
    BY <1>1, RequeuerPromise, VerdictKept
       DEF Requeuer, QueuePreEvalPassed, RequeueRetryable
  <1>2. CASE SweepAbandoned
    BY <1>2, SweepPromise, VerdictKept DEF SweepAbandoned
  <1>3. CASE ClaimNothing \/ \E s \in Subs : ClaimWithoutKing(s)
    BY <1>3, IdleClaimPromise, VerdictKept DEF ClaimNothing, ClaimWithoutKing
  <1>4. CASE \E s \in Subs, r \in Runs : ClaimNextEval(s, r)
    BY <1>4, ClaimPromise, ClaimVerdict
  <1>5. CASE StreamBroken \/ \E f \in Followers : CompleteEval(f)
    BY <1>5, CompletionPromise, VerdictKept DEF StreamBroken, CompleteEval
  <1>6. CASE \/ StartRemote \/ StartFails \/ SetRemoteRunId \/ Remote
             \/ \E r \in Runs : ReconcilerPicks(r)
             \/ \E f \in Followers : \/ FollowEvent(f) \/ FollowStatus(f) \/ FollowAborts(f)
                                     \/ FollowGivesUp(f) \/ Crash(f)
    <2>1. oldReg' = oldReg
      BY <1>6 DEF StartRemote, StartFails, SetRemoteRunId, Remote, RemoteWorkerStep, CancelRemote,
                  RemoteRestart, ReconcilerPicks, FollowEvent, FollowStatus, FollowAborts,
                  FollowGivesUp, Crash
    <2>2. QED
      BY <1>6, <2>1, FollowingPromise, VerdictKept DEF InState
  <1>7. CASE SetReign
    BY <1>7, SetReignPromise, VerdictKept DEF SetReign, PromoteWinner, PromotionFails
  <1>8. CASE Environment
    BY <1>8, EnvironmentPromise, VerdictKept
  <1>9. CASE UNCHANGED vars
    BY <1>9, Stutters, VerdictKept DEF vars, WonRuns, InState
  <1>10. QED
    BY <1>1, <1>2, <1>3, <1>4, <1>5, <1>6, <1>7, <1>8, <1>9 DEF Next, Dispatcher, Following

\* Two submissions of a hotkey, both committed since it registered, are never both on
\* trial, winning or lost: the claim's look at the rows and every later step keep it, for
\* any number of submissions, hotkeys, re-registrations and faults.
THEOREM SpecOneVerdictPerHotkey == Spec => []OneVerdictPerHotkey
  <1>1. IInv /\ Indexed /\ OneVerdictPerHotkey /\ [Next]_vars => OneVerdictPerHotkey'
    BY NextPromise
  <1>2. QED
    BY <1>1, InitPromise, SpecIInv, SpecIndexed, PTL DEF Spec

\* The eval control plane implements KingOfTheHill: whatever crashes, stalls, restarts and
\* races its processes go through, every transaction is one of its steps or none.
THEOREM SpecKeepsThePromise == Spec => KeepsThePromise
  <1>1. IInv /\ Indexed /\ OneVerdictPerHotkey /\ [Next]_vars => [Promise!Next]_(Promise!vars)
    BY NextPromise
  <1>2. QED
    BY <1>1, InitPromise, SpecIInv, SpecIndexed, SpecOneVerdictPerHotkey, PTL
       DEF Spec, KeepsThePromise, Promise!Spec
=============================================================================
