----------------------------- MODULE Screening -----------------------------
(***************************************************************************)
(* What happens to a submission before it may duel the king.               *)
(*                                                                         *)
(*   validator   model_validation, one worker: enqueues chain commits,     *)
(*               sweeps, claims, checks the hotkey, checks the model       *)
(*   gate        sanity_service, one dispatcher: claims, runs the model's  *)
(*               trajectories on the PRE_EVAL host, judges, completes      *)
(*   sweeper     cron, PreEvalRepository.sweep_abandoned_pre_eval          *)
(*                                                                         *)
(* Neither stage's completion looks at the state of the attempt it ends:   *)
(* what keeps a late one from doing harm is who else may act meanwhile.    *)
(* The gate's reconciler asks the host for a run named by the attempt, but *)
(* the runs of a trajectory of several turns have names of their own: it   *)
(* is told 404 and skips, so it is not in the model.                       *)
(***************************************************************************)
EXTENDS Integers, Sequences, FiniteSets

CONSTANTS
  NumSubs,        \* submissions, numbered in the order of their chain commits
  Hotkeys,
  HotkeyOf,       \* the hotkey each was committed by
  Reregistering,  \* hotkeys that may register on the subnet again
  MaxAttempts,    \* ModelValidationSettings.MAX_ATTEMPTS
  MaxStrikes,     \* ModelValidationSettings.PREEVAL_MAX_FAILS
  MaxRetry,       \* SanitySettings.max_retry_count
  MaxFaults       \* bound: crashes, stalls, busy hosts and failed finalizations

Subs   == 1..NumSubs
NoSub  == 0
Stages == {"HIPPIUS", "PRE_EVAL"}

ASSUME CountsAssumption ==
  /\ NumSubs \in Nat /\ MaxFaults \in Nat
  /\ MaxAttempts \in Nat \ {0} /\ MaxStrikes \in Nat \ {0} /\ MaxRetry \in Nat \ {0}

ASSUME CommitAssumption ==
  /\ HotkeyOf \in [Subs -> Hotkeys]
  /\ Reregistering \subseteq Hotkeys

VARIABLES
  subs,       \* model_submissions: state, retry_count, fault, coldkey known
  tries,      \* stage_attempts by submission, stage and attempt_number
  oldReg,     \* submissions committed before their hotkey's registration_block
  validator,  \* what the validation worker holds between two transactions
  gate,       \* what the sanity dispatcher holds between two transactions
  faults

vars == <<subs, tries, oldReg, validator, gate, faults>>

----------------------------------------------------------------------------
\* ABSENT: not on the chain yet; COMMITTED: a chain_commits row without a submission.
SubStates ==
  {"ABSENT", "COMMITTED", "SUBMITTED", "HIPPIUS_RUNNING", "HIPPIUS_RETRYABLE",
   "HIPPIUS_VALIDATED", "PRE_EVAL_RUNNING", "PRE_EVAL_RETRYABLE", "PRE_EVAL_PASSED",
   "EVAL_QUEUED", "TERMINAL_INVALID", "TERMINAL_INFRA_FAILED"}

Terminal == {"TERMINAL_INVALID", "TERMINAL_INFRA_FAILED"}

\* _VALIDATED_OR_BEYOND; the states of the eval stage and after come after this module.
ValidatedOrBeyond ==
  {"HIPPIUS_VALIDATED", "PRE_EVAL_RUNNING", "PRE_EVAL_PASSED", "EVAL_QUEUED"}

\* fault_class and fault_code, by what the checks tell apart: a strike is a MINER_FAULT
\* of the model, a refusal one of the hotkey's history; "blocking" is a strike by an
\* injection or low-vocabulary verdict, "duplicate" one by the dedup gate.
Strikes == {"strike", "blocking", "duplicate"}
SubFaults == {"none", "infra", "refused"} \cup Strikes

TryStates == {"RUNNING", "SUCCEEDED", "FAILED_RETRYABLE", "FAILED_TERMINAL", "ABANDONED",
              "RELEASED"}  \* FAILED_RETRYABLE with fault_code worker_busy

SubRow == [state : SubStates, retry : Nat, fault : SubFaults, keyed : BOOLEAN]
TryRow == [state : TryStates, leased : BOOLEAN]

\* The questions the worker asks of the hotkey's history, each in its own query.
Checks == <<"hotkey_reregistered", "hotkey_sanity_blocked", "hotkey_duplicate_blocked",
            "hotkey_preeval_blocked", "hotkey_already_validated">>

ValidatorRow == [pc : {"start", "sweep", "claim", "check", "validate"},
                 sub : Subs \cup {NoSub}, nth : 0..(Len(Checks) + 1)]
GateRow == [pc : {"idle", "run"}, sub : Subs \cup {NoSub}]

TypeOK ==
  /\ subs \in [Subs -> SubRow]
  /\ tries \in [Subs -> [Stages -> Seq(TryRow)]]
  /\ oldReg \subseteq Subs
  /\ validator \in ValidatorRow
  /\ gate \in GateRow
  /\ faults \in 0..MaxFaults

Looking == [pc |-> "sweep", sub |-> NoSub, nth |-> 0]

Init ==
  /\ subs = [s \in Subs |-> [state |-> "ABSENT", retry |-> 0, fault |-> "none", keyed |-> FALSE]]
  /\ tries = [s \in Subs |-> [g \in Stages |-> <<>>]]
  /\ oldReg = {}
  /\ validator = [Looking EXCEPT !.pc = "start"]
  /\ gate = [pc |-> "idle", sub |-> NoSub]
  /\ faults = 0

----------------------------------------------------------------------------
InState(s, S) == subs[s].state \in S

\* attempt_number is MAX + 1, so a stage's attempts are a sequence.
LastTry(s, g) == Len(tries[s][g])
Running(s, g) == \E n \in DOMAIN tries[s][g] : tries[s][g][n].state = "RUNNING"

Claim(s, g) == [tries EXCEPT ![s][g] = Append(@, [state |-> "RUNNING", leased |-> TRUE])]
Finish(s, g, st) == [tries EXCEPT ![s][g][LastTry(s, g)].state = st]

First(s, S) == s \in S /\ \A t \in S : s <= t

Fault == faults < MaxFaults /\ faults' = faults + 1

----------------------------------------------------------------------------
\* The chain, time and the requeuer.

CommitArrives(s) ==
  /\ InState(s, {"ABSENT"})
  /\ \A t \in Subs : t < s => ~InState(t, {"ABSENT"})
  /\ subs' = [subs EXCEPT ![s].state = "COMMITTED"]
  /\ UNCHANGED <<tries, oldReg, validator, gate, faults>>

\* The miner's coldkey is looked up, or five minutes pass.
ColdkeyKnown(s) ==
  /\ InState(s, {"SUBMITTED"}) /\ ~subs[s].keyed
  /\ subs' = [subs EXCEPT ![s].keyed = TRUE]
  /\ UNCHANGED <<tries, oldReg, validator, gate, faults>>

\* The hotkey registers again: its earlier commits predate registration_block.
Reregister(h) ==
  LET earlier == {s \in Subs : HotkeyOf[s] = h /\ ~InState(s, {"ABSENT"})}
  IN  /\ h \in Reregistering
      /\ ~(earlier \subseteq oldReg)
      /\ oldReg' = oldReg \cup earlier
      /\ UNCHANGED <<subs, tries, validator, gate, faults>>

Busy(s, g) == \/ g = "HIPPIUS" /\ validator.sub = s
              \/ g = "PRE_EVAL" /\ gate.sub = s

\* A worker at work renews its lease (HIPPIUS: a heartbeat task; PRE_EVAL: with every poll
\* of an hour's lease): it loses one only by stalling, which is a fault.
LeaseExpires(s, g) ==
  /\ Running(s, g)
  /\ tries[s][g][LastTry(s, g)].leased
  /\ IF Busy(s, g) THEN Fault ELSE UNCHANGED faults
  /\ tries' = [tries EXCEPT ![s][g][LastTry(s, g)].leased = FALSE]
  /\ UNCHANGED <<subs, oldReg, validator, gate>>

QueuePreEvalPassed ==
  LET passed == {s \in Subs : InState(s, {"PRE_EVAL_PASSED"})}
  IN  /\ passed # {}
      /\ subs' = [s \in Subs |-> IF s \in passed
                                 THEN [subs[s] EXCEPT !.state = "EVAL_QUEUED"] ELSE subs[s]]
      /\ UNCHANGED <<tries, oldReg, validator, gate, faults>>

----------------------------------------------------------------------------
\* Sweeping, in both stages: RUNNING, past its lease, the submission still in the stage.

RunningState(g) == IF g = "HIPPIUS" THEN "HIPPIUS_RUNNING" ELSE "PRE_EVAL_RUNNING"

\* Mutant: an attempt past its lease is swept even when it was answered.
ExpiredMutant(s, g) ==
  /\ LastTry(s, g) > 0
  /\ ~tries[s][g][LastTry(s, g)].leased
  /\ tries[s][g][LastTry(s, g)].state \in {"RUNNING", "SUCCEEDED"}

Expired(s, g) ==
  /\ Running(s, g)
  /\ ~tries[s][g][LastTry(s, g)].leased
  /\ InState(s, {RunningState(g)})

Abandon(S, g) ==
  tries' = [s \in Subs |-> IF s \in S
              THEN [tries[s] EXCEPT ![g][LastTry(s, g)].state = "ABANDONED"] ELSE tries[s]]

----------------------------------------------------------------------------
\* The validation worker: run().

Resume == validator' = Looking

\* At startup, and whenever there is nothing to claim.
Enqueue == [s \in Subs |-> IF InState(s, {"COMMITTED"})
                           THEN [subs[s] EXCEPT !.state = "SUBMITTED"] ELSE subs[s]]

Start ==
  /\ validator.pc = "start"
  /\ subs' = Enqueue
  /\ Resume
  /\ UNCHANGED <<tries, oldReg, gate, faults>>

\* sweep_expired: no cap, a submission whose worker keeps dying is tried again for ever.
SweepExpired ==
  LET swept == {s \in Subs : Expired(s, "HIPPIUS")}
  IN  /\ validator.pc = "sweep"
      /\ Abandon(swept, "HIPPIUS")
      /\ subs' = [s \in Subs |-> IF s \in swept
                    THEN [subs[s] EXCEPT !.state = "HIPPIUS_RETRYABLE", !.fault = "infra",
                                         !.retry = @ + 1]
                    ELSE subs[s]]
      /\ validator' = [validator EXCEPT !.pc = "claim"]
      /\ UNCHANGED <<oldReg, gate, faults>>

\* Mutant: the queue forgets the models that an infrastructure failure sent back.
ClaimableMutant == {s \in Subs : InState(s, {"SUBMITTED"}) /\ subs[s].keyed}

Claimable == {s \in Subs : InState(s, {"SUBMITTED", "HIPPIUS_RETRYABLE"}) /\ subs[s].keyed}

ClaimNext(s) ==
  /\ validator.pc = "claim"
  /\ First(s, Claimable)
  /\ subs' = [subs EXCEPT ![s].state = "HIPPIUS_RUNNING", ![s].fault = "none"]
  /\ tries' = Claim(s, "HIPPIUS")
  /\ validator' = [pc |-> "check", sub |-> s, nth |-> 1]
  /\ UNCHANGED <<oldReg, gate, faults>>

ClaimNone ==
  /\ validator.pc = "claim"
  /\ Claimable = {}
  /\ subs' = Enqueue
  /\ Resume
  /\ UNCHANGED <<tries, oldReg, gate, faults>>

SameHotkey(s) == {t \in Subs : HotkeyOf[t] = HotkeyOf[s]}
Invalid(s, F) == {t \in SameHotkey(s) : InState(t, {"TERMINAL_INVALID"}) /\ subs[t].fault \in F}

\* Of the blocking verdicts the code reads the sanity_results row, which the same
\* transaction writes.
HotkeyRefused(s, check) ==
  CASE check = "hotkey_reregistered"      -> SameHotkey(s) \cap oldReg # {}
    [] check = "hotkey_sanity_blocked"    -> Invalid(s, {"blocking"}) # {}
    [] check = "hotkey_duplicate_blocked" -> Invalid(s, {"duplicate"}) # {}
    [] check = "hotkey_preeval_blocked"   -> Cardinality(Invalid(s, Strikes)) >= MaxStrikes
    [] check = "hotkey_already_validated" ->
         \E t \in SameHotkey(s) \ oldReg : InState(t, ValidatedOrBeyond)

\* mark_failed
FinishInvalid(s, f) ==
  /\ tries' = Finish(s, "HIPPIUS", "FAILED_TERMINAL")
  /\ subs' = [subs EXCEPT ![s].state = "TERMINAL_INVALID", ![s].fault = f]

Check ==
  LET s == validator.sub
      c == Checks[validator.nth]
  IN  /\ validator.pc = "check"
      /\ \/ HotkeyRefused(s, c) /\ FinishInvalid(s, "refused") /\ Resume
         \/ /\ ~HotkeyRefused(s, c)
            /\ validator' = IF validator.nth < Len(Checks)
                            THEN [validator EXCEPT !.nth = @ + 1]
                            ELSE [validator EXCEPT !.pc = "validate", !.nth = @ + 1]
            /\ UNCHANGED <<subs, tries>>
      /\ UNCHANGED <<oldReg, gate, faults>>

Validated(row) == [row EXCEPT !.state = "HIPPIUS_VALIDATED", !.fault = "none", !.retry = 0]

\* process_model passed: mark_done.
ModelPasses ==
  LET s == validator.sub
  IN  /\ validator.pc = "validate"
      /\ subs' = [subs EXCEPT ![s] = Validated(@)]
      /\ tries' = Finish(s, "HIPPIUS", "SUCCEEDED")
      /\ Resume
      /\ UNCHANGED <<oldReg, gate, faults>>

\* A manifest, dtype, shape or hash that is wrong; a copy, exact (the unique index on
\* model_hash included) or by fingerprint.
ModelFails ==
  /\ validator.pc = "validate"
  /\ \E f \in {"strike", "duplicate"} : FinishInvalid(validator.sub, f)
  /\ Resume
  /\ UNCHANGED <<oldReg, gate, faults>>

\* mark_retry: the stage's last attempt is terminal.
ModelRetries ==
  LET s == validator.sub
      last == LastTry(s, "HIPPIUS") >= MaxAttempts
  IN  /\ validator.pc = "validate"
      /\ tries' = Finish(s, "HIPPIUS", IF last THEN "FAILED_TERMINAL" ELSE "FAILED_RETRYABLE")
      /\ subs' = [subs EXCEPT ![s].state = IF last THEN "TERMINAL_INFRA_FAILED"
                                                   ELSE "HIPPIUS_RETRYABLE",
                              ![s].fault = "infra", ![s].retry = @ + 1]
      /\ Resume
      /\ UNCHANGED <<oldReg, gate, faults>>

\* pm2 restarts the worker, or its finalization fails and is left to the lease.
ValidatorFaults ==
  /\ validator.sub # NoSub
  /\ Fault
  /\ \/ validator' = [Looking EXCEPT !.pc = "start"]
     \/ validator.pc = "validate" /\ Resume
  /\ UNCHANGED <<subs, tries, oldReg, gate>>

----------------------------------------------------------------------------
\* The sanity dispatcher: dispatch_once().

\* Ordered by created_at: of two enqueued together either may be first, here the earlier.
GateQueue == {s \in Subs : /\ InState(s, {"HIPPIUS_VALIDATED", "PRE_EVAL_RETRYABLE"})
                           /\ subs[s].retry < MaxRetry}

\* claim_next_pre_eval; without a READY host nothing is claimed.
ClaimPreEval(s) ==
  /\ gate.pc = "idle"
  /\ First(s, GateQueue)
  /\ subs' = [subs EXCEPT ![s].state = "PRE_EVAL_RUNNING", ![s].fault = "none"]
  /\ tries' = Claim(s, "PRE_EVAL")
  /\ gate' = [pc |-> "run", sub |-> s]
  /\ UNCHANGED <<oldReg, validator, faults>>

Rest == gate' = [pc |-> "idle", sub |-> NoSub]

\* mark_pre_eval_passed: by ids, whatever became of the attempt and the submission.
GatePasses ==
  LET s == gate.sub
  IN  /\ gate.pc = "run"
      /\ tries' = Finish(s, "PRE_EVAL", "SUCCEEDED")
      /\ subs' = [subs EXCEPT ![s].state = "PRE_EVAL_PASSED", ![s].retry = 0]
      /\ Rest
      /\ UNCHANGED <<oldReg, validator, faults>>

\* mark_pre_eval_failed on a verdict against the miner.
GateRejects ==
  LET s == gate.sub
  IN  /\ gate.pc = "run"
      /\ \E f \in {"strike", "blocking"} :
           subs' = [subs EXCEPT ![s].state = "TERMINAL_INVALID", ![s].fault = f,
                                ![s].retry = @ + 1]
      /\ tries' = Finish(s, "PRE_EVAL", "FAILED_TERMINAL")
      /\ Rest
      /\ UNCHANGED <<oldReg, validator, faults>>

\* Mutant: one retry too many.
ExhaustedMutant(row) == row.retry >= MaxRetry

Exhausted(row) == row.retry + 1 >= MaxRetry

\* An infrastructure failure, found by the dispatcher or by the sweeper.
Charged(row) ==
  [row EXCEPT !.state = IF Exhausted(row) THEN "TERMINAL_INVALID" ELSE "PRE_EVAL_RETRYABLE",
              !.fault = "infra", !.retry = @ + 1]

\* mark_pre_eval_failed, retryable: host, worker or judges unavailable.
GateFails ==
  LET s == gate.sub
  IN  /\ gate.pc = "run"
      /\ tries' = Finish(s, "PRE_EVAL", "FAILED_RETRYABLE")
      /\ subs' = [subs EXCEPT ![s] = Charged(@)]
      /\ Rest
      /\ UNCHANGED <<oldReg, validator, faults>>

\* release_pre_eval_attempt: the host is busy with another model (409), no charge.
GateReleases ==
  LET s == gate.sub
  IN  /\ gate.pc = "run"
      /\ Fault
      /\ tries' = Finish(s, "PRE_EVAL", "RELEASED")
      /\ subs' = [subs EXCEPT ![s].state = IF @ = "PRE_EVAL_RUNNING"
                                           THEN "HIPPIUS_VALIDATED" ELSE @]
      /\ Rest
      /\ UNCHANGED <<oldReg, validator>>

\* A restart, or an exception that ends in run_forever: the attempt is left RUNNING.
GateAborts ==
  /\ gate.pc = "run"
  /\ Fault
  /\ Rest
  /\ UNCHANGED <<subs, tries, oldReg, validator>>

SweepAbandonedPreEval ==
  LET swept == {s \in Subs : Expired(s, "PRE_EVAL")}
  IN  /\ swept # {}
      /\ Abandon(swept, "PRE_EVAL")
      /\ subs' = [s \in Subs |-> IF s \in swept THEN Charged(subs[s]) ELSE subs[s]]
      /\ UNCHANGED <<oldReg, validator, gate, faults>>

----------------------------------------------------------------------------
Validator ==
  \/ Start \/ SweepExpired \/ ClaimNone
  \/ \E s \in Subs : ClaimNext(s)
  \/ Check
  \/ ModelPasses \/ ModelFails \/ ModelRetries
  \/ ValidatorFaults

Gate ==
  \/ \E s \in Subs : ClaimPreEval(s)
  \/ GatePasses \/ GateRejects \/ GateFails \/ GateReleases \/ GateAborts

Environment ==
  \/ \E s \in Subs : CommitArrives(s) \/ ColdkeyKnown(s)
  \/ \E h \in Hotkeys : Reregister(h)
  \/ \E s \in Subs, g \in Stages : LeaseExpires(s, g)

Next == Validator \/ Gate \/ SweepAbandonedPreEval \/ QueuePreEvalPassed \/ Environment

Spec == Init /\ [][Next]_vars

\* Both workers and the crons run on, checks and judgings end one way or the other, a
\* coldkey is looked up or waited for, and nobody renews the lease of a worker that died.
Fairness ==
  /\ WF_vars(Start) /\ WF_vars(SweepExpired) /\ WF_vars(ClaimNone)
  /\ WF_vars(\E s \in Subs : ClaimNext(s))
  /\ WF_vars(Check) /\ WF_vars(ModelPasses \/ ModelFails \/ ModelRetries)
  /\ WF_vars(\E s \in Subs : ClaimPreEval(s))
  /\ WF_vars(GatePasses \/ GateRejects \/ GateFails)
  /\ WF_vars(SweepAbandonedPreEval) /\ WF_vars(QueuePreEvalPassed)
  /\ \A s \in Subs : WF_vars(ColdkeyKnown(s))
  /\ \A s \in Subs, g \in Stages : WF_vars(LeaseExpires(s, g) /\ ~Busy(s, g))

LiveSpec == Spec /\ Fairness

----------------------------------------------------------------------------
(* Safety. *)

\* A stage's attempt is RUNNING exactly while its submission is in that stage, and it is
\* the last one, though completions end attempts by id and sweeps by state.
RunningIsTheLastTry ==
  \A s \in Subs, g \in Stages :
    /\ InState(s, {RunningState(g)}) <=> Running(s, g)
    /\ \A n \in DOMAIN tries[s][g] : tries[s][g][n].state = "RUNNING" => n = LastTry(s, g)

\* Each stage has its own budget: pre-eval is charged at most MaxRetry times, and no
\* submission waits for a claim that its retry_count, charged in both stages, rules out.
NobodyWaitsInVain ==
  \A s \in Subs :
    InState(s, {"HIPPIUS_VALIDATED", "PRE_EVAL_RUNNING", "PRE_EVAL_RETRYABLE"}) =>
      /\ subs[s].retry < MaxRetry
      /\ Cardinality({n \in DOMAIN tries[s]["PRE_EVAL"] :
           tries[s]["PRE_EVAL"][n].state \in {"FAILED_RETRYABLE", "ABANDONED"}}) <= subs[s].retry

\* Whatever ends, sweeps or releases an attempt, tries and submissions stay in step.
TriesAreInStep == RunningIsTheLastTry /\ NobodyWaitsInVain

\* What was decided stays decided: a passed model is not called back, a rejected one not
\* revived.  Only a rejection by exhausted retries may yield to the completion of the
\* attempt that was swept.
VerdictStands ==
  [][\A s \in Subs :
       /\ InState(s, {"PRE_EVAL_PASSED", "EVAL_QUEUED"}) =>
            subs'[s].state \in {"PRE_EVAL_PASSED", "EVAL_QUEUED"}
       /\ InState(s, Terminal) =>
            \/ subs'[s] = subs[s]
            \/ /\ gate.sub = s /\ subs[s].fault = "infra"
               /\ tries[s]["PRE_EVAL"][LastTry(s, "PRE_EVAL")].state = "ABANDONED"]_vars

----------------------------------------------------------------------------
(* Liveness. *)

\* Every commit is screened to an end: queued for its duel, or terminal.
EveryoneIsScreened ==
  \A s \in Subs : InState(s, {"COMMITTED"}) ~> InState(s, {"EVAL_QUEUED"} \cup Terminal)
=============================================================================
