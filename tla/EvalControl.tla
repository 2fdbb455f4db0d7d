---------------------------- MODULE EvalControl ----------------------------
(***************************************************************************)
(* The eval control plane of subnet 97: how a submission that passed the   *)
(* pre-eval gate is dueled against the reigning king, confirmed by a second*)
(* duel and promoted.  Every backend process works on the same Postgres    *)
(* rows, one transaction at a time:                                        *)
(*                                                                         *)
(*   requeuer      cron, control/requeuer.py                               *)
(*   dispatcher    long-running loop, EvalDispatcher.dispatch_once         *)
(*   reconciler    cron, EvalDispatcher.reconcile_once                     *)
(*   sweeper       cron, EvalRepository.sweep_abandoned_eval_attempts      *)
(*   set-reign     long-running loop, SetReignRepository.promote_next_winner*)
(*                                                                         *)
(* and the GPU host keeps each eval run's event log in memory only.  An    *)
(* action is one transaction (or one remote call), so every interleaving   *)
(* and every crash between two transactions is a behaviour of this module. *)
(***************************************************************************)
EXTENDS Integers, Sequences, FiniteSets

CONSTANTS
  NumSubs,        \* model_submissions rows, numbered in created_at order
  Hotkeys,
  HotkeyOf,       \* the hotkey each submission was committed by
  BlockHashed,    \* submissions whose chain commit has a block_hash
  Reregistering,  \* hotkeys that may register on the subnet again
  InitialKings,   \* who may reign when the services start
  MaxRetry,       \* Settings.max_retry_count
  MaxRuns,        \* bound: eval runs ever created
  MaxFaults,      \* bound: crashes, stalls, restarts, cancels and network losses
  RetryBound      \* bound: retries of the set-reign stage

Subs == 1..NumSubs
Runs == 1..MaxRuns

NoSub   == 0
NoRun   == 0
NoKing  == 0              \* no ACTIVE reign
Genesis == NumSubs + 1    \* a king crowned by hand, not by a modelled duel
Kings   == Subs \cup {NoKing, Genesis}

ASSUME CountsAssumption ==
  /\ NumSubs \in Nat /\ MaxRetry \in Nat /\ MaxRuns \in Nat
  /\ MaxFaults \in Nat /\ RetryBound \in Nat

ASSUME CommitAssumption ==
  /\ HotkeyOf \in [Subs -> Hotkeys]
  /\ BlockHashed \subseteq Subs
  /\ Reregistering \subseteq Hotkeys
  /\ InitialKings \subseteq {NoKing, Genesis}

VARIABLES
  subs,      \* model_submissions: state, retry_count, priority
  attempts,  \* stage_attempts of stage EVAL: state, submission, lease
  evals,     \* eval_runs (one per attempt): state, king, remote id, result, events
  king,      \* the submission holding slot 1 of the ACTIVE reign
  oldReg,    \* submissions committed before their hotkey's registration_block
  log,       \* the GPU host's RemoteRunStore: each run's events, <<>> if unknown
  proc,      \* what each following process holds between two transactions
  faults     \* faults injected so far

vars == <<subs, attempts, evals, king, oldReg, log, proc, faults>>

----------------------------------------------------------------------------
SubStates ==
  {"UPSTREAM", "PRE_EVAL_PASSED", "EVAL_QUEUED", "EVAL_RUNNING", "EVAL_RETRYABLE",
   "EVAL_WIN", "SET_REIGN_RETRYABLE", "REIGN_SET", "COMPLETE_LOSS", "TERMINAL_INVALID"}

\* Mutant: a lost submission no longer counts against its hotkey.
ScoredOrBeyondMutant == {"EVAL_RUNNING", "EVAL_WIN", "SET_REIGN_RUNNING", "REIGN_SET"}

\* SET_REIGN_RUNNING, WEIGHT_SET_RUNNING and COMPLETE_CORONATED are in the code's
\* set too; the first is never committed, the others come after this module.
ScoredOrBeyond ==
  {"EVAL_RUNNING", "EVAL_WIN", "SET_REIGN_RUNNING", "REIGN_SET",
   "WEIGHT_SET_RUNNING", "COMPLETE_LOSS", "COMPLETE_CORONATED"}

PendingReign == {"EVAL_WIN", "SET_REIGN_RUNNING"}

FailedAttempt == {"FAILED_RETRYABLE", "FAILED_TERMINAL", "ABANDONED"}
AttemptStates == {"NONE", "RUNNING", "SUCCEEDED"} \cup FailedAttempt

ActiveEval == {"DISPATCHED", "GENERATING", "SCORING", "VERDICT_READY"}
EvalStates == {"NONE", "SUCCEEDED", "FAILED_RETRYABLE", "FAILED_TERMINAL"} \cup ActiveEval

\* Verdict events, by what the control plane makes of them.
Verdicts == {"won", "lost", "infra_fault", "miner_fault", "cancelled"}
Events   == {"eval_started", "generation_started", "scoring_started"} \cup Verdicts

Followers == {"dispatcher", "reconciler"}
PCs == {"idle", "claimed", "started", "follow", "complete", "fail"}
Idle == [pc |-> "idle", run |-> NoRun, seen |-> 0, verdict |-> "none"]

Priorities == {0, 100}

SubRow     == [state : SubStates, retry : Nat, prio : Priorities]
AttemptRow == [state : AttemptStates, sub : Subs \cup {NoSub}, leased : BOOLEAN]
EvalRow    == [state : EvalStates, king : Kings, remote : BOOLEAN, won : BOOLEAN,
               recorded : SUBSET Events]
ProcRow    == [pc : PCs, run : Runs \cup {NoRun}, seen : Nat,
               verdict : Verdicts \cup {"none"}]

TypeOK ==
  /\ subs \in [Subs -> SubRow]
  /\ attempts \in [Runs -> AttemptRow]
  /\ evals \in [Runs -> EvalRow]
  /\ king \in Kings
  /\ oldReg \subseteq Subs
  /\ log \in [Runs -> Seq(Events)]
  /\ proc \in [Followers -> ProcRow]
  /\ faults \in 0..MaxFaults

Init ==
  /\ subs = [s \in Subs |-> [state |-> "UPSTREAM", retry |-> 0, prio |-> 100]]
  /\ attempts = [r \in Runs |-> [state |-> "NONE", sub |-> NoSub, leased |-> FALSE]]
  /\ evals = [r \in Runs |-> [state |-> "NONE", king |-> NoKing, remote |-> FALSE,
                              won |-> FALSE, recorded |-> {}]]
  /\ king \in InitialKings
  /\ oldReg = {}
  /\ log = [r \in Runs |-> <<>>]
  /\ proc = [f \in Followers |-> Idle]
  /\ faults = 0

----------------------------------------------------------------------------
\* Rows and what the queries ask of them.

InState(s, S) == subs[s].state \in S

\* stage_attempts rows that hold the submission's EVAL stage.
ActiveAttempt(s) == \E r \in Runs : attempts[r].sub = s /\ attempts[r].state = "RUNNING"

WonRuns(s)    == {r \in Runs : attempts[r].sub = s /\ evals[r].won}
\* ORDER BY priority ASC, created_at ASC
Before(s, t) == \/ subs[s].prio < subs[t].prio
                \/ subs[s].prio = subs[t].prio /\ s < t

First(s, S) == s \in S /\ \A t \in S \ {s} : Before(s, t)

\* eval_runs_one_active_uidx: the write that would leave a second active row fails.
IndexAllows(r, st) ==
  st \in ActiveEval => \A q \in Runs \ {r} : evals[q].state \notin ActiveEval

\* heartbeat_attempt: only a RUNNING attempt's lease is extended.
Heartbeat(r) ==
  [attempts EXCEPT ![r].leased = @ \/ attempts[r].state = "RUNNING"]

----------------------------------------------------------------------------
\* Around the control plane: pre-eval, registration, genesis and time.

\* The sanity dispatcher passes a submission (a fresh row, retry_count reset).
PassPreEval(s) ==
  /\ InState(s, {"UPSTREAM"})
  /\ subs' = [subs EXCEPT ![s].state = "PRE_EVAL_PASSED", ![s].retry = 0]
  /\ UNCHANGED <<attempts, evals, king, oldReg, log, proc, faults>>

\* The hotkey registers again: its earlier commits predate registration_block.
Reregister(h) ==
  LET earlier == {s \in Subs : HotkeyOf[s] = h /\ ~InState(s, {"UPSTREAM"})}
  IN  /\ h \in Reregistering
      /\ ~(earlier \subseteq oldReg)
      /\ oldReg' = oldReg \cup earlier
      /\ UNCHANGED <<subs, attempts, evals, king, log, proc, faults>>

CrownGenesis ==
  /\ king = NoKing
  /\ king' = Genesis
  /\ UNCHANGED <<subs, attempts, evals, oldReg, log, proc, faults>>

Followed(r) == \E f \in Followers : proc[f].run = r

\* lease_expires_at < now().  A follower polls and heartbeats well within a lease:
\* it loses one only by stalling (error back-off, a slow host), which is a fault.
LeaseExpires(r) ==
  /\ attempts[r].state = "RUNNING" /\ attempts[r].leased
  /\ \/ ~Followed(r) /\ UNCHANGED faults
     \/ Followed(r) /\ faults < MaxFaults /\ faults' = faults + 1
  /\ attempts' = [attempts EXCEPT ![r].leased = FALSE]
  /\ UNCHANGED <<subs, evals, king, oldReg, log, proc>>

----------------------------------------------------------------------------
\* The requeuer: two transactions over whole sets of rows.

QueuePreEvalPassed ==
  LET passed == {s \in Subs : InState(s, {"PRE_EVAL_PASSED"})}
  IN  /\ passed # {}
      /\ subs' = [s \in Subs |-> IF s \in passed
                                 THEN [subs[s] EXCEPT !.state = "EVAL_QUEUED"] ELSE subs[s]]
      /\ UNCHANGED <<attempts, evals, king, oldReg, log, proc, faults>>

RetryCapped(s) == subs[s].retry >= MaxRetry

RequeueRetryable ==
  LET retryable == {s \in Subs : InState(s, {"EVAL_RETRYABLE"}) /\ ~ActiveAttempt(s)}
      next(s) == IF RetryCapped(s) THEN "TERMINAL_INVALID" ELSE "EVAL_QUEUED"
  IN  /\ retryable # {}
      /\ subs' = [s \in Subs |-> IF s \in retryable
                                 THEN [subs[s] EXCEPT !.state = next(s)] ELSE subs[s]]
      /\ UNCHANGED <<attempts, evals, king, oldReg, log, proc, faults>>

----------------------------------------------------------------------------
\* The sweeper.

Expired(r) == /\ attempts[r].state = "RUNNING"
              /\ ~attempts[r].leased
              /\ attempts[r].sub \in Subs
              /\ InState(attempts[r].sub, {"EVAL_RUNNING"})

SweepAbandoned ==
  LET swept == {r \in Runs : Expired(r)}
      owners == {attempts[r].sub : r \in swept}
  IN  /\ swept # {}
      /\ attempts' = [r \in Runs |-> IF r \in swept
                        THEN [attempts[r] EXCEPT !.state = "ABANDONED"] ELSE attempts[r]]
      /\ evals' = [r \in Runs |-> IF r \in swept
                        THEN [evals[r] EXCEPT !.state = "FAILED_RETRYABLE"] ELSE evals[r]]
      /\ subs' = [s \in Subs |-> IF s \in owners
                        THEN [subs[s] EXCEPT !.state = "EVAL_RETRYABLE", !.retry = @ + 1]
                        ELSE subs[s]]
      /\ UNCHANGED <<king, oldReg, log, proc, faults>>

----------------------------------------------------------------------------
\* claim_next_eval: one transaction under the full_eval advisory lock.

AlreadyScored(s) ==
  \E t \in Subs \ {s} : /\ HotkeyOf[t] = HotkeyOf[s]
                        /\ InState(t, ScoredOrBeyond)
                        /\ t \notin oldReg

\* Mutant: the rematch's priority 0 falls out of the query.
EligibleMutant == {s \in BlockHashed : InState(s, {"EVAL_QUEUED"}) /\ subs[s].prio = 100}

Eligible   == {s \in BlockHashed : InState(s, {"EVAL_QUEUED"})}
Candidates == {s \in Eligible : ~AlreadyScored(s)}

\* The loop rejects already-scored hotkeys until it meets a candidate.
RejectedAhead ==
  {s \in Eligible \ Candidates : \A c \in Candidates : Before(s, c)}

ClaimGate == \A s \in Subs : ~InState(s, {"EVAL_RUNNING"} \cup PendingReign)

AfterRejections ==
  [s \in Subs |-> IF s \in RejectedAhead
                  THEN [subs[s] EXCEPT !.state = "TERMINAL_INVALID"] ELSE subs[s]]

\* No candidate, or no READY host with 8 free GPUs: only the rejections commit.
ClaimNothing ==
  /\ proc["dispatcher"].pc = "idle"
  /\ ClaimGate
  /\ RejectedAhead # {}
  /\ subs' = AfterRejections
  /\ UNCHANGED <<attempts, evals, king, oldReg, log, proc, faults>>

\* missing_active_lead_king
ClaimWithoutKing(s) ==
  /\ proc["dispatcher"].pc = "idle"
  /\ ClaimGate
  /\ First(s, Candidates)
  /\ king = NoKing
  /\ subs' = [AfterRejections EXCEPT ![s].state = "EVAL_RETRYABLE", ![s].retry = @ + 1]
  /\ UNCHANGED <<attempts, evals, king, oldReg, log, proc, faults>>

\* The attempt, its lease and the eval run are inserted with the state change.
\* A second active eval_runs row violates the index and rolls everything back.
ClaimNextEval(s, r) ==
  /\ proc["dispatcher"].pc = "idle"
  /\ ClaimGate
  /\ First(s, Candidates)
  /\ king # NoKing
  /\ attempts[r].state = "NONE"
  /\ \A q \in Runs : attempts[q].state = "NONE" => r <= q
  /\ IndexAllows(r, "DISPATCHED")
  /\ subs' = [AfterRejections EXCEPT ![s].state = "EVAL_RUNNING"]
  /\ attempts' = [attempts EXCEPT ![r] = [state |-> "RUNNING", sub |-> s, leased |-> TRUE]]
  /\ evals' = [evals EXCEPT ![r] = [state |-> "DISPATCHED", king |-> king, remote |-> FALSE,
                                    won |-> FALSE, recorded |-> {}]]
  /\ proc' = [proc EXCEPT !["dispatcher"] = [Idle EXCEPT !.pc = "claimed", !.run = r]]
  /\ UNCHANGED <<king, oldReg, log, faults>>

----------------------------------------------------------------------------
\* The GPU host.  The log is in memory; the worker thread runs on after the
\* control plane has given up on it.

Accepted(r) == IF log[r] = <<>> THEN <<"eval_started">> ELSE log[r]

\* The worker's own last event: a cancel is appended without stopping it.
WorkerAt(r) ==
  LET own == SelectSeq(log[r], LAMBDA e : e # "cancelled")
  IN  own[Len(own)]

WorkerNext(e) ==
  CASE e = "eval_started"       -> {"generation_started", "infra_fault"}
    [] e = "generation_started" -> {"scoring_started", "infra_fault"}
    [] e = "scoring_started"    -> {"won", "lost", "infra_fault", "miner_fault"}
    [] OTHER                    -> {}

\* A finalized run nobody follows is never read again: its further events, and its
\* cancelling, are left out.
Readable(r) == attempts[r].state = "RUNNING" \/ Followed(r)

RemoteWorkerStep(r) ==
  /\ log[r] # <<>>
  /\ Readable(r)
  /\ \E e \in WorkerNext(WorkerAt(r)) : log' = [log EXCEPT ![r] = Append(@, e)]
  /\ UNCHANGED <<subs, attempts, evals, king, oldReg, proc, faults>>

\* POST /eval-runs/{id}/cancel fails the run whatever its state.
CancelRemote(r) ==
  /\ log[r] # <<>>
  /\ Readable(r)
  /\ faults < MaxFaults
  /\ log' = [log EXCEPT ![r] = Append(@, "cancelled")]
  /\ faults' = faults + 1
  /\ UNCHANGED <<subs, attempts, evals, king, oldReg, proc>>

RemoteRestart ==
  /\ faults < MaxFaults
  /\ \E r \in Runs : log[r] # <<>> /\ Readable(r)
  /\ log' = [r \in Runs |-> <<>>]
  /\ faults' = faults + 1
  /\ UNCHANGED <<subs, attempts, evals, king, oldReg, proc>>

----------------------------------------------------------------------------
\* The dispatcher between its claim and the follow loop.

StartRemote ==
  LET r == proc["dispatcher"].run
  IN  /\ proc["dispatcher"].pc = "claimed"
      /\ log' = [log EXCEPT ![r] = Accepted(r)]
      /\ proc' = [proc EXCEPT !["dispatcher"].pc = "started"]
      /\ UNCHANGED <<subs, attempts, evals, king, oldReg, faults>>

\* ready() or the POST fails; the host may have accepted the run all the same.
StartFails ==
  LET r == proc["dispatcher"].run
  IN  /\ proc["dispatcher"].pc = "claimed"
      /\ faults < MaxFaults
      /\ \/ log' = [log EXCEPT ![r] = Accepted(r)]
         \/ UNCHANGED log
      /\ proc' = [proc EXCEPT !["dispatcher"].pc = "fail"]
      /\ faults' = faults + 1
      /\ UNCHANGED <<subs, attempts, evals, king, oldReg>>

\* set_remote_run_id, then a heartbeat.
SetRemoteRunId ==
  LET r == proc["dispatcher"].run
  IN  /\ proc["dispatcher"].pc = "started"
      /\ evals' = [evals EXCEPT ![r].remote = TRUE]
      /\ attempts' = Heartbeat(r)
      /\ proc' = [proc EXCEPT !["dispatcher"].pc = "follow"]
      /\ UNCHANGED <<subs, king, oldReg, log, faults>>

\* list_reconcilable_eval_runs
Reconcilable(r) == /\ evals[r].remote
                   /\ evals[r].state \in ActiveEval
                   /\ Expired(r)

ReconcilerPicks(r) ==
  /\ proc["reconciler"].pc = "idle"
  /\ Reconcilable(r)
  /\ proc' = [proc EXCEPT !["reconciler"] = [Idle EXCEPT !.pc = "follow", !.run = r]]
  /\ UNCHANGED <<subs, attempts, evals, king, oldReg, log, faults>>

----------------------------------------------------------------------------
\* _follow_until_verdict, run by the dispatcher and by the reconciler.

\* _apply_remote_event_to_eval_run_inside_tx
EvalStateAfter(st, e) ==
  CASE e = "generation_started"              -> "GENERATING"
    [] e = "scoring_started"                 -> "SCORING"
    [] e \in Verdicts /\ st # "SUCCEEDED"    -> "VERDICT_READY"
    [] OTHER                                 -> st

\* record_remote_event: an exact replay of the attempt's event changes nothing.
RecordedState(r, e) ==
  IF e \in evals[r].recorded THEN evals[r].state ELSE EvalStateAfter(evals[r].state, e)

RecordRemoteEvent(r, e) ==
  /\ IndexAllows(r, RecordedState(r, e))
  /\ evals' = [evals EXCEPT ![r].state = RecordedState(r, e),
                            ![r].recorded = @ \cup {e}]

\* Polling the log: the next unseen event is recorded, the lease extended, and a
\* verdict ends the loop.  The code records a fetched batch event by event, each in
\* its own transaction; events fetched together are here fetched one by one.
FollowEvent(f) ==
  LET p == proc[f]
      e == log[p.run][p.seen + 1]
  IN  /\ p.pc = "follow"
      /\ p.seen < Len(log[p.run])
      /\ RecordRemoteEvent(p.run, e)
      /\ attempts' = Heartbeat(p.run)
      /\ proc' = [proc EXCEPT ![f] = IF e \in Verdicts
                    THEN [p EXCEPT !.pc = "complete", !.seen = @ + 1, !.verdict = e]
                    ELSE [p EXCEPT !.seen = @ + 1]]
      /\ UNCHANGED <<subs, king, oldReg, log, faults>>

\* GET /eval-runs/{id} answers with the last verdict in the log, if there is one.
LastVerdict(r, v) ==
  \E i \in DOMAIN log[r] : /\ log[r][i] = v
                           /\ v \in Verdicts
                           /\ \A j \in DOMAIN log[r] : j > i => log[r][j] \notin Verdicts

NoVerdict(r) == \A i \in DOMAIN log[r] : log[r][i] \notin Verdicts

FollowStatus(f) ==
  LET p == proc[f]
  IN  /\ p.pc = "follow"
      /\ log[p.run] # <<>>
      /\ \/ /\ NoVerdict(p.run)
            /\ attempts' = Heartbeat(p.run)
            /\ UNCHANGED <<evals, proc>>
         \/ \E v \in Verdicts :
              /\ LastVerdict(p.run, v)
              /\ RecordRemoteEvent(p.run, v)
              /\ proc' = [proc EXCEPT ![f] = [p EXCEPT !.pc = "complete", !.verdict = v]]
              /\ UNCHANGED attempts
      /\ UNCHANGED <<subs, king, oldReg, log, faults>>

\* The write violates eval_runs_one_active_uidx: psycopg raises through the loop.
Unwritable(r, e) == ~IndexAllows(r, RecordedState(r, e))

FollowAborts(f) ==
  LET p == proc[f]
  IN  /\ p.pc = "follow"
      /\ \/ p.seen < Len(log[p.run]) /\ Unwritable(p.run, log[p.run][p.seen + 1])
         \/ \E v \in Verdicts : LastVerdict(p.run, v) /\ Unwritable(p.run, v)
      /\ proc' = [proc EXCEPT ![f] = Idle]
      /\ UNCHANGED <<subs, attempts, evals, king, oldReg, log, faults>>

\* Five errors in a row (a host that forgot the run answers 404 for ever):
\* the dispatcher fails the eval, the reconciler skips it.
FollowGivesUp(f) ==
  LET p == proc[f]
  IN  /\ p.pc = "follow"
      /\ \/ log[p.run] = <<>> /\ UNCHANGED faults
         \/ faults < MaxFaults /\ faults' = faults + 1
      /\ proc' = [proc EXCEPT ![f] = IF f = "dispatcher" THEN [p EXCEPT !.pc = "fail"] ELSE Idle]
      /\ UNCHANGED <<subs, attempts, evals, king, oldReg, log>>

\* pm2 restarts the process, or an exception ends the pass.
Crash(f) ==
  /\ proc[f].pc # "idle"
  /\ faults < MaxFaults
  /\ proc' = [proc EXCEPT ![f] = Idle]
  /\ faults' = faults + 1
  /\ UNCHANGED <<subs, attempts, evals, king, oldReg, log>>

----------------------------------------------------------------------------
\* Completion.  Both mark_ calls first latch the attempt; who comes second skips.

\* Mutant: a completion still counts after the sweep.
LatchMutant(r) == attempts[r].state \in {"RUNNING", "ABANDONED"}

Latch(r) == attempts[r].state = "RUNNING"

\* Mutant: any submission's wins are counted.
PriorWinsAnyone(s, r) == {q \in Runs \ {r} : evals[q].state = "SUCCEEDED" /\ evals[q].won}

PriorWins(s, r) ==
  {q \in Runs \ {r} : attempts[q].sub = s /\ evals[q].state = "SUCCEEDED" /\ evals[q].won}

\* The first win only earns a rematch, ahead of the queue.
AfterDuel(s, r, won) ==
  IF ~won THEN "COMPLETE_LOSS"
  ELSE IF PriorWins(s, r) = {} THEN "EVAL_QUEUED" ELSE "EVAL_WIN"

\* mark_eval_succeeded
MarkSucceeded(r, won) ==
  LET s == attempts[r].sub
  IN  /\ attempts' = [attempts EXCEPT ![r].state = "SUCCEEDED"]
      /\ evals' = [evals EXCEPT ![r].state = "SUCCEEDED", ![r].won = won]
      /\ subs' = [subs EXCEPT
                    ![s].state = AfterDuel(s, r, won),
                    ![s].prio = IF AfterDuel(s, r, won) = "EVAL_QUEUED" THEN 0 ELSE @]

\* mark_eval_failed
MarkFailed(r, retryable) ==
  LET s == attempts[r].sub
      failed == IF retryable THEN "FAILED_RETRYABLE" ELSE "FAILED_TERMINAL"
  IN  /\ attempts' = [attempts EXCEPT ![r].state = failed]
      /\ evals' = [evals EXCEPT ![r].state = failed]
      /\ subs' = [subs EXCEPT
                    ![s].state = IF retryable THEN "EVAL_RETRYABLE" ELSE "TERMINAL_INVALID",
                    ![s].retry = @ + 1]

\* _complete_eval, with classify_failure_verdict.
CompleteEval(f) ==
  LET r == proc[f].run
      v == proc[f].verdict
  IN  /\ proc[f].pc = "complete"
      /\ \/ ~Latch(r) /\ UNCHANGED <<subs, attempts, evals>>
         \/ Latch(r) /\ v \in {"won", "lost"} /\ MarkSucceeded(r, v = "won")
         \/ Latch(r) /\ v \notin {"won", "lost"} /\ MarkFailed(r, v # "miner_fault")
      /\ proc' = [proc EXCEPT ![f] = Idle]
      /\ UNCHANGED <<king, oldReg, log, faults>>

\* broken_stream_fault, retryable.
StreamBroken ==
  LET r == proc["dispatcher"].run
  IN  /\ proc["dispatcher"].pc = "fail"
      /\ \/ ~Latch(r) /\ UNCHANGED <<subs, attempts, evals>>
         \/ Latch(r) /\ MarkFailed(r, TRUE)
      /\ proc' = [proc EXCEPT !["dispatcher"] = Idle]
      /\ UNCHANGED <<king, oldReg, log, faults>>

----------------------------------------------------------------------------
\* promote_next_winner: one transaction; the reign's slots are in ReignPlan's care.

\* A retryable winner is picked again only after its backoff, so it may be passed over.
NextWinner(s) ==
  /\ InState(s, {"EVAL_WIN", "SET_REIGN_RETRYABLE"})
  /\ \A t \in Subs \ {s} : InState(t, {"EVAL_WIN"}) => Before(s, t)

SucceededWins(s) ==
  {r \in Runs : attempts[r].sub = s /\ evals[r].state = "SUCCEEDED" /\ evals[r].won}

\* The latest won run must have beaten the king now in slot 1.
Promotable(s) ==
  /\ SucceededWins(s) # {}
  /\ king # NoKing
  /\ \E r \in SucceededWins(s) : /\ \A q \in SucceededWins(s) : q <= r
                                 /\ evals[r].king = king

PromoteWinner(s) ==
  /\ NextWinner(s)
  /\ Promotable(s)
  /\ king' = s
  /\ subs' = [subs EXCEPT ![s].state = "REIGN_SET"]
  /\ UNCHANGED <<attempts, evals, oldReg, log, proc, faults>>

\* No won run, no reign, a stale win, or (a fault) no MODEL_MANIFEST artifact.
PromotionFails(s) ==
  /\ NextWinner(s)
  /\ subs[s].retry < RetryBound
  /\ \/ ~Promotable(s) /\ UNCHANGED faults
     \/ Promotable(s) /\ faults < MaxFaults /\ faults' = faults + 1
  /\ subs' = [subs EXCEPT ![s].state = "SET_REIGN_RETRYABLE", ![s].retry = @ + 1]
  /\ UNCHANGED <<attempts, evals, king, oldReg, log, proc>>

----------------------------------------------------------------------------
Requeuer == QueuePreEvalPassed \/ RequeueRetryable

Dispatcher ==
  \/ ClaimNothing
  \/ \E s \in Subs : ClaimWithoutKing(s)
  \/ \E s \in Subs, r \in Runs : ClaimNextEval(s, r)
  \/ StartRemote
  \/ StartFails
  \/ SetRemoteRunId
  \/ StreamBroken

Following(f) ==
  \/ FollowEvent(f)
  \/ FollowStatus(f)
  \/ FollowAborts(f)
  \/ FollowGivesUp(f)
  \/ CompleteEval(f)
  \/ Crash(f)

Remote ==
  \/ \E r \in Runs : RemoteWorkerStep(r)
  \/ \E r \in Runs : CancelRemote(r)
  \/ RemoteRestart

SetReign ==
  \/ \E s \in Subs : PromoteWinner(s)
  \/ \E s \in Subs : PromotionFails(s)

Environment ==
  \/ \E s \in Subs : PassPreEval(s)
  \/ \E h \in Hotkeys : Reregister(h)
  \/ CrownGenesis
  \/ \E r \in Runs : LeaseExpires(r)

Next ==
  \/ Requeuer
  \/ SweepAbandoned
  \/ Dispatcher
  \/ \E r \in Runs : ReconcilerPicks(r)
  \/ \E f \in Followers : Following(f)
  \/ Remote
  \/ SetReign
  \/ Environment

Spec == Init /\ [][Next]_vars

----------------------------------------------------------------------------
(* Safety. *)

\* One full eval at a time (the full_eval lock and the EVAL_RUNNING check): at most
\* one attempt is RUNNING, and an attempt is RUNNING exactly while its submission is
\* EVAL_RUNNING, whoever of dispatcher, reconciler and sweeper ends it.
OneEvalAtATime ==
  /\ \A q, r \in Runs : attempts[q].state = "RUNNING" /\ attempts[r].state = "RUNNING" => q = r
  /\ \A s \in Subs : InState(s, {"EVAL_RUNNING"}) <=> ActiveAttempt(s)

\* Winning once is not enough: a submission waiting for promotion or promoted has
\* won two different eval runs.
CrownNeedsTwoWins ==
  \A s \in Subs :
    InState(s, {"EVAL_WIN", "SET_REIGN_RETRYABLE", "REIGN_SET"}) =>
      \E q, r \in WonRuns(s) : q # r

\* mark_eval_succeeded, mark_eval_failed and the sweeper race for one attempt: it is
\* finalized once, and a submission that lost or was rejected stays so however late a
\* completion, a sweep or a requeue comes.
FinalStaysFinal ==
  [][/\ \A r \in Runs : attempts[r].state \notin {"NONE", "RUNNING"} =>
                          attempts'[r].state = attempts[r].state
     /\ \A s \in Subs : InState(s, {"COMPLETE_LOSS", "TERMINAL_INVALID"}) =>
                          subs'[s].state = subs[s].state]_vars

\* One verdict per hotkey and registration: two submissions of a hotkey, both
\* committed since it registered, are never both on trial, winning or lost.
OneVerdictPerHotkey ==
  \A s, t \in Subs :
    /\ s # t /\ HotkeyOf[s] = HotkeyOf[t] /\ {s, t} \cap oldReg = {}
    => ~ /\ InState(s, {"EVAL_RUNNING", "EVAL_WIN", "COMPLETE_LOSS"})
         /\ InState(t, {"EVAL_RUNNING", "EVAL_WIN", "COMPLETE_LOSS"})

----------------------------------------------------------------------------
(* Liveness. *)

\* pm2 keeps the loops and the crons running, a 404 ends a follow loop, the remote
\* worker's generation and judging time out, and time passes for a lease nobody
\* renews.  Faults are finitely many; nothing is assumed of upstream or of re-registration.
Fairness ==
  /\ WF_vars(QueuePreEvalPassed) /\ WF_vars(RequeueRetryable)
  /\ WF_vars(SweepAbandoned)
  /\ WF_vars(ClaimNothing)
  /\ WF_vars(\E s \in Subs, r \in Runs : ClaimNextEval(s, r))
  /\ WF_vars(StartRemote) /\ WF_vars(SetRemoteRunId) /\ WF_vars(StreamBroken)
  /\ \A f \in Followers :
       /\ WF_vars(FollowEvent(f)) /\ WF_vars(FollowAborts(f)) /\ WF_vars(CompleteEval(f))
       /\ WF_vars(FollowGivesUp(f) /\ log[proc[f].run] = <<>>)
  /\ \A r \in Runs : WF_vars(RemoteWorkerStep(r)) /\ WF_vars(LeaseExpires(r) /\ ~Followed(r))
  /\ WF_vars(\E s \in Subs : PromoteWinner(s))

LiveSpec == Spec /\ Fairness

\* A run nobody works on any more holds eval_runs_one_active_uidx: see QueueIsServed.
IndexHeld ==
  \E r \in Runs : attempts[r].state # "RUNNING" /\ evals[r].state \in ActiveEval

\* Whatever stalls, crashes, forgets or is cancelled, a submission that passed pre-eval is
\* decided within its retries - crowned, lost or invalid - unless a late event of a
\* stalled follower has left its run in the index.
EveryoneIsDecided ==
  \A s \in Subs : InState(s, {"PRE_EVAL_PASSED"}) ~>
                    \/ InState(s, {"REIGN_SET", "COMPLETE_LOSS", "TERMINAL_INVALID"})
                    \/ IndexHeld

----------------------------------------------------------------------------
(* What docs and tests say of the program and the code does not keep: see README. *)

\* A queued submission gets another dispatcher attempt (while the model has runs left).
\* The sweeper fails the eval run of an abandoned attempt, but an event a stalled follower
\* records later makes it active again: it holds eval_runs_one_active_uidx for good, and
\* every later claim fails on it.
QueueIsServed ==
  \A s \in Subs : InState(s, {"EVAL_QUEUED"}) ~>
                    \/ ~InState(s, {"EVAL_QUEUED"})
                    \/ \A r \in Runs : attempts[r].state # "NONE"

----------------------------------------------------------------------------
(* What the stage promises, and the mapping under which it keeps it. *)

Stage(s) ==
  CASE InState(s, {"UPSTREAM"})                                          -> "outside"
    [] InState(s, {"PRE_EVAL_PASSED", "EVAL_QUEUED", "EVAL_RETRYABLE"})  -> "waiting"
    [] InState(s, {"EVAL_RUNNING"})                                      -> "dueling"
    [] InState(s, {"EVAL_WIN", "SET_REIGN_RETRYABLE"})                   -> "winner"
    [] InState(s, {"REIGN_SET"})                                         -> "crowned"
    [] OTHER                                                             -> "out"

Promise == INSTANCE KingOfTheHill
  WITH stage <- [s \in Subs |-> Stage(s)],
       wins  <- [s \in Subs |-> WonRuns(s)]

\* Dispatcher, reconciler, sweeper, requeuer and set-reign together never do more
\* than the promise allows: duels one at a time, rejected for good, crowned on two wins.
KeepsThePromise == Promise!Spec
=============================================================================
