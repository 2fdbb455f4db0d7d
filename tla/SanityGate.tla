----------------------------- MODULE SanityGate -----------------------------
(***************************************************************************)
(* The sanity dispatcher at work on its attempts: one task per sample      *)
(* drives the sample's conversation through the host, all of them at once; *)
(* the first fault or veto stops the others at their next turn, and what   *)
(* they did is checked and judged together.  The submission's row and the  *)
(* lease are in Screening, whose gate this is.                             *)
(*                                                                         *)
(* Tasks that go on when another one raised end with the dispatcher's      *)
(* client, before the next claim; the runs they started do not.            *)
(***************************************************************************)
EXTENDS SanityHost, SanityTrajectory

CONSTANTS
  Consensus,         \* SanitySettings.consensus: judge every sample, veto by none
  MinFailedSamples   \* TAIL_JUDGE_MIN_FAILED_SAMPLES, HEAD_JUDGE_MIN_FAILED_SAMPLES

ASSUME GateAssumption ==
  Attempts \subseteq Nat \ {0} /\ Consensus \in BOOLEAN /\ MinFailedSamples \in Nat

VARIABLES
  attempt,  \* the last attempt claimed, by number
  model,    \* the digest of each attempt
  verdict,  \* and how it ended
  gate,     \* where dispatch_once is, and the flags its tasks share
  at,       \* where each task is
  sample,   \* each sample's trajectory
  stale     \* a teardown the dispatcher gave up on is still on its way

gateVars == <<attempt, model, verdict, gate, at, sample, stale>>
vars == <<hostVars, gateVars>>

Verdicts == {"none", "passed", "rejected", "infra", "released"}

TypeOK ==
  /\ HostTypeOK
  /\ attempt \in Attempts \cup {0}
  /\ model \in [Attempts -> Models \cup {NoModel}]
  /\ verdict \in [Attempts -> Verdicts]
  /\ gate \in [pc : {"idle", "drive", "teardown", "judge", "fault"}, decided : BOOLEAN,
               halt : BOOLEAN, failed : BOOLEAN, raised : {"no", "busy", "down"}]
  /\ at \in [Samples -> {"over", "top", "post", "wait", "observe"}]
  /\ DOMAIN sample = Samples
  /\ stale \in BOOLEAN

Idle == [pc |-> "idle", decided |-> FALSE, halt |-> FALSE, failed |-> FALSE, raised |-> "no"]

Init ==
  /\ HostInit
  /\ attempt = 0
  /\ model = [a \in Attempts |-> NoModel]
  /\ verdict = [a \in Attempts |-> "none"]
  /\ gate = Idle
  /\ at = [s \in Samples |-> "over"]
  /\ sample = [s \in Samples |-> Fresh]
  /\ stale = FALSE

----------------------------------------------------------------------------
Run(s) == <<attempt, s>>

Screened(m) == \E a \in Attempts : model[a] = m /\ verdict[a] \in {"passed", "rejected"}

\* The trajectories with their micro-tasks: one that finds none in all its redraws is an error,
\* and the others run.
MicroTasks(lost) == [s \in Samples |-> [Fresh EXCEPT !.error = s \in lost]]

\* claim_once.  The runs of earlier attempts that are over are not asked for again.
Claim(m, lost) ==
  /\ gate.pc = "idle" /\ attempt + 1 \in Attempts /\ ~Screened(m)
  /\ lost # {} => Fault
  /\ lost = {} => UNCHANGED faults
  /\ attempt' = attempt + 1
  /\ model' = [model EXCEPT ![attempt + 1] = m]
  /\ gate' = [Idle EXCEPT !.pc = "drive"]
  /\ at' = [s \in Samples |-> "top"]
  /\ sample' = MicroTasks(lost)
  /\ runs' = [r \in RunIds |-> IF r \in Active THEN runs[r] ELSE Absent]
  /\ UNCHANGED <<engineVars, verdict, stale>>

Raised(s, how) ==
  /\ at' = [at EXCEPT ![s] = "over"]
  /\ gate' = IF gate.raised = "no" THEN [gate EXCEPT !.pc = "teardown", !.raised = how] ELSE gate

\* The head of a turn.  A task's own veto stops the others here, not where it arose.
Stops(s) ==
  /\ at[s] = "top" /\ (Halting(sample[s]) \/ gate.halt)
  /\ at' = [at EXCEPT ![s] = "over"]
  /\ gate' = IF sample[s].reason # "" /\ ~Consensus
             THEN [gate EXCEPT !.decided = TRUE, !.halt = TRUE] ELSE gate
  /\ UNCHANGED <<hostVars, attempt, model, verdict, sample, stale>>

\* start_run: a lost call is repeated under the same name, whether or not it arrived.
Posts(s) ==
  /\ \/ at[s] = "post"
     \/ at[s] = "top" /\ ~Halting(sample[s]) /\ ~gate.halt
  /\ \/ /\ ~Busy(Run(s), model[attempt])
        /\ Accept(Run(s), model[attempt])
        /\ at' = [at EXCEPT ![s] = "wait"]
        /\ UNCHANGED <<gate, engineVars, faults>>
     \/ /\ ~Busy(Run(s), model[attempt])
        /\ Fault
        /\ Accept(Run(s), model[attempt])
        /\ at' = [at EXCEPT ![s] = "post"]
        /\ UNCHANGED <<gate, engineVars>>
     \/ /\ Busy(Run(s), model[attempt])
        /\ Raised(s, "busy")
        /\ UNCHANGED hostVars
     \/ /\ Fault
        /\ Raised(s, "down")
        /\ UNCHANGED <<runs, engineVars>>
  /\ UNCHANGED <<attempt, model, verdict, sample, stale>>

\* After a turn: asked again, the last, or to be observed.
Next_(t) == IF t.retry /\ ~gate.halt THEN "post"
            ELSE IF t.turn = Turns THEN "over" ELSE "observe"

Reads(s) ==
  /\ at[s] = "wait" /\ runs[Run(s)].state = "succeeded"
  /\ LET t == ApplyTurn(sample[s], runs[Run(s)].answer)
         u == IF Next_(t) = "post" THEN t ELSE SubmissionIssue(t)
     IN  /\ sample' = [sample EXCEPT ![s] = u]
         /\ at' = [at EXCEPT ![s] = Next_(u)]
  /\ runs' = [runs EXCEPT ![Run(s)] = Absent]
  /\ UNCHANGED <<engineVars, faults, attempt, model, verdict, gate, stale>>

\* The host's fault ends the attempt, when the others have come to their next turn.
ReadsFault(s) ==
  /\ at[s] = "wait" /\ runs[Run(s)].state = "failed"
  /\ at' = [at EXCEPT ![s] = "over"]
  /\ gate' = [gate EXCEPT !.failed = TRUE, !.halt = TRUE]
  /\ UNCHANGED <<hostVars, attempt, model, verdict, sample, stale>>

\* 404 after a restart of the host.
Gone(s) ==
  /\ at[s] = "wait" /\ runs[Run(s)] = Absent
  /\ Raised(s, "down")
  /\ UNCHANGED <<hostVars, attempt, model, verdict, sample, stale>>

\* Three polls in a row fail.
Unreachable(s) ==
  /\ at[s] = "wait" /\ Fault
  /\ Raised(s, "down")
  /\ UNCHANGED <<runs, engineVars, attempt, model, verdict, sample, stale>>

Observes(s) ==
  /\ at[s] = "observe"
  /\ \E t \in Observed(sample[s]) : sample' = [sample EXCEPT ![s] = t]
  /\ at' = [at EXCEPT ![s] = "top"]
  /\ UNCHANGED <<hostVars, attempt, model, verdict, gate, stale>>

Task(s) == Stops(s) \/ Posts(s) \/ Reads(s) \/ ReadsFault(s) \/ Gone(s) \/ Observes(s)

----------------------------------------------------------------------------
\* Mutant: what the samples did is checked however they ended.
AlwaysChecked == ~gate.failed

\* _run_chain_checks is for trajectories that ran to their end.
ChainChecked == ~gate.failed /\ ~gate.decided

Clean(ts) == {s \in Samples : ~ts[s].error /\ ts[s].reason = ""}

Accused(ts, S, reason) == [s \in Samples |-> IF s \in S THEN [ts[s] EXCEPT !.reason = reason]
                                             ELSE ts[s]]

\* The checks of a turn's text and of loops, each sample on its own; the judges of heads and
\* tails, by MinFailedSamples at least.
Inspected(ts, style, judged) == Accused(Accused(ts, style, "style"), judged, "judged")

\* All tasks are over.
Gathers ==
  /\ gate.pc = "drive" /\ \A s \in Samples : at[s] = "over"
  /\ IF ChainChecked
     THEN LET ts == Checked(sample)
          IN  \E style \in SUBSET Clean(ts), judged \in SUBSET Clean(ts) :
                /\ style \cap judged = {}
                /\ judged # {} => Cardinality(judged) >= MinFailedSamples
                /\ sample' = Inspected(ts, style, judged)
     ELSE UNCHANGED sample
  /\ gate' = [gate EXCEPT !.pc = "teardown"]
  /\ UNCHANGED <<hostVars, attempt, model, verdict, at, stale>>

After == IF gate.raised # "no" \/ gate.failed THEN "fault" ELSE "judge"

\* The host answers, or the client gives up on a call that may still arrive.
TearsDown ==
  /\ gate.pc = "teardown"
  /\ gate' = [gate EXCEPT !.pc = After]
  /\ \/ TearDown /\ UNCHANGED <<faults, stale>>
     \/ Fault /\ stale' = TRUE /\ UNCHANGED <<runs, engineVars>>
  /\ UNCHANGED <<attempt, model, verdict, at, sample>>

TeardownArrives ==
  /\ stale
  /\ TearDown
  /\ stale' = FALSE
  /\ UNCHANGED <<faults, attempt, model, verdict, gate, at, sample>>

Ends(v) ==
  /\ verdict' = [verdict EXCEPT ![attempt] = v]
  /\ gate' = [gate EXCEPT !.pc = "idle"]
  /\ at' = [s \in Samples |-> "over"]
  /\ UNCHANGED <<hostVars, attempt, model, sample, stale>>

\* 409 gives the claim back, any other fault is charged.
EndsInFault ==
  /\ gate.pc = "fault"
  /\ Ends(IF gate.raised = "busy" THEN "released" ELSE "infra")

\* What the trajectory says of its sample: one lost to the simulator is a fault.
Heuristic(t) == IF t.error THEN "infra" ELSE IF t.reason # "" THEN "failed" ELSE "passed"

\* _judge_sample: a panel is asked about injection, again when it suspects one, and about
\* viability; one that cannot be reached in sufficient number is a fault.
Opinions == {"passed", "failed", "injection", "infra"}

\* _aggregate: an injection, then a fault, before another sample's failure is held against the
\* model.
Aggregate(of) ==
  CASE \E s \in Samples : of[s] = "injection" -> "rejected"
    [] \A s \in Samples : of[s] = "passed"    -> "passed"
    [] OTHER -> IF \E s \in Samples : of[s] = "infra" THEN "infra" ELSE "rejected"

\* run_gate: the judges see only samples that all passed so far.
Verdict == {Aggregate(of) : of \in IF Clean(sample) = Samples THEN [Samples -> Opinions]
                                   ELSE {[s \in Samples |-> Heuristic(sample[s])]}}

Judges ==
  /\ gate.pc = "judge"
  /\ \E v \in Verdict : Ends(v)

----------------------------------------------------------------------------
Host == /\ \/ \E r \in RunIds : Generate(r)
           \/ HostFaults
        /\ UNCHANGED gateVars

Dispatcher ==
  \/ \E m \in Models, lost \in SUBSET Samples : Claim(m, lost)
  \/ Gathers \/ TearsDown \/ EndsInFault \/ Judges

Next ==
  \/ Host
  \/ Dispatcher
  \/ \E s \in Samples : Task(s) \/ Unreachable(s)
  \/ TeardownArrives

Spec == Init /\ [][Next]_vars

----------------------------------------------------------------------------
Ran(t) == t.turn = Turns \/ t.stopped \/ t.error

\* What holds a model to what it did not do - work, submit - or lets it pass is judged on
\* trajectories that ran to their own end, never on those another sample's veto cut short.
Omissions == {"no work", "untouched target", "empty submits", "no unprompted submission"}

JudgedWhole ==
  \/ \E s \in Samples : sample[s].reason \in Omissions
  \/ attempt # 0 /\ verdict[attempt] = "passed"
  => \A s \in Samples : Ran(sample[s]) \/ sample[s].reason \in {"bad turns", "submission loop"}
=============================================================================
