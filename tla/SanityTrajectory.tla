-------------------------- MODULE SanityTrajectory --------------------------
(***************************************************************************)
(* One sample of the sanity gate: a conversation with the model about a    *)
(* micro-task, then the recorded task, then follow-ups, in which commands  *)
(* are answered by the simulator and submissions by a requester.  The      *)
(* operators are steps of the dispatcher on the sample's state; texts are  *)
(* reduced to what a turn counts as.                                       *)
(***************************************************************************)
EXTENDS Integers, Sequences, FiniteSets, SequencesExt

CONSTANTS
  Turns,          \* trajectory_assistant_turns
  MaxBadTurns,    \* MAX_CONSECUTIVE_BAD_TURNS
  MaxSilent,      \* MAX_CONSECUTIVE_SILENT_OBSERVATIONS
  MaxRejections,  \* MAX_REJECTIONS
  LoopRun,        \* SUBMISSION_LOOP_RUN
  NudgeWindow,    \* the last turns a nudge is for, 8
  NudgeEvery      \* and how often it comes, 4

ASSUME TrajectoryAssumption ==
  /\ {Turns, MaxBadTurns, MaxSilent, LoopRun, NudgeEvery} \subseteq Nat \ {0}
  /\ {MaxRejections, NudgeWindow} \subseteq Nat

\* What a model's turn is: an edit of what the task names; a command that prints, about it
\* or not; the submission; a command with the marker that does not submit; no command.
Kinds == {"edit", "look", "idle", "submit", "wrong", "prose"}

\* An empty turn is as unusable as one without a command.
Unusable == {"prose", "blank"}

\* consecutive_bad_turns, segment, submits and the rest of _TrajectoryState; of the turns,
\* what the checks at the end look for.
Fresh ==
  [turn |-> 1, segment |-> "micro", stopped |-> FALSE, error |-> FALSE, reason |-> "",
   retry |-> FALSE, bad |-> 0, silent |-> 0, submits |-> <<>>, nudged |-> FALSE,
   edits |-> 0, touched |-> FALSE, worked |-> FALSE, empty |-> 0, asIs |-> FALSE,
   wrong |-> 0, last |-> "none"]

Halting(t) == t.stopped \/ t.error \/ t.reason # ""

----------------------------------------------------------------------------
\* _apply_turn_result: an unusable turn is asked for again, MaxBadTurns times.
BadTurn(t) ==
  IF t.bad + 1 >= MaxBadTurns
  THEN [t EXCEPT !.bad = @ + 1, !.retry = FALSE, !.reason = "bad turns"]
  ELSE [t EXCEPT !.bad = @ + 1, !.retry = TRUE, !.last = "feedback"]

\* A submit command without an edit or a look at what was asked since the previous one, that
\* no nudge has asked for.
EmptySubmit(t, a) == a \in {"submit", "wrong"} /\ ~t.worked /\ ~t.asIs

GoodTurn(t, a) ==
  [t EXCEPT !.bad = 0, !.retry = FALSE, !.last = a,
            !.edits = IF a = "edit" THEN @ + 1 ELSE @,
            !.touched = @ \/ (t.segment = "micro" /\ a \in {"edit", "look"}),
            !.empty = IF EmptySubmit(t, a) THEN @ + 1 ELSE @,
            !.worked = IF a \in {"submit", "wrong"} THEN FALSE
                       ELSE @ \/ a \in {"edit", "look"},
            !.wrong = IF a = "wrong" THEN @ + 1 ELSE 0]

ApplyTurn(t, a) == IF a \in Unusable THEN BadTurn(t) ELSE GoodTurn(t, a)

\* submission_loop_issue.
SubmissionIssue(t) ==
  IF ~t.error /\ t.reason = "" /\ t.wrong >= LoopRun
  THEN [t EXCEPT !.reason = "submission loop"]
  ELSE t

----------------------------------------------------------------------------
\* _append_observations: what comes back for the last turn.  The last one may be the
\* feedback on an unusable turn, when another sample's end came between it and its retry:
\* its example of a command is then simulated.
Simulated(t) == ~Halting(t) /\ t.last # "submit"
Submitted(t) == ~Halting(t) /\ t.last = "submit"

Quiet(t) == t.last = "edit"

\* MaxSilent answers without output, none of them what the command would do, and no rescue.
Silence(t) ==
  IF t.silent + 1 >= MaxSilent
  THEN [t EXCEPT !.silent = @ + 1, !.error = TRUE]
  ELSE [t EXCEPT !.silent = @ + 1, !.asIs = FALSE]

\* The simulator's answers: a text, nothing, or an exception.
Observations(t) ==
  {[t EXCEPT !.silent = IF Quiet(t) THEN @ ELSE 0, !.asIs = FALSE], [t EXCEPT !.error = TRUE]}
  \cup (IF Quiet(t) THEN {} ELSE {Silence(t)})

\* A submission as the record tells it: before any nudge, after one, or turned down, which
\* is recorded without saying whether it was nudged for.
Rejections(t) == Len(SelectSeq(t.submits, LAMBDA sub : sub.rejected))
Submission(t, rejected) == [rejected |-> rejected, nudged |-> t.nudged]

Reject(t) ==
  [t EXCEPT !.submits = Append(@, Submission(t, TRUE)), !.asIs = FALSE]

Advance(t) ==
  [t EXCEPT !.submits = Append(@, Submission(t, FALSE)), !.asIs = FALSE,
            !.segment = IF @ = "micro" THEN "real" ELSE "followup"]

\* No grounded request to go on with: the submission is the end.
SubmissionEnds(t) == [Advance(t) EXCEPT !.stopped = TRUE, !.segment = t.segment]

\* _generate_in_world: a message that is new and names only what the session has seen, or
\* nothing.
Requests == {"grounded", "none"}

Replies(t) ==
  {IF q = "none" THEN SubmissionEnds(t) ELSE Advance(t) : q \in Requests}
  \cup (IF Rejections(t) < MaxRejections THEN {Reject(t)} ELSE {})

\* _inject_submit_nudges, at the turns of the last window.
NudgeDue(t) ==
  /\ t.turn - 1 >= Turns - NudgeWindow /\ (Turns - (t.turn - 1)) % NudgeEvery = 0
  /\ ~t.error /\ t.reason = "" /\ t.submits = <<>>

Nudge(t) == IF NudgeDue(t) THEN [t EXCEPT !.nudged = TRUE, !.asIs = TRUE] ELSE t

\* The states after the observation, at the top of the next turn.
Observed(t) ==
  LET answered == IF Simulated(t) THEN Observations(t)
                  ELSE IF Submitted(t) THEN Replies(t) ELSE {t}
  IN  {[Nudge(u) EXCEPT !.turn = @ + 1] : u \in answered}

----------------------------------------------------------------------------
\* _run_chain_checks, the checks on what was submitted.

\* post_nudge, which a rejected submission lacks.
Prompted(sub) == sub.nudged /\ ~sub.rejected

\* The first of the reasons that holds.
WorkIssue(t) ==
  CASE t.submits = <<>> /\ t.edits = 0 -> "no work"
    [] ~t.touched -> "untouched target"
    [] t.empty > 1 /\ t.empty > 2 * t.edits -> "empty submits"
    [] OTHER -> ""

\* The trajectories of an attempt, each checked unless it failed already.
Checked(ts) ==
  LET healthy == {s \in DOMAIN ts : ~ts[s].error}
      unprompted == \E s \in healthy :
                      \E i \in DOMAIN ts[s].submits : ~Prompted(ts[s].submits[i])
      Reason(t) == IF t.reason # "" THEN t.reason
                   ELSE IF ~unprompted THEN "no unprompted submission"
                   ELSE WorkIssue(t)
  IN  [s \in DOMAIN ts |-> IF s \in healthy THEN [ts[s] EXCEPT !.reason = Reason(ts[s])]
                           ELSE ts[s]]
=============================================================================
