------------------------------- MODULE Marks -------------------------------
(* How a duel is decided from what the judges said (judge_core, _judge_side): a   *)
(* side's score on a sample is the mean of its judges, each the mean of its        *)
(* questions, each the mean of the judgings that could be read.  Scores are        *)
(* rounded to the millionth as they are made, and counted in millionths here.       *)
EXTENDS Integers, FiniteSets, FiniteSetsExt, TLC

CONSTANTS
  Judges, Questions,
  Repeats,       \* judge_repeats
  Points,        \* what a verdict is worth, the mean of its letter's likely readings
  Samples,       \* samples of the duel
  MinValid       \* scoring_min_valid_fraction, in percent

ASSUME MarksAssumption ==
  /\ IsFiniteSet(Judges) /\ Judges # {}
  /\ IsFiniteSet(Questions) /\ Questions # {}
  /\ Points \subseteq Nat
  /\ Repeats \in Nat /\ Samples \in Nat \ {0} /\ MinValid \in Nat \ {0}

VARIABLES
  tally,   \* over the samples so far: how many, how many scored, the sums of the scores
  duel     \* the summary: running, failed, lost or won

marksVars == <<tally, duel>>

Margin == 25000   \* CHALLENGER_WIN_MARGIN

\* What the judge is shown: a whole run, one most of whose turns open with an empty thought,
\* or one that counts for nothing (cut off, given up, looping, leaking a reserved token).
Kinds == {"whole", "amputated", "void"}

\* mean, round(_, 6) of a function's values.
MeanOf(f) ==
  LET n == Cardinality(DOMAIN f) IN (2 * MapThenSumSet(LAMBDA x : f[x], DOMAIN f) + n) \div (2 * n)

\* A judging is what it gives each question, or could not be read.
Unread   == [q \in {} |-> 0]
Judgings == [Questions -> Points] \cup {Unread}
Held(judging) == {n \in DOMAIN judging : judging[n] # Unread}

\* _judge_side, mean_scores, judge_yes_rate: one judge on one side.
JudgeRate(judging) ==
  MeanOf([q \in Questions |-> MeanOf([n \in Held(judging) |-> judging[n][q]])])

\* Mutant: one judge that could be read is enough.
AnsweredMutant(side) == {j \in Judges : Held(side[j]) # {}} # {}

\* parse_ok: every judge could be read.
Answered(side) == \A j \in Judges : Held(side[j]) # {}

\* response_score: the judges that could be read.
Score(side, kind) ==
  LET heard == {j \in Judges : Held(side[j]) # {}}
      score == MeanOf([j \in heard |-> JudgeRate(side[j])])
  IN IF kind = "amputated" THEN MeanOf(<<score, 0>>) ELSE score

\* What a side comes to, with the least and the most a judge gave a question; _corrupted_side
\* and _looped_side have every judge give nothing.
Extremes(side) == [j \in Judges |-> [q \in Questions |-> {side[j][n][q] : n \in Held(side[j])}]]
Comes(kind, side) ==
  [ok |-> Answered(side), kind |-> kind, gave |-> Extremes(side),
   score |-> IF \E j \in Judges : Held(side[j]) # {} THEN Score(side, kind) ELSE 0]
Judged ==
  {Comes(kind, side) : kind \in {"whole", "amputated"}, side \in [Judges -> [1..Repeats -> Judgings]]}
Void == Comes("void", [j \in Judges |-> [n \in 1..Repeats |-> [q \in Questions |-> 0]]])
Sides == Judged \cup {Void}
-----------------------------------------------------------------------------
\* Some judge gave the challenger more for a question than it gave the king, or the king was
\* marked down for its form.
Better(king, challenger) ==
  \/ king.kind # "whole"
  \/ \E j \in Judges, q \in Questions :
       \E p \in challenger.gave[j][q], r \in king.gave[j][q] : p > r

\* Every judge gave the challenger clearly more for every question.
ClearlyBetter(king, challenger) ==
  /\ challenger.kind = "whole"
  /\ \A j \in Judges, q \in Questions :
       \A p \in challenger.gave[j][q], r \in king.gave[j][q] : p >= r + Margin

MarksInit ==
  /\ tally = [seen |-> 0, scored |-> 0, king |-> 0, challenger |-> 0, better |-> FALSE, ahead |-> TRUE]
  /\ duel = "running"

\* _score_one_inner: the sample is scored, or a side of it could not be.
Unscored == [scored |-> 0, king |-> 0, challenger |-> 0, better |-> FALSE, ahead |-> TRUE]
Compared(king, challenger) ==
  IF ~(king.ok /\ challenger.ok) THEN Unscored
  ELSE [scored |-> 1, king |-> king.score, challenger |-> challenger.score,
        better |-> Better(king, challenger), ahead |-> ClearlyBetter(king, challenger)]
Outcomes == {Compared(king, challenger) : king \in Sides, challenger \in Sides}

JudgeSample(outcome) ==
  /\ duel = "running" /\ tally.seen < Samples
  /\ tally' = [seen       |-> tally.seen + 1,
               scored     |-> tally.scored + outcome.scored,
               king       |-> tally.king + outcome.king,
               challenger |-> tally.challenger + outcome.challenger,
               better     |-> tally.better \/ outcome.better,
               ahead      |-> tally.ahead /\ outcome.ahead]
  /\ UNCHANGED duel

\* _score_one: the questions could not be made, or judging it failed.
SampleFails ==
  /\ duel = "running" /\ tally.seen < Samples
  /\ tally' = [tally EXCEPT !.seen = @ + 1]
  /\ UNCHANGED duel

\* challenger_beats_king
Beats(challenger, king) == challenger - king >= Margin

\* aggregate_scores
Aggregate ==
  /\ duel = "running" /\ tally.seen = Samples
  /\ LET Mean(sum) == (2 * sum + tally.scored) \div (2 * tally.scored) IN
     duel' = IF tally.scored * 100 < MinValid * Samples THEN "failed"
             ELSE IF Beats(Mean(tally.challenger), Mean(tally.king)) THEN "won" ELSE "lost"
  /\ UNCHANGED tally

MarksNext == (\E outcome \in Outcomes : JudgeSample(outcome)) \/ SampleFails \/ Aggregate
-----------------------------------------------------------------------------
\* aggregate_scores, response_score: whichever judgings could not be read, the duel is won
\* only if a judge of a scored sample gave the challenger more than it gave the king itself,
\* and it is won if all of them clearly did; what too few judged decides nothing.
WinIsEarned ==
  /\ duel = "won" => tally.better
  /\ tally.ahead => duel # "lost"
  /\ duel \in {"won", "lost"} => tally.scored * 100 >= MinValid * Samples
=============================================================================
