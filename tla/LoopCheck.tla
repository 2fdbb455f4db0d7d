----------------------------- MODULE LoopCheck -----------------------------
(* Whether a trajectory is a loop (shared/loop_check.py): how many of its        *)
(* commands repeat an earlier one, and how long one command was repeated in a    *)
(* row.  The judge does not read the answers of a looped trajectory, it scores   *)
(* zero; so what a turn puts to a shell that did not answer must not be held     *)
(* against it.                                                                   *)
EXTENDS Integers, Sequences, FiniteSets, FiniteSetsExt, SequencesExt

CONSTANTS
  Blocks,       \* the command blocks a turn may carry
  Silences,        \* commands that print nothing when they succeed
  MaxRun,       \* MAX_RUN_THRESHOLD
  MaxDoc        \* bound: turns of a trajectory

\* What came back for a turn.  "none": nothing is recorded of it; "echo": the command
\* itself, or a turn of the model.
Observed == {"none", "output", "silence", "echo"}

ASSUME LoopAssumption ==
  /\ Blocks \subseteq Seq(STRING)
  /\ MaxRun \in Nat \ {0, 1} /\ MaxDoc \in Nat

VARIABLE doc    \* the scored turns, each with its blocks and observation

-----------------------------------------------------------------------------
\* unanswered: an echo, or silence for a command that must print.
Unanswered(turn) ==
  \/ turn.seen = "echo"
  \/ /\ turn.seen = "silence"
     /\ turn.blocks = <<>> \/ Head(turn.blocks) \notin Silences

\* Mutant: whatever follows an unanswered turn is a re-issue.
ReissueMutant(turns, i) == i > 1 /\ turns[i].blocks # <<>> /\ Unanswered(turns[i - 1])

\* An exact re-issue of the previous turn's commands after an unanswered observation.
Reissue(turns, i) ==
  /\ i > 1 /\ turns[i].blocks # <<>>
  /\ turns[i].blocks = turns[i - 1].blocks
  /\ Unanswered(turns[i - 1])

\* commands_of, without the observations and with them.
AllCommands(turns) == FlattenSeq([i \in DOMAIN turns |-> turns[i].blocks])
CommandsOf(turns) ==
  FlattenSeq([i \in DOMAIN turns |-> IF Reissue(turns, i) THEN <<>> ELSE turns[i].blocks])

Duplicates(cmds) == Len(cmds) - Cardinality(Range(cmds))
RunFrom(cmds, i) == {j \in i..Len(cmds) : \A k \in i..j : cmds[k] = cmds[i]}
LongestRun(cmds) == Max({0} \cup {Cardinality(RunFrom(cmds, i)) : i \in DOMAIN cmds})

\* loop_verdict: DUP_CMD_THRESHOLD is 0.61.
Looped(cmds) ==
  \/ cmds # <<>> /\ 100 * Duplicates(cmds) >= 61 * Len(cmds)
  \/ LongestRun(cmds) >= MaxRun

LoopInit == doc = <<>>
Turn(blocks, seen) ==
  /\ Len(doc) < MaxDoc
  /\ doc' = Append(doc, [blocks |-> blocks, seen |-> seen])
LoopNext == \E blocks \in Blocks, seen \in Observed : Turn(blocks, seen)
-----------------------------------------------------------------------------
\* A turn that repeats no command but by asking a shell again that did not answer.
Patient(turns) ==
  \A i \in DOMAIN turns :
    \/ Reissue(turns, i)
    \/ /\ \A j \in 1..(i - 1) : Range(turns[i].blocks) \cap Range(turns[j].blocks) = {}
       /\ IsInjective(turns[i].blocks)

\* commands_of: "dropping only duplicates keeps both statistics monotone": knowing what
\* the shell answered never makes a loop of a trajectory that was none, no command
\* disappears with its re-issues, and one that only asks again is no loop however long it
\* has to ask.
ReaskingIsNoLoop ==
  LET all == AllCommands(doc)
      own == CommandsOf(doc)
  IN  /\ Range(own) = Range(all)
      /\ LongestRun(own) <= LongestRun(all)
      /\ Duplicates(own) * Len(all) <= Duplicates(all) * Len(own)
      /\ Looped(own) => Looped(all)
      /\ Patient(doc) => ~Looped(own)
=============================================================================
