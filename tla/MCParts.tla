------------------------------ MODULE MCParts ------------------------------
(* The parts of the system that run on their own, each in a small instance: one is  *)
(* picked at the start and acts alone, the others stay as they begin.               *)
EXTENDS Screening, Grounding, Sampling, LoopCheck, Dedup, Checklist, Marks

CONSTANTS h1, h2

VARIABLE part
-----------------------------------------------------------------------------
\* Screening: two models of one miner.
TwoOfOne == 1 :> h1 @@ 2 :> h1

\* Grounding: a checkout of two files, f and d/f, and the commands that touch them.
F == <<"f">>
D == <<"d">>
G == <<"g">>
DF == <<"d", "f">>
GH == <<"g", "h">>

MCBase == [p \in {F, DF} |-> IF p = F THEN <<"old", "kept">> ELSE <<"old">>]
MCWritten == {<<"made">>}

Python(p) == Do("python", <<p>>)
Single == {Python(F), Python(DF), EchoTo("new", DF), Appends("more", F), Appends("more", G),
           Do("rm", <<F>>), Flagged("rm", {"r", "f"}, <<D>>), Do("rmdir", <<D>>),
           Do("mkdir", <<D>>), Do("mkdir", <<G>>), Flagged("mkdir", {"p"}, <<GH>>),
           Do("touch", <<DF>>), Do("cp", <<F, G>>), Do("mv", <<D, G>>), Do("mv", <<F, D>>),
           Do("sed", <<F>>), Do("cat", <<F>>), Do("ls", <<D>>),
           Stage("grep", {}, <<Root>>, <<"old">>, Root), Stage("cat", {}, <<DF>>, <<>>, G),
           Stage("loopTo", {}, <<>>, <<>>, DF), Do("loop", <<G>>)}
Chains == {<<Python(F), Then("&&", Flagged("rm", {"r"}, <<D>>))>>,
           <<Do("rm", <<DF>>), Then("||", Do("touch", <<F>>))>>,
           <<Python(DF), Then("||", Do("cat", <<F>>)), Then(";", Do("cat", <<DF>>))>>,
           <<Do("cat", <<F>>), Then("&&", Do("mkdir", <<D>>)), Then("||", Python(F)), Then("&&", Do("ls", <<D>>))>>,
           <<Do("false", <<>>), Then("&&", Do("rm", <<F>>)), Then("||", EchoTo("new", G))>>,
           <<Python(F), Then("&&", Do("cat", <<DF>>)), Then("&&", Do("mkdir", <<D>>)), Then(";", Do("rmdir", <<D>>))>>,
           <<Do("mv", <<F, G>>), Then(";", Stage("echo", {}, <<>>, <<"done">>, Root))>>}
MCCommands == {<<s>> : s \in Single} \cup Chains

\* Sampling: rows of two families and three repositories, too few of some.
Row(family, repo, python, asst, edit, long) ==
  [family |-> family, repo |-> repo, python |-> python, asst |-> asst, edit |-> edit, long |-> long]
MCPool ==
  [p1 |-> Row("pr", "r", TRUE, 3, 2, {}), p2 |-> Row("pr", "r", TRUE, 2, 0, {}),
   p3 |-> Row("pr", "r", TRUE, 9, 5, {"at_edit"}), p4 |-> Row("pr", "s", FALSE, 9, 5, {}),
   m1 |-> Row("mechanical", "r", TRUE, 9, 4, {"pre_edit"}),
   m2 |-> Row("mechanical", "s", FALSE, 4, 3, {}),
   l1 |-> Row("lm", "s", FALSE, 5, 1, {}), c1 |-> Row("combine", "t", TRUE, 5, 3, {})]
MCCounts == 1..128

\* LoopCheck: the commands of a turn.
MCBlocks == {<<>>, <<"ls">>, <<"touch">>, <<"cat", "cat">>}

\* Dedup: a model, a copy of its bytes by another miner, and one of its line by its own.
By(hotkey, coldkey) == [hotkey |-> hotkey, coldkey |-> coldkey]
Of(line, bytes) == [line |-> line, bytes |-> bytes]
MCModels == 1..3
MCMiner == <<By("a1", "a"), By("b1", "b"), By("a2", "a")>>
MCWeights == 0 :> Of("base", "0") @@ 1 :> Of("x", "1") @@ 2 :> Of("x", "1") @@ 3 :> Of("x", "3")

\* Checklist: two runs of the references, and what is read in them.
Shows(output, stated, fenced) == [output |-> output, stated |-> stated, fenced |-> fenced]
MCCorpus == <<Shows({"cause"}, {"why"}, {"fix"}), Shows({"cause", "task"}, {}, {"fix", "test"})>>
Cites(run, source, span) == [run |-> run, source |-> source, span |-> span]
Milestone(id, category, text, deps, evidence) ==
  [id |-> id, category |-> category, text |-> text, necessary |-> TRUE, quote |-> "none",
   deps |-> deps, evidence |-> evidence]
Where == Milestone("a", "explore", "where", {}, <<Cites(1, "output", "cause"), Cites(2, "stated", "cause")>>)
Fix   == Milestone("b", "action", "fix", {"a", "c"}, <<Cites(2, "edit", "fix")>>)
Fixed == Milestone("b", "action", "fixed", {"a"}, <<Cites(1, "command", "fix"), Cites(2, "edit", "fix")>>)
Why   == Milestone("a", "claims", "why", {}, <<Cites(2, "output", "why")>>)
Test  == Milestone("c", "verification", "test", {"b"}, <<Cites(2, "command", "test"), Cites(1, "command", "test")>>)
Given == [Milestone("d", "explore", "given", {}, <<Cites(1, "output", "task")>>) EXCEPT !.quote = "task"]
Aside == [Milestone("e", "explore", "aside", {}, <<Cites(1, "output", "cause")>>) EXCEPT !.necessary = FALSE]
Told  == Milestone("d", "explore", "told", {}, <<Cites(1, "output", "task"), Cites(2, "output", "fix")>>)
MCVectors == {<<Where, Fix, Test>>, <<Why, Fixed>>, <<Given, Where, [Fix EXCEPT !.quote = "fix"]>>, <<Aside, Told>>}
Asks(milestone, rung, text) == [milestone |-> milestone, rung |-> rung, text |-> text]
MCLadders == {<<Asks(1, 2, "x"), Asks(2, 1, "y"), Asks(1, 1, "z")>>,
              <<Asks(1, 1, "x"), Asks(2, 2, "leak"), Asks(3, 1, "v")>>,
              <<Asks(2, 1, "y"), Asks(9, 1, "x"), Asks(2, 1, "z")>>}
-----------------------------------------------------------------------------
PartNames == {"screening", "grounding", "sampling", "loops", "dedup", "checklist", "marks"}

MCInit ==
  /\ part \in PartNames
  /\ Init
  /\ GroundingInit /\ (part # "grounding" => recorded = 0 /\ shows)
  /\ SamplingInit /\ (part # "sampling" => count = 1)
  /\ LoopInit /\ DedupInit /\ ChecklistInit /\ MarksInit

MCVars == <<part, vars, groundingVars, samplingVars, doc, dedupVars, checklistVars, marksVars>>

MCNext ==
  /\ UNCHANGED part
  /\ \/ /\ part = "screening" /\ Next
        /\ UNCHANGED <<groundingVars, samplingVars, doc, dedupVars, checklistVars, marksVars>>
     \/ /\ part = "grounding" /\ GroundingNext
        /\ UNCHANGED <<vars, samplingVars, doc, dedupVars, checklistVars, marksVars>>
     \/ /\ part = "sampling" /\ SamplingNext
        /\ UNCHANGED <<vars, groundingVars, doc, dedupVars, checklistVars, marksVars>>
     \/ /\ part = "loops" /\ LoopNext
        /\ UNCHANGED <<vars, groundingVars, samplingVars, dedupVars, checklistVars, marksVars>>
     \/ /\ part = "dedup" /\ DedupNext
        /\ UNCHANGED <<vars, groundingVars, samplingVars, doc, checklistVars, marksVars>>
     \/ /\ part = "checklist" /\ ChecklistNext
        /\ UNCHANGED <<vars, groundingVars, samplingVars, doc, dedupVars, marksVars>>
     \/ /\ part = "marks" /\ MarksNext
        /\ UNCHANGED <<vars, groundingVars, samplingVars, doc, dedupVars, checklistVars>>

\* The fairness of the screening workers; it says nothing of the other parts, whose
\* properties are invariants.
MCSpec == MCInit /\ [][MCNext]_MCVars /\ (part = "screening" => Fairness)
=============================================================================
