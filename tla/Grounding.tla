---------------------------- MODULE Grounding ----------------------------
(* One session of the observation simulator, grounded in the repository:        *)
(* repo_context_service/core.py answers a command from the overlay of the        *)
(* transcript so far, exactly or in parts, which the judge's simulation service  *)
(* (judge_api.py) stitches.  Beside it runs the machine the commands would have   *)
(* run on: the simulator is taken to answer what it is asked as that machine     *)
(* does, so any difference is the service's own.                                 *)
EXTENDS Overlay

CONSTANTS Commands,    \* the commands a model may issue
          MaxTurns,    \* turns of the session
          MaxRecorded, \* at most so many first turns were recorded on a real machine
          Formats      \* whether the scaffold's observations show exit statuses

ASSUME SessionAssumption ==
  /\ \A p \in DOMAIN Base : p # Root
  /\ MaxTurns \in Nat /\ MaxRecorded \in Nat
  /\ Formats \subseteq BOOLEAN

VARIABLES
  fs,        \* the machine's tree
  ov,        \* the overlay the transcript so far is replayed to
  turn,      \* turns taken
  recorded,  \* how many turns were recorded on a real machine
  shows,     \* whether observations show the exit status
  said       \* the last command: what the machine did, what the service said

groundingVars == <<fs, ov, turn, recorded, shows, said>>

NoAnswer == [known |-> FALSE, out |-> <<>>, status |-> Open]
Answer(out, status) == [known |-> TRUE, out |-> out, status |-> status]
Silent == [trace |-> <<>>, plan |-> <<>>, exact |-> NoAnswer, stitched |-> NoAnswer]

GroundingInit ==
  /\ fs = [files |-> Base, dirs |-> UNION {Prefixes(p) \ {p, Root} : p \in DOMAIN Base}]
  /\ ov = Pristine
  /\ turn = 0
  /\ recorded \in 0..MaxRecorded
  /\ shows \in Formats
  /\ said = Silent

-----------------------------------------------------------------------------
(* What the service answers a stage, when it can.                              *)

Writable(o, p) == Kind(o, Parent(p)) = "directory" /\ Kind(o, p) \in {"file", "absent"}

RmSucceeds(o, s) ==
  LET kind == Kind(o, s.args[1]) IN
  /\ kind # "unknown"
  /\ kind # "absent" \/ "f" \in s.flags
  /\ kind # "directory" \/ "r" \in s.flags

MkdirSucceeds(o, s) ==
  LET p == s.args[1] IN
  /\ KindsAlong(o, p) \cap {"file", "unknown"} = {}
  /\ "p" \in s.flags \/ (Kind(o, p) = "absent" /\ Kind(o, Parent(p)) # "absent")

TouchSucceeds(o, s) ==
  LET kind == Kind(o, s.args[1]) IN
  kind # "unknown" /\ (kind # "absent" \/ Kind(o, Parent(s.args[1])) = "directory")

TransferSucceeds(o, s) ==
  LET kind == Kind(o, s.args[1])
      into == Kind(o, s.args[2])
  IN /\ kind \notin {"unknown", "absent"} /\ into # "unknown"
     /\ kind = "directory" => s.name = "mv" \/ "r" \in s.flags
     /\ Kind(o, Parent(s.args[2])) = "directory"
     /\ ~(into = "file" /\ kind = "directory")
     /\ s.args[1] # s.args[2]

SedSucceeds(o, s) == \A i \in DOMAIN s.args : Text(o, s.args[i]) # Unknown

\* A stage whose whole work is changing files, when it surely succeeds.
Quiet(o, s) ==
  CASE s.name = "echo" /\ Writes(s) -> IF Writable(o, s.to) THEN Answer(<<>>, 0) ELSE NoAnswer
    [] s.name = "tee"   -> IF Writable(o, s.args[1]) THEN Answer(s.text, 0) ELSE NoAnswer
    [] s.name = "rm"    -> IF RmSucceeds(o, s) THEN Answer(<<>>, 0) ELSE NoAnswer
    [] s.name = "mkdir" -> IF MkdirSucceeds(o, s) THEN Answer(<<>>, 0) ELSE NoAnswer
    [] s.name = "touch" -> IF TouchSucceeds(o, s) THEN Answer(<<>>, 0) ELSE NoAnswer
    [] s.name \in {"cp", "mv"} -> IF TransferSucceeds(o, s) THEN Answer(<<>>, 0) ELSE NoAnswer
    [] s.name = "sed"   -> IF SedSucceeds(o, s) THEN Answer(<<>>, 0) ELSE NoAnswer
    [] OTHER            -> NoAnswer

\* A search run on the overlay: it declines when a path, an entry or a text is not known.
CatAnswer(o, p) ==
  CASE Kind(o, p) = "file"      -> IF Text(o, p) = Unknown THEN NoAnswer ELSE Answer(Text(o, p), 0)
    [] Kind(o, p) = "directory" -> Answer(<<IsADir>>, 1)
    [] Kind(o, p) = "absent"    -> Answer(<<NoSuchFile>>, 1)
    [] OTHER                    -> NoAnswer

LsAnswer(o, p) ==
  CASE Kind(o, p) = "file"      -> Answer(<<Last(p)>>, 0)
    [] Kind(o, p) = "directory" -> IF Doubt(o, p) THEN NoAnswer ELSE Answer(SetToSeq(Entries(o, p)), 0)
    [] Kind(o, p) = "absent"    -> Answer(<<NoSuchFile>>, 2)
    [] OTHER                    -> NoAnswer

\* Mutant: a search skips the files whose text is not known.
SkipsUnknownTexts(o, line, d) ==
  LET searched == {x \in Files(o) : Within(d, x)} IN
  CASE Kind(o, d) = "absent" -> Answer(<<NoSuchFile>>, 2)
    [] Kind(o, d) = "unknown" \/ Doubt(o, d) -> NoAnswer
    [] OTHER -> Answer(<<>>, IF \E x \in searched : Contains(Text(o, x), line) THEN 0 ELSE 1)

GrepAnswer(o, line, d) ==
  LET searched == {x \in Files(o) : Within(d, x)} IN
  CASE Kind(o, d) = "absent" -> Answer(<<NoSuchFile>>, 2)
    [] \/ Kind(o, d) = "unknown" \/ Doubt(o, d)
       \/ \E x \in searched : Text(o, x) = Unknown -> NoAnswer
    [] OTHER -> Answer(<<>>, IF \E x \in searched : Contains(Text(o, x), line) THEN 0 ELSE 1)

Searched(o, s) ==
  CASE s.name = "echo" -> Answer(s.text, 0)
    [] s.name = "cat"  -> CatAnswer(o, s.args[1])
    [] s.name = "ls"   -> LsAnswer(o, s.args[1])
    [] s.name = "grep" -> GrepAnswer(o, s.text[1], s.args[1])
    [] OTHER           -> NoAnswer

\* A search whose output goes to a file.
RedirectedRead(o, s) ==
  LET found == CatAnswer(o, s.args[1]) IN
  IF ~Writable(o, s.to) \/ ~found.known \/ found.out = <<NoSuchFile>> THEN NoAnswer
  ELSE Answer(<<>>, found.status)

StageAnswer(o, s) ==
  IF Quiet(o, s).known THEN Quiet(o, s)
  ELSE CASE s.name = "cat" /\ Writes(s) -> RedirectedRead(o, s)
         [] ~Writes(s) -> Searched(o, s)
         [] OTHER -> NoAnswer

\* The stages that run or may run, each with its answer, and the checkout they leave.
Served(w, s, i, surely, ans) ==
  LET code == IF surely THEN ans.status ELSE Open IN
  [work |-> ApplyStage(w.work, s, surely, code), last |-> code,
   ran  |-> Append(w.ran, [stage |-> i, answer |-> ans, surely |-> surely])]
Execute(o, cmd) ==
  FoldLeftDomain(LAMBDA w, i :
      IF w.last # Open /\ ~Goes(cmd[i].sep, w.last) THEN w
      ELSE Served(w, cmd[i], i, w.last # Open \/ cmd[i].sep = ";", StageAnswer(w.work, cmd[i])),
    [work |-> o, last |-> 0, ran |-> <<>>], cmd)

Answers(ran) == FlattenSeq([i \in DOMAIN ran |-> ran[i].answer.out])

AllKnown(ran) ==
  IF \E i \in DOMAIN ran : ~(ran[i].answer.known /\ ran[i].surely) THEN NoAnswer
  ELSE Answer(Answers(ran), Last(ran).answer.status)
Exact(o, cmd) == IF IsRefused(cmd) THEN NoAnswer ELSE AllKnown(Execute(o, cmd).ran)

-----------------------------------------------------------------------------
(* A command answered in part: its exact stages, and its gaps, each a run of   *)
(* stages that could not be answered, gated as one by its first separator.     *)

Continues(gap, sep) == gap.sep = ";" \/ sep = gap.sep

Parts(cmd, ran) ==
  FoldLeftDomain(LAMBDA parts, i :
      LET r     == ran[i]
          part  == [exact |-> r.answer.known, sep |-> cmd[r.stage].sep, answer |-> r.answer,
                    stages |-> {r.stage}]
          gaps  == SelectSeq(parts, LAMBDA p : ~p.exact)
      IN IF /\ ~r.answer.known /\ i > 1 /\ ~ran[i - 1].answer.known
            /\ Continues(Last(gaps), part.sep)
         THEN [parts EXCEPT ![Len(parts)].stages = @ \cup {r.stage}]
         ELSE Append(parts, part),
    <<>>, ran)

MaxGapGroups == 3
SplitHelps(parts) ==
  /\ \E i \in DOMAIN parts : parts[i].exact /\ parts[i].answer.out # <<>>
  /\ Cardinality({i \in DOMAIN parts : ~parts[i].exact}) \in 1..MaxGapGroups

\* What the machine shows for a gap's stages; its status only where observations show it.
GapAnswer(trace, stages) ==
  LET gone == SelectSeq([i \in DOMAIN trace |-> i], LAMBDA i : i \in stages /\ trace[i].ran)
  IN Answer(FlattenSeq([k \in DOMAIN gone |-> trace[gone[k]].out]),
            IF gone # <<>> /\ shows THEN trace[Last(gone)].status ELSE Open)

\* stitch_parts: the parts run as the shell runs them.
Stitch(parts, trace) ==
  LET end == FoldLeftDomain(LAMBDA w, i :
        LET p == parts[i]
            gated == i > 1 /\ p.sep # ";"
            ans == IF p.exact THEN p.answer ELSE GapAnswer(trace, p.stages)
        IN CASE ~w.known \/ (gated /\ w.status = Open) -> NoAnswer
             [] gated /\ w.status # Open /\ ~Goes(p.sep, w.status) -> w
             [] OTHER -> Answer(w.out \o ans.out, ans.status),
        Answer(<<>>, Open), parts)
  IN end

StitchedOf(parts, trace) == IF SplitHelps(parts) THEN Stitch(parts, trace) ELSE NoAnswer
Stitched(o, cmd, trace) ==
  IF IsRefused(cmd) THEN NoAnswer ELSE StitchedOf(Parts(cmd, Execute(o, cmd).ran), trace)

-----------------------------------------------------------------------------
Named(cmd) == UNION {Range(cmd[i].args) : i \in DOMAIN cmd}

-----------------------------------------------------------------------------

\* A turn recorded on a real machine: nobody asks the service, its observation is learned.
Recorded(cmd) ==
  /\ turn < recorded
  /\ \E run \in RunList(fs, cmd) :
       LET rc == IF shows THEN run.last ELSE Open IN
       /\ fs' = run.fs
       /\ ov' = ReplayTurn(ov, cmd, rc, Printed(run.trace), TRUE)
       /\ said' = [Silent EXCEPT !.trace = run.trace, !.plan = Schedule(ov, cmd, rc)]
  /\ turn' = turn + 1
  /\ UNCHANGED <<recorded, shows>>

\* A turn of the simulated session: answered exactly, in parts or whole.
Simulated(cmd) ==
  /\ turn >= recorded /\ turn < MaxTurns
  /\ \E run \in RunList(fs, cmd), exact \in {Exact(ov, cmd)} :
       LET rc == IF shows THEN run.last ELSE Open IN
       /\ fs' = run.fs
       /\ ov' = ReplayTurn(ov, cmd, rc, Printed(run.trace), FALSE)
       /\ said' = [trace    |-> run.trace,
                   plan     |-> Schedule(ov, cmd, rc),
                   exact    |-> exact,
                   stitched |-> IF exact.known THEN NoAnswer ELSE Stitched(ov, cmd, run.trace)]
  /\ turn' = turn + 1
  /\ UNCHANGED <<recorded, shows>>

GroundingNext == \E cmd \in Commands : Recorded(cmd) \/ Simulated(cmd)

-----------------------------------------------------------------------------
Ran == {i \in DOMAIN said.trace : said.trace[i].ran}
MachineOut    == Printed(said.trace)
MachineStatus == said.trace[CHOOSE i \in Ran : \A j \in Ran : j <= i].status

\* The paths worth asking about: the ones there, and the ones commands name.
Nameable == DOMAIN Base \cup UNION {Named(cmd) : cmd \in Commands}
Asked == Nameable \cup DOMAIN fs.files \cup fs.dirs \cup Files(ov) \cup ov.dirs

\* Overlay: whatever a session did, a path the overlay calls a file, a directory or absent
\* is that on the machine, however little of the exit statuses the transcript shows.
NamesAreTheMachines ==
  \A p \in Asked \ {Root} :
    /\ Kind(ov, p) = "file"      => IsFile(fs, p)
    /\ Kind(ov, p) = "directory" => IsDir(fs, p)
    /\ Kind(ov, p) = "absent"    => ~Exists(fs, p)

\* Overlay.text: a text the overlay gives is the text the file has on the machine.
TextsAreTheMachines ==
  \A p \in Asked : (Text(ov, p) # Unknown /\ IsFile(fs, p)) => fs.files[p] = Text(ov, p)

\* schedule: a stage said to have run ran, one said not to have did not, and a status said
\* to be known is how the stage ended.
PlanIsTheRun ==
  \A i \in DOMAIN said.plan :
    LET p == said.plan[i] IN
    /\ p.runs = "yes" => i \in Ran
    /\ p.runs = "no"  => i \notin Ran
    /\ (p.status # Open /\ i \in Ran) => (p.status = 0) = (said.trace[i].status = 0)

\* _execute, _run_chain: an answer served as the command's exact output and exit status is
\* the machine's.
ExactIsTheMachines ==
  said.exact.known => said.exact.out = MachineOut /\ said.exact.status = MachineStatus

\* _parts, stitch_parts: with each gap answered as the machine would, the stitched output
\* and status are the whole command's.
StitchedIsTheMachines ==
  said.stitched.known =>
    /\ said.stitched.out = MachineOut
    /\ said.stitched.status # Open => said.stitched.status = MachineStatus

\* Overlay: whatever a session did, the names and the texts the overlay gives are the
\* machine's.
OverlayIsTheMachine == NamesAreTheMachines /\ TextsAreTheMachines

\* _execute, _parts: what is said to run, what is answered and what is stitched together is
\* what the machine does.
AnswersAreTheMachines == PlanIsTheRun /\ ExactIsTheMachines /\ StitchedIsTheMachines
=============================================================================
