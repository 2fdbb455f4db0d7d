----------------------------- MODULE Overlay -----------------------------
(* repo_context_service/overlay.py: what the service knows of a session's       *)
(* checkout, from the listing of its commit, the commands of the transcript and  *)
(* the exit statuses they showed.  Pure: every operator takes an overlay and     *)
(* gives what it says or the overlay a change leaves.                            *)
EXTENDS Shell

CONSTANT Base    \* the files of the commit, with their text

Unknown == <<"?">>     \* the text that is not known
Open    == -1          \* the status that is not known

Pristine == [content |-> [p \in {} |-> <<>>], created |-> {}, dirty |-> {}, deleted |-> {},
             dirs |-> {}, maybe |-> {}, unsure |-> {}, opaque |-> <<>>]

\* What the overlay says of a path.
Files(ov) == ov.created \cup (DOMAIN Base \ ov.deleted)
FilesUnder(ov, d) == {p \in Files(ov) : Under(d, p)}
Kind(ov, p) ==
  CASE p = Root -> "directory"
    [] \E u \in ov.unsure \cup ov.maybe : Within(u, p) -> "unknown"
    [] p \in Files(ov) -> "file"
    [] p \in ov.dirs \/ \E x \in Files(ov) \cup ov.dirs : Under(p, x) -> "directory"
    [] \E m \in ov.maybe : Under(p, m) -> "unknown"
    [] OTHER -> "absent"
Doubt(ov, p) == \/ \E u \in ov.unsure : Within(u, p)
                \/ \E e \in ov.unsure \cup ov.maybe : Within(p, e)
Entries(ov, d) == {x[Len(d) + 1] : x \in {y \in Files(ov) \cup ov.dirs : Under(d, y)}}
Text(ov, p) ==
  CASE p \in ov.dirty \/ Kind(ov, p) # "file" -> Unknown
    [] p \in DOMAIN ov.content -> ov.content[p]
    [] OTHER -> Base[p]
KindsAlong(ov, p) == {Kind(ov, x) : x \in {y \in Prefixes(p) : y # Root}}

\* What a change leaves.
Forget(ov, p)  == [ov EXCEPT !.content = Restrict(@, DOMAIN @ \ {p}), !.dirty = @ \cup {p}]
Know(ov, p, t) == [ov EXCEPT !.content = [x \in DOMAIN @ \cup {p} |-> IF x = p THEN t ELSE @[x]],
                             !.dirty = @ \ {p}]
Put(ov, p, t, sure) ==
  LET held == [ov EXCEPT !.maybe = @ \ {p}, !.deleted = @ \ {p},
                         !.created = IF p \in DOMAIN Base THEN @ ELSE @ \cup {p}]
  IN CASE ~sure /\ Kind(ov, p) = "file" -> Forget(ov, p)
       [] ~sure /\ Kind(ov, p) # "file" -> [ov EXCEPT !.maybe = @ \cup {p}]
       [] sure /\ t = Unknown -> Forget(held, p)
       [] sure /\ t # Unknown -> Know(held, p, t)

Drop(ov, p, sure) ==
  LET doomed == {x \in Files(ov) : Within(p, x)} IN
  IF ~sure
  THEN [ov EXCEPT !.maybe = @ \cup doomed \cup {d \in ov.dirs : Within(p, d)}
                              \cup (IF Kind(ov, p) # "absent" THEN {p} ELSE {})]
  ELSE [ov EXCEPT !.content = Restrict(@, DOMAIN @ \ doomed),
                  !.dirty = @ \ doomed,
                  !.created = @ \ doomed,
                  !.deleted = @ \cup (doomed \cap DOMAIN Base),
                  !.dirs = {d \in @ : ~Within(p, d)} \cup ({Parent(p)} \ {Root}),
                  !.maybe = {m \in @ : ~Within(p, m)},
                  !.unsure = {u \in @ : ~Within(p, u)}]

MakeDir(ov, p, sure) ==
  IF sure THEN [ov EXCEPT !.maybe = @ \ {p}, !.dirs = @ \cup {p}]
  ELSE [ov EXCEPT !.maybe = @ \cup {p}]

AllUnsure(ov) == [ov EXCEPT !.unsure = @ \cup {Root}]

-----------------------------------------------------------------------------
(* The exit status a stage's words alone decide.                               *)

Writes(s)  == s.to # Root
KeepsTmp   == {"cat", "ls", "grep", "echo", "true", "false"}
Changes(s) == s.name \notin KeepsTmp \/ Writes(s)
IsRefused(cmd) == \E i \in DOMAIN cmd : cmd[i].name \in {"loop", "loopTo"}

RmStatus(ov, s) ==
  LET kind == Kind(ov, s.args[1]) IN
  CASE kind = "unknown" -> Open
    [] kind = "absent" /\ "f" \notin s.flags -> 1
    [] kind = "directory" /\ "r" \notin s.flags -> 1
    [] OTHER -> IF "f" \in s.flags THEN 0 ELSE Open

MkdirStatus(ov, p) ==
  LET kinds == KindsAlong(ov, p) IN
  IF "unknown" \in kinds THEN Open ELSE IF "file" \in kinds THEN 1 ELSE 0

FixedStatus(ov, s, before) ==
  CASE s.name \in {"echo", "true", "tee"} /\ ~Writes(s) -> 0
    [] s.name = "false" -> 1
    [] \E i \in DOMAIN before : Changes(before[i]) -> Open
    [] s.name = "cat" /\ Kind(ov, s.args[1]) = "absent" -> 1
    [] Writes(s) -> Open
    [] s.name = "rm" -> RmStatus(ov, s)
    [] s.name = "mkdir" /\ "p" \in s.flags -> MkdirStatus(ov, s.args[1])
    [] OTHER -> Open

(* Which stages of a list ran and how they ended, given how the list ended.    *)

Simulate(cmd, status) ==
  FoldLeftDomain(LAMBDA w, i : IF Goes(cmd[i].sep, w.last)
                               THEN [last |-> status[i], ran |-> w.ran \cup {i}] ELSE w,
                 [last |-> 0, ran |-> {}], cmd)

\* Every way the stages of open status may have ended, but the ones the list's own refutes.
Ways(ov, cmd, rc) ==
  LET fixed == [i \in DOMAIN cmd |-> FixedStatus(ov, cmd[i], SubSeq(cmd, 1, i - 1))]
      Status(i) == IF fixed[i] = Open THEN {0, 1} ELSE {fixed[i]}
      full      == {st \in [DOMAIN cmd -> {0, 1}] : \A i \in DOMAIN cmd : st[i] \in Status(i)}
      Way(st)   == [status |-> st] @@ Simulate(cmd, st)
  IN {w \in {Way(st) : st \in full} : rc = Open \/ (w.last = 0) = (rc = 0)}

\* Of each stage: whether it runs, whether its directory is known, its status.
Unplanned == [runs |-> "maybe", placed |-> FALSE, status |-> Open]
Fate(ways, taken, codes) ==
  [runs   |-> IF taken = ways THEN "yes" ELSE IF taken # {} THEN "maybe" ELSE "no",
   placed |-> taken # {},
   status |-> IF Cardinality(codes) = 1 THEN CHOOSE c \in codes : TRUE ELSE Open]
FateOf(ways, i, taken) ==
  IF ways = {} THEN Unplanned ELSE Fate(ways, taken, {w.status[i] : w \in taken})
Planned(cmd, ways) == [i \in DOMAIN cmd |-> FateOf(ways, i, {w \in ways : i \in w.ran})]
Schedule(ov, cmd, rc) == Planned(cmd, Ways(ov, cmd, rc))

-----------------------------------------------------------------------------
(* What a command does to the overlay; sure FALSE when it may not have run.    *)

Write(ov, p, t, append, sure) ==
  LET kind   == Kind(ov, p)
      parent == Kind(ov, Parent(p))
      held   == Text(ov, p)
      full   == IF ~append \/ kind = "absent" THEN t
                ELSE IF held # Unknown /\ t # Unknown THEN held \o t ELSE Unknown
  IN IF kind = "directory" \/ parent \in {"absent", "file"} THEN ov
     ELSE Put(ov, p, full, sure /\ "unknown" \notin {kind, parent})

Touch(ov, p, sure) ==
  LET kind   == Kind(ov, p)
      parent == Kind(ov, Parent(p))
  IN IF kind \in {"file", "directory"} \/ parent \in {"absent", "file"} THEN ov
     ELSE Put(ov, p, <<>>, sure /\ kind = "absent" /\ parent = "directory")

Mkdir(ov, p, parents, sure) ==
  LET kinds == KindsAlong(ov, p)
      made  == {x \in Prefixes(p) : x # Root /\ (parents \/ x = p) /\ Kind(ov, x) # "directory"}
  IN IF \/ "file" \in kinds
        \/ ~parents /\ (Kind(ov, p) # "absent" \/ Kind(ov, Parent(p)) = "absent")
     THEN ov
     ELSE FoldSet(LAMBDA x, o : MakeDir(o, x, sure /\ "unknown" \notin kinds), ov, made)

Rm(ov, s, sure) ==
  LET p    == s.args[1]
      kind == Kind(ov, p)
  IN IF kind = "absent" \/ (kind = "directory" /\ "r" \notin s.flags) THEN ov
     ELSE Drop(ov, p, sure /\ kind # "unknown")

Rmdir(ov, p, sure) ==
  LET kind == Kind(ov, p) IN
  CASE kind = "unknown" \/ (kind = "directory" /\ Doubt(ov, p)) -> Drop(ov, p, FALSE)
    [] kind = "directory" /\ ~Doubt(ov, p) /\ Entries(ov, p) = {} -> Drop(ov, p, sure)
    [] OTHER -> ov

CopyTree(ov, p, t, sure) ==
  IF Kind(ov, p) = "file" THEN Put(ov, t, Text(ov, p), sure)
  ELSE IF Doubt(ov, p) THEN LET made == MakeDir(ov, t, sure) IN [made EXCEPT !.unsure = @ \cup {t}]
  ELSE LET withFiles == FoldSet(LAMBDA x, o : Put(o, Moved(p, t, x), Text(o, x), sure),
                                MakeDir(ov, t, sure), FilesUnder(ov, p))
       IN FoldSet(LAMBDA d, o : MakeDir(o, Moved(p, t, d), sure), withFiles,
                  {d \in ov.dirs : Under(p, d)})

Carry(ov, s, sure) ==
  LET p == s.args[1]
      q == s.args[2]
      move == s.name = "mv"
      kind == Kind(ov, p)
      into == Kind(ov, q)
      certain == sure /\ kind # "unknown"
      t    == IF into = "directory" THEN Append(q, Last(p)) ELSE q
  IN CASE kind = "absent" \/ (kind = "directory" /\ ~move /\ "r" \notin s.flags) -> ov
       [] kind # "absent" /\ into = "unknown" ->
            LET o == [ov EXCEPT !.unsure = @ \cup {q}] IN IF move THEN Drop(o, p, FALSE) ELSE o
       [] OTHER ->
            IF \/ into = "file" /\ kind = "directory"
               \/ t = p
               \/ Under(p, t) /\ move
               \/ ~Under(p, t) /\ Kind(ov, Parent(t)) \in {"absent", "file"}
            THEN ov
            ELSE IF Under(p, t)
            THEN LET o == MakeDir(ov, t, certain) IN [o EXCEPT !.unsure = @ \cup {t}]
            ELSE LET o == CopyTree(ov, p, t, certain) IN IF move THEN Drop(o, p, certain) ELSE o

SedFile(ov, p, sure) ==
  IF Kind(ov, p) \notin {"file", "unknown"} THEN ov
  ELSE LET text == Text(ov, p) IN
       Put(ov, p, IF text = Unknown THEN Unknown ELSE Edited(text), sure /\ Kind(ov, p) = "file")

\* Mutant: a program that did not end well is taken to have written nothing.
FailedWroteNothing(ov, p, sure, status) ==
  IF Kind(ov, p) = "directory" \/ status # 0 THEN ov ELSE Put(ov, p, Unknown, sure)

\* A program's writes are sure when it is known to have ended well.
Program(ov, p, sure, status) ==
  IF Kind(ov, p) = "directory" THEN ov ELSE Put(ov, p, Unknown, sure /\ status = 0)

\* What a stage prints into the file its output goes to.
Computed(ov, s) ==
  CASE s.name = "echo" -> s.text
    [] s.name = "cat" /\ Kind(ov, s.args[1]) = "directory" -> <<IsADir>>    \* the error counts as output
    [] OTHER -> Text(ov, s.args[1])

ApplyStage(ov, s, sure, status) ==
  CASE s.name = "python"   -> Program(ov, s.args[1], sure, status)
    [] s.name \in {"echo", "cat"} /\ Writes(s) -> Write(ov, s.to, Computed(ov, s), ">>" \in s.flags, sure)
    [] s.name = "tee"      -> Write(ov, s.args[1], s.text, FALSE, sure)
    [] s.name = "touch"    -> Touch(ov, s.args[1], sure)
    [] s.name = "mkdir"    -> Mkdir(ov, s.args[1], "p" \in s.flags, sure)
    [] s.name = "rm"       -> Rm(ov, s, sure)
    [] s.name = "rmdir"    -> Rmdir(ov, s.args[1], sure)
    [] s.name \in {"cp", "mv"} -> Carry(ov, s, sure)
    [] s.name = "truncate" -> Put(ov, s.args[1], <<>>, sure)
    \* status 1 is read as a script sed rejected: nothing written
    [] s.name = "sed" /\ status # 1 -> FoldLeft(LAMBDA o, p : SedFile(o, p, sure), ov, s.args)
    [] OTHER -> ov

\* A list whose status no way explains: its stages run nobody knows where.
ApplyAnywhere(ov, s) ==
  IF Writes(s) \/ s.name \in {"tee", "touch", "mkdir", "rm", "rmdir", "cp", "mv", "sed"}
  THEN AllUnsure(ov) ELSE ov

\* A command the shell parser refuses.
Refused(ov, s) == CASE s.name = "loop"   -> AllUnsure(ov)
                    [] s.name = "loopTo" -> Put(ov, s.to, Unknown, FALSE)
                    [] OTHER             -> ov

Follow(ov, cmd, plan) ==
  FoldLeftDomain(LAMBDA o, i :
                   CASE plan[i].runs = "no"  -> o
                     [] ~plan[i].placed      -> ApplyAnywhere(o, cmd[i])
                     [] OTHER -> ApplyStage(o, cmd[i], plan[i].runs = "yes", plan[i].status),
                 ov, cmd)
ReplayCommand(ov, cmd, rc) ==
  IF IsRefused(cmd) THEN FoldLeft(Refused, ov, cmd) ELSE Follow(ov, cmd, Schedule(ov, cmd, rc))

\* What a successful read of the recorded part of the transcript showed.
Learn(ov, cmd, out, rc) ==
  IF \/ Len(cmd) # 1 \/ IsRefused(cmd) \/ rc \notin {0, Open}
     \/ cmd[1].name # "cat" \/ Writes(cmd[1]) THEN ov
  ELSE LET p == cmd[1].args[1] IN
       IF \/ Kind(ov, p) = "directory" \/ out = <<>> \/ out[1] = NoSuchFile \/ Text(ov, p) = out
       THEN ov ELSE Put(ov, p, out, TRUE)

\* The paths a command left doubtful, each with the command: the session's opaque edits.
Noted(ov, cmd, after) ==
  LET changed == (after.dirty \ ov.dirty) \cup (after.maybe \ ov.maybe)
      opaque  == {<<p, cmd>> : p \in changed}
                 \cup (IF after.unsure \subseteq ov.unsure THEN {} ELSE {<<Root, cmd>>})
  IN [after EXCEPT !.opaque = IF opaque = {} THEN @ ELSE Append(@, opaque)]
Learned(noted, cmd, out, rc, learn) == IF learn THEN Learn(noted, cmd, out, rc) ELSE noted
ReplayTurn(ov, cmd, rc, out, learn) ==
  Learned(Noted(ov, cmd, ReplayCommand(ov, cmd, rc)), cmd, out, rc, learn)
=============================================================================
