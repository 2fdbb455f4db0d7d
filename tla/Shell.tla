------------------------------ MODULE Shell ------------------------------
(* The machine whose sessions the repository context service follows: a file    *)
(* tree and what a shell does to it.  None of it is code of the repository: it   *)
(* is the ground truth that the service's replay of a transcript is held to.     *)
EXTENDS Integers, SequencesExt

CONSTANT Written    \* the texts a program may leave in a file it writes

\* A path is the sequence of names from the checkout's root, a text the sequence of its lines.
Root == <<>>
Parent(p) == Front(p)
Under(d, p) == IsStrictPrefix(d, p)
Within(d, p) == IsPrefix(d, p)
Moved(p, t, x) == t \o SubSeq(x, Len(p) + 1, Len(x))

\* What the error messages say (their wording is left out, but the service reads it).
NoSuchFile  == "No such file or directory"
IsADir      == "Is a directory"
Failure     == "failed"

\* One stage of a command list: how it is joined to the one before, its command, flags,
\* operands, the text it is given, and the file its output goes to (Root: the terminal).
Stage(name, flags, args, text, to) ==
  [sep |-> ";", name |-> name, flags |-> flags, args |-> args, text |-> text, to |-> to]
Do(name, args)          == Stage(name, {}, args, <<>>, Root)
Flagged(name, fl, args) == Stage(name, fl, args, <<>>, Root)
EchoTo(line, p)         == Stage("echo", {}, <<>>, <<line>>, p)
Appends(line, p)        == Stage("echo", {">>"}, <<>>, <<line>>, p)
Then(sep, s)            == [s EXCEPT !.sep = sep]

\* The tree: the files with their text, and the directories other than the root.
IsDir(fs, p)  == p = Root \/ p \in fs.dirs
IsFile(fs, p) == p \in DOMAIN fs.files
Exists(fs, p) == IsDir(fs, p) \/ IsFile(fs, p)
IsEmpty(fs, d) == \A p \in DOMAIN fs.files \cup fs.dirs : ~Under(d, p)
Children(fs, d) == {x[Len(d) + 1] : x \in {y \in DOMAIN fs.files \cup fs.dirs : Under(d, y)}}
Creatable(fs, p) == IsDir(fs, Parent(p)) /\ ~IsDir(fs, p)

PutFile(fs, p, t) == [fs EXCEPT !.files = [x \in DOMAIN @ \cup {p} |-> IF x = p THEN t ELSE @[x]]]
PutDir(fs, p)     == [fs EXCEPT !.dirs = @ \cup {p}]
Gone(fs, p) == [files |-> Restrict(fs.files, {x \in DOMAIN fs.files : ~Within(p, x)}),
                dirs  |-> {d \in fs.dirs : ~Within(p, d)}]
Copied(fs, p, t) ==
  LET from == {x \in DOMAIN fs.files : Within(p, x)}
      made == {Moved(p, t, x) : x \in from}
  IN [files |-> [y \in DOMAIN fs.files \cup made |->
                   IF y \in made THEN fs.files[Moved(t, p, y)] ELSE fs.files[y]],
      dirs  |-> fs.dirs \cup {Moved(p, t, d) : d \in {e \in fs.dirs : Within(p, e)}}]

\* How a command may end: the tree it leaves, what it prints and its exit status.
Ends(fs, out, status) == [fs |-> fs, out |-> out, status |-> status]
Fails(fs, status)     == Ends(fs, <<Failure>>, status)

WriteFile(fs, p, t, append, out) ==
  IF ~Creatable(fs, p) THEN Fails(fs, 1)
  ELSE Ends(PutFile(fs, p, IF append /\ IsFile(fs, p) THEN fs.files[p] \o t ELSE t), out, 0)

Show(fs, p) ==
  CASE IsFile(fs, p) -> Ends(fs, fs.files[p], 0)
    [] IsDir(fs, p)  -> Ends(fs, <<IsADir>>, 1)
    [] OTHER         -> Ends(fs, <<NoSuchFile>>, 1)

ShowTo(fs, p, to) ==
  IF ~Creatable(fs, to) THEN Fails(fs, 1)
  ELSE LET r == Show(fs, p) IN
       Ends(PutFile(fs, to, IF r.status = 0 THEN r.out ELSE <<>>), IF r.status = 0 THEN <<>> ELSE r.out, r.status)

List(fs, p) ==
  CASE IsFile(fs, p) -> Ends(fs, <<Last(p)>>, 0)
    [] IsDir(fs, p)  -> Ends(fs, SetToSeq(Children(fs, p)), 0)
    [] OTHER         -> Ends(fs, <<NoSuchFile>>, 2)

\* grep -rq: only the status tells
Grep(fs, line, d) ==
  IF ~Exists(fs, d) THEN Ends(fs, <<NoSuchFile>>, 2)
  ELSE Ends(fs, <<>>, IF \E x \in DOMAIN fs.files : Within(d, x) /\ Contains(fs.files[x], line)
                      THEN 0 ELSE 1)

MakeDirs(fs, p, parents) ==
  LET chain == {x \in Prefixes(p) : x # Root} IN
  IF parents THEN IF \E x \in chain : IsFile(fs, x) THEN Fails(fs, 1)
                  ELSE Ends([fs EXCEPT !.dirs = @ \cup chain], <<>>, 0)
  ELSE IF Exists(fs, p) \/ ~IsDir(fs, Parent(p)) THEN Fails(fs, 1) ELSE Ends(PutDir(fs, p), <<>>, 0)

Delete(fs, p, flags) ==
  IF \/ ~Exists(fs, p) /\ "f" \notin flags
     \/ IsDir(fs, p) /\ "r" \notin flags
  THEN Fails(fs, 1) ELSE Ends(Gone(fs, p), <<>>, 0)

Transfer(fs, name, flags, p, q) ==
  LET t == IF IsDir(fs, q) THEN Append(q, Last(p)) ELSE q IN
  IF \/ ~Exists(fs, p) \/ t = p
     \/ IsDir(fs, p) /\ name = "cp" /\ "r" \notin flags
     \/ ~IsDir(fs, Parent(t))
     \/ IsFile(fs, p) /\ IsDir(fs, t)
     \/ IsDir(fs, p) /\ IsFile(fs, t)
     \/ name = "mv" /\ (Under(p, t) \/ (IsDir(fs, t) /\ ~IsEmpty(fs, t)))
  THEN Fails(fs, 1)
  ELSE IF Under(p, t) THEN Fails(PutDir(fs, t), 1)    \* cp -r notices what it made
  ELSE Ends(IF name = "mv" THEN Gone(Copied(fs, p, t), p) ELSE Copied(fs, p, t), <<>>, 0)

\* sed -i 's/old/new/' on each operand that is a file
Edited(text) == [i \in DOMAIN text |-> IF text[i] = "old" THEN "new" ELSE text[i]]
SedInPlace(fs, args) ==
  LET edits == {i \in DOMAIN args : IsFile(fs, args[i])}
      done  == [fs EXCEPT !.files = [x \in DOMAIN @ |->
                  IF \E i \in edits : args[i] = x THEN Edited(@[x]) ELSE @[x]]]
  IN IF edits = DOMAIN args THEN Ends(done, <<>>, 0) ELSE Fails(done, 2)

\* A program that writes a file may fail before it or after it.
Script(fs, p) ==
  {Fails(fs, 1)} \cup
  IF Creatable(fs, p) THEN UNION {{Ends(PutFile(fs, p, t), <<>>, 0), Fails(PutFile(fs, p, t), 1)} : t \in Written}
  ELSE {}

\* The ways a stage may end.
Runs(fs, s) ==
  CASE s.name = "echo" /\ s.to = Root -> {Ends(fs, s.text, 0)}
    [] s.name = "echo" /\ s.to # Root -> {WriteFile(fs, s.to, s.text, ">>" \in s.flags, <<>>)}
    [] s.name = "tee"      -> {[WriteFile(fs, s.args[1], s.text, FALSE, s.text) EXCEPT !.out = s.text]}
    [] s.name = "true"     -> {Ends(fs, <<>>, 0)}
    [] s.name = "false"    -> {Ends(fs, <<>>, 1)}
    [] s.name = "cat" /\ s.to = Root -> {Show(fs, s.args[1])}
    [] s.name = "cat" /\ s.to # Root -> {ShowTo(fs, s.args[1], s.to)}
    [] s.name = "ls"       -> {List(fs, s.args[1])}
    [] s.name = "grep"     -> {Grep(fs, s.text[1], s.args[1])}
    [] s.name = "touch"    -> {IF Exists(fs, s.args[1]) THEN Ends(fs, <<>>, 0)
                               ELSE WriteFile(fs, s.args[1], <<>>, FALSE, <<>>)}
    [] s.name = "mkdir"    -> {MakeDirs(fs, s.args[1], "p" \in s.flags)}
    [] s.name = "rm"       -> {Delete(fs, s.args[1], s.flags)}
    [] s.name = "rmdir"    -> {IF IsDir(fs, s.args[1]) /\ IsEmpty(fs, s.args[1])
                               THEN Ends(Gone(fs, s.args[1]), <<>>, 0) ELSE Fails(fs, 1)}
    [] s.name \in {"cp", "mv"} -> {Transfer(fs, s.name, s.flags, s.args[1], s.args[2])}
    [] s.name = "sed"      -> {SedInPlace(fs, s.args)}
    [] s.name = "truncate" -> {WriteFile(fs, s.args[1], <<>>, FALSE, <<>>)}
    [] s.name = "python"   -> Script(fs, s.args[1])
    [] s.name = "loop"     -> {Ends(Gone(fs, s.args[1]), <<>>, 0)}
    [] s.name = "loopTo"   -> IF Creatable(fs, s.to)
                              THEN {Ends(PutFile(fs, s.to, t), <<>>, 0) : t \in Written} ELSE {Fails(fs, 1)}

\* Whether a stage runs, from its separator and the status of the last stage that ran.
Goes(sep, last) == sep = ";" \/ (sep = "&&" /\ last = 0) \/ (sep = "||" /\ last # 0)

\* The ways a command list may run: the tree it leaves, and of every stage whether it ran,
\* what it printed and how it ended.
Skipped == [ran |-> FALSE, out |-> <<>>, status |-> 0]
RunList(start, cmd) ==
  FoldLeft(LAMBDA worlds, s :
             UNION {IF Goes(s.sep, w.last)
                    THEN {[fs |-> r.fs, last |-> r.status,
                           trace |-> Append(w.trace, [ran |-> TRUE, out |-> r.out, status |-> r.status])]
                          : r \in Runs(w.fs, s)}
                    ELSE {[w EXCEPT !.trace = Append(@, Skipped)]} : w \in worlds},
           {[fs |-> start, last |-> 0, trace |-> <<>>]}, cmd)
Printed(trace) == FlattenSeq([i \in DOMAIN trace |-> trace[i].out])
===========================================================================
