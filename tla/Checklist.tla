----------------------------- MODULE Checklist -----------------------------
(* How the judge makes a sample's checklist out of the runs of its references     *)
(* (QuestionService._prepare_once): independent readings of the runs become one    *)
(* vector of milestones, independent ladders of questions over it one list, and    *)
(* the list loses what it asks twice and what no run of the references earns.      *)
(* What the models answer - readings, ladders, how alike two statements are, who   *)
(* earned what - is any choice; so is whether they answer.                          *)
EXTENDS Integers, Sequences, SequencesExt, FiniteSets, FiniteSetsExt

CONSTANTS
  Corpus,      \* by run, the spans found in its output, its prose and its code
  TaskSpans,   \* the spans found in the conversation the candidate starts from
  Vectors,     \* readings the extractor may return: sequences of milestones
  Ladders,     \* replies the question writer may return: sequences of questions
  BadTexts,    \* questions that leak the reference, or that doing nothing earns
  Nouls,       \* mean answers of Jev, in hundredths
  LadderMin, RungsMax, QuestionFloor

VARIABLES
  stage,
  vectors,     \* the validated readings, until the ladders are written over their merger
  merged,
  questions,   \* the checklist as it stood before its last cut
  cut          \* what is kept of it, the pairs that test the same, the runs that could
               \* be read and the ones of them that earned each question

checklistVars == <<stage, vectors, merged, questions, cut>>

Readings == 2   \* milestone_readings, question_readings
JoinAt   == 55  \* JOIN_AT

\* SOURCES_BY_CATEGORY, in the order they are searched.
Sources == [claims       |-> <<"output", "stated", "command">>,
            explore      |-> <<"output", "stated">>,
            action       |-> <<"edit", "output", "command">>,
            verification |-> <<"command", "stated">>]
NeverSame == {{"action", "verification"}, {"action", "claims"}}

\* _haystacks: what the agent edits and what it runs is searched as one.
Hay(run, kind) == Corpus[run][IF kind \in {"edit", "command"} THEN "fenced" ELSE kind]
-----------------------------------------------------------------------------
\* _locate: the cited run first, then the others; the cited source first, if admitted.
FirstThen(x, s) == IF x \in ToSet(s) THEN <<x>> \o SelectSeq(s, LAMBDA y : y # x) ELSE s
RunOrder(run) == FirstThen(run, [r \in 1..Len(Corpus) |-> r])
Places(e, category) ==
  LET kinds == FirstThen(e.source, Sources[category])  runs == RunOrder(e.run) IN
  [n \in 1..(Len(runs) * Len(kinds)) |->
     [run |-> runs[((n - 1) \div Len(kinds)) + 1], source |-> kinds[((n - 1) % Len(kinds)) + 1]]]
Found(e, category) ==
  SelectSeq(Places(e, category), LAMBDA p : e.span \in Hay(p.run, p.source))

\* validate_vector, one milestone's evidence: admitted, located, one entry a run.
Evidence(m) ==
  FoldLeft(LAMBDA held, e :
             LET found == Found(e, m.category) IN
             IF \/ m.category = "explore" /\ e.span \in TaskSpans
                \/ found = <<>>
                \/ \E h \in ToSet(held) : h.run = Head(found).run
             THEN held ELSE Append(held, Head(found)),
           <<>>, m.evidence)
Consensus(m) == {e.run : e \in ToSet(m.evidence)}

\* Necessary, or a verification; not claimed to be in the prefix with a quote that is.
Licensed(m) ==
  /\ m.necessary \/ m.category = "verification"
  /\ m.quote \notin TaskSpans

\* validate_vector: the licensed milestones some run reached, grounded on one another.
ValidVector(vector) ==
  LET placed == [i \in DOMAIN vector |-> [vector[i] EXCEPT !.evidence = Evidence(vector[i])]]
      held   == SelectSeq(placed, LAMBDA m : Licensed(m) /\ m.evidence # <<>>)
      ids    == {m.id : m \in ToSet(held)}
  IN [i \in DOMAIN held |-> [held[i] EXCEPT !.deps = @ \cap ids]]
-----------------------------------------------------------------------------
\* A statement is named by its list and its place; a cluster is a set of names, and the
\* clusters of several lists are in the order of their first members.
Refs(lists) == UNION {{<<r, i>> : i \in DOMAIN lists[r]} : r \in DOMAIN lists}
Sooner(x, y) == x[1] < y[1] \/ (x[1] = y[1] /\ x[2] < y[2])
Foremost(cluster) == CHOOSE x \in cluster : \A y \in cluster \ {x} : Sooner(x, y)
Sorted(S, Before(_, _)) ==
  [n \in 1..Cardinality(S) |-> CHOOSE x \in S : Cardinality({y \in S : Before(y, x)}) = n - 1]
InOrder(cluster) == Sorted(cluster, Sooner)
At(lists, x) == lists[x[1]][x[2]]

Grouped(lists, Same(_, _)) ==
  FoldLeft(LAMBDA groups, x :
             LET g == SelectInSeq(groups, LAMBDA h : Same(At(lists, Foremost(h)), At(lists, x))) IN
             IF g = 0 THEN Append(groups, {x}) ELSE [groups EXCEPT ![g] = @ \cup {x}],
           <<>>, InOrder(Refs(lists)))

\* exact_groups: what is said word for word.
ExactGroups(lists) == Grouped(lists, LAMBDA p, q : p.text = q.text)

\* needs_alignment: a statement one of the readings does not have.
Reached(cluster) == {x[1] : x \in cluster}
NeedsAlignment(clusters, lists) ==
  Len(lists) > 1 /\ \E c \in ToSet(clusters) : Reached(c) # DOMAIN lists

\* join_groups, average_linkage: two groups are joined while their members' mean reaches
\* JoinAt, the likest first and the later of equals; a pair nobody asked about weighs 0.
Linked(start, alike) ==
  LET Lead(x) == Foremost(CHOOSE g \in ToSet(start) : x \in g)
      Weight(x, y) == LET p == {Lead(x), Lead(y)} IN IF p \in DOMAIN alike THEN alike[p] ELSE 0
      Sum(g, h) == MapThenSumSet(LAMBDA x : MapThenSumSet(LAMBDA y : Weight(x, y), h), g)
      Size(g, h) == Cardinality(g) * Cardinality(h)
      Join(gs) ==
        LET near == {p \in (DOMAIN gs) \X (DOMAIN gs) :
                       p[1] < p[2] /\ Sum(gs[p[1]], gs[p[2]]) >= JoinAt * Size(gs[p[1]], gs[p[2]])}
            Mean(p, q) == Sum(gs[p[1]], gs[p[2]]) * Size(gs[q[1]], gs[q[2]])
            best == CHOOSE p \in near : \A q \in near \ {p} :
                      Mean(p, q) > Mean(q, p) \/ (Mean(p, q) = Mean(q, p) /\ Sooner(q, p))
        IN IF near = {} THEN gs
           ELSE RemoveAt([gs EXCEPT ![best[1]] = @ \cup gs[best[2]]], best[2])
      joined[n \in 0..Len(start)] == IF n = 0 THEN start ELSE Join(joined[n - 1])
  IN joined[Len(start)]

\* Mutant: what the aligner forgets is not put back.
ParseClustersMutant(reply, lists) == SelectSeq(reply, LAMBDA c : c # {})

\* parse_clusters: a statement stays in its first cluster, a forgotten one is its own.
ParseClusters(reply, lists) ==
  LET apart == [c \in DOMAIN reply |-> reply[c] \ UNION {reply[d] : d \in 1..(c - 1)}]
      named == SelectSeq(apart, LAMBDA c : c # {})
      rest  == InOrder(Refs(lists) \ UNION ToSet(reply))
  IN named \o [k \in DOMAIN rest |-> {rest[k]}]

\* _glm_clusters: Jev's answer on the pairs asked about, or while it does not answer the
\* evaluator model's, or the exact groups.
Pairs(start) == {p \in SUBSET {Foremost(g) : g \in ToSet(start)} : Cardinality(p) = 2}
Alignments(lists, start, asked) ==
  LET exact == ExactGroups(lists)
      names == SUBSET Refs(lists)
  IN IF ~NeedsAlignment(exact, lists) THEN {exact}
     ELSE {Linked(start, alike) : alike \in [asked -> Nouls]}
            \cup {ParseClusters(reply, lists) : reply \in {<<c, d>> : c \in names \ {{}}, d \in names}}
            \cup {exact}
-----------------------------------------------------------------------------
\* jev_clusters: no change is asked to be a check, or a claim of the task.
SomeKind(g) == {At(vectors, x).category : x \in g}
MilestoneClusters ==
  LET exact == ExactGroups(vectors)
      Kinds(x) == SomeKind(CHOOSE g \in ToSet(exact) : x \in g)
      Askable(x, y) == \E c \in Kinds(x), d \in Kinds(y) : {c, d} \notin NeverSame
  IN Alignments(vectors, exact, {p \in Pairs(exact) : \A x \in p : \A y \in p \ {x} : Askable(x, y)})

\* position: the mean place of a cluster in its readings, as a fraction of their length.
Lengths == FoldLeft(LAMBDA n, v : n * Max({1, Len(v)}), 1, vectors)
Place(c) == MapThenSumSet(LAMBDA x : (x[2] - 1) * (Lengths \div Len(vectors[x[1]])), c)
Ahead(clusters, i, j) ==
  LET c == clusters[i]  d == clusters[j]
      p == Place(c) * Cardinality(d)  q == Place(d) * Cardinality(c)
  IN p < q \/ (p = q /\ i < j)

\* merge_vectors: of every cluster the statement most runs show, the earliest of equals,
\* with the evidence of all, one entry a run, and its own grounds among the others.
Pooled(best, c) ==
  FoldLeft(LAMBDA held, e : IF \E h \in ToSet(held) : h.run = e.run THEN held ELSE Append(held, e),
           <<>>, FlattenSeq([k \in DOMAIN InOrder(c) |->
                               At(vectors, FirstThen(best, InOrder(c))[k]).evidence]))
MergeVectors(clusters) ==
  LET order == Sorted(DOMAIN clusters, LAMBDA i, j : Ahead(clusters, i, j))
      Shown(x) == Cardinality(Consensus(At(vectors, x)))
      Best(c) == CHOOSE x \in c : \A y \in c \ {x} :
                   Shown(x) > Shown(y) \/ (Shown(x) = Shown(y) /\ Sooner(x, y))
      Grounds(x) == {<<x[1], i>> : i \in {j \in DOMAIN vectors[x[1]] : vectors[x[1]][j].id \in At(vectors, x).deps}}
  IN [k \in DOMAIN order |->
        LET c == clusters[order[k]] IN
        [from     |-> c,
         category |-> At(vectors, Best(c)).category,
         evidence |-> Pooled(Best(c), c),
         deps     |-> {l \in DOMAIN order \ {k} : clusters[order[l]] \cap Grounds(Best(c)) # {}}]]
-----------------------------------------------------------------------------
\* parse_ladder: the known milestones' questions, each milestone's first RungsMax by rung.
ParseLadder(reply, known) ==
  LET rows == SelectSeq(reply, LAMBDA q : q.milestone \in known)
      Of(id) == SelectSeq([i \in DOMAIN rows |-> i], LAMBDA i : rows[i].milestone = id)
      Ladder(id) ==
        LET rungs == SortSeq(SubSeq(Of(id), 1, Min({RungsMax, Len(Of(id))})),
                       LAMBDA i, j : rows[i].rung < rows[j].rung \/ (rows[i].rung = rows[j].rung /\ i < j))
        IN [h \in DOMAIN rungs |-> [rows[rungs[h]] EXCEPT !.rung = h]]
  IN FoldLeft(LAMBDA out, q : IF \E p \in ToSet(out) : p.milestone = q.milestone THEN out
                              ELSE out \o Ladder(q.milestone),
              <<>>, rows)

\* question_clusters: only questions of one milestone are asked about.
QuestionClusters(lists) ==
  LET start == Grouped(lists, LAMBDA p, q : p.milestone = q.milestone /\ p.text = q.text) IN
  Alignments(lists, start,
             {p \in Pairs(start) : Cardinality({At(lists, x).milestone : x \in p}) = 1})

\* select_questions: what two readings ask, and spares of one up to LadderMin a milestone,
\* by rung.
SelectQuestions(lists, clusters, id) ==
  LET mine    == {c \in ToSet(clusters) : At(lists, Foremost(c)).milestone = id}
      shared  == {Foremost(c) : c \in {d \in mine : Cardinality(Reached(d)) >= Min({2, Len(lists)})}}
      spare   == InOrder({Foremost(c) : c \in mine} \ shared)
      lacking == Max({0, LadderMin - Cardinality(shared)})
      group   == InOrder(shared) \o SubSeq(spare, 1, Min({lacking, Len(spare)}))
      Rung(k) == At(lists, group[k]).rung
      order   == Sorted(DOMAIN group,
                         LAMBDA i, j : Rung(i) < Rung(j) \/ (Rung(i) = Rung(j) /\ i < j))
  IN [k \in DOMAIN order |-> [At(lists, group[order[k]]) EXCEPT !.rung = k]]

\* _write_ladders, filter_reference_leaks, enforce_question_labels: milestone by milestone.
Listed(lists, clusters, ids) ==
  SelectSeq(FlattenSeq([id \in ids |-> SelectQuestions(lists, clusters, id)]),
            LAMBDA q : q.text \notin BadTexts)
-----------------------------------------------------------------------------
Uncut(qs) == [kept |-> DOMAIN qs, alike |-> {}, readable |-> {}, earned |-> [k \in DOMAIN qs |-> {}]]
Kept == LET order == Sorted(cut.kept, <) IN [k \in DOMAIN order |-> questions[order[k]]]

ChecklistInit ==
  /\ stage = "reading"
  /\ vectors = <<>> /\ merged = <<>>
  /\ questions = <<>> /\ cut = Uncut(<<>>)

\* _extract_validated_vector: the readings that came back.
Read ==
  /\ stage = "reading"
  /\ \E held \in 1..Readings : \E raw \in [1..held -> Vectors] :
       vectors' = [r \in DOMAIN raw |-> ValidVector(raw[r])]
  /\ stage' = "read"
  /\ UNCHANGED <<merged, questions, cut>>

NoneRead ==
  /\ stage = "reading"
  /\ stage' = "unavailable"
  /\ UNCHANGED <<vectors, merged, questions, cut>>

Merge ==
  /\ stage = "read"
  /\ \E clusters \in MilestoneClusters : merged' = MergeVectors(clusters)
  /\ stage' = IF merged' = <<>> THEN "unavailable" ELSE "merged"
  /\ UNCHANGED <<vectors, questions, cut>>

\* A writer that fails asks nothing.
WriteLadders ==
  /\ stage = "merged"
  /\ \E replies \in [1..Readings -> Ladders \cup {<<>>}] :
       LET parsed == [r \in DOMAIN replies |-> ParseLadder(replies[r], DOMAIN merged)]
           lists  == SelectSeq(parsed, LAMBDA l : l # <<>>)
       IN \E clusters \in QuestionClusters(lists) :
            questions' = Listed(lists, clusters, DOMAIN merged)
  /\ cut' = Uncut(questions')
  /\ vectors' = <<>> /\ merged' = <<>>
  /\ stage' = "written"

\* cross_milestone_duplicates: the one under the later milestone.
Duplicate(pair) == pair[2]

CrossPairs == {p \in (DOMAIN questions) \X (DOMAIN questions) :
                 p[1] < p[2] /\ questions[p[1]].milestone # questions[p[2]].milestone}
Heaviest(alike) ==
  Sorted({p \in CrossPairs : alike[p] >= JoinAt},
         LAMBDA p, q : alike[p] > alike[q] \/ (alike[p] = alike[q] /\ Sooner(p, q)))

DropDuplicates ==
  /\ stage = "written"
  /\ \E alike \in [CrossPairs -> Nouls] :
       LET dropped == FoldLeft(LAMBDA gone, p :
                                 IF {p[1], p[2]} \cap gone # {} THEN gone
                                 ELSE gone \cup {Duplicate(p)},
                               {}, Heaviest(alike))
       IN cut' = [Uncut(questions) EXCEPT !.kept = @ \ dropped, !.alike = ToSet(Heaviest(alike))]
  /\ stage' = "apart"
  /\ UNCHANGED <<vectors, merged, questions>>

\* Without Jev nothing is dropped.
DuplicatesStay ==
  /\ stage = "written"
  /\ stage' = "apart"
  /\ UNCHANGED <<vectors, merged, questions, cut>>

\* _prune_unreachable: what a run earned, or all if no run could be read.
Reachable(earned, readable) ==
  {k \in DOMAIN earned : readable = {} \/ earned[k] # {}}

\* The runs Jev judges, and the others judged by the evaluator model on what is open.
Prune ==
  LET left == Kept  runs == DOMAIN Corpus  IN
  /\ stage = "apart"
  /\ \E jev \in SUBSET runs : \E byJev \in [jev -> SUBSET DOMAIN left] :
       LET open == DOMAIN left \ UNION {byJev[r] : r \in jev}
           rest == IF open = {} THEN {} ELSE runs \ jev
       IN \E glm \in SUBSET rest : \E byGlm \in [glm -> SUBSET open] :
            LET earned == [k \in DOMAIN left |->
                             {r \in jev : k \in byJev[r]} \cup {r \in glm : k \in byGlm[r]}]
            IN cut' = [kept |-> Reachable(earned, jev \cup glm), alike |-> {},
                       readable |-> jev \cup glm, earned |-> earned]
  /\ questions' = left
  /\ stage' = "pruned"
  /\ UNCHANGED <<vectors, merged>>

\* The floor of a whole checklist.
Settle ==
  /\ stage = "pruned"
  /\ stage' = IF Len(Kept) < QuestionFloor THEN "unavailable" ELSE "ready"
  /\ questions' = Kept /\ cut' = Uncut(Kept)
  /\ UNCHANGED <<vectors, merged>>

ChecklistNext ==
  Read \/ NoneRead \/ Merge \/ WriteLadders \/ DropDuplicates \/ DuplicatesStay \/ Prune \/ Settle
-----------------------------------------------------------------------------
\* parse_clusters, average_linkage, merge_vectors: whoever aligned the readings, every
\* milestone one of them validated is in one merged milestone and no other, which some run
\* is known to show for each run its members were found in, and which rests on others.
FactsSurviveTheMerge ==
  stage = "merged" =>
    /\ \A x \in Refs(vectors) : Cardinality({k \in DOMAIN merged : x \in merged[k].from}) = 1
    /\ \A k \in DOMAIN merged :
         /\ Consensus(merged[k]) = UNION {Consensus(At(vectors, x)) : x \in merged[k].from}
         /\ merged[k].deps \subseteq DOMAIN merged \ {k}

\* A question of an earlier milestone that is kept and tests the same, if not directly then
\* by way of another that was dropped.
HasAKeeper(k) ==
  LET kept[i \in 1..k] ==
        \/ i \in cut.kept
        \/ \E j \in 1..(i - 1) : /\ <<j, i>> \in cut.alike
                                 /\ questions[j].milestone < questions[i].milestone
                                 /\ kept[j]
  IN kept[k]

\* cross_milestone_duplicates, _prune_unreachable: no question goes unless one of an earlier
\* milestone stands in for it, or a run could be read and none that could had earned it;
\* one a run earned stays.
DroppedForAReason ==
  /\ stage = "apart" => \A k \in DOMAIN questions : HasAKeeper(k)
  /\ stage = "pruned" =>
       \A k \in DOMAIN questions : k \notin cut.kept <=> cut.readable # {} /\ cut.earned[k] = {}

\* The checklist a sample is judged by loses neither a fact nor a question without a reason.
NothingIsLost == FactsSurviveTheMerge /\ DroppedForAReason
=============================================================================
