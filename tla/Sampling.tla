------------------------------ MODULE Sampling ------------------------------
(* Which rows of the dataset an evaluation duels on (shared/sampling.py): the   *)
(* manifest's instances, one row of each, are shuffled by the block hash, and a *)
(* grid of phases and families is filled from them in that order.  The shuffle  *)
(* is a choice: any instance that may still be taken can be the next one.       *)
EXTENDS Integers, Sequences, FiniteSets, FiniteSetsExt, SequencesExt

CONSTANTS
  Counts,       \* the values of sample_count whose grid is laid out
  MaxPicked,    \* bound: counts up to this one are also filled from the pool
  Pool,         \* the instances, by name: what the manifest says of the row of each
  RepoCap       \* REPO_CAP

Phases   == <<"cold", "pre_edit", "at_edit">>
Families == <<"pr", "lm", "combine", "mechanical">>

StepTrim  == <<65, 15, 20>>
FamilyMix == <<50, 15, 10, 25>>

\* long: the phases whose prefix is over MAX_PREFIX_CHARS; edit: its first edit, or 0.
Rows == [family : Range(Families), repo : STRING, python : BOOLEAN,
         asst : Nat, edit : Nat, long : SUBSET Range(Phases)]

ASSUME SamplingAssumption ==
  /\ Counts \subseteq 1..1000      \* as far as Binade reaches
  /\ MaxPicked \in Nat /\ RepoCap \in Nat
  /\ \A i \in DOMAIN Pool : Pool[i] \in Rows

VARIABLES
  count,     \* sample_count
  sample,    \* the instances selected so far, each with the phase its row is cut at
  outcome    \* "filling", "full", or "infeasible", the ValueError

samplingVars == <<count, sample, outcome>>

SumOf(s) == FoldLeft(LAMBDA a, b : a + b, 0, s)
-----------------------------------------------------------------------------
\* round(count * NON_BENCHMARK_LANGUAGE_FRACTION): to even on a half.
LanguageBudget(n) ==
  LET low  == (n * 3) \div 10
      half == (n * 3) % 10
  IN  IF half > 5 \/ (half = 5 /\ low % 2 = 1) THEN low + 1 ELSE low

\* The code sorts on value % 1 of the quotient x / 100 as a float of 53 bits.  Drift is what that
\* is off the true remainder by, in a unit that is the same for every x: quotients of
\* [2^(m-4), 2^(m-3)) are multiples of 2^(m-56).
Binade(x)  == Max({m \in 0..12 : m = 0 \/ 100 * 2^m <= 16 * x})
Power(k)   == (76 * 2^(k % 20)) % 100     \* 2^k % 100, for a k of 20 or more
Drift(x)   ==
  LET off == (x * Power(56 - Binade(x))) % 100 IN
  (IF off < 50 THEN -off ELSE 100 - off) * 2^Binade(x)

\* What share i of x hundredths is sorted by, as a number: its true remainder, of equal ones the
\* drift, then the first of at most 8.
Rank(i, x) == ((x % 100) * 2^19 + Drift(x)) * 8 - i

\* Shares of 100 as n rows: each rounded down, what is left to the largest remainders.
Apportion(shares, n) ==
  LET exact(i)  == n * shares[i]
      ranks     == {Rank(i, exact(i)) : i \in DOMAIN shares}
      ahead(i)  == {r \in ranks : r > Rank(i, exact(i))}
      remainder == n - FoldLeft(LAMBDA sum, share : sum + (n * share) \div 100, 0, shares)
      row(i)    == (exact(i) \div 100) + IF Cardinality(ahead(i)) < remainder THEN 1 ELSE 0
  IN  [i \in DOMAIN shares |-> row(i)]

\* sample_count rows over the phases, the rows of the phases so far over the families.
PhaseShares  == [n \in Counts |-> Apportion(StepTrim, n)]
FamilyShares == [n \in 0..Max(Counts) |-> Apportion(FamilyMix, n)]

\* Mutant: each phase is apportioned to the families on its own.
PhaseRowMutant(allocated, cumulative) ==
  LET own == FamilyShares[cumulative - SumOf(allocated)] IN
  [f \in DOMAIN Families |-> own[f]]

\* What a phase takes of each family: what the phases up to it should have together, less
\* what the earlier ones have.
PhaseRow(allocated, cumulative) ==
  LET target == FamilyShares[cumulative] IN
  [f \in DOMAIN Families |-> IF target[f] > allocated[f] THEN target[f] - allocated[f] ELSE 0]

Grid(n) ==
  LET wants == PhaseShares[n]
      lay(acc, p) ==
        LET row == PhaseRow(acc.allocated, acc.cumulative + wants[p]) IN
        [rows       |-> Append(acc.rows, row),
         allocated  |-> [f \in DOMAIN Families |-> acc.allocated[f] + row[f]],
         cumulative |-> acc.cumulative + wants[p]]
  IN  FoldLeft(lay, [rows |-> <<>>, allocated |-> <<0, 0, 0, 0>>, cumulative |-> 0],
               <<1, 2, 3>>).rows

\* The strata in the order they are filled, one entry for each row they want.
Strata == [n \in Counts |->
  LET grid == Grid(n)
      cell(k) == LET p == ((k - 1) \div 4) + 1
                     f == ((k - 1) % 4) + 1
                 IN  [i \in 1..grid[p][f] |-> [phase |-> Phases[p], family |-> Families[f]]]
  IN  FlattenSeq([k \in 1..12 |-> cell(k)])]

-----------------------------------------------------------------------------
\* The turns a row may be cut at in a phase: before a first turn or two, or at its edit.
Turns(i, phase) ==
  CASE phase = "cold"                          -> {1, 2}
    [] phase # "cold" /\ Pool[i].edit = 0      -> {1}
    [] phase = "pre_edit" /\ Pool[i].edit > 0  -> {Max({1, Pool[i].edit - 2})}
    [] phase = "at_edit" /\ Pool[i].edit > 0   -> {Pool[i].edit}

Picked == {sample[k].instance : k \in DOMAIN sample}
RepoCount(r)   == Cardinality({i \in Picked : Pool[i].repo = r})
OtherLanguages == Cardinality({i \in Picked : ~Pool[i].python})

\* The conditions the loop skips an entry on, but for the turn it draws.
Passable(i, stratum) ==
  /\ i \notin Picked
  /\ Pool[i].family = stratum.family
  /\ RepoCount(Pool[i].repo) < RepoCap
  /\ stratum.phase \notin Pool[i].long
  /\ Pool[i].python \/ OtherLanguages < LanguageBudget(count)

SamplingInit ==
  /\ count \in Counts
  /\ sample = <<>>
  /\ outcome = "filling"

Take(i) ==
  LET stratum == Strata[count][Len(sample) + 1] IN
  /\ outcome = "filling" /\ count <= MaxPicked
  /\ Len(sample) < Len(Strata[count])
  /\ Passable(i, stratum)
  /\ \E turn \in Turns(i, stratum.phase) : turn < Pool[i].asst
  /\ sample' = Append(sample, [instance |-> i, phase |-> stratum.phase])
  /\ UNCHANGED <<count, outcome>>

\* "infeasible stratum": the pool is through, each row skipped or too short for its draw.
RunsOut ==
  /\ outcome = "filling" /\ count <= MaxPicked
  /\ Len(sample) < Len(Strata[count])
  /\ \A i \in DOMAIN Pool : Passable(i, Strata[count][Len(sample) + 1])
       => \E turn \in Turns(i, Strata[count][Len(sample) + 1].phase) : turn >= Pool[i].asst
  /\ outcome' = "infeasible"
  /\ UNCHANGED <<count, sample>>

Fills ==
  /\ outcome = "filling" /\ count <= MaxPicked
  /\ Len(sample) = Len(Strata[count])
  /\ outcome' = "full"
  /\ UNCHANGED <<count, sample>>

SamplingNext == (\E i \in DOMAIN Pool : Take(i)) \/ RunsOut \/ Fills
-----------------------------------------------------------------------------
InPhase(p)  == Cardinality({k \in DOMAIN sample : sample[k].phase = Phases[p]})
InFamily(f) == Cardinality({i \in Picked : Pool[i].family = Families[f]})

\* _family_grid: rounding phase by phase neither adds nor loses a row of a phase, nor one of
\* a family against rounding the families at once.
MixAddsUp ==
  \A n \in Counts :
    LET grid == Grid(n) IN
    /\ \A p \in DOMAIN Phases : SumOf(grid[p]) = PhaseShares[n][p]
    /\ \A f \in DOMAIN Families :
         grid[1][f] + grid[2][f] + grid[3][f] = FamilyShares[n][f]

\* _family_grid, multi_source_manifest_sample_ids: whatever the count, its rows are the mix;
\* a full sample is that mix, of different instances, within the caps of repositories and
\* of other languages.
SampleIsTheMix ==
  /\ MixAddsUp
  /\ \A i \in Picked : RepoCount(Pool[i].repo) <= RepoCap
  /\ OtherLanguages <= LanguageBudget(count)
  /\ outcome = "full" =>
       /\ Cardinality(Picked) = count
       /\ \A p \in DOMAIN Phases : InPhase(p) = PhaseShares[count][p]
       /\ \A f \in DOMAIN Families : InFamily(f) = FamilyShares[count][f]
=============================================================================
