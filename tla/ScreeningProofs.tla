--------------------------- MODULE ScreeningProofs ---------------------------
(***************************************************************************)
(* TriesAreInStep and VerdictStands of Screening, proved for any number of *)
(* submissions, hotkeys, attempts, strikes, retries and faults; and then   *)
(* AcceptedIsGuarded of Dedup, the gate the validation worker runs, for    *)
(* any models, miners, weights, attempts and crashes.                      *)
(***************************************************************************)
EXTENDS Screening, Dedup, SequenceTheorems, FiniteSetTheorems, TLAPS

----------------------------------------------------------------------------
(* The inductive invariant. *)

StateOf(s, g, n) == tries[s][g][n].state

Failed(s) == {n \in DOMAIN tries[s]["PRE_EVAL"] :
                StateOf(s, "PRE_EVAL", n) \in {"FAILED_RETRYABLE", "ABANDONED"}}

OnlyTheLastRuns(s) ==
  \A g \in Stages :
    /\ InState(s, {RunningState(g)}) <=> Running(s, g)
    /\ \A n \in DOMAIN tries[s][g] : StateOf(s, g, n) = "RUNNING" => n = LastTry(s, g)

WaitsForAClaim(s) ==
  InState(s, {"HIPPIUS_VALIDATED", "PRE_EVAL_RUNNING", "PRE_EVAL_RETRYABLE"}) =>
    subs[s].retry < MaxRetry /\ Cardinality(Failed(s)) <= subs[s].retry

\* The gate comes after the validation: before, nothing is charged to it.
GateComesAfter(s) ==
  InState(s, {"ABSENT", "COMMITTED", "SUBMITTED", "HIPPIUS_RUNNING", "HIPPIUS_RETRYABLE"}) =>
    tries[s]["PRE_EVAL"] = <<>>

SubHolds(s) == OnlyTheLastRuns(s) /\ WaitsForAClaim(s) /\ GateComesAfter(s)

\* Only the worker itself sweeps its stage, so the attempt it checks cannot be swept.
ValidatorHolds ==
  IF validator.pc \in {"check", "validate"}
  THEN /\ validator.sub \in Subs /\ InState(validator.sub, {"HIPPIUS_RUNNING"})
       /\ validator.pc = "check" => validator.nth \in 1..Len(Checks)
  ELSE validator.sub = NoSub

\* The sweeper may have taken the attempt from the gate, and nobody else has had the
\* submission since.
GateHolds ==
  IF gate.pc = "run"
  THEN LET s == gate.sub
           last == LastTry(s, "PRE_EVAL")
       IN  /\ s \in Subs /\ last >= 1
           /\ \/ InState(s, {"PRE_EVAL_RUNNING"}) /\ StateOf(s, "PRE_EVAL", last) = "RUNNING"
              \/ /\ StateOf(s, "PRE_EVAL", last) = "ABANDONED"
                 /\ InState(s, {"PRE_EVAL_RETRYABLE", "TERMINAL_INVALID"})
                 /\ subs[s].fault = "infra"
                 /\ InState(s, {"TERMINAL_INVALID"}) => subs[s].retry >= MaxRetry
  ELSE gate.sub = NoSub

IInv == TypeOK /\ (\A s \in Subs : SubHolds(s)) /\ ValidatorHolds /\ GateHolds

----------------------------------------------------------------------------
(* What the steps do to the attempts. *)

TryTable == [Subs -> [Stages -> Seq(TryRow)]]

LEMMA LastTryType ==
  ASSUME TypeOK, NEW s \in Subs, NEW g \in Stages
  PROVE  /\ tries[s][g] \in Seq(TryRow) /\ LastTry(s, g) \in Nat
         /\ DOMAIN tries[s][g] = 1..LastTry(s, g)
  BY DEF TypeOK, LastTry

\* A claim adds a running attempt.
LEMMA ClaimTry ==
  ASSUME TypeOK, NEW s \in Subs, NEW g \in Stages, tries' = Claim(s, g)
  PROVE  /\ tries' \in TryTable
         /\ \A t \in Subs \ {s} : tries'[t] = tries[t]
         /\ \A h \in Stages \ {g} : tries'[s][h] = tries[s][h]
         /\ LastTry(s, g)' = LastTry(s, g) + 1
         /\ \A n \in 1..LastTry(s, g) : StateOf(s, g, n)' = StateOf(s, g, n)
         /\ StateOf(s, g, LastTry(s, g))' = "RUNNING"
  <1> DEFINE r == [state |-> "RUNNING", leased |-> TRUE]
             old == tries[s][g]
  <1>1. r \in TryRow /\ old \in Seq(TryRow) /\ r.state = "RUNNING"
    BY DEF TypeOK, TryRow, TryStates
  <1>2. tries' = [tries EXCEPT ![s] = [tries[s] EXCEPT ![g] = Append(old, r)]]
    BY DEF Claim, TypeOK
  <1> HIDE DEF r, old
  <1>3. /\ Append(old, r) \in Seq(TryRow) /\ Len(Append(old, r)) = Len(old) + 1
        /\ \A n \in 1..Len(old) : Append(old, r)[n] = old[n]
        /\ Append(old, r)[Len(old) + 1] = r
    BY <1>1
  <1>4. /\ tries'[s][g] = Append(old, r) /\ tries' \in TryTable
        /\ \A t \in Subs \ {s} : tries'[t] = tries[t]
        /\ \A h \in Stages \ {g} : tries'[s][h] = tries[s][h]
    BY <1>2, <1>3 DEF TypeOK, TryTable
  <1>5. old = tries[s][g]
    BY DEF old
  <1>6. QED
    BY <1>1, <1>3, <1>4, <1>5 DEF LastTry, StateOf

\* An attempt that ends does so where it is.
LEMMA FinishTry ==
  ASSUME TypeOK, NEW s \in Subs, NEW g \in Stages, NEW st \in TryStates,
         tries' = Finish(s, g, st), LastTry(s, g) >= 1
  PROVE  /\ tries' \in TryTable
         /\ \A t \in Subs \ {s} : tries'[t] = tries[t]
         /\ \A h \in Stages \ {g} : tries'[s][h] = tries[s][h]
         /\ LastTry(s, g)' = LastTry(s, g)
         /\ \A n \in 1..LastTry(s, g) :
              StateOf(s, g, n)' = IF n = LastTry(s, g) THEN st ELSE StateOf(s, g, n)
  <1> DEFINE old == tries[s][g]
             last == LastTry(s, g)
             row == [old[last] EXCEPT !.state = st]
             new == [old EXCEPT ![last] = row]
  <1>1. old \in Seq(TryRow) /\ last = Len(old) /\ last \in 1..Len(old)
    BY LastTryType DEF LastTry
  <1>2. tries' = [tries EXCEPT ![s] = [tries[s] EXCEPT ![g] = new]]
    BY DEF Finish, TypeOK
  <1>3. row \in TryRow /\ row.state = st
    <2>1. old[last] \in TryRow
      BY <1>1
    <2>2. QED
      BY <2>1 DEF TryRow
  <1> HIDE DEF row
  <1>4. /\ new \in Seq(TryRow) /\ Len(new) = Len(old)
        /\ \A n \in 1..Len(old) : new[n] = IF n = last THEN row ELSE old[n]
    BY <1>1, <1>3
  <1> HIDE DEF new
  <1>5. /\ tries'[s][g] = new /\ tries' \in TryTable
        /\ \A t \in Subs \ {s} : tries'[t] = tries[t]
        /\ \A h \in Stages \ {g} : tries'[s][h] = tries[s][h]
    BY <1>2, <1>4 DEF TypeOK, TryTable
  <1>6. QED
    BY <1>1, <1>3, <1>4, <1>5 DEF LastTry, StateOf

\* A sweep ends the last attempt of each submission it finds.
LEMMA AbandonTry ==
  ASSUME TypeOK, NEW g \in Stages, NEW S \in SUBSET Subs, Abandon(S, g),
         \A s \in S : LastTry(s, g) >= 1
  PROVE  /\ tries' \in TryTable
         /\ \A t \in Subs \ S : tries'[t] = tries[t]
         /\ \A s \in S : /\ \A h \in Stages \ {g} : tries'[s][h] = tries[s][h]
                         /\ LastTry(s, g)' = LastTry(s, g)
                         /\ \A n \in 1..LastTry(s, g) :
                              StateOf(s, g, n)' = IF n = LastTry(s, g) THEN "ABANDONED"
                                                  ELSE StateOf(s, g, n)
  <1>1. /\ \A t \in Subs \ S : tries'[t] = tries[t]
        /\ \A s \in S : tries'[s] = [tries[s] EXCEPT ![g][LastTry(s, g)].state = "ABANDONED"]
        /\ DOMAIN tries' = Subs
        /\ tries' = [t \in Subs |-> tries'[t]]
    BY DEF Abandon
  <1>2. ASSUME NEW s \in S
        PROVE  /\ tries'[s] \in [Stages -> Seq(TryRow)]
               /\ \A h \in Stages \ {g} : tries'[s][h] = tries[s][h]
               /\ Len(tries'[s][g]) = LastTry(s, g)
               /\ \A n \in 1..LastTry(s, g) :
                    tries'[s][g][n].state = IF n = LastTry(s, g) THEN "ABANDONED"
                                            ELSE tries[s][g][n].state
    <2> DEFINE old == tries[s][g]
               last == LastTry(s, g)
               row == [old[last] EXCEPT !.state = "ABANDONED"]
               new == [old EXCEPT ![last] = row]
    <2>1. old \in Seq(TryRow) /\ last = Len(old) /\ last \in 1..Len(old)
      BY LastTryType DEF LastTry
    <2>2. tries'[s] = [tries[s] EXCEPT ![g] = new]
      BY <1>1 DEF TypeOK
    <2>3. row \in TryRow /\ row.state = "ABANDONED"
      <3>1. old[last] \in TryRow
        BY <2>1
      <3>2. QED
        BY <3>1 DEF TryRow, TryStates
    <2> HIDE DEF row
    <2>4. /\ new \in Seq(TryRow) /\ Len(new) = Len(old)
          /\ \A n \in 1..Len(old) : new[n] = IF n = last THEN row ELSE old[n]
      BY <2>1, <2>3
    <2> HIDE DEF new
    <2>5. tries[s] \in [Stages -> Seq(TryRow)]
      BY DEF TypeOK
    <2>6. QED
      BY <2>1, <2>2, <2>3, <2>4, <2>5
  <1>3. tries' \in TryTable
    <2>1. \A t \in Subs : tries'[t] \in [Stages -> Seq(TryRow)]
      BY <1>1, <1>2 DEF TypeOK
    <2>2. QED
      BY <1>1, <2>1 DEF TryTable
  <1>4. QED
    BY <1>1, <1>2, <1>3 DEF LastTry, StateOf

----------------------------------------------------------------------------
(* What they do to a submission. *)

LEMMA FailedFinite ==
  ASSUME TypeOK, NEW s \in Subs
  PROVE  IsFiniteSet(Failed(s)) /\ Cardinality(Failed(s)) \in Nat
  <1>1. IsFiniteSet(1..LastTry(s, "PRE_EVAL"))
    BY LastTryType, FS_Interval DEF Stages
  <1>2. Failed(s) \subseteq 1..LastTry(s, "PRE_EVAL")
    BY LastTryType DEF Failed, Stages
  <1>3. QED
    BY <1>1, <1>2, FS_Subset, FS_CardinalityType

\* A submission whose rows are untouched.
LEMMA Untouched ==
  ASSUME NEW t \in Subs, SubHolds(t), subs'[t] = subs[t], tries'[t] = tries[t]
  PROVE  SubHolds(t)'
  BY DEF SubHolds, OnlyTheLastRuns, WaitsForAClaim, GateComesAfter, InState, Running, StateOf,
     LastTry, Failed

\* A change of state within a stage's waiting or resting states, without a change of attempts.
LEMMA Moved ==
  ASSUME NEW t \in Subs, SubHolds(t), tries'[t] = tries[t],
         ~InState(t, {"HIPPIUS_RUNNING", "PRE_EVAL_RUNNING"}),
         ~InState(t, {"HIPPIUS_RUNNING", "PRE_EVAL_RUNNING"})',
         ~InState(t, {"HIPPIUS_VALIDATED", "PRE_EVAL_RETRYABLE"})',
         GateComesAfter(t)'
  PROVE  SubHolds(t)'
  <1>1. OnlyTheLastRuns(t)'
    BY DEF SubHolds, OnlyTheLastRuns, InState, Running, StateOf, LastTry, RunningState
  <1>2. WaitsForAClaim(t)'
    BY DEF WaitsForAClaim, InState
  <1>3. QED
    BY <1>1, <1>2 DEF SubHolds

\* A claim: the one attempt that runs is the new one.
LEMMA ClaimedRuns ==
  ASSUME TypeOK, NEW s \in Subs, NEW g \in Stages, SubHolds(s),
         ~InState(s, {"HIPPIUS_RUNNING", "PRE_EVAL_RUNNING"}),
         tries' = Claim(s, g), subs'[s].state = RunningState(g)
  PROVE  OnlyTheLastRuns(s)'
  <1>1. /\ \A h \in Stages \ {g} : tries'[s][h] = tries[s][h]
        /\ LastTry(s, g)' = LastTry(s, g) + 1
        /\ \A n \in 1..LastTry(s, g) : StateOf(s, g, n)' = StateOf(s, g, n)
        /\ StateOf(s, g, LastTry(s, g))' = "RUNNING"
        /\ tries' \in TryTable
    BY ClaimTry
  <1>2. \A h \in Stages : RunningState(h) \in {"HIPPIUS_RUNNING", "PRE_EVAL_RUNNING"}
    BY DEF RunningState
  <1>3. \A h \in Stages \ {g} : RunningState(h) # RunningState(g)
    BY DEF RunningState, Stages
  <1>4. ASSUME NEW h \in Stages
        PROVE  ~Running(s, h) /\ \A n \in 1..LastTry(s, h) : StateOf(s, h, n) # "RUNNING"
    BY <1>2, LastTryType DEF SubHolds, OnlyTheLastRuns, InState, Running, StateOf
  <1>5. ASSUME NEW h \in Stages \ {g}
        PROVE  /\ InState(s, {RunningState(h)})' <=> Running(s, h)'
               /\ \A n \in DOMAIN tries'[s][h] : StateOf(s, h, n)' = "RUNNING" => n = LastTry(s, h)'
    BY <1>1, <1>3, <1>4, LastTryType DEF InState, Running, StateOf, LastTry
  <1>6. /\ InState(s, {RunningState(g)})' <=> Running(s, g)'
        /\ \A n \in DOMAIN tries'[s][g] : StateOf(s, g, n)' = "RUNNING" => n = LastTry(s, g)'
    <2>1. DOMAIN tries'[s][g] = 1..LastTry(s, g)' /\ LastTry(s, g) \in Nat
      BY <1>1, LastTryType DEF TryTable, LastTry
    <2>2. InState(s, {RunningState(g)})'
      BY DEF InState
    <2>3. Running(s, g)'
      BY <1>1, <2>1 DEF Running, StateOf
    <2>4. QED
      BY <1>1, <1>4, <2>1, <2>2, <2>3
  <1>7. QED
    BY <1>5, <1>6 DEF OnlyTheLastRuns

\* An end: no attempt of the submission runs.
LEMMA EndedRuns ==
  ASSUME TypeOK, NEW s \in Subs, NEW g \in Stages, OnlyTheLastRuns(s), LastTry(s, g) >= 1,
         NEW st \in TryStates \ {"RUNNING"},
         \A h \in Stages \ {g} : tries'[s][h] = tries[s][h] /\ ~InState(s, {RunningState(h)}),
         tries'[s][g] \in Seq(TryRow), LastTry(s, g)' = LastTry(s, g),
         \A n \in 1..LastTry(s, g) :
           StateOf(s, g, n)' = IF n = LastTry(s, g) THEN st ELSE StateOf(s, g, n),
         ~InState(s, {"HIPPIUS_RUNNING", "PRE_EVAL_RUNNING"})'
  PROVE  OnlyTheLastRuns(s)'
  <1>1. \A h \in Stages : ~InState(s, {RunningState(h)})'
    BY DEF RunningState, InState
  <1>2. ASSUME NEW h \in Stages \ {g}
        PROVE  ~Running(s, h)' /\ \A n \in DOMAIN tries'[s][h] : StateOf(s, h, n)' # "RUNNING"
    BY DEF OnlyTheLastRuns, Running, StateOf
  <1>3. ~Running(s, g)' /\ \A n \in DOMAIN tries'[s][g] : StateOf(s, g, n)' # "RUNNING"
    <2>1. DOMAIN tries'[s][g] = 1..LastTry(s, g) /\ DOMAIN tries[s][g] = 1..LastTry(s, g)
      BY LastTryType DEF LastTry
    <2>2. \A n \in 1..LastTry(s, g) : StateOf(s, g, n)' # "RUNNING"
      BY <2>1 DEF OnlyTheLastRuns
    <2>3. QED
      BY <2>1, <2>2 DEF Running, StateOf
  <1>4. QED
    BY <1>1, <1>2, <1>3 DEF OnlyTheLastRuns

\* One charge more, or none.
LEMMA Charges ==
  ASSUME TypeOK, NEW s \in Subs, NEW x,
         Cardinality(Failed(s)) <= subs[s].retry, subs'[s].retry \in Nat,
         \/ Failed(s)' \subseteq Failed(s) /\ subs'[s].retry >= subs[s].retry
         \/ Failed(s)' \subseteq Failed(s) \cup {x} /\ subs'[s].retry >= subs[s].retry + 1
  PROVE  Cardinality(Failed(s)') <= subs'[s].retry
  <1>1. IsFiniteSet(Failed(s)) /\ Cardinality(Failed(s)) \in Nat /\ subs[s].retry \in Nat
    BY FailedFinite DEF TypeOK, SubRow
  <1>2. CASE Failed(s)' \subseteq Failed(s) /\ subs'[s].retry >= subs[s].retry
    <2>1. Cardinality(Failed(s)') <= Cardinality(Failed(s)) /\ Cardinality(Failed(s)') \in Nat
      BY <1>1, <1>2, FS_Subset, FS_CardinalityType
    <2>2. QED
      BY <1>1, <1>2, <2>1
  <1>3. CASE Failed(s)' \subseteq Failed(s) \cup {x} /\ subs'[s].retry >= subs[s].retry + 1
    <2>1. /\ IsFiniteSet(Failed(s) \cup {x})
          /\ Cardinality(Failed(s) \cup {x}) <= Cardinality(Failed(s)) + 1
          /\ Cardinality(Failed(s) \cup {x}) \in Nat
      <3> DEFINE F == Failed(s)
      <3>1. IsFiniteSet(F) /\ Cardinality(F) \in Nat
        BY <1>1
      <3> HIDE DEF F
      <3>2. IsFiniteSet(F \cup {x}) /\ Cardinality(F \cup {x}) = IF x \in F THEN Cardinality(F) ELSE Cardinality(F) + 1
        BY <3>1, FS_AddElement
      <3>3. QED
        BY <3>1, <3>2 DEF F
    <2>2. Cardinality(Failed(s)') <= Cardinality(Failed(s) \cup {x}) /\ Cardinality(Failed(s)') \in Nat
      BY <1>3, <2>1, FS_Subset, FS_CardinalityType
    <2>3. QED
      BY <1>1, <1>3, <2>1, <2>2
  <1>4. QED
    BY <1>2, <1>3

----------------------------------------------------------------------------
(* What the workers hold. *)

LEMMA GateKept ==
  ASSUME GateHolds, gate' = gate,
         gate.pc = "run" => subs'[gate.sub] = subs[gate.sub] /\ tries'[gate.sub] = tries[gate.sub]
  PROVE  GateHolds'
  BY DEF GateHolds, InState, StateOf, LastTry

LEMMA ValidatorKept ==
  ASSUME ValidatorHolds, validator' = validator,
         validator.pc \in {"check", "validate"} => subs'[validator.sub].state = subs[validator.sub].state
  PROVE  ValidatorHolds'
  BY DEF ValidatorHolds, InState

LEMMA LookingHolds == ASSUME validator' = Looking PROVE ValidatorHolds'
  BY DEF ValidatorHolds, Looking

LEMMA RunningTry ==
  ASSUME TypeOK, NEW s \in Subs, NEW g \in Stages, Running(s, g)
  PROVE  LastTry(s, g) >= 1
  BY LastTryType DEF Running

LEMMA InitIInv == Init => IInv
  <1> SUFFICES ASSUME Init PROVE IInv
    OBVIOUS
  <1>1. TypeOK
    BY CountsAssumption DEF Init, TypeOK, SubRow, SubStates, SubFaults, TryRow, ValidatorRow, GateRow,
       Looking, Checks
  <1>2. ASSUME NEW s \in Subs PROVE SubHolds(s)
    <2>1. \A g \in Stages : tries[s][g] = <<>> /\ RunningState(g) # "ABSENT"
      BY DEF Init, RunningState
    <2>2. subs[s].state = "ABSENT"
      BY DEF Init
    <2>3. \A g \in Stages : DOMAIN tries[s][g] = {}
      BY <2>1
    <2>4. OnlyTheLastRuns(s)
      BY <2>1, <2>2, <2>3 DEF OnlyTheLastRuns, InState, Running
    <2>5. QED
      BY <2>1, <2>2, <2>4 DEF SubHolds, WaitsForAClaim, GateComesAfter, InState, Stages
  <1>3. QED
    BY <1>1, <1>2 DEF IInv, Init, ValidatorHolds, GateHolds, Looking

----------------------------------------------------------------------------
(* Steps that leave the attempts' states alone. *)

\* Submissions move where nobody holds them.
LEMMA MovesInv ==
  ASSUME IInv, NEW S \in SUBSET Subs, subs' \in [Subs -> SubRow],
         \A t \in Subs \ S : subs'[t] = subs[t],
         \A t \in S : /\ InState(t, {"ABSENT", "COMMITTED", "SUBMITTED", "PRE_EVAL_PASSED"})
                      /\ InState(t, {"COMMITTED", "SUBMITTED", "EVAL_QUEUED"})'
                      /\ InState(t, {"COMMITTED", "SUBMITTED"})' => ~InState(t, {"PRE_EVAL_PASSED"}),
         UNCHANGED <<tries, oldReg, gate, faults>>,
         validator' = validator \/ (validator' = Looking /\ validator.pc \notin {"check", "validate"})
  PROVE  IInv'
  <1>1. TypeOK'
    BY DEF IInv, TypeOK, Looking, ValidatorRow
  <1>2. ASSUME NEW t \in Subs PROVE SubHolds(t)'
    <2>1. CASE t \notin S
      BY <2>1, Untouched DEF IInv
    <2>2. CASE t \in S
      <3>1. GateComesAfter(t)'
        BY <2>2 DEF IInv, SubHolds, GateComesAfter, InState
      <3>2. /\ ~InState(t, {"HIPPIUS_RUNNING", "PRE_EVAL_RUNNING"})
            /\ ~InState(t, {"HIPPIUS_RUNNING", "PRE_EVAL_RUNNING"})'
            /\ ~InState(t, {"HIPPIUS_VALIDATED", "PRE_EVAL_RETRYABLE"})'
        BY <2>2 DEF InState
      <3>3. QED
        BY <3>1, <3>2, Moved DEF IInv
    <2>3. QED
      BY <2>1, <2>2
  <1>3. GateHolds'
    <2>1. gate.pc = "run" => gate.sub \notin S /\ gate.sub \in Subs
      BY DEF IInv, GateHolds, InState
    <2>2. QED
      BY <2>1, GateKept DEF IInv
  <1>4. ValidatorHolds'
    <2>1. validator.pc \in {"check", "validate"} => validator.sub \notin S /\ validator.sub \in Subs
      BY DEF IInv, ValidatorHolds, InState
    <2>2. QED
      BY <2>1, ValidatorKept, LookingHolds DEF IInv
  <1>5. QED
    BY <1>1, <1>2, <1>3, <1>4 DEF IInv

LEMMA CommitArrivesInv == ASSUME IInv, NEW s \in Subs, CommitArrives(s) PROVE IInv'
  <1>1. subs' \in [Subs -> SubRow] /\ InState(s, {"COMMITTED"})' /\ \A t \in Subs \ {s} : subs'[t] = subs[t]
    BY DEF CommitArrives, IInv, TypeOK, SubRow, SubStates, InState
  <1>2. {s} \in SUBSET Subs /\ \A t \in Subs \ {s} : t \in Subs
    OBVIOUS
  <1>3. QED
    BY <1>1, <1>2, MovesInv DEF CommitArrives, InState

LEMMA ColdkeyKnownInv == ASSUME IInv, NEW s \in Subs, ColdkeyKnown(s) PROVE IInv'
  <1>1. /\ subs' \in [Subs -> SubRow] /\ InState(s, {"SUBMITTED"}) /\ InState(s, {"SUBMITTED"})'
        /\ \A t \in Subs \ {s} : subs'[t] = subs[t]
    BY DEF ColdkeyKnown, IInv, TypeOK, SubRow, SubStates, InState
  <1>2. {s} \in SUBSET Subs
    OBVIOUS
  <1>3. QED
    BY <1>1, <1>2, MovesInv DEF ColdkeyKnown, InState

LEMMA QueuePreEvalPassedInv == ASSUME IInv, QueuePreEvalPassed PROVE IInv'
  <1> DEFINE S == {s \in Subs : InState(s, {"PRE_EVAL_PASSED"})}
  <1>1. subs' \in [Subs -> SubRow]
    BY DEF QueuePreEvalPassed, IInv, TypeOK, SubRow, SubStates
  <1>2. /\ \A t \in Subs \ S : subs'[t] = subs[t]
        /\ \A t \in S : InState(t, {"PRE_EVAL_PASSED"}) /\ InState(t, {"EVAL_QUEUED"})'
    BY DEF QueuePreEvalPassed, InState, IInv, TypeOK, SubRow
  <1>3. QED
    BY <1>1, <1>2, MovesInv DEF QueuePreEvalPassed, InState

LEMMA EnqueueInv ==
  ASSUME IInv, subs' = Enqueue, validator' = Looking, validator.pc \notin {"check", "validate"},
         UNCHANGED <<tries, oldReg, gate, faults>>
  PROVE  IInv'
  <1> DEFINE S == {s \in Subs : InState(s, {"COMMITTED"})}
  <1>1. subs' \in [Subs -> SubRow]
    BY DEF Enqueue, IInv, TypeOK, SubRow, SubStates
  <1>2. /\ \A t \in Subs \ S : subs'[t] = subs[t]
        /\ \A t \in S : InState(t, {"COMMITTED"}) /\ InState(t, {"SUBMITTED"})'
    BY DEF Enqueue, InState, IInv, TypeOK, SubRow
  <1>3. QED
    BY <1>1, <1>2, MovesInv DEF InState

LEMMA ReregisterInv == ASSUME IInv, NEW h \in Hotkeys, Reregister(h) PROVE IInv'
  <1>1. TypeOK'
    BY DEF IInv, TypeOK, Reregister
  <1>2. UNCHANGED <<subs, tries, validator, gate>>
    BY DEF Reregister
  <1>3. QED
    BY <1>1, <1>2, Untouched, GateKept, ValidatorKept DEF IInv

\* A lease runs out: no state changes.
LEMMA LeaseExpiresInv == ASSUME IInv, NEW s \in Subs, NEW g \in Stages, LeaseExpires(s, g) PROVE IInv'
  <1> DEFINE old == tries[s][g]
             last == LastTry(s, g)
             row == [old[last] EXCEPT !.leased = FALSE]
             new == [old EXCEPT ![last] = row]
  <1>1. old \in Seq(TryRow) /\ last = Len(old) /\ last \in 1..Len(old)
    BY LastTryType, RunningTry DEF LastTry, LeaseExpires, IInv
  <1>2. tries' = [tries EXCEPT ![s] = [tries[s] EXCEPT ![g] = new]] /\ UNCHANGED <<subs, oldReg, validator, gate>>
    BY DEF LeaseExpires, IInv, TypeOK
  <1>3. row \in TryRow /\ row.state = old[last].state
    <2>1. old[last] \in TryRow
      BY <1>1
    <2>2. QED
      BY <2>1 DEF TryRow
  <1> HIDE DEF row
  <1>4. /\ new \in Seq(TryRow) /\ Len(new) = Len(old)
        /\ \A n \in 1..Len(old) : new[n].state = old[n].state
    BY <1>1, <1>3
  <1> HIDE DEF new
  <1>5. /\ tries'[s][g] = new /\ tries' \in TryTable
        /\ \A t \in Subs \ {s} : tries'[t] = tries[t]
        /\ \A h \in Stages \ {g} : tries'[s][h] = tries[s][h]
    BY <1>2, <1>4 DEF TypeOK, TryTable, IInv
  <1>6. \A t \in Subs, h \in Stages :
           /\ DOMAIN tries'[t][h] = DOMAIN tries[t][h] /\ LastTry(t, h)' = LastTry(t, h)
           /\ \A n \in DOMAIN tries[t][h] : StateOf(t, h, n)' = StateOf(t, h, n)
           /\ tries[t][h] = <<>> => tries'[t][h] = <<>>
    BY <1>1, <1>4, <1>5 DEF LastTry, StateOf
  <1>7. TypeOK'
    <2>1. faults' \in 0..MaxFaults
      BY CountsAssumption DEF LeaseExpires, Fault, IInv, TypeOK
    <2>2. QED
      BY <1>2, <1>5, <2>1 DEF IInv, TypeOK, TryTable
  <1>8. ASSUME NEW t \in Subs PROVE SubHolds(t)'
    <2>1. \A h \in Stages : Running(t, h)' = Running(t, h)
      BY <1>6 DEF Running, StateOf
    <2>2. Failed(t)' = Failed(t)
      BY <1>6 DEF Failed, Stages
    <2>3. OnlyTheLastRuns(t)'
      BY <1>2, <1>6, <2>1 DEF IInv, SubHolds, OnlyTheLastRuns, InState
    <2>4. WaitsForAClaim(t)' /\ GateComesAfter(t)'
      BY <1>2, <1>6, <2>2 DEF IInv, SubHolds, WaitsForAClaim, GateComesAfter, InState, Stages
    <2>5. QED
      BY <2>3, <2>4 DEF SubHolds
  <1>9. GateHolds'
    <2>1. gate.pc = "run" =>
            /\ gate.sub \in Subs /\ LastTry(gate.sub, "PRE_EVAL") \in DOMAIN tries[gate.sub]["PRE_EVAL"]
      BY LastTryType DEF IInv, GateHolds, Stages
    <2>2. QED
      BY <1>2, <1>6, <2>1 DEF IInv, GateHolds, InState, Stages
  <1>10. ValidatorHolds'
    BY <1>2, ValidatorKept DEF IInv
  <1>11. QED
    BY <1>7, <1>8, <1>9, <1>10 DEF IInv

----------------------------------------------------------------------------
(* The validation worker. *)

\* A stage's sweep: the attempt is past its lease, its submission still in the stage.
LEMMA ExpiredTry ==
  ASSUME TypeOK, NEW s \in Subs, NEW g \in Stages, Expired(s, g)
  PROVE  LastTry(s, g) >= 1 /\ InState(s, {RunningState(g)})
  BY RunningTry DEF Expired

LEMMA StartInv == ASSUME IInv, Start PROVE IInv'
  BY EnqueueInv DEF Start, Resume

LEMMA ClaimNoneInv == ASSUME IInv, ClaimNone PROVE IInv'
  BY EnqueueInv DEF ClaimNone, Resume

LEMMA SweepExpiredInv == ASSUME IInv, SweepExpired PROVE IInv'
  <1> DEFINE S == {s \in Subs : Expired(s, "HIPPIUS")}
  <1>1. /\ Abandon(S, "HIPPIUS") /\ validator.pc = "sweep"
        /\ subs' = [s \in Subs |-> IF s \in S
                      THEN [subs[s] EXCEPT !.state = "HIPPIUS_RETRYABLE", !.fault = "infra", !.retry = @ + 1]
                      ELSE subs[s]]
        /\ validator' = [validator EXCEPT !.pc = "claim"] /\ UNCHANGED <<oldReg, gate, faults>>
    BY DEF SweepExpired
  <1>2. S \in SUBSET Subs /\ \A s \in S : LastTry(s, "HIPPIUS") >= 1 /\ InState(s, {"HIPPIUS_RUNNING"})
    BY ExpiredTry DEF IInv, Stages, RunningState
  <1> HIDE DEF S
  <1>3. /\ tries' \in TryTable
        /\ \A t \in Subs \ S : tries'[t] = tries[t]
        /\ \A s \in S : /\ \A h \in Stages \ {"HIPPIUS"} : tries'[s][h] = tries[s][h]
                        /\ LastTry(s, "HIPPIUS")' = LastTry(s, "HIPPIUS")
                        /\ \A n \in 1..LastTry(s, "HIPPIUS") :
                             StateOf(s, "HIPPIUS", n)' = IF n = LastTry(s, "HIPPIUS") THEN "ABANDONED"
                                                         ELSE StateOf(s, "HIPPIUS", n)
    BY <1>1, <1>2, AbandonTry DEF IInv, Stages
  <1>4. TypeOK'
    <2>1. subs' \in [Subs -> SubRow]
      <3>1. \A s \in Subs : [subs[s] EXCEPT !.state = "HIPPIUS_RETRYABLE", !.fault = "infra", !.retry = @ + 1] \in SubRow
        <4>1. TAKE s \in Subs
        <4>2. "HIPPIUS_RETRYABLE" \in SubStates /\ "infra" \in SubFaults
          BY DEF SubStates, SubFaults
        <4>3. subs[s] \in SubRow /\ subs[s].retry + 1 \in Nat
          BY DEF IInv, TypeOK, SubRow
        <4>4. QED
          BY <4>2, <4>3 DEF SubRow
      <3>2. QED
        BY <1>1, <3>1 DEF IInv, TypeOK
    <2>2. QED
      BY <1>1, <1>3, <2>1 DEF IInv, TypeOK, TryTable, ValidatorRow
  <1>5. ASSUME NEW t \in Subs PROVE SubHolds(t)'
    <2>1. CASE t \notin S
      BY <1>1, <1>3, <2>1, Untouched DEF IInv
    <2>2. CASE t \in S
      <3>1. subs'[t].state = "HIPPIUS_RETRYABLE"
        BY <1>1, <2>2 DEF IInv, TypeOK, SubRow
      <3>2. OnlyTheLastRuns(t)'
        <4>1. /\ ~InState(t, {"HIPPIUS_RUNNING", "PRE_EVAL_RUNNING"})' /\ "HIPPIUS" \in Stages
              /\ "ABANDONED" \in TryStates \ {"RUNNING"} /\ LastTry(t, "HIPPIUS") >= 1
          BY <1>2, <2>2, <3>1 DEF InState, Stages, TryStates
        <4>2. \A h \in Stages \ {"HIPPIUS"} : tries'[t][h] = tries[t][h] /\ ~InState(t, {RunningState(h)})
          BY <1>2, <1>3, <2>2 DEF InState, RunningState
        <4>3. tries'[t]["HIPPIUS"] \in Seq(TryRow)
          BY <1>3, <4>1 DEF TryTable
        <4>4. QED
          BY <1>3, <2>2, <4>1, <4>2, <4>3, EndedRuns DEF IInv, SubHolds
      <3>3. WaitsForAClaim(t)'
        BY <3>1 DEF WaitsForAClaim, InState
      <3>4. GateComesAfter(t)'
        BY <1>2, <1>3, <2>2 DEF IInv, SubHolds, GateComesAfter, InState, Stages
      <3>5. QED
        BY <3>2, <3>3, <3>4 DEF SubHolds
    <2>3. QED
      BY <2>1, <2>2
  <1>6. GateHolds'
    <2>1. gate.pc = "run" => gate.sub \in Subs \ S
      BY <1>2 DEF IInv, GateHolds, InState
    <2>2. QED
      BY <1>1, <1>3, <2>1, GateKept DEF IInv
  <1>7. ValidatorHolds'
    BY <1>1 DEF IInv, ValidatorHolds, TypeOK, ValidatorRow
  <1>8. QED
    BY <1>4, <1>5, <1>6, <1>7 DEF IInv

LEMMA ClaimNextInv == ASSUME IInv, NEW s \in Subs, ClaimNext(s) PROVE IInv'
  <1>1. /\ validator.pc = "claim" /\ InState(s, {"SUBMITTED", "HIPPIUS_RETRYABLE"})
        /\ subs' = [subs EXCEPT ![s].state = "HIPPIUS_RUNNING", ![s].fault = "none"]
        /\ tries' = Claim(s, "HIPPIUS")
        /\ validator' = [pc |-> "check", sub |-> s, nth |-> 1]
        /\ UNCHANGED <<oldReg, gate, faults>>
    BY DEF ClaimNext, First, Claimable
  <1>2. /\ tries' \in TryTable
        /\ \A t \in Subs \ {s} : tries'[t] = tries[t]
        /\ \A h \in Stages \ {"HIPPIUS"} : tries'[s][h] = tries[s][h]
    BY <1>1, ClaimTry DEF IInv, Stages
  <1>3. TypeOK'
    <2> DEFINE row == [[subs[s] EXCEPT !.state = "HIPPIUS_RUNNING"] EXCEPT !.fault = "none"]
    <2>1. row \in SubRow
      BY DEF IInv, TypeOK, SubRow, SubStates, SubFaults
    <2>2. subs' = [subs EXCEPT ![s] = row]
      BY <1>1 DEF IInv, TypeOK
    <2> HIDE DEF row
    <2>3. subs' \in [Subs -> SubRow]
      BY <2>1, <2>2 DEF IInv, TypeOK
    <2>4. validator' \in ValidatorRow
      BY <1>1 DEF ValidatorRow, Checks
    <2>5. QED
      BY <1>1, <1>2, <2>3, <2>4 DEF IInv, TypeOK, TryTable
  <1>4. subs'[s].state = "HIPPIUS_RUNNING" /\ \A t \in Subs \ {s} : subs'[t] = subs[t]
    BY <1>1 DEF IInv, TypeOK, SubRow
  <1>5. ASSUME NEW t \in Subs PROVE SubHolds(t)'
    <2>1. CASE t # s
      BY <1>2, <1>4, <2>1, Untouched DEF IInv
    <2>2. CASE t = s
      <3>1. OnlyTheLastRuns(s)'
        BY <1>1, <1>4, ClaimedRuns DEF IInv, InState, RunningState, Stages
      <3>2. WaitsForAClaim(s)' /\ GateComesAfter(s)'
        BY <1>1, <1>2, <1>4 DEF IInv, SubHolds, WaitsForAClaim, GateComesAfter, InState, Stages
      <3>3. QED
        BY <2>2, <3>1, <3>2 DEF SubHolds
    <2>3. QED
      BY <2>1, <2>2
  <1>6. GateHolds'
    <2>1. gate.pc = "run" => gate.sub \in Subs \ {s}
      BY <1>1 DEF IInv, GateHolds, InState
    <2>2. QED
      BY <1>1, <1>2, <1>4, <2>1, GateKept DEF IInv
  <1>7. ValidatorHolds'
    BY <1>1, <1>4 DEF ValidatorHolds, InState, Checks
  <1>8. QED
    BY <1>3, <1>5, <1>6, <1>7 DEF IInv

\* The attempt ends, and the worker looks for the next.
LEMMA HippiusEnds ==
  ASSUME IInv, validator.pc \in {"check", "validate"}, NEW st \in TryStates \ {"RUNNING"},
         tries' = Finish(validator.sub, "HIPPIUS", st),
         NEW row \in SubRow, subs' = [subs EXCEPT ![validator.sub] = row],
         row.state \in {"HIPPIUS_VALIDATED", "HIPPIUS_RETRYABLE", "TERMINAL_INVALID", "TERMINAL_INFRA_FAILED"},
         row.state = "HIPPIUS_VALIDATED" => row.retry = 0,
         validator' = Looking, UNCHANGED <<oldReg, gate, faults>>
  PROVE  IInv'
  <1>1. PICK s \in Subs : /\ s = validator.sub /\ InState(s, {"HIPPIUS_RUNNING"}) /\ "HIPPIUS" \in Stages
                          /\ tries[s]["PRE_EVAL"] = <<>>
    BY DEF IInv, ValidatorHolds, Stages, SubHolds, GateComesAfter, InState
  <1>2. LastTry(s, "HIPPIUS") >= 1
    BY <1>1, RunningTry DEF IInv, SubHolds, OnlyTheLastRuns, RunningState
  <1>3. subs'[s] = row /\ (\A t \in Subs \ {s} : subs'[t] = subs[t]) /\ tries' = Finish(s, "HIPPIUS", st)
    BY <1>1 DEF IInv, TypeOK
  <1>4. /\ tries' \in TryTable
        /\ \A t \in Subs \ {s} : tries'[t] = tries[t]
        /\ \A h \in Stages \ {"HIPPIUS"} : tries'[s][h] = tries[s][h]
        /\ LastTry(s, "HIPPIUS")' = LastTry(s, "HIPPIUS")
        /\ \A n \in 1..LastTry(s, "HIPPIUS") :
              StateOf(s, "HIPPIUS", n)' = IF n = LastTry(s, "HIPPIUS") THEN st ELSE StateOf(s, "HIPPIUS", n)
    BY <1>1, <1>2, <1>3, FinishTry DEF IInv
  <1>5. TypeOK'
    <2>1. Looking \in ValidatorRow /\ subs' \in [Subs -> SubRow]
      <3>1. Len(Checks) = 5
        BY DEF Checks
      <3>2. Looking \in ValidatorRow
        BY <3>1 DEF Looking, ValidatorRow
      <3>3. QED
        BY <3>2 DEF IInv, TypeOK
    <2>2. QED
      BY <1>4, <2>1 DEF IInv, TypeOK, TryTable
  <1>6. SubHolds(s)'
    <2>1. OnlyTheLastRuns(s)'
      <3>1. ~InState(s, {"HIPPIUS_RUNNING", "PRE_EVAL_RUNNING"})'
        BY <1>3 DEF InState
      <3>2. \A h \in Stages \ {"HIPPIUS"} : tries'[s][h] = tries[s][h] /\ ~InState(s, {RunningState(h)})
        BY <1>1, <1>4 DEF InState, RunningState
      <3>3. tries'[s]["HIPPIUS"] \in Seq(TryRow)
        BY <1>1, <1>4 DEF TryTable
      <3>4. QED
        BY <1>1, <1>2, <1>4, <3>1, <3>2, <3>3, EndedRuns DEF IInv, SubHolds
    <2>2. tries'[s]["PRE_EVAL"] = <<>>
      BY <1>1, <1>4 DEF Stages
    <2>3. WaitsForAClaim(s)'
      <3>1. Failed(s)' = {}
        BY <2>2 DEF Failed
      <3>2. Cardinality(Failed(s)') = 0
        BY <3>1, FS_EmptySet
      <3>3. QED
        BY <1>3, <3>2, CountsAssumption DEF WaitsForAClaim, InState
    <2>4. QED
      BY <2>1, <2>2, <2>3 DEF SubHolds, GateComesAfter
  <1>7. \A t \in Subs : SubHolds(t)'
    BY <1>3, <1>4, <1>6, Untouched DEF IInv
  <1>8. GateHolds'
    <2>1. gate.pc = "run" => gate.sub \in Subs \ {s}
      BY <1>1 DEF IInv, GateHolds, InState
    <2>2. QED
      BY <1>3, <1>4, <2>1, GateKept DEF IInv
  <1>9. QED
    BY <1>5, <1>7, <1>8, LookingHolds DEF IInv

LEMMA FinishInvalidInv ==
  ASSUME IInv, validator.pc \in {"check", "validate"}, NEW f \in SubFaults,
         FinishInvalid(validator.sub, f), Resume, UNCHANGED <<oldReg, gate, faults>>
  PROVE  IInv'
  <1> DEFINE row == [subs[validator.sub] EXCEPT !.state = "TERMINAL_INVALID", !.fault = f]
  <1>1. validator.sub \in Subs
    BY DEF IInv, ValidatorHolds
  <1>2. row \in SubRow /\ row.state = "TERMINAL_INVALID"
    <2>1. subs[validator.sub] \in SubRow /\ "TERMINAL_INVALID" \in SubStates
      BY <1>1 DEF IInv, TypeOK, SubStates
    <2>2. QED
      BY <2>1 DEF SubRow
  <1>3. subs' = [subs EXCEPT ![validator.sub] = row] /\ tries' = Finish(validator.sub, "HIPPIUS", "FAILED_TERMINAL")
    BY <1>1 DEF FinishInvalid, IInv, TypeOK
  <1>4. "FAILED_TERMINAL" \in TryStates \ {"RUNNING"}
    BY DEF TryStates
  <1> HIDE DEF row
  <1>5. QED
    BY <1>2, <1>3, <1>4, HippiusEnds DEF Resume

LEMMA CheckInv == ASSUME IInv, Check PROVE IInv'
  <1>1. validator.pc = "check" /\ UNCHANGED <<oldReg, gate, faults>>
    BY DEF Check
  <1>2. CASE FinishInvalid(validator.sub, "refused") /\ Resume
    BY <1>1, <1>2, FinishInvalidInv DEF SubFaults
  <1>3. CASE /\ validator' = IF validator.nth < Len(Checks) THEN [validator EXCEPT !.nth = @ + 1]
                             ELSE [validator EXCEPT !.pc = "validate", !.nth = @ + 1]
             /\ UNCHANGED <<subs, tries>>
    <2>1. Len(Checks) = 5 /\ validator.nth \in 1..5
      BY <1>1 DEF Checks, IInv, ValidatorHolds
    <2>2. /\ validator' \in ValidatorRow /\ validator'.sub = validator.sub
          /\ (validator'.pc = "check" /\ validator'.nth \in 1..5) \/ validator'.pc = "validate"
      <3>1. validator = [pc |-> "check", sub |-> validator.sub, nth |-> validator.nth]
        BY <1>1 DEF IInv, TypeOK, ValidatorRow
      <3>2. validator.sub \in Subs \cup {NoSub}
        BY DEF IInv, TypeOK, ValidatorRow
      <3>3. CASE validator.nth < 5
        <4>1. validator' = [pc |-> "check", sub |-> validator.sub, nth |-> validator.nth + 1]
          BY <1>3, <2>1, <3>1, <3>3
        <4>2. QED
          BY <2>1, <3>2, <3>3, <4>1 DEF ValidatorRow
      <3>4. CASE ~(validator.nth < 5)
        <4>1. validator' = [pc |-> "validate", sub |-> validator.sub, nth |-> validator.nth + 1]
          BY <1>3, <2>1, <3>1, <3>4
        <4>2. QED
          BY <2>1, <3>2, <4>1 DEF ValidatorRow
      <3>5. QED
        BY <3>3, <3>4
    <2>3. TypeOK' /\ ValidatorHolds'
      BY <1>1, <1>3, <2>1, <2>2 DEF IInv, TypeOK, ValidatorHolds, InState
    <2>4. QED
      BY <1>1, <1>3, <2>3, Untouched, GateKept DEF IInv
  <1>4. QED
    BY <1>2, <1>3 DEF Check

LEMMA ModelPassesInv == ASSUME IInv, ModelPasses PROVE IInv'
  <1>1. PICK s \in Subs : s = validator.sub
    BY DEF ModelPasses, IInv, ValidatorHolds
  <1> DEFINE row == [subs[s] EXCEPT !.state = "HIPPIUS_VALIDATED", !.fault = "none", !.retry = 0]
  <1>2. "HIPPIUS_VALIDATED" \in SubStates /\ "none" \in SubFaults /\ "SUCCEEDED" \in TryStates \ {"RUNNING"}
    BY DEF SubStates, SubFaults, TryStates
  <1>3. row \in SubRow /\ row.state = "HIPPIUS_VALIDATED" /\ row.retry = 0
    BY <1>2 DEF IInv, TypeOK, SubRow
  <1>4. subs' = [subs EXCEPT ![s] = row]
    BY <1>1 DEF ModelPasses, Validated, IInv, TypeOK
  <1> HIDE DEF row
  <1>5. QED
    BY <1>1, <1>2, <1>3, <1>4, HippiusEnds DEF ModelPasses, Resume

LEMMA ModelFailsInv == ASSUME IInv, ModelFails PROVE IInv'
  <1>1. \A f \in {"strike", "duplicate"} : f \in SubFaults
    BY DEF SubFaults, Strikes
  <1>2. QED
    BY <1>1, FinishInvalidInv DEF ModelFails

LEMMA ModelRetriesInv == ASSUME IInv, ModelRetries PROVE IInv'
  <1>1. PICK s \in Subs : s = validator.sub
    BY DEF ModelRetries, IInv, ValidatorHolds
  <1>2. PICK st \in {"TERMINAL_INFRA_FAILED", "HIPPIUS_RETRYABLE"} :
          subs' = [subs EXCEPT ![s].state = st, ![s].fault = "infra", ![s].retry = @ + 1]
    BY <1>1 DEF ModelRetries
  <1>3. PICK t \in {"FAILED_TERMINAL", "FAILED_RETRYABLE"} : tries' = Finish(s, "HIPPIUS", t)
    BY <1>1 DEF ModelRetries
  <1> DEFINE row == [subs[s] EXCEPT !.state = st, !.fault = "infra", !.retry = subs[s].retry + 1]
  <1>4. st \in SubStates /\ "infra" \in SubFaults /\ t \in TryStates \ {"RUNNING"}
    BY DEF SubStates, SubFaults, TryStates
  <1>5. row \in SubRow /\ row.state = st
    <2>1. subs[s] \in SubRow /\ subs[s].retry + 1 \in Nat
      BY DEF IInv, TypeOK, SubRow
    <2>2. QED
      BY <1>4, <2>1 DEF SubRow
  <1>6. subs' = [subs EXCEPT ![s] = row]
    BY <1>2 DEF IInv, TypeOK
  <1> HIDE DEF row
  <1>7. QED
    BY <1>1, <1>3, <1>4, <1>5, <1>6, HippiusEnds DEF ModelRetries, Resume

LEMMA ValidatorFaultsInv == ASSUME IInv, ValidatorFaults PROVE IInv'
  <1>1. UNCHANGED <<subs, tries, oldReg, gate>> /\ faults' \in 0..MaxFaults
    BY CountsAssumption DEF ValidatorFaults, Fault, IInv, TypeOK
  <1>2. validator' \in ValidatorRow /\ validator'.pc \in {"start", "sweep"} /\ validator'.sub = NoSub
    <2>1. Len(Checks) = 5
      BY DEF Checks
    <2>2. QED
      BY <2>1 DEF ValidatorFaults, Resume, Looking, ValidatorRow
  <1>3. TypeOK' /\ ValidatorHolds'
    BY <1>1, <1>2 DEF IInv, TypeOK, ValidatorHolds
  <1>4. QED
    BY <1>1, <1>3, Untouched, GateKept DEF IInv

----------------------------------------------------------------------------
(* The gate and its sweeper. *)

LEMMA ClaimPreEvalInv == ASSUME IInv, NEW s \in Subs, ClaimPreEval(s) PROVE IInv'
  <1>1. /\ gate.pc = "idle" /\ InState(s, {"HIPPIUS_VALIDATED", "PRE_EVAL_RETRYABLE"})
        /\ subs' = [subs EXCEPT ![s].state = "PRE_EVAL_RUNNING", ![s].fault = "none"]
        /\ tries' = Claim(s, "PRE_EVAL")
        /\ gate' = [pc |-> "run", sub |-> s]
        /\ UNCHANGED <<oldReg, validator, faults>>
    BY DEF ClaimPreEval, First, GateQueue
  <1>2. /\ tries' \in TryTable
        /\ \A t \in Subs \ {s} : tries'[t] = tries[t]
        /\ \A h \in Stages \ {"PRE_EVAL"} : tries'[s][h] = tries[s][h]
        /\ LastTry(s, "PRE_EVAL")' = LastTry(s, "PRE_EVAL") + 1
        /\ \A n \in 1..LastTry(s, "PRE_EVAL") : StateOf(s, "PRE_EVAL", n)' = StateOf(s, "PRE_EVAL", n)
        /\ StateOf(s, "PRE_EVAL", LastTry(s, "PRE_EVAL"))' = "RUNNING"
    BY <1>1, ClaimTry DEF IInv, Stages
  <1>3. TypeOK'
    <2>1. "PRE_EVAL_RUNNING" \in SubStates /\ "none" \in SubFaults
      BY DEF SubStates, SubFaults
    <2>2. subs' \in [Subs -> SubRow]
      BY <1>1, <2>1 DEF IInv, TypeOK, SubRow
    <2>3. QED
      BY <1>1, <1>2, <2>2 DEF IInv, TypeOK, TryTable, GateRow
  <1>4. /\ subs'[s].state = "PRE_EVAL_RUNNING" /\ subs'[s].retry = subs[s].retry
        /\ \A t \in Subs \ {s} : subs'[t] = subs[t]
    BY <1>1 DEF IInv, TypeOK, SubRow
  <1>5. LastTry(s, "PRE_EVAL") \in Nat /\ DOMAIN tries[s]["PRE_EVAL"] = 1..LastTry(s, "PRE_EVAL")
        /\ DOMAIN tries'[s]["PRE_EVAL"] = 1..(LastTry(s, "PRE_EVAL") + 1)
    BY <1>2, LastTryType DEF IInv, Stages, TryTable, LastTry
  <1>6. ASSUME NEW t \in Subs PROVE SubHolds(t)'
    <2>1. CASE t # s
      BY <1>2, <1>4, <2>1, Untouched DEF IInv
    <2>2. CASE t = s
      <3>1. OnlyTheLastRuns(s)'
        BY <1>1, <1>4, ClaimedRuns DEF IInv, InState, RunningState, Stages
      <3>2. Failed(s)' = Failed(s)
        <4>1. \A n \in DOMAIN tries'[s]["PRE_EVAL"] : n \in DOMAIN tries[s]["PRE_EVAL"] \/ n = LastTry(s, "PRE_EVAL")'
          BY <1>2, <1>5
        <4>2. \A n \in DOMAIN tries[s]["PRE_EVAL"] : /\ n \in DOMAIN tries'[s]["PRE_EVAL"]
                                                   /\ StateOf(s, "PRE_EVAL", n)' = StateOf(s, "PRE_EVAL", n)
          BY <1>2, <1>5
        <4>3. StateOf(s, "PRE_EVAL", LastTry(s, "PRE_EVAL"))' \notin {"FAILED_RETRYABLE", "ABANDONED"}
          BY <1>2
        <4>4. QED
          BY <4>1, <4>2, <4>3 DEF Failed
      <3>3. WaitsForAClaim(s)' /\ GateComesAfter(s)'
        BY <1>1, <1>4, <3>2 DEF IInv, SubHolds, WaitsForAClaim, GateComesAfter, InState
      <3>4. QED
        BY <2>2, <3>1, <3>3 DEF SubHolds
    <2>3. QED
      BY <2>1, <2>2
  <1>7. GateHolds'
    <2>1. LastTry(s, "PRE_EVAL")' >= 1
      BY <1>2, <1>5
    <2>2. QED
      BY <1>1, <1>2, <1>4, <2>1 DEF GateHolds, InState
  <1>8. ValidatorHolds'
    <2>1. validator.pc \in {"check", "validate"} => validator.sub \in Subs \ {s}
      BY <1>1 DEF IInv, ValidatorHolds, InState
    <2>2. QED
      BY <1>1, <1>4, <2>1, ValidatorKept DEF IInv
  <1>9. QED
    BY <1>3, <1>6, <1>7, <1>8 DEF IInv

Failing == {"FAILED_RETRYABLE", "ABANDONED"}

\* A pre-eval attempt ends for a submission that the gate or nobody else has.
LEMMA PreEvalTry ==
  ASSUME TypeOK, NEW s \in Subs, SubHolds(s), LastTry(s, "PRE_EVAL") >= 1,
         NEW st \in TryStates \ {"RUNNING"},
         tries'[s]["PRE_EVAL"] \in Seq(TryRow), tries'[s]["HIPPIUS"] = tries[s]["HIPPIUS"],
         LastTry(s, "PRE_EVAL")' = LastTry(s, "PRE_EVAL"),
         \A n \in 1..LastTry(s, "PRE_EVAL") :
           StateOf(s, "PRE_EVAL", n)' = IF n = LastTry(s, "PRE_EVAL") THEN st ELSE StateOf(s, "PRE_EVAL", n),
         ~InState(s, {"HIPPIUS_RUNNING"}),
         subs'[s].retry \in Nat,
         \/ InState(s, {"PRE_EVAL_PASSED", "TERMINAL_INVALID"})'
         \/ /\ InState(s, {"PRE_EVAL_RUNNING", "PRE_EVAL_RETRYABLE"})
            /\ InState(s, {"HIPPIUS_VALIDATED", "PRE_EVAL_RETRYABLE"})'
            /\ subs'[s].retry < MaxRetry
            /\ subs'[s].retry >= subs[s].retry + (IF st \in Failing THEN 1 ELSE 0)
  PROVE  SubHolds(s)'
  <1>1. "PRE_EVAL" \in Stages /\ Stages \ {"PRE_EVAL"} = {"HIPPIUS"} /\ RunningState("HIPPIUS") = "HIPPIUS_RUNNING"
    BY DEF Stages, RunningState
  <1>2. ~InState(s, {"HIPPIUS_RUNNING", "PRE_EVAL_RUNNING"})'
    BY DEF InState
  <1>3. OnlyTheLastRuns(s)'
    <2>1. \A h \in Stages \ {"PRE_EVAL"} : tries'[s][h] = tries[s][h] /\ ~InState(s, {RunningState(h)})
      BY <1>1
    <2>2. OnlyTheLastRuns(s)
      BY DEF SubHolds
    <2>3. QED
      BY <1>1, <1>2, <2>1, <2>2, EndedRuns
  <1>4. GateComesAfter(s)'
    BY DEF GateComesAfter, InState
  <1>5. WaitsForAClaim(s)'
    <2>1. CASE InState(s, {"PRE_EVAL_PASSED", "TERMINAL_INVALID"})'
      BY <2>1 DEF WaitsForAClaim, InState
    <2>2. CASE /\ InState(s, {"PRE_EVAL_RUNNING", "PRE_EVAL_RETRYABLE"})
               /\ subs'[s].retry < MaxRetry
               /\ subs'[s].retry >= subs[s].retry + (IF st \in Failing THEN 1 ELSE 0)
      <3>1. Cardinality(Failed(s)) <= subs[s].retry
        BY <2>2 DEF SubHolds, WaitsForAClaim, InState
      <3>2. /\ DOMAIN tries'[s]["PRE_EVAL"] = 1..LastTry(s, "PRE_EVAL")
            /\ DOMAIN tries[s]["PRE_EVAL"] = 1..LastTry(s, "PRE_EVAL")
        BY <1>1, LastTryType DEF LastTry
      <3>3. /\ Failed(s)' \subseteq Failed(s) \cup {LastTry(s, "PRE_EVAL")}
            /\ st \notin Failing => Failed(s)' \subseteq Failed(s)
        BY <3>2 DEF Failed, Failing
      <3>4. \/ Failed(s)' \subseteq Failed(s) /\ subs'[s].retry >= subs[s].retry
            \/ Failed(s)' \subseteq Failed(s) \cup {LastTry(s, "PRE_EVAL")} /\ subs'[s].retry >= subs[s].retry + 1
        <4>1. subs[s].retry \in Nat
          BY DEF TypeOK, SubRow
        <4>2. QED
          BY <2>2, <3>3, <4>1
      <3>5. Cardinality(Failed(s)') <= subs'[s].retry
        BY <3>1, <3>4, Charges
      <3>6. QED
        BY <2>2, <3>5 DEF WaitsForAClaim
    <2>3. QED
      BY <2>1, <2>2
  <1>6. QED
    BY <1>3, <1>4, <1>5 DEF SubHolds

\* The gate ends its attempt, whatever became of it.
LEMMA GateEnds ==
  ASSUME IInv, gate.pc = "run", NEW s \in Subs, s = gate.sub, NEW st \in TryStates \ {"RUNNING"},
         tries' = Finish(s, "PRE_EVAL", st),
         NEW row \in SubRow, subs' = [subs EXCEPT ![s] = row],
         \/ row.state \in {"PRE_EVAL_PASSED", "TERMINAL_INVALID"}
         \/ /\ InState(s, {"PRE_EVAL_RUNNING", "PRE_EVAL_RETRYABLE"})
            /\ row.state \in {"HIPPIUS_VALIDATED", "PRE_EVAL_RETRYABLE"}
            /\ row.retry < MaxRetry
            /\ row.retry >= subs[s].retry + (IF st \in Failing THEN 1 ELSE 0),
         Rest, UNCHANGED <<oldReg, validator>>, faults' \in 0..MaxFaults
  PROVE  IInv'
  <1>1. /\ LastTry(s, "PRE_EVAL") >= 1 /\ "PRE_EVAL" \in Stages
        /\ InState(s, {"PRE_EVAL_RUNNING", "PRE_EVAL_RETRYABLE", "TERMINAL_INVALID"})
    BY DEF IInv, GateHolds, InState, Stages
  <1>2. subs'[s] = row /\ \A t \in Subs \ {s} : subs'[t] = subs[t]
    BY DEF IInv, TypeOK
  <1>3. /\ tries' \in TryTable
        /\ \A t \in Subs \ {s} : tries'[t] = tries[t]
        /\ \A h \in Stages \ {"PRE_EVAL"} : tries'[s][h] = tries[s][h]
        /\ LastTry(s, "PRE_EVAL")' = LastTry(s, "PRE_EVAL")
        /\ \A n \in 1..LastTry(s, "PRE_EVAL") :
              StateOf(s, "PRE_EVAL", n)' = IF n = LastTry(s, "PRE_EVAL") THEN st ELSE StateOf(s, "PRE_EVAL", n)
    BY <1>1, FinishTry DEF IInv
  <1>4. TypeOK'
    BY <1>3 DEF IInv, TypeOK, TryTable, Rest, GateRow
  <1>5. SubHolds(s)'
    <2>1. tries'[s]["PRE_EVAL"] \in Seq(TryRow) /\ tries'[s]["HIPPIUS"] = tries[s]["HIPPIUS"]
      BY <1>3 DEF TryTable, Stages
    <2>2. ~InState(s, {"HIPPIUS_RUNNING"})
      BY <1>1 DEF InState
    <2>3. \/ InState(s, {"PRE_EVAL_PASSED", "TERMINAL_INVALID"})'
          \/ /\ InState(s, {"PRE_EVAL_RUNNING", "PRE_EVAL_RETRYABLE"})
             /\ InState(s, {"HIPPIUS_VALIDATED", "PRE_EVAL_RETRYABLE"})'
             /\ subs'[s].retry < MaxRetry
             /\ subs'[s].retry >= subs[s].retry + (IF st \in Failing THEN 1 ELSE 0)
      BY <1>2 DEF InState
    <2>4. subs'[s].retry \in Nat
      BY <1>2 DEF SubRow
    <2>5. QED
      BY <1>1, <1>3, <2>1, <2>2, <2>3, <2>4, PreEvalTry DEF IInv
  <1>6. \A t \in Subs : SubHolds(t)'
    BY <1>2, <1>3, <1>5, Untouched DEF IInv
  <1>7. GateHolds'
    BY DEF Rest, GateHolds
  <1>8. ValidatorHolds'
    <2>1. validator.pc \in {"check", "validate"} => validator.sub \in Subs \ {s}
      BY <1>1 DEF IInv, ValidatorHolds, InState
    <2>2. QED
      BY <1>2, <2>1, ValidatorKept DEF IInv
  <1>9. QED
    BY <1>4, <1>6, <1>7, <1>8 DEF IInv

LEMMA GateSub == ASSUME IInv, gate.pc = "run" PROVE gate.sub \in Subs
  BY DEF IInv, GateHolds

LEMMA GatePassesInv == ASSUME IInv, GatePasses PROVE IInv'
  <1>1. PICK s \in Subs : s = gate.sub
    BY GateSub DEF GatePasses
  <1> DEFINE row == [subs[s] EXCEPT !.state = "PRE_EVAL_PASSED", !.retry = 0]
  <1>2. "PRE_EVAL_PASSED" \in SubStates /\ "SUCCEEDED" \in TryStates \ {"RUNNING"}
    BY DEF SubStates, TryStates
  <1>3. row \in SubRow /\ row.state = "PRE_EVAL_PASSED"
    BY <1>2 DEF IInv, TypeOK, SubRow
  <1>4. subs' = [subs EXCEPT ![s] = row]
    BY <1>1 DEF GatePasses, IInv, TypeOK
  <1> HIDE DEF row
  <1>5. QED
    BY <1>1, <1>2, <1>3, <1>4, GateEnds DEF GatePasses, IInv, TypeOK

LEMMA GateRejectsInv == ASSUME IInv, GateRejects PROVE IInv'
  <1>1. PICK s \in Subs : s = gate.sub
    BY GateSub DEF GateRejects
  <1>2. PICK f \in {"strike", "blocking"} :
          subs' = [subs EXCEPT ![s].state = "TERMINAL_INVALID", ![s].fault = f, ![s].retry = @ + 1]
    BY <1>1 DEF GateRejects
  <1> DEFINE row == [subs[s] EXCEPT !.state = "TERMINAL_INVALID", !.fault = f, !.retry = subs[s].retry + 1]
  <1>3. "TERMINAL_INVALID" \in SubStates /\ f \in SubFaults /\ "FAILED_TERMINAL" \in TryStates \ {"RUNNING"}
    BY DEF SubStates, SubFaults, Strikes, TryStates
  <1>4. row \in SubRow /\ row.state = "TERMINAL_INVALID"
    <2>1. subs[s] \in SubRow /\ subs[s].retry + 1 \in Nat
      BY DEF IInv, TypeOK, SubRow
    <2>2. QED
      BY <1>3, <2>1 DEF SubRow
  <1>5. subs' = [subs EXCEPT ![s] = row]
    BY <1>2 DEF IInv, TypeOK
  <1> HIDE DEF row
  <1>6. QED
    BY <1>1, <1>3, <1>4, <1>5, GateEnds DEF GateRejects, IInv, TypeOK

\* The charge of an infrastructure failure.
LEMMA ChargedRow ==
  ASSUME TypeOK, NEW s \in Subs
  PROVE  /\ Charged(subs[s]) \in SubRow /\ Charged(subs[s]).fault = "infra"
         /\ Charged(subs[s]).retry = subs[s].retry + 1 /\ subs[s].retry \in Nat
         /\ Charged(subs[s]).state = IF subs[s].retry + 1 >= MaxRetry THEN "TERMINAL_INVALID"
                                     ELSE "PRE_EVAL_RETRYABLE"
  <1>1. subs[s] \in SubRow
    BY DEF TypeOK
  <1>2. {"TERMINAL_INVALID", "PRE_EVAL_RETRYABLE"} \subseteq SubStates /\ "infra" \in SubFaults
    BY DEF SubStates, SubFaults
  <1>3. PICK st \in SubStates : st = IF Exhausted(subs[s]) THEN "TERMINAL_INVALID" ELSE "PRE_EVAL_RETRYABLE"
    BY <1>2
  <1>4. /\ Charged(subs[s]) = [subs[s] EXCEPT !.state = st, !.fault = "infra", !.retry = subs[s].retry + 1]
        /\ subs[s].retry \in Nat
    BY <1>1, <1>3 DEF Charged, SubRow
  <1>5. /\ Charged(subs[s]) \in SubRow /\ Charged(subs[s]).fault = "infra" /\ Charged(subs[s]).state = st
        /\ Charged(subs[s]).retry = subs[s].retry + 1
    <2> DEFINE row == subs[s]
               n == row.retry + 1
               new == [row EXCEPT !.state = st, !.fault = "infra", !.retry = n]
    <2>1. row \in SubRow /\ n \in Nat
      BY <1>1, <1>4
    <2> HIDE DEF row, n
    <2>2. new \in SubRow /\ new.state = st /\ new.fault = "infra" /\ new.retry = n
      BY <1>2, <2>1 DEF SubRow
    <2>3. Charged(subs[s]) = new
      BY <1>4 DEF row, n
    <2>4. QED
      BY <2>2, <2>3 DEF row, n
  <1>6. QED
    BY <1>3, <1>4, <1>5 DEF Exhausted

LEMMA GateFailsInv == ASSUME IInv, GateFails PROVE IInv'
  <1>1. PICK s \in Subs : s = gate.sub
    BY GateSub DEF GateFails
  <1> DEFINE row == Charged(subs[s])
  <1>2. /\ row \in SubRow /\ row.retry = subs[s].retry + 1 /\ subs[s].retry \in Nat
        /\ row.state = IF subs[s].retry + 1 >= MaxRetry THEN "TERMINAL_INVALID" ELSE "PRE_EVAL_RETRYABLE"
    BY ChargedRow DEF IInv
  <1>3. subs' = [subs EXCEPT ![s] = row]
    BY <1>1 DEF GateFails, IInv, TypeOK
  <1> HIDE DEF row
  <1>4. "FAILED_RETRYABLE" \in TryStates \ {"RUNNING"} /\ MaxRetry \in Nat
    BY CountsAssumption DEF TryStates
  <1>5. \/ row.state = "TERMINAL_INVALID"
        \/ InState(s, {"PRE_EVAL_RUNNING", "PRE_EVAL_RETRYABLE"}) /\ row.retry < MaxRetry /\ row.state = "PRE_EVAL_RETRYABLE"
    <2>1. \/ InState(s, {"PRE_EVAL_RUNNING", "PRE_EVAL_RETRYABLE"})
          \/ subs[s].retry >= MaxRetry
      BY <1>1 DEF GateFails, IInv, GateHolds, InState
    <2>2. QED
      BY <1>2, <1>4, <2>1
  <1>6. \/ row.state \in {"PRE_EVAL_PASSED", "TERMINAL_INVALID"}
        \/ /\ InState(s, {"PRE_EVAL_RUNNING", "PRE_EVAL_RETRYABLE"})
           /\ row.state \in {"HIPPIUS_VALIDATED", "PRE_EVAL_RETRYABLE"}
           /\ row.retry < MaxRetry
           /\ row.retry >= subs[s].retry + (IF "FAILED_RETRYABLE" \in Failing THEN 1 ELSE 0)
    BY <1>2, <1>5 DEF Failing
  <1>7. QED
    BY <1>1, <1>2, <1>3, <1>4, <1>6, GateEnds DEF GateFails, IInv, TypeOK

LEMMA GateReleasesInv == ASSUME IInv, GateReleases PROVE IInv'
  <1>1. PICK s \in Subs : s = gate.sub
    BY GateSub DEF GateReleases
  <1> DEFINE row == [subs[s] EXCEPT !.state = IF @ = "PRE_EVAL_RUNNING" THEN "HIPPIUS_VALIDATED" ELSE @]
  <1>2. /\ row \in SubRow /\ row.retry = subs[s].retry /\ subs[s].retry \in Nat
        /\ row.state = IF subs[s].state = "PRE_EVAL_RUNNING" THEN "HIPPIUS_VALIDATED" ELSE subs[s].state
    <2>1. subs[s] \in SubRow
      BY DEF IInv, TypeOK
    <2>2. "HIPPIUS_VALIDATED" \in SubStates
      BY DEF SubStates
    <2>3. QED
      BY <2>1, <2>2 DEF SubRow
  <1>3. subs' = [subs EXCEPT ![s] = row]
    BY <1>1 DEF GateReleases, IInv, TypeOK
  <1> HIDE DEF row
  <1>4. "RELEASED" \in TryStates \ {"RUNNING"} /\ faults' \in 0..MaxFaults
    BY CountsAssumption DEF TryStates, GateReleases, Fault, IInv, TypeOK
  <1>5. \/ row.state \in {"PRE_EVAL_PASSED", "TERMINAL_INVALID"}
        \/ /\ InState(s, {"PRE_EVAL_RUNNING", "PRE_EVAL_RETRYABLE"})
           /\ row.state \in {"HIPPIUS_VALIDATED", "PRE_EVAL_RETRYABLE"}
           /\ row.retry < MaxRetry
           /\ row.retry >= subs[s].retry + (IF "RELEASED" \in Failing THEN 1 ELSE 0)
    <2>1. InState(s, {"PRE_EVAL_RUNNING", "PRE_EVAL_RETRYABLE", "TERMINAL_INVALID"})
      BY <1>1 DEF GateReleases, IInv, GateHolds, InState
    <2>2. InState(s, {"PRE_EVAL_RUNNING", "PRE_EVAL_RETRYABLE"}) => subs[s].retry < MaxRetry
      BY DEF IInv, SubHolds, WaitsForAClaim, InState
    <2>3. QED
      BY <1>2, <2>1, <2>2 DEF Failing, InState
  <1>6. QED
    BY <1>1, <1>2, <1>3, <1>4, <1>5, GateEnds DEF GateReleases

LEMMA GateAbortsInv == ASSUME IInv, GateAborts PROVE IInv'
  <1>1. UNCHANGED <<subs, tries, oldReg, validator>> /\ faults' \in 0..MaxFaults
    BY CountsAssumption DEF GateAborts, Fault, IInv, TypeOK
  <1>2. TypeOK' /\ GateHolds'
    BY <1>1 DEF GateAborts, Rest, IInv, TypeOK, GateRow, GateHolds
  <1>3. QED
    BY <1>1, <1>2, Untouched, ValidatorKept DEF IInv

LEMMA SweepAbandonedInv == ASSUME IInv, SweepAbandonedPreEval PROVE IInv'
  <1> DEFINE S == {s \in Subs : Expired(s, "PRE_EVAL")}
  <1>1. /\ Abandon(S, "PRE_EVAL")
        /\ subs' = [s \in Subs |-> IF s \in S THEN Charged(subs[s]) ELSE subs[s]]
        /\ UNCHANGED <<oldReg, validator, gate, faults>>
    BY DEF SweepAbandonedPreEval
  <1>2. S \in SUBSET Subs /\ \A s \in S : LastTry(s, "PRE_EVAL") >= 1 /\ InState(s, {"PRE_EVAL_RUNNING"})
    BY ExpiredTry DEF IInv, Stages, RunningState
  <1> HIDE DEF S
  <1>3. /\ tries' \in TryTable
        /\ \A t \in Subs \ S : tries'[t] = tries[t]
        /\ \A s \in S : /\ \A h \in Stages \ {"PRE_EVAL"} : tries'[s][h] = tries[s][h]
                        /\ LastTry(s, "PRE_EVAL")' = LastTry(s, "PRE_EVAL")
                        /\ \A n \in 1..LastTry(s, "PRE_EVAL") :
                             StateOf(s, "PRE_EVAL", n)' = IF n = LastTry(s, "PRE_EVAL") THEN "ABANDONED"
                                                          ELSE StateOf(s, "PRE_EVAL", n)
    BY <1>1, <1>2, AbandonTry DEF IInv, Stages
  <1>4. ASSUME NEW s \in S
        PROVE  /\ subs'[s] \in SubRow /\ subs'[s].fault = "infra"
               /\ subs'[s].retry = subs[s].retry + 1 /\ subs[s].retry \in Nat
               /\ subs'[s].state = IF subs[s].retry + 1 >= MaxRetry THEN "TERMINAL_INVALID" ELSE "PRE_EVAL_RETRYABLE"
    BY <1>1, <1>2, ChargedRow DEF IInv
  <1>5. TypeOK'
    <2>1. subs' \in [Subs -> SubRow]
      BY <1>1, <1>2, ChargedRow DEF IInv, TypeOK
    <2>2. QED
      BY <1>1, <1>3, <2>1 DEF IInv, TypeOK, TryTable
  <1>6. ASSUME NEW t \in Subs PROVE SubHolds(t)'
    <2>1. CASE t \notin S
      BY <1>1, <1>3, <2>1, Untouched DEF IInv
    <2>2. CASE t \in S
      <3>1. "ABANDONED" \in TryStates \ {"RUNNING"} /\ "ABANDONED" \in Failing /\ MaxRetry \in Nat
        BY CountsAssumption DEF TryStates, Failing
      <3>2. tries'[t]["PRE_EVAL"] \in Seq(TryRow) /\ tries'[t]["HIPPIUS"] = tries[t]["HIPPIUS"]
        BY <1>3, <2>2 DEF TryTable, Stages
      <3>3. ~InState(t, {"HIPPIUS_RUNNING"}) /\ InState(t, {"PRE_EVAL_RUNNING", "PRE_EVAL_RETRYABLE"})
        BY <1>2, <2>2 DEF InState
      <3>4. \/ InState(t, {"PRE_EVAL_PASSED", "TERMINAL_INVALID"})'
            \/ /\ InState(t, {"HIPPIUS_VALIDATED", "PRE_EVAL_RETRYABLE"})'
               /\ subs'[t].retry < MaxRetry
        BY <1>4, <2>2, <3>1 DEF InState
      <3>5. subs'[t].retry \in Nat /\ subs'[t].retry >= subs[t].retry + (IF "ABANDONED" \in Failing THEN 1 ELSE 0)
        BY <1>4, <2>2, <3>1
      <3>6. QED
        BY <1>2, <1>3, <2>2, <3>1, <3>2, <3>3, <3>4, <3>5, PreEvalTry DEF IInv
    <2>3. QED
      BY <2>1, <2>2
  <1>7. GateHolds'
    <2>1. CASE gate.pc = "run" /\ gate.sub \in S
      <3>1. PICK s \in S : s = gate.sub /\ s \in Subs
        BY <1>2, <2>1
      <3>2. LastTry(s, "PRE_EVAL") \in Nat /\ LastTry(s, "PRE_EVAL") >= 1
        BY <1>2, <3>1, LastTryType DEF IInv, Stages
      <3>3. /\ LastTry(s, "PRE_EVAL")' = LastTry(s, "PRE_EVAL")
            /\ StateOf(s, "PRE_EVAL", LastTry(s, "PRE_EVAL"))' = "ABANDONED"
        BY <1>3, <3>2
      <3>4. /\ InState(s, {"PRE_EVAL_RETRYABLE", "TERMINAL_INVALID"})' /\ subs'[s].fault = "infra"
            /\ InState(s, {"TERMINAL_INVALID"})' => subs'[s].retry >= MaxRetry
        BY <1>4, CountsAssumption DEF InState
      <3>5. QED
        BY <1>1, <2>1, <3>1, <3>2, <3>3, <3>4 DEF GateHolds
    <2>2. CASE ~(gate.pc = "run" /\ gate.sub \in S)
      <3>1. gate.pc = "run" => gate.sub \in Subs \ S
        BY <2>2 DEF IInv, GateHolds
      <3>2. QED
        BY <1>1, <1>3, <3>1, GateKept DEF IInv
    <2>3. QED
      BY <2>1, <2>2
  <1>8. ValidatorHolds'
    <2>1. validator.pc \in {"check", "validate"} => validator.sub \in Subs \ S
      BY <1>2 DEF IInv, ValidatorHolds, InState
    <2>2. QED
      BY <1>1, <2>1, ValidatorKept DEF IInv
  <1>9. QED
    BY <1>5, <1>6, <1>7, <1>8 DEF IInv

----------------------------------------------------------------------------
LEMMA StepIInv == IInv /\ [Next]_vars => IInv'
  <1> SUFFICES ASSUME IInv, [Next]_vars PROVE IInv'
    OBVIOUS
  <1>1. CASE Validator
    BY <1>1, StartInv, SweepExpiredInv, ClaimNoneInv, ClaimNextInv, CheckInv, ModelPassesInv, ModelFailsInv,
       ModelRetriesInv, ValidatorFaultsInv DEF Validator
  <1>2. CASE Gate
    BY <1>2, ClaimPreEvalInv, GatePassesInv, GateRejectsInv, GateFailsInv, GateReleasesInv, GateAbortsInv DEF Gate
  <1>3. CASE Environment
    BY <1>3, CommitArrivesInv, ColdkeyKnownInv, ReregisterInv, LeaseExpiresInv DEF Environment
  <1>4. CASE UNCHANGED vars
    <2>1. TypeOK'
      BY <1>4 DEF vars, IInv, TypeOK
    <2>2. QED
      BY <1>4, <2>1, Untouched, GateKept, ValidatorKept DEF vars, IInv
  <1>5. QED
    BY <1>1, <1>2, <1>3, <1>4, SweepAbandonedInv, QueuePreEvalPassedInv DEF Next

LEMMA SpecIInv == Spec => []IInv
  BY InitIInv, StepIInv, PTL DEF Spec

LEMMA InStep == IInv => TriesAreInStep
  <1> SUFFICES ASSUME IInv PROVE TriesAreInStep
    OBVIOUS
  <1>1. RunningIsTheLastTry
    BY DEF IInv, SubHolds, OnlyTheLastRuns, RunningIsTheLastTry, StateOf
  <1>2. NobodyWaitsInVain
    BY DEF IInv, SubHolds, WaitsForAClaim, NobodyWaitsInVain, Failed, StateOf
  <1>3. QED
    BY <1>1, <1>2 DEF TriesAreInStep

----------------------------------------------------------------------------
(* The properties. *)

\* Every row and worker keeps its type, for any number of submissions, attempts and faults.
THEOREM SpecTypeOK == Spec => []TypeOK
  BY SpecIInv, PTL DEF IInv

\* An attempt runs exactly while its submission is in that stage, and is the last one; and
\* nobody waits for a claim that its retries rule out.
THEOREM SpecTriesAreInStep == Spec => []TriesAreInStep
  BY SpecIInv, InStep, PTL

Stands(s) ==
  /\ InState(s, {"PRE_EVAL_PASSED", "EVAL_QUEUED"}) =>
       subs'[s].state \in {"PRE_EVAL_PASSED", "EVAL_QUEUED"}
  /\ InState(s, Terminal) =>
       \/ subs'[s] = subs[s]
       \/ /\ gate.sub = s /\ subs[s].fault = "infra"
          /\ tries[s]["PRE_EVAL"][LastTry(s, "PRE_EVAL")].state = "ABANDONED"

LEMMA StepStands == ASSUME IInv, [Next]_vars, NEW s \in Subs PROVE Stands(s)
  <1>1. CASE subs'[s] = subs[s]
    BY <1>1 DEF Stands, InState
  <1>2. CASE ~InState(s, {"PRE_EVAL_PASSED", "EVAL_QUEUED"} \cup Terminal)
    BY <1>2 DEF Stands, InState
  <1>3. CASE gate.pc = "run" /\ gate.sub = s /\ InState(s, {"PRE_EVAL_PASSED", "EVAL_QUEUED"} \cup Terminal)
    BY <1>3 DEF Stands, IInv, GateHolds, InState, StateOf, Terminal
  <1>4. CASE QueuePreEvalPassed
    <2>1. subs'[s].state = "EVAL_QUEUED" \/ (subs'[s] = subs[s] /\ ~InState(s, {"PRE_EVAL_PASSED"}))
      BY <1>4 DEF QueuePreEvalPassed, IInv, TypeOK, SubRow
    <2>2. InState(s, Terminal) => subs'[s] = subs[s]
      BY <1>4 DEF QueuePreEvalPassed, InState, Terminal
    <2>3. QED
      BY <2>1, <2>2 DEF Stands, InState
  <1>5. CASE Validator
    <2>1. validator.pc \in {"check", "validate"} => InState(validator.sub, {"HIPPIUS_RUNNING"})
      BY DEF IInv, ValidatorHolds
    <2>2. subs'[s] = subs[s] \/ InState(s, {"COMMITTED", "HIPPIUS_RUNNING", "SUBMITTED", "HIPPIUS_RETRYABLE"})
      <3>1. CASE subs' = Enqueue
        BY <3>1 DEF Enqueue, InState
      <3>2. CASE SweepExpired
        BY <3>2 DEF SweepExpired, Expired, InState, RunningState
      <3>3. ASSUME NEW t \in Subs, ClaimNext(t)
            PROVE  subs'[s] = subs[s] \/ InState(s, {"SUBMITTED", "HIPPIUS_RETRYABLE"})
        BY <3>3 DEF ClaimNext, First, Claimable, IInv, TypeOK
      <3>4. CASE Check \/ ModelPasses \/ ModelFails \/ ModelRetries
        <4>1. CASE s = validator.sub
          BY <2>1, <3>4, <4>1 DEF Check, ModelPasses, ModelFails, ModelRetries, InState
        <4>2. CASE s # validator.sub
          BY <3>4, <4>2 DEF Check, ModelPasses, ModelFails, ModelRetries, FinishInvalid, IInv, TypeOK
        <4>3. QED
          BY <4>1, <4>2
      <3>5. CASE ValidatorFaults
        BY <3>5 DEF ValidatorFaults
      <3>6. QED
        BY <1>5, <3>1, <3>2, <3>3, <3>4, <3>5 DEF Validator, Start, ClaimNone, InState
    <2>3. QED
      BY <1>1, <1>2, <2>2 DEF InState, Terminal
  <1>6. CASE Gate
    <2>1. ASSUME NEW t \in Subs, ClaimPreEval(t)
          PROVE  subs'[s] = subs[s] \/ InState(s, {"HIPPIUS_VALIDATED", "PRE_EVAL_RETRYABLE"})
      BY <2>1 DEF ClaimPreEval, First, GateQueue, IInv, TypeOK
    <2>2. CASE GatePasses \/ GateRejects \/ GateFails \/ GateReleases
      <3>1. s = gate.sub \/ subs'[s] = subs[s]
        BY <2>2 DEF GatePasses, GateRejects, GateFails, GateReleases, IInv, TypeOK
      <3>2. gate.pc = "run"
        BY <2>2 DEF GatePasses, GateRejects, GateFails, GateReleases
      <3>3. QED
        BY <1>1, <1>2, <1>3, <3>1, <3>2
    <2>3. CASE GateAborts
      BY <1>1, <2>3 DEF GateAborts
    <2>4. QED
      BY <1>1, <1>2, <1>6, <2>1, <2>2, <2>3 DEF Gate, InState, Terminal
  <1>7. CASE SweepAbandonedPreEval
    <2>1. subs'[s] = subs[s] \/ InState(s, {"PRE_EVAL_RUNNING"})
      BY <1>7 DEF SweepAbandonedPreEval, Expired, RunningState
    <2>2. QED
      BY <1>1, <1>2, <2>1 DEF InState, Terminal
  <1>8. CASE Environment
    <2>1. subs'[s] = subs[s] \/ InState(s, {"ABSENT", "SUBMITTED"})
      BY <1>8 DEF Environment, CommitArrives, ColdkeyKnown, Reregister, LeaseExpires, IInv, TypeOK, InState
    <2>2. QED
      BY <1>1, <1>2, <2>1 DEF InState, Terminal
  <1>9. CASE UNCHANGED vars
    BY <1>1, <1>9 DEF vars
  <1>10. QED
    BY <1>4, <1>5, <1>6, <1>7, <1>8, <1>9 DEF Next

\* What was decided stays decided: whatever the sweeper, the worker and the gate do after one
\* another, a passed model is not called back and a rejected one not revived, but by the end of
\* the very attempt that the sweeper had taken for dead.
THEOREM SpecVerdictStands == Spec => VerdictStands
  <1>1. IInv /\ [Next]_vars =>
          [\A s \in Subs :
             /\ InState(s, {"PRE_EVAL_PASSED", "EVAL_QUEUED"}) =>
                  subs'[s].state \in {"PRE_EVAL_PASSED", "EVAL_QUEUED"}
             /\ InState(s, Terminal) =>
                  \/ subs'[s] = subs[s]
                  \/ /\ gate.sub = s /\ subs[s].fault = "infra"
                     /\ tries[s]["PRE_EVAL"][LastTry(s, "PRE_EVAL")].state = "ABANDONED"]_vars
    BY StepStands DEF Stands
  <1>2. QED
    BY <1>1, SpecIInv, PTL DEF Spec, VerdictStands

----------------------------------------------------------------------------
(* The dedup gate.  The worker judges one model at a time, against the bank *)
(* that its crashes and the bank's failures leave behind.                   *)

ModelRow == [state : ModelStates, tries : Nat, keyed : BOOLEAN]
DocRow   == [status : {"none", "bank", "audit"}, keyed : BOOLEAN]

DedupTyped ==
  /\ model \in [Models -> ModelRow]
  /\ bank \in [Models \cup {Genesis} -> DocRow]
  /\ behind \in [Models -> SUBSET Models]

\* Of those that were accepted when the gate last judged m, none is a copy by another miner.
NoCopyOf(m) == \A n \in behind[m] : ~(n < m /\ Apart(m, n) /\ SameSketch(n, m))

\* Between the bank and the database: the model still waits, and passed with its document in
\* the bank and past every banked copy.
JudgedHolds ==
  judged # NoModel =>
    /\ judged.of \in Models /\ model[judged.of].state = "queued"
    /\ judged.reason = "PASS" => bank[judged.of].status = "bank" /\ NoCopyOf(judged.of)

AcceptedHolds ==
  \A m \in Models : model[m].state = "accepted" => bank[m].status = "bank" /\ NoCopyOf(m)

DedupInv == DedupTyped /\ JudgedHolds /\ AcceptedHolds

Accepted == {n \in Models : model[n].state = "accepted"}

LEMMA ModelsArePositive == \A m \in Models : m \in Nat /\ m # Genesis
  BY DedupAssumption DEF Genesis

\* What was accepted is in the bank and is another's: a model that is like it does not pass.
LEMMA PassedIsNoCopy ==
  ASSUME DedupInv, NEW m \in Models, "PASS" \in Reasons(m), NEW n \in Accepted, n < m, Apart(m, n)
  PROVE  ~SameSketch(n, m)
  <1>1. n \in Models /\ bank[n].status = "bank" /\ n # Genesis
    BY ModelsArePositive DEF DedupInv, AcceptedHolds, Accepted
  <1>2. n \in InBank /\ Before(n, m)
    BY <1>1 DEF InBank, Before, DedupInv, DedupTyped
  <1>3. ~Owned(n, m)
    BY DEF Owned, Apart
  <1>4. n \in Others(m)
    BY <1>2, <1>3 DEF Others
  <1>5. QED
    BY <1>4 DEF Reasons

\* The document of a verdict.
LEMMA IndexedRow ==
  ASSUME DedupInv, NEW m \in Models, NEW reason
  PROVE  /\ Indexed(m, reason) \in [Models \cup {Genesis} -> DocRow]
         /\ reason = "PASS" => Indexed(m, reason)[m].status = "bank"
         /\ \A n \in Models \ {m} : Indexed(m, reason)[n] = bank[n]
  <1>1. PICK row : row = [status |-> IF reason = "PASS" THEN "bank" ELSE "audit",
                          keyed |-> model[m].keyed]
    OBVIOUS
  <1>2. row \in DocRow /\ (reason = "PASS" => row.status = "bank")
    BY <1>1 DEF DocRow, DedupInv, DedupTyped, ModelRow
  <1>3. Indexed(m, reason) = [bank EXCEPT ![m] = row]
    BY <1>1 DEF Indexed
  <1>4. QED
    BY <1>2, <1>3 DEF DedupInv, DedupTyped

\* A step that moves one waiting model to a state that is not "accepted", outside a verdict,
\* and perhaps its document and what it was compared with.
LEMMA WaitingMoves ==
  ASSUME DedupInv, judged = NoModel, judged' = NoModel, NEW m \in Models, NEW row \in ModelRow,
         model[m].state # "accepted", row.state # "accepted", model' = [model EXCEPT ![m] = row],
         bank' \in [Models \cup {Genesis} -> DocRow], \A n \in Models \ {m} : bank'[n] = bank[n],
         behind' \in [Models -> SUBSET Models], \A n \in Models \ {m} : behind'[n] = behind[n]
  PROVE  DedupInv'
  <1>1. DedupTyped'
    BY DEF DedupInv, DedupTyped
  <1>2. JudgedHolds'
    BY DEF JudgedHolds, NoModel
  <1>3. AcceptedHolds'
    BY DEF DedupInv, DedupTyped, AcceptedHolds, NoCopyOf
  <1>4. QED
    BY <1>1, <1>2, <1>3 DEF DedupInv

LEMMA JudgeKeeps ==
  ASSUME DedupInv, NEW m \in Models, Judge(m)
  PROVE  DedupInv'
  <1>1. PICK reason \in Reasons(m) :
          judged' = [of |-> m, reason |-> reason] /\ bank' = Indexed(m, reason)
    BY DEF Judge
  <1>2. /\ bank' \in [Models \cup {Genesis} -> DocRow]
        /\ reason = "PASS" => bank'[m].status = "bank"
        /\ \A n \in Models \ {m} : bank'[n] = bank[n]
    BY <1>1, IndexedRow
  <1>3. /\ model' \in [Models -> ModelRow] /\ model'[m].state = "queued"
        /\ \A n \in Models \ {m} : model'[n] = model[n]
    <2>1. model[m] \in ModelRow /\ model[m].state = "queued"
          /\ model' = [model EXCEPT ![m] = [model[m] EXCEPT !.tries = @ + 1]]
      BY DEF Judge, DedupInv, DedupTyped
    <2>2. PICK row : row = [model[m] EXCEPT !.tries = @ + 1]
      OBVIOUS
    <2>3. row \in ModelRow /\ row.state = "queued"
      BY <2>1, <2>2 DEF ModelRow
    <2>4. QED
      BY <2>1, <2>2, <2>3 DEF DedupInv, DedupTyped
  <1>4. /\ behind' \in [Models -> SUBSET Models] /\ behind'[m] = Accepted
        /\ \A n \in Models \ {m} : behind'[n] = behind[n]
    BY DEF Judge, DedupInv, DedupTyped, Accepted
  <1>5. DedupTyped'
    BY <1>2, <1>3, <1>4 DEF DedupTyped
  <1>6. JudgedHolds'
    <2>1. ASSUME reason = "PASS", NEW n \in behind'[m], n < m, Apart(m, n)
          PROVE  ~SameSketch(n, m)
      BY <1>4, <2>1, PassedIsNoCopy
    <2>2. QED
      BY <1>1, <1>2, <1>3, <2>1 DEF JudgedHolds, NoCopyOf
  <1>7. AcceptedHolds'
    BY <1>2, <1>3, <1>4 DEF DedupInv, AcceptedHolds, NoCopyOf
  <1>8. QED
    BY <1>5, <1>6, <1>7 DEF DedupInv

LEMMA BankFailsKeeps ==
  ASSUME DedupInv, NEW m \in Models, BankFails(m)
  PROVE  DedupInv'
  <1>1. model[m] \in ModelRow /\ model[m].state = "queued" /\ judged = NoModel /\ judged' = NoModel
    BY DEF BankFails, DedupInv, DedupTyped
  <1>2. Retried(m) \in ModelRow /\ Retried(m).state # "accepted"
    <2>1. PICK st : st = IF model[m].tries + 1 >= MaxTries THEN "infra" ELSE "queued"
      OBVIOUS
    <2>2. st \in ModelStates /\ st # "accepted"
      BY <2>1 DEF ModelStates
    <2>3. PICK tried : tried = [model[m] EXCEPT !.tries = @ + 1]
      OBVIOUS
    <2>4. tried \in ModelRow
      BY <1>1, <2>3 DEF ModelRow
    <2>5. Retried(m) = [tried EXCEPT !.state = st]
      BY <2>1, <2>3 DEF Retried
    <2>6. QED
      BY <2>2, <2>4, <2>5 DEF ModelRow
  <1>3. /\ bank' \in [Models \cup {Genesis} -> DocRow]
        /\ \A n \in Models \ {m} : bank'[n] = bank[n]
    BY IndexedRow DEF BankFails, DedupInv, DedupTyped
  <1>4. /\ behind' \in [Models -> SUBSET Models]
        /\ \A n \in Models \ {m} : behind'[n] = behind[n]
    BY DEF BankFails, DedupInv, DedupTyped
  <1>5. model' = [model EXCEPT ![m] = Retried(m)]
    BY DEF BankFails
  <1>6. QED
    BY <1>1, <1>2, <1>3, <1>4, <1>5, WaitingMoves

LEMMA ConcludeKeeps ==
  ASSUME DedupInv, Conclude
  PROVE  DedupInv'
  <1> DEFINE m == judged.of
  <1>1. /\ m \in Models /\ model[m] \in ModelRow /\ model[m].state = "queued"
        /\ judged.reason = "PASS" => bank[m].status = "bank" /\ NoCopyOf(m)
    BY DEF Conclude, DedupInv, JudgedHolds, DedupTyped
  <1>2. judged' = NoModel /\ UNCHANGED <<bank, behind>>
    BY DEF Conclude
  <1>3. PICK st : st = IF Faults(m, judged.reason) THEN FaultCode(judged.reason)
                         ELSE IF judged.reason = "PASS" THEN "accepted" ELSE "shadowed"
    OBVIOUS
  <1>4. st \in ModelStates /\ (st = "accepted" => judged.reason = "PASS")
    BY <1>3 DEF Faults, FaultCode, ModelStates
  <1>5. model' = [model EXCEPT ![m] = [model[m] EXCEPT !.state = st]]
    BY <1>1, <1>3 DEF Conclude, DedupInv, DedupTyped
  <1>6. PICK row : row = [model[m] EXCEPT !.state = st]
    OBVIOUS
  <1>7. row \in ModelRow /\ row.state = st
    BY <1>1, <1>4, <1>6 DEF ModelRow
  <1>8. model' = [model EXCEPT ![m] = row]
    BY <1>5, <1>6
  <1>9. DedupTyped' /\ JudgedHolds'
    BY <1>2, <1>7, <1>8 DEF DedupInv, DedupTyped, JudgedHolds
  <1>10. AcceptedHolds'
    BY <1>1, <1>2, <1>4, <1>7, <1>8 DEF DedupInv, DedupTyped, AcceptedHolds, NoCopyOf
  <1>11. QED
    BY <1>9, <1>10 DEF DedupInv

LEMMA DedupInvInit == DedupInit => DedupInv
  <1> SUFFICES ASSUME DedupInit PROVE DedupInv
    OBVIOUS
  <1>1. DedupTyped
    BY DEF DedupInit, DedupTyped, ModelRow, ModelStates, DocRow, NoDoc
  <1>2. JudgedHolds /\ AcceptedHolds
    BY DEF DedupInit, JudgedHolds, AcceptedHolds
  <1>3. QED
    BY <1>1, <1>2 DEF DedupInv

LEMMA DedupInvNext == DedupInv /\ [DedupNext]_dedupVars => DedupInv'
  <1> SUFFICES ASSUME DedupInv, [DedupNext]_dedupVars PROVE DedupInv'
    OBVIOUS
  <1>1. ASSUME NEW m \in Models, Committed(m) PROVE DedupInv'
    <2>1. model[m] \in ModelRow
      BY DEF DedupInv, DedupTyped
    <2>2. PICK row : row = [model[m] EXCEPT !.state = "queued"]
      OBVIOUS
    <2>3. row \in ModelRow /\ row.state = "queued" /\ model' = [model EXCEPT ![m] = row]
      BY <1>1, <2>1, <2>2 DEF Committed, ModelRow, ModelStates
    <2>4. model[m].state = "absent" /\ UNCHANGED <<bank, judged, behind>>
      BY <1>1 DEF Committed
    <2>5. DedupTyped' /\ JudgedHolds'
      BY <2>3, <2>4 DEF DedupInv, DedupTyped, JudgedHolds, NoCopyOf
    <2>6. AcceptedHolds'
      BY <2>3, <2>4 DEF DedupInv, DedupTyped, AcceptedHolds, NoCopyOf
    <2>7. QED
      BY <2>5, <2>6 DEF DedupInv
  <1>2. ASSUME NEW m \in Models, KeyLearned(m) PROVE DedupInv'
    <2>1. model[m] \in ModelRow
      BY DEF DedupInv, DedupTyped
    <2>2. PICK row : row = [model[m] EXCEPT !.keyed = TRUE]
      OBVIOUS
    <2>3. row \in ModelRow /\ row.state = "queued" /\ model' = [model EXCEPT ![m] = row]
      BY <1>2, <2>1, <2>2 DEF KeyLearned, ModelRow
    <2>4. model[m].state = "queued" /\ UNCHANGED <<bank, judged, behind>>
      BY <1>2 DEF KeyLearned
    <2>5. DedupTyped' /\ JudgedHolds'
      BY <2>3, <2>4 DEF DedupInv, DedupTyped, JudgedHolds, NoCopyOf
    <2>6. AcceptedHolds'
      BY <2>3, <2>4 DEF DedupInv, DedupTyped, AcceptedHolds, NoCopyOf
    <2>7. QED
      BY <2>5, <2>6 DEF DedupInv
  <1>3. ASSUME NEW m \in Models, Refuse(m) PROVE DedupInv'
    <2>1. model[m] \in ModelRow
      BY DEF DedupInv, DedupTyped
    <2>2. PICK row : row = [model[m] EXCEPT !.state = "duplicate"]
      OBVIOUS
    <2>3. row \in ModelRow /\ row.state = "duplicate" /\ model' = [model EXCEPT ![m] = row]
      BY <1>3, <2>1, <2>2 DEF Refuse, ModelRow, ModelStates
    <2>4. judged = NoModel /\ judged' = NoModel /\ model[m].state = "queued" /\ UNCHANGED <<bank, behind>>
      BY <1>3 DEF Refuse
    <2>5. QED
      BY <2>3, <2>4, WaitingMoves DEF DedupInv, DedupTyped
  <1>4. CASE Dies
    BY <1>4 DEF Dies, DedupInv, DedupTyped, JudgedHolds, AcceptedHolds, NoCopyOf
  <1>5. CASE UNCHANGED dedupVars
    BY <1>5 DEF dedupVars, DedupInv, DedupTyped, JudgedHolds, AcceptedHolds, NoCopyOf
  <1>6. QED
    BY <1>1, <1>2, <1>3, <1>4, <1>5, JudgeKeeps, BankFailsKeeps, ConcludeKeeps DEF DedupNext

\* gate.run, enforces: whatever dies or fails between the bank and the database, an accepted
\* model is in the bank, and no later copy of it by another miner is accepted once it was.
THEOREM SpecAcceptedIsGuarded == DedupInit /\ [][DedupNext]_dedupVars => []AcceptedIsGuarded
  <1>1. DedupInv => AcceptedIsGuarded
    BY DEF DedupInv, AcceptedHolds, NoCopyOf, AcceptedIsGuarded
  <1>2. QED
    BY <1>1, DedupInvInit, DedupInvNext, PTL
=============================================================================
