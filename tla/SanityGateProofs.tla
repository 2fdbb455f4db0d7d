-------------------------- MODULE SanityGateProofs --------------------------
(***************************************************************************)
(* ServedByItsModel and GenerationsAreLeftAlone of SanityGate and its      *)
(* host, proved for any number of models, attempts, samples and faults.    *)
(***************************************************************************)
EXTENDS SanityGate, TLAPS

----------------------------------------------------------------------------
(* The inductive invariant. *)

Is(r, state) == runs[r].state = state
Holds(r)     == runs[r].state \in {"loading", "booting"}
Works(r)     == runs[r].state \in Working

\* The store and its API: the runs at work are of one model.
OneModel ==
  /\ \A r \in RunIds : Works(r) => runs[r].digest \in Models
  /\ \A q, r \in RunIds : Works(q) /\ Works(r) => runs[q].digest = runs[r].digest

\* The lock: one run loads, and while its server boots only an orphan answers.
OneHolder ==
  /\ \A q, r \in RunIds : Holds(q) /\ Holds(r) => q = r
  /\ \A q, r \in RunIds : Is(q, "booting") /\ Is(r, "generating") => squatter # NoModel

\* The engine knows the model of its own process, or none.
ServerKnown ==
  /\ loaded # NoModel => vllm.model \in {loaded, NoModel}
  /\ \A r \in RunIds : Is(r, "booting") => vllm.model = runs[r].digest /\ ~vllm.up

\* A task at work is of an attempt that was claimed for a model.
TasksOfTheAttempt ==
  \A s \in Samples : at[s] # "over" => attempt \in Attempts /\ model[attempt] \in Models

HostInv == HostTypeOK /\ OneModel /\ OneHolder /\ ServerKnown /\ ServedByItsModel

IInv == TypeOK /\ HostInv /\ TasksOfTheAttempt

----------------------------------------------------------------------------
(* The host's steps. *)

LEMMA FaultType == ASSUME HostTypeOK, Fault PROVE faults' \in 0..MaxFaults /\ faults' > faults
  BY HostAssumption DEF HostTypeOK, Fault

LEMMA InitIInv == Init => IInv
  <1> SUFFICES ASSUME Init PROVE IInv
    OBVIOUS
  <1>1. HostTypeOK
    <2>1. Absent \in RunRow
      BY DEF Absent, RunRow
    <2>2. QED
      BY <2>1, HostAssumption DEF Init, HostInit, HostTypeOK, NoVllm
  <1>2. TypeOK
    BY <1>1 DEF Init, TypeOK, Idle, Verdicts
  <1>3. HostInv /\ TasksOfTheAttempt
    BY <1>1, HostAssumption DEF Init, HostInit, HostInv, OneModel, OneHolder, ServerKnown,
       ServedByItsModel, TasksOfTheAttempt, Absent, Is, Holds, Works, Working, NoModel
  <1>4. QED
    BY <1>2, <1>3 DEF IInv

\* A run's state moves on.
LEMMA BecomesRows ==
  ASSUME HostTypeOK, NEW r \in RunIds, NEW st \in {"failed", "succeeded"} \cup Working, Becomes(r, st)
  PROVE  /\ runs'[r].state = st /\ runs'[r].digest = runs[r].digest
         /\ \A q \in RunIds \ {r} : runs'[q] = runs[q]
         /\ runs' \in [RunIds -> RunRow]
  <1>1. runs \in [RunIds -> RunRow]
    BY DEF HostTypeOK
  <1>2. [runs[r] EXCEPT !.state = st] \in RunRow
    BY <1>1 DEF RunRow
  <1>3. runs' = [runs EXCEPT ![r] = [runs[r] EXCEPT !.state = st]]
    BY DEF Becomes
  <1>4. /\ [runs[r] EXCEPT !.state = st].state = st
        /\ [runs[r] EXCEPT !.state = st].digest = runs[r].digest
    BY <1>1 DEF RunRow
  <1>5. QED
    BY <1>1, <1>2, <1>3, <1>4

\* What a step does to the engine and the faults, as types.
LEMMA Typed ==
  ASSUME HostTypeOK, runs' \in [RunIds -> RunRow], {loaded', squatter'} \subseteq Models \cup {NoModel},
         vllm' \in [model : Models \cup {NoModel}, up : BOOLEAN], orphans' \subseteq Models,
         Fault \/ UNCHANGED faults
  PROVE  HostTypeOK'
  BY FaultType DEF HostTypeOK

LEMMA ServingStays == ASSUME UNCHANGED engineVars PROVE Serving' = Serving
  BY DEF engineVars, Serving

LEMMA ReuseInv == ASSUME HostInv, NEW r \in RunIds, Reuse(r) PROVE HostInv'
  <1>1. /\ runs'[r].state = "generating" /\ runs'[r].digest = runs[r].digest
        /\ \A q \in RunIds \ {r} : runs'[q] = runs[q]
        /\ runs' \in [RunIds -> RunRow]
        /\ Is(r, "queued") /\ UNCHANGED <<engineVars, faults>>
    BY BecomesRows DEF Reuse, HostInv, Is, Working
  <1>2. \A q \in RunIds : ~Holds(q)
    BY DEF Reuse, LockFree, In, Holds
  <1>3. Serving = runs[r].digest \/ squatter # NoModel
    <2>1. /\ loaded = runs[r].digest /\ runs[r].digest \in Models
          /\ vllm.model # NoModel /\ Serving # NoModel
      BY <1>1 DEF Reuse, Warm, HostInv, OneModel, Works, Working, Is
    <2>2. vllm.model = runs[r].digest
      BY <2>1, HostAssumption DEF HostInv, ServerKnown, NoModel
    <2>3. QED
      BY <2>1, <2>2 DEF Serving
  <1>4. Serving' = Serving /\ UNCHANGED <<loaded, vllm, orphans, squatter, faults>>
    BY <1>1, ServingStays DEF engineVars
  <1>5. OneModel'
    BY <1>1 DEF HostInv, OneModel, Works, Working, Is
  <1>6. OneHolder' /\ ServerKnown' /\ ServedByItsModel'
    BY <1>1, <1>2, <1>3, <1>4 DEF HostInv, OneHolder, ServerKnown, ServedByItsModel, Holds, Is
  <1>7. HostTypeOK'
    BY <1>1, <1>4, Typed DEF HostInv, HostTypeOK
  <1>8. QED
    BY <1>5, <1>6, <1>7 DEF HostInv

LEMMA ColdLoadInv == ASSUME HostInv, NEW r \in RunIds, ColdLoad(r) PROVE HostInv'
  <1>0. Fault \/ UNCHANGED faults
    BY DEF ColdLoad
  <1>1. /\ runs'[r].state = "loading" /\ runs'[r].digest = runs[r].digest
        /\ \A q \in RunIds \ {r} : runs'[q] = runs[q]
        /\ runs' \in [RunIds -> RunRow]
        /\ Is(r, "queued") /\ UNCHANGED engineVars
    BY BecomesRows DEF ColdLoad, HostInv, Is, Working
  <1>2. \A q \in RunIds : ~Holds(q)
    BY DEF ColdLoad, LockFree, In, Holds
  <1>3. Serving' = Serving /\ UNCHANGED <<loaded, vllm, orphans, squatter>>
    BY <1>1, ServingStays DEF engineVars
  <1>4. OneModel'
    BY <1>1 DEF HostInv, OneModel, Works, Working, Is
  <1>5. OneHolder' /\ ServerKnown' /\ ServedByItsModel'
    BY <1>1, <1>2, <1>3 DEF HostInv, OneHolder, ServerKnown, ServedByItsModel, Holds, Is
  <1>6. HostTypeOK'
    BY <1>0, <1>1, <1>3, Typed DEF HostInv, HostTypeOK
  <1>7. QED
    BY <1>4, <1>5, <1>6 DEF HostInv

\* The server goes, and cuts what it was generating.
LEMMA WithoutRows ==
  ASSUME HostTypeOK
  PROVE  /\ Without(runs) \in [RunIds -> RunRow]
         /\ \A r \in RunIds :
              /\ Without(runs)[r].state = IF Is(r, "generating") THEN "cut" ELSE runs[r].state
              /\ Without(runs)[r].digest = runs[r].digest
  <1>1. runs \in [RunIds -> RunRow]
    BY DEF HostTypeOK
  <1>2. ASSUME NEW r \in RunIds
        PROVE  /\ [runs[r] EXCEPT !.state = "cut"] \in RunRow
               /\ [runs[r] EXCEPT !.state = "cut"].state = "cut"
               /\ [runs[r] EXCEPT !.state = "cut"].digest = runs[r].digest
    BY <1>1 DEF RunRow, Working
  <1>3. QED
    BY <1>1, <1>2 DEF Without, Is

\* The engine's own process goes: an orphan's generations stay.
LEMMA KilledRows ==
  ASSUME HostTypeOK
  PROVE  /\ Killed \in [RunIds -> RunRow]
         /\ \A r \in RunIds :
              /\ Killed[r].state = IF Is(r, "generating") /\ squatter = NoModel THEN "cut"
                                   ELSE runs[r].state
              /\ Killed[r].digest = runs[r].digest
  BY WithoutRows DEF Killed, HostTypeOK

LEMMA BootRows ==
  ASSUME HostTypeOK, NEW r \in RunIds, Boot(r)
  PROVE  /\ runs' \in [RunIds -> RunRow]
         /\ runs'[r].state = "booting" /\ runs'[r].digest = runs[r].digest
         /\ \A q \in RunIds \ {r} :
              /\ runs'[q].state = IF Is(q, "generating") /\ squatter = NoModel THEN "cut"
                                  ELSE runs[q].state
              /\ runs'[q].digest = runs[q].digest
  <1>1. PICK old : old = Killed
    OBVIOUS
  <1>2. runs' = [old EXCEPT ![r] = [old[r] EXCEPT !.state = "booting"]]
    BY <1>1 DEF Boot
  <1>3. /\ old \in [RunIds -> RunRow]
        /\ \A q \in RunIds : /\ old[q].state = IF Is(q, "generating") /\ squatter = NoModel THEN "cut"
                                               ELSE runs[q].state
                             /\ old[q].digest = runs[q].digest
    BY <1>1, KilledRows
  <1>4. /\ [old[r] EXCEPT !.state = "booting"] \in RunRow
        /\ [old[r] EXCEPT !.state = "booting"].state = "booting"
        /\ [old[r] EXCEPT !.state = "booting"].digest = old[r].digest
    BY <1>3 DEF RunRow, Working
  <1>5. QED
    BY <1>2, <1>3, <1>4

LEMMA BootInv == ASSUME HostInv, NEW r \in RunIds, Boot(r) PROVE HostInv'
  <1>1. /\ Is(r, "loading") /\ loaded' = NoModel /\ UNCHANGED <<orphans, squatter, faults>>
        /\ vllm' = [model |-> runs[r].digest, up |-> FALSE]
    BY DEF Boot, Is
  <1>2. /\ runs' \in [RunIds -> RunRow]
        /\ runs'[r].state = "booting" /\ runs'[r].digest = runs[r].digest
        /\ \A q \in RunIds \ {r} :
             /\ runs'[q].state = IF Is(q, "generating") /\ squatter = NoModel THEN "cut"
                                 ELSE runs[q].state
             /\ runs'[q].digest = runs[q].digest
    BY BootRows DEF HostInv
  <1>3. HostTypeOK'
    <2>1. runs[r].digest \in Models
      BY <1>1 DEF HostInv, OneModel, Works, Working, Is
    <2>2. QED
      BY <1>1, <1>2, <2>1, Typed DEF HostInv, HostTypeOK
  <1>4. OneModel'
    BY <1>1, <1>2 DEF HostInv, OneModel, Works, Working, Is
  <1>5. \A q \in RunIds : Holds(q) => q = r
    BY <1>1 DEF HostInv, OneHolder, Holds, Is
  <1>6. OneHolder' /\ ServerKnown' /\ ServedByItsModel'
    BY <1>1, <1>2, <1>5 DEF OneHolder, ServerKnown, ServedByItsModel, Holds, Is
  <1>7. QED
    BY <1>3, <1>4, <1>6 DEF HostInv

LEMMA BootedInv == ASSUME HostInv, NEW r \in RunIds, Booted(r) PROVE HostInv'
  <1>1. /\ runs'[r].state = "generating" /\ runs'[r].digest = runs[r].digest
        /\ \A q \in RunIds \ {r} : runs'[q] = runs[q]
        /\ runs' \in [RunIds -> RunRow] /\ Is(r, "booting")
        /\ loaded' = runs[r].digest /\ UNCHANGED <<orphans, squatter, faults>>
        /\ vllm' = IF squatter = NoModel THEN [vllm EXCEPT !.up = TRUE] ELSE vllm
    BY BecomesRows DEF Booted, HostInv, Is, Working
  <1>2. /\ vllm'.model = runs[r].digest /\ (squatter = NoModel => vllm'.up)
        /\ vllm' \in [model : Models \cup {NoModel}, up : BOOLEAN]
    BY <1>1 DEF HostInv, HostTypeOK, ServerKnown
  <1>3. /\ \A q \in RunIds : Is(q, "generating") => squatter # NoModel
        /\ \A q \in RunIds \ {r} : ~Holds(q)
    BY <1>1 DEF HostInv, OneHolder, Holds, Is
  <1>4. OneModel'
    BY <1>1 DEF HostInv, OneModel, Works, Working, Is
  <1>5. OneHolder' /\ ServerKnown'
    BY <1>1, <1>2, <1>3 DEF OneHolder, ServerKnown, Holds, Is
  <1>6. ServedByItsModel'
    BY <1>1, <1>2, <1>3 DEF ServedByItsModel, Serving, Is
  <1>7. HostTypeOK'
    <2>1. runs[r].digest \in Models
      BY <1>1 DEF HostInv, OneModel, Works, Working, Is
    <2>2. QED
      BY <1>1, <1>2, <2>1, Typed DEF HostInv, HostTypeOK
  <1>8. QED
    BY <1>4, <1>5, <1>6, <1>7 DEF HostInv

\* A run ends, or is forgotten; if in failure, the engine forgets its model.
LEMMA EndsInv ==
  ASSUME HostInv, NEW r \in RunIds, runs'[r].state \notin Working,
         \A q \in RunIds \ {r} : runs'[q] = runs[q], runs' \in [RunIds -> RunRow],
         loaded' \in {loaded, NoModel}, UNCHANGED <<vllm, orphans, squatter>>,
         Fault \/ UNCHANGED faults
  PROVE  HostInv'
  <1>1. /\ \A q \in RunIds : runs'[q].state \in Working => q # r /\ runs'[q] = runs[q]
        /\ Serving' = Serving
    BY DEF Serving
  <1>2. OneModel' /\ OneHolder' /\ ServedByItsModel'
    BY <1>1 DEF HostInv, OneModel, OneHolder, ServedByItsModel, Is, Holds, Works, Working
  <1>3. ServerKnown'
    BY <1>1 DEF HostInv, ServerKnown, Is, Working
  <1>4. HostTypeOK'
    BY Typed DEF HostInv, HostTypeOK
  <1>5. QED
    BY <1>2, <1>3, <1>4 DEF HostInv

LEMMA FailsInv ==
  ASSUME HostInv, NEW r \in RunIds, Fails(r), UNCHANGED vllm, Fault \/ UNCHANGED faults
  PROVE  HostInv'
  <1>1. /\ runs'[r].state = "failed" /\ \A q \in RunIds \ {r} : runs'[q] = runs[q]
        /\ runs' \in [RunIds -> RunRow] /\ loaded' = NoModel /\ UNCHANGED <<orphans, squatter>>
    BY BecomesRows DEF Fails, HostInv
  <1>2. QED
    BY <1>1, EndsInv DEF Working

\* The lock's holder gives up a process that is gone or not up yet: nothing was served by it.
LEMMA BootFailsInv == ASSUME HostInv, NEW r \in RunIds, BootFails(r) PROVE HostInv'
  <1>1. /\ Is(r, "booting") /\ Fails(r) /\ (Fault \/ UNCHANGED faults)
        /\ vllm' \in {vllm, NoVllm}
    BY DEF BootFails, Is
  <1>2. CASE vllm' = vllm
    BY <1>1, <1>2, FailsInv
  <1>3. CASE vllm' = NoVllm
    <2>1. /\ runs'[r].state = "failed" /\ \A q \in RunIds \ {r} : runs'[q] = runs[q]
          /\ runs' \in [RunIds -> RunRow] /\ loaded' = NoModel /\ UNCHANGED <<orphans, squatter>>
      BY <1>1, BecomesRows DEF Fails, HostInv
    <2>2. \A q \in RunIds : runs'[q].state \in Working => q # r /\ runs'[q] = runs[q]
      BY <2>1 DEF Working
    <2>3. OneModel' /\ OneHolder'
      BY <2>1, <2>2 DEF HostInv, OneModel, OneHolder, Is, Holds, Works, Working
    <2>4. \A q \in RunIds \ {r} : ~Is(q, "booting")
      BY <1>1 DEF HostInv, OneHolder, Holds, Is
    <2>5. \A q \in RunIds : Is(q, "generating") => squatter # NoModel
      BY <1>1 DEF HostInv, OneHolder
    <2>6. ServerKnown' /\ ServedByItsModel'
      BY <2>1, <2>2, <2>4, <2>5 DEF ServerKnown, ServedByItsModel, Is, Working
    <2>7. HostTypeOK'
      BY <1>1, <1>3, <2>1, Typed DEF HostInv, HostTypeOK, NoVllm
    <2>8. QED
      BY <2>3, <2>6, <2>7 DEF HostInv
  <1>4. QED
    BY <1>1, <1>2, <1>3

LEMMA AnsweredRows ==
  ASSUME HostTypeOK, NEW r \in RunIds, NEW a \in Answers \cup {"blank"}, Answered(r, a)
  PROVE  /\ runs'[r].state = "succeeded" /\ \A q \in RunIds \ {r} : runs'[q] = runs[q]
         /\ runs' \in [RunIds -> RunRow]
  <1>1. runs \in [RunIds -> RunRow]
    BY DEF HostTypeOK
  <1>2. runs' = [runs EXCEPT ![r] = [runs[r] EXCEPT !.state = "succeeded", !.answer = a]]
    BY <1>1 DEF Answered
  <1>3. /\ [runs[r] EXCEPT !.state = "succeeded", !.answer = a] \in RunRow
        /\ [runs[r] EXCEPT !.state = "succeeded", !.answer = a].state = "succeeded"
    BY <1>1 DEF RunRow
  <1>4. QED
    BY <1>1, <1>2, <1>3

LEMMA AnsweredInv ==
  ASSUME HostInv, NEW r \in RunIds, NEW a \in Answers \cup {"blank"}, Answered(r, a),
         Fault \/ UNCHANGED faults
  PROVE  HostInv'
  <1>1. /\ runs'[r].state = "succeeded" /\ \A q \in RunIds \ {r} : runs'[q] = runs[q]
        /\ runs' \in [RunIds -> RunRow]
    BY AnsweredRows DEF HostInv
  <1>2. loaded' = loaded /\ UNCHANGED <<vllm, orphans, squatter>>
    BY DEF Answered, engineVars
  <1>3. QED
    BY <1>1, <1>2, EndsInv DEF Working

LEMMA GenerateInv == ASSUME HostInv, NEW r \in RunIds, Generate(r) PROVE HostInv'
  <1>1. ASSUME TransportError(r) PROVE HostInv'
    <2>1. Fails(r) /\ UNCHANGED vllm /\ UNCHANGED faults
      BY <1>1 DEF TransportError
    <2>2. QED
      BY <2>1, FailsInv
  <1>2. ASSUME NEW a \in Answers, Generates(r, a) PROVE HostInv'
    <2>1. Answered(r, a) /\ UNCHANGED faults /\ a \in Answers \cup {"blank"}
      BY <1>2 DEF Generates
    <2>2. QED
      BY <2>1, AnsweredInv
  <1>3. QED
    BY <1>1, <1>2, ReuseInv, ColdLoadInv, BootInv, BootedInv DEF Generate

LEMMA ServerDiesInv == ASSUME HostInv, ServerDies PROVE HostInv'
  <1>1. /\ runs' = Without(runs) /\ UNCHANGED <<loaded, orphans>> /\ Fault
        /\ \/ squatter # NoModel /\ squatter' = NoModel /\ UNCHANGED vllm
           \/ squatter = NoModel /\ vllm.up /\ vllm' = NoVllm /\ UNCHANGED squatter
    BY DEF ServerDies, Serving
  <1>2. /\ runs' \in [RunIds -> RunRow]
        /\ \A q \in RunIds : /\ runs'[q].state = IF Is(q, "generating") THEN "cut" ELSE runs[q].state
                             /\ runs'[q].digest = runs[q].digest
    BY <1>1, WithoutRows DEF HostInv
  <1>3. HostTypeOK'
    <2>1. NoVllm \in [model : Models \cup {NoModel}, up : BOOLEAN]
      BY DEF NoVllm
    <2>2. /\ {loaded', squatter'} \subseteq Models \cup {NoModel} /\ orphans' \subseteq Models
          /\ vllm' \in [model : Models \cup {NoModel}, up : BOOLEAN]
      BY <1>1, <2>1 DEF HostInv, HostTypeOK
    <2>3. QED
      BY <1>1, <1>2, <2>2, Typed DEF HostInv
  <1>4. OneModel' /\ OneHolder' /\ ServedByItsModel'
    BY <1>2 DEF HostInv, OneModel, OneHolder, ServedByItsModel, Works, Working, Holds, Is
  <1>5. ServerKnown'
    <2>1. \A q \in RunIds : Is(q, "booting") => vllm' = vllm
      BY <1>1 DEF HostInv, ServerKnown
    <2>2. \A q \in RunIds : Is(q, "booting")' <=> Is(q, "booting")
      BY <1>2 DEF Is
    <2>3. vllm'.model \in {vllm.model, NoModel}
      BY <1>1 DEF NoVllm
    <2>4. QED
      BY <1>1, <1>2, <2>1, <2>2, <2>3 DEF HostInv, ServerKnown
  <1>6. QED
    BY <1>3, <1>4, <1>5 DEF HostInv

\* The port changes hands without a run's doing: not under a generation of its own model.
LEMMA SettlesInv == ASSUME HostInv, VllmSettles \/ OrphanSettles PROVE HostInv'
  <1>1. CASE VllmSettles
    <2>1. /\ \A q \in RunIds : ~Is(q, "booting")
          /\ vllm.model # NoModel /\ ~vllm.up /\ UNCHANGED <<runs, loaded, orphans, squatter, faults>>
          /\ vllm' = IF squatter = NoModel THEN [vllm EXCEPT !.up = TRUE] ELSE NoVllm
      BY <1>1 DEF VllmSettles, In, Is
    <2>2. /\ vllm' \in [model : Models \cup {NoModel}, up : BOOLEAN]
          /\ vllm'.model \in {vllm.model, NoModel}
      BY <2>1 DEF HostInv, HostTypeOK, NoVllm
    <2>3. HostTypeOK'
      BY <2>1, <2>2, Typed DEF HostInv, HostTypeOK
    <2>4. OneModel' /\ OneHolder' /\ ServerKnown'
      BY <2>1, <2>2 DEF HostInv, OneModel, OneHolder, ServerKnown, Works, Holds, Is
    <2>5. \A q \in RunIds : Is(q, "generating") => squatter # NoModel
      BY <2>1, HostAssumption DEF HostInv, OneModel, ServedByItsModel, Serving, Works, Working, Is, NoModel
    <2>6. ServedByItsModel'
      BY <2>1, <2>5 DEF ServedByItsModel, Is
    <2>7. QED
      BY <2>3, <2>4, <2>6 DEF HostInv
  <1>2. CASE OrphanSettles
    <2>1. PICK m \in orphans : /\ orphans' = orphans \ {m}
                               /\ (Serving = NoModel /\ squatter' = m) \/ UNCHANGED squatter
      BY <1>2 DEF OrphanSettles
    <2>2. UNCHANGED <<runs, loaded, vllm, faults>> /\ m \in Models
      BY <1>2, <2>1 DEF OrphanSettles, HostInv, HostTypeOK
    <2>3. HostTypeOK'
      BY <2>1, <2>2, Typed DEF HostInv, HostTypeOK
    <2>4. squatter # NoModel => squatter' # NoModel
      BY <2>1, <2>2, HostAssumption DEF NoModel
    <2>5. squatter' = squatter => Serving' = Serving
      BY <2>2 DEF Serving
    <2>6. squatter' # squatter => squatter' # NoModel
      BY <2>1, <2>2, HostAssumption DEF NoModel
    <2>7. OneModel' /\ OneHolder' /\ ServerKnown'
      BY <2>2, <2>4 DEF HostInv, OneModel, OneHolder, ServerKnown, Works, Holds, Is
    <2>8. ServedByItsModel'
      BY <2>2, <2>5, <2>6 DEF HostInv, ServedByItsModel, Is
    <2>9. QED
      BY <2>3, <2>7, <2>8 DEF HostInv
  <1>3. QED
    BY <1>1, <1>2

\* Of the store's runs, those that are over are forgotten.
LEMMA ForgetsInv ==
  ASSUME HostInv, NEW S, runs' = [r \in RunIds |-> IF r \in S THEN runs[r] ELSE Absent],
         UNCHANGED engineVars, Fault \/ UNCHANGED faults
  PROVE  HostInv'
  <1>1. Absent \in RunRow /\ Absent.state \notin Working
    BY DEF Absent, RunRow, Working
  <1>2. \A q \in RunIds : runs'[q].state \in Working => q \in S /\ runs'[q] = runs[q]
    BY <1>1
  <1>3. Serving' = Serving /\ UNCHANGED <<loaded, vllm, orphans, squatter>>
    BY ServingStays DEF engineVars
  <1>4. HostTypeOK'
    BY <1>1, <1>3, Typed DEF HostInv, HostTypeOK
  <1>5. OneModel' /\ OneHolder' /\ ServedByItsModel' /\ ServerKnown'
    BY <1>2, <1>3 DEF HostInv, OneModel, OneHolder, ServerKnown, ServedByItsModel, Is, Holds, Works, Working
  <1>6. QED
    BY <1>4, <1>5 DEF HostInv

LEMMA HostRestartsInv == ASSUME HostInv, HostRestarts PROVE HostInv'
  <1>1. /\ runs' = [r \in RunIds |-> Absent] /\ Fault
        /\ loaded' = NoModel /\ vllm' = NoVllm /\ squatter' = NoModel
        /\ orphans' = orphans \cup IF vllm.up THEN {} ELSE {vllm.model} \ {NoModel}
    BY DEF HostRestarts
  <1>2. Absent \in RunRow /\ Absent.state \notin Working
    BY DEF Absent, RunRow, Working
  <1>3. runs' \in [RunIds -> RunRow] /\ \A q \in RunIds : runs'[q].state \notin Working
    BY <1>1, <1>2
  <1>4. orphans' \subseteq Models
    BY <1>1 DEF HostInv, HostTypeOK
  <1>5. HostTypeOK'
    BY <1>1, <1>3, <1>4, Typed DEF HostInv, NoVllm
  <1>6. OneModel' /\ OneHolder' /\ ServedByItsModel' /\ ServerKnown'
    BY <1>1, <1>3 DEF OneModel, OneHolder, ServerKnown, ServedByItsModel, Is, Holds, Works, Working
  <1>7. QED
    BY <1>5, <1>6 DEF HostInv

LEMMA HostFaultsInv == ASSUME HostInv, HostFaults PROVE HostInv'
  <1>1. ASSUME NEW r \in RunIds, FaultIn(r) PROVE HostInv'
    BY <1>1, FailsInv DEF FaultIn
  <1>2. ASSUME NEW r \in RunIds, HttpError(r) PROVE HostInv'
    <2>1. Fault \/ UNCHANGED faults
      BY <1>2 DEF HttpError
    <2>2. QED
      BY <1>2, <2>1, AnsweredInv DEF HttpError
  <1>3. QED
    BY <1>1, <1>2, BootFailsInv, ServerDiesInv, SettlesInv, HostRestartsInv DEF HostFaults

----------------------------------------------------------------------------
(* The dispatcher's steps. *)

LEMMA TearDownInv ==
  ASSUME HostInv, TearDown, UNCHANGED faults
  PROVE  HostInv'
  <1>1. CASE Active = {}
    <2>1. \A r \in RunIds : runs[r].state \notin Working
      BY <1>1 DEF Active, In
    <2>2. UNCHANGED <<runs, orphans, squatter>> /\ loaded' = NoModel /\ vllm' = NoVllm
      BY <1>1 DEF TearDown
    <2>3. HostTypeOK'
      BY <2>2, Typed DEF HostInv, HostTypeOK, NoVllm
    <2>4. OneModel' /\ OneHolder' /\ ServerKnown' /\ ServedByItsModel'
      BY <2>1, <2>2 DEF OneModel, OneHolder, ServerKnown, ServedByItsModel, Works, Holds, Is, Working
    <2>5. QED
      BY <2>3, <2>4 DEF HostInv
  <1>2. CASE Active # {}
    <2>1. UNCHANGED <<runs, engineVars, faults>>
      BY <1>2 DEF TearDown
    <2>2. Serving' = Serving /\ UNCHANGED <<loaded, vllm, orphans, squatter>>
      BY <2>1, ServingStays DEF engineVars
    <2>3. QED
      BY <2>1, <2>2 DEF HostInv, HostTypeOK, OneModel, OneHolder, ServerKnown, ServedByItsModel,
         Is, Holds, Works
  <1>3. QED
    BY <1>1, <1>2

\* A run that is taken is of the model of those at work.
LEMMA AcceptInv ==
  ASSUME HostInv, NEW r \in RunIds, NEW m \in Models, ~Busy(r, m), Accept(r, m),
         UNCHANGED engineVars, Fault \/ UNCHANGED faults
  PROVE  HostInv'
  <1>0. Serving' = Serving /\ UNCHANGED <<loaded, vllm, orphans, squatter>>
    BY ServingStays DEF engineVars
  <1>1. CASE Is(r, "absent")
    <2> DEFINE row == [state |-> "queued", digest |-> m, answer |-> "none"]
    <2>1. /\ row \in RunRow /\ row.state = "queued" /\ row.digest = m
      BY DEF RunRow, Working
    <2>2. runs' = [runs EXCEPT ![r] = row]
      BY <1>1 DEF Accept, Is
    <2> HIDE DEF row
    <2>3. /\ runs' \in [RunIds -> RunRow] /\ runs'[r] = row
          /\ \A q \in RunIds \ {r} : runs'[q] = runs[q]
      BY <2>1, <2>2 DEF HostInv, HostTypeOK
    <2>4. r \notin Active
      BY <1>1 DEF Active, In, Working, Is
    <2>5. \A q \in RunIds : Works(q) => runs[q].digest = m
      BY <2>4 DEF Busy, Active, In, Works
    <2>6. OneModel'
      BY <2>1, <2>3, <2>5 DEF OneModel, Works
    <2>7. OneHolder' /\ ServerKnown' /\ ServedByItsModel'
      BY <1>0, <2>1, <2>3 DEF HostInv, OneHolder, ServerKnown, ServedByItsModel, Holds, Is
    <2>8. HostTypeOK'
      BY <1>0, <2>3, Typed DEF HostInv, HostTypeOK
    <2>9. QED
      BY <2>6, <2>7, <2>8 DEF HostInv
  <1>2. CASE ~Is(r, "absent")
    <2>1. UNCHANGED runs
      BY <1>2 DEF Accept, Is
    <2>2. HostTypeOK'
      BY <1>0, <2>1, Typed DEF HostInv, HostTypeOK
    <2>3. QED
      BY <1>0, <2>1, <2>2 DEF HostInv, OneModel, OneHolder, ServerKnown, ServedByItsModel, Is, Holds, Works
  <1>3. QED
    BY <1>1, <1>2

\* Only a call was lost, or nothing at all.
LEMMA HostStays ==
  ASSUME HostInv, UNCHANGED <<runs, engineVars>>, Fault \/ UNCHANGED faults
  PROVE  HostInv'
  <1>1. Serving' = Serving /\ UNCHANGED <<loaded, vllm, orphans, squatter>>
    BY ServingStays DEF engineVars
  <1>2. HostTypeOK'
    BY <1>1, Typed DEF HostInv, HostTypeOK
  <1>3. QED
    BY <1>1, <1>2 DEF HostInv, OneModel, OneHolder, ServerKnown, ServedByItsModel, Is, Holds, Works

LEMMA ClaimInv ==
  ASSUME IInv, NEW m \in Models, NEW lost \in SUBSET Samples, Claim(m, lost)
  PROVE  IInv'
  <1>1. HostInv'
    <2>1. runs' = [r \in RunIds |-> IF r \in Active THEN runs[r] ELSE Absent]
          /\ UNCHANGED engineVars /\ (Fault \/ UNCHANGED faults)
      BY DEF Claim
    <2>2. QED
      BY <2>1, ForgetsInv DEF IInv
  <1>2. TypeOK'
    BY <1>1 DEF HostInv, Claim, MicroTasks, IInv, TypeOK, Idle
  <1>3. TasksOfTheAttempt'
    BY DEF Claim, IInv, TypeOK, TasksOfTheAttempt
  <1>4. QED
    BY <1>1, <1>2, <1>3 DEF IInv

LEMMA RaisedTypes ==
  ASSUME TypeOK, NEW s \in Samples, NEW how \in {"busy", "down"}, Raised(s, how)
  PROVE  /\ gate' \in [pc : {"idle", "drive", "teardown", "judge", "fault"}, decided : BOOLEAN,
                       halt : BOOLEAN, failed : BOOLEAN, raised : {"no", "busy", "down"}]
         /\ at' = [at EXCEPT ![s] = "over"]
         /\ at' \in [Samples -> {"over", "top", "post", "wait", "observe"}]
  BY DEF Raised, TypeOK

\* A task that goes on is of the attempt it was of.
LEMMA TasksStay ==
  ASSUME IInv, UNCHANGED <<attempt, model>>, NEW s \in Samples, NEW pc, at' = [at EXCEPT ![s] = pc],
         pc # "over" => at[s] # "over"
  PROVE  TasksOfTheAttempt'
  BY DEF IInv, TypeOK, TasksOfTheAttempt

LEMMA PostsInv == ASSUME IInv, NEW s \in Samples, Posts(s) PROVE IInv'
  <1>1. /\ at[s] # "over" /\ UNCHANGED <<attempt, model, verdict, sample, stale>>
        /\ attempt \in Attempts /\ model[attempt] \in Models /\ Run(s) \in RunIds
    BY DEF Posts, IInv, TasksOfTheAttempt, Run, RunIds
  <1>2. CASE /\ ~Busy(Run(s), model[attempt]) /\ Accept(Run(s), model[attempt])
             /\ UNCHANGED <<gate, engineVars>> /\ (Fault \/ UNCHANGED faults)
             /\ \E pc \in {"wait", "post"} : at' = [at EXCEPT ![s] = pc]
    <2>1. HostInv'
      BY <1>1, <1>2, AcceptInv DEF IInv
    <2>2. TasksOfTheAttempt'
      BY <1>1, <1>2, TasksStay
    <2>3. TypeOK'
      BY <1>1, <1>2, <2>1 DEF HostInv, IInv, TypeOK
    <2>4. QED
      BY <2>1, <2>2, <2>3 DEF IInv
  <1>3. CASE /\ \E how \in {"busy", "down"} : Raised(s, how)
             /\ UNCHANGED <<runs, engineVars>> /\ (Fault \/ UNCHANGED faults)
    <2>1. HostInv'
      BY <1>3, HostStays DEF IInv
    <2>2. at' = [at EXCEPT ![s] = "over"]
      BY <1>3, RaisedTypes DEF IInv
    <2>3. TasksOfTheAttempt'
      BY <1>1, <2>2, TasksStay
    <2>4. TypeOK'
      BY <1>1, <1>3, <2>1, RaisedTypes DEF HostInv, IInv, TypeOK
    <2>5. QED
      BY <2>1, <2>3, <2>4 DEF IInv
  <1>4. QED
    BY <1>2, <1>3 DEF Posts, hostVars

LEMMA ReadsInv == ASSUME IInv, NEW s \in Samples, Reads(s) PROVE IInv'
  <1>1. /\ at[s] # "over" /\ UNCHANGED <<engineVars, faults, attempt, model, verdict, gate, stale>>
        /\ runs' = [runs EXCEPT ![Run(s)] = Absent] /\ Run(s) \in RunIds
        /\ DOMAIN sample' = DOMAIN sample
        /\ \E pc \in {"post", "over", "observe"} : at' = [at EXCEPT ![s] = pc]
    BY DEF Reads, Next_, IInv, TasksOfTheAttempt, Run, RunIds
  <1>2. HostInv'
    <2>1. Absent \in RunRow /\ Absent.state \notin Working
      BY DEF Absent, RunRow, Working
    <2>2. /\ runs'[Run(s)].state \notin Working /\ \A q \in RunIds \ {Run(s)} : runs'[q] = runs[q]
          /\ runs' \in [RunIds -> RunRow]
      BY <1>1, <2>1 DEF IInv, HostInv, HostTypeOK
    <2>3. UNCHANGED <<loaded, vllm, orphans, squatter, faults>>
      BY <1>1 DEF engineVars
    <2>4. QED
      BY <1>1, <2>2, <2>3, EndsInv DEF IInv
  <1>3. TasksOfTheAttempt'
    BY <1>1, TasksStay
  <1>4. TypeOK'
    BY <1>1, <1>2 DEF HostInv, IInv, TypeOK
  <1>5. QED
    BY <1>2, <1>3, <1>4 DEF IInv

\* The tasks' other steps leave the host alone.
LEMMA TaskInv == ASSUME IInv, NEW s \in Samples, Task(s) \/ Unreachable(s) PROVE IInv'
  <1>1. ASSUME Stops(s) \/ ReadsFault(s) \/ Observes(s) PROVE IInv'
    <2>1. /\ UNCHANGED <<hostVars, attempt, model, verdict, stale>>
          /\ at[s] # "over" /\ \E pc \in {"over", "top"} : at' = [at EXCEPT ![s] = pc]
          /\ DOMAIN sample' = DOMAIN sample
      BY <1>1 DEF Stops, ReadsFault, Observes
    <2>2. HostInv'
      BY <2>1, HostStays DEF IInv, hostVars
    <2>3. TasksOfTheAttempt'
      BY <2>1, TasksStay
    <2>4. at' \in [Samples -> {"over", "top", "post", "wait", "observe"}] /\ DOMAIN sample' = Samples
      BY <2>1 DEF IInv, TypeOK
    <2>5. \/ UNCHANGED gate
          \/ gate' = [[gate EXCEPT !.decided = TRUE] EXCEPT !.halt = TRUE]
          \/ gate' = [[gate EXCEPT !.failed = TRUE] EXCEPT !.halt = TRUE]
      BY <1>1 DEF Stops, ReadsFault, Observes, IInv, TypeOK
    <2>6. gate' \in [pc : {"idle", "drive", "teardown", "judge", "fault"}, decided : BOOLEAN,
                     halt : BOOLEAN, failed : BOOLEAN, raised : {"no", "busy", "down"}]
      BY <2>5 DEF IInv, TypeOK
    <2>7. TypeOK'
      BY <2>1, <2>2, <2>4, <2>6 DEF HostInv, IInv, TypeOK
    <2>8. QED
      BY <2>2, <2>3, <2>7 DEF IInv
  <1>2. ASSUME Gone(s) \/ Unreachable(s) PROVE IInv'
    <2>1. /\ Raised(s, "down") /\ at[s] # "over"
          /\ UNCHANGED <<runs, engineVars, attempt, model, verdict, sample, stale>>
          /\ Fault \/ UNCHANGED faults
      BY <1>2 DEF Gone, Unreachable, hostVars
    <2>2. HostInv'
      BY <2>1, HostStays DEF IInv
    <2>3. at' = [at EXCEPT ![s] = "over"]
      BY <2>1, RaisedTypes DEF IInv
    <2>4. TasksOfTheAttempt'
      BY <2>1, <2>3, TasksStay
    <2>5. TypeOK'
      BY <2>1, <2>2, RaisedTypes DEF HostInv, IInv, TypeOK
    <2>6. QED
      BY <2>2, <2>4, <2>5 DEF IInv
  <1>3. QED
    BY <1>1, <1>2, PostsInv, ReadsInv DEF Task

LEMMA EndsIInv == ASSUME IInv, NEW v \in Verdicts, Ends(v) PROVE IInv'
  <1>1. HostInv'
    BY HostStays DEF Ends, IInv, hostVars
  <1>2. TasksOfTheAttempt'
    BY DEF Ends, TasksOfTheAttempt
  <1>3. TypeOK'
    BY <1>1 DEF HostInv, Ends, IInv, TypeOK
  <1>4. QED
    BY <1>1, <1>2, <1>3 DEF IInv

\* What the dispatcher concludes: a pass only of samples all clean.
LEMMA VerdictTells ==
  ASSUME NEW v \in Verdict
  PROVE  /\ v \in {"passed", "rejected", "infra"}
         /\ v = "passed" => \A s \in Samples : sample[s].reason = ""
  <1>1. PICK of : /\ v = Aggregate(of)
                  /\ Clean(sample) = Samples \/ of = [s \in Samples |-> Heuristic(sample[s])]
    BY DEF Verdict
  <1>2. v \in {"passed", "rejected", "infra"} /\ (v = "passed" => \A s \in Samples : of[s] = "passed")
    <2>1. CASE \A s \in Samples : of[s] = "passed"
      BY <1>1, <2>1 DEF Aggregate
    <2>2. CASE \E s \in Samples : of[s] = "injection"
      BY <1>1, <2>2 DEF Aggregate
    <2>3. CASE /\ ~\A s \in Samples : of[s] = "passed"
               /\ ~\E s \in Samples : of[s] = "injection"
      BY <1>1, <2>3 DEF Aggregate
    <2>4. QED
      BY <2>1, <2>2, <2>3
  <1>3. CASE Clean(sample) = Samples
    BY <1>2, <1>3 DEF Clean
  <1>4. CASE of = [s \in Samples |-> Heuristic(sample[s])]
    BY <1>2, <1>4 DEF Heuristic
  <1>5. QED
    BY <1>1, <1>3, <1>4

LEMMA DispatcherInv == ASSUME IInv, Dispatcher \/ TeardownArrives PROVE IInv'
  <1>1. ASSUME Gathers PROVE IInv'
    <2>1. HostInv'
      BY <1>1, HostStays DEF Gathers, IInv, hostVars
    <2>2. TasksOfTheAttempt'
      BY <1>1 DEF Gathers, IInv, TasksOfTheAttempt
    <2>3. DOMAIN sample' = Samples
      BY <1>1 DEF Gathers, Inspected, Accused, IInv, TypeOK
    <2>4. TypeOK'
      BY <1>1, <2>1, <2>3 DEF Gathers, HostInv, IInv, TypeOK
    <2>5. QED
      BY <2>1, <2>2, <2>4 DEF IInv
  <1>2. ASSUME TearsDown \/ TeardownArrives PROVE IInv'
    <2>1. \/ TearDown /\ UNCHANGED faults
          \/ Fault /\ UNCHANGED <<runs, engineVars>>
      BY <1>2 DEF TearsDown, TeardownArrives
    <2>2. HostInv'
      BY <2>1, TearDownInv, HostStays DEF IInv
    <2>3. TasksOfTheAttempt'
      BY <1>2 DEF TearsDown, TeardownArrives, IInv, TasksOfTheAttempt
    <2>4. TypeOK'
      BY <1>2, <2>2 DEF TearsDown, TeardownArrives, After, HostInv, IInv, TypeOK
    <2>5. QED
      BY <2>2, <2>3, <2>4 DEF IInv
  <1>3. ASSUME EndsInFault \/ Judges PROVE IInv'
    <2>1. \E v \in Verdicts : Ends(v)
      BY <1>3, VerdictTells DEF EndsInFault, Judges, Verdicts
    <2>2. QED
      BY <2>1, EndsIInv
  <1>4. QED
    BY <1>1, <1>2, <1>3, ClaimInv DEF Dispatcher

LEMMA NextIInv == IInv /\ [Next]_vars => IInv'
  <1> SUFFICES ASSUME IInv, [Next]_vars PROVE IInv'
    OBVIOUS
  <1>1. CASE Host
    <2>1. HostInv'
      BY <1>1, GenerateInv, HostFaultsInv DEF Host, IInv
    <2>2. TypeOK' /\ TasksOfTheAttempt'
      BY <1>1, <2>1 DEF Host, gateVars, HostInv, IInv, TypeOK, TasksOfTheAttempt
    <2>3. QED
      BY <2>1, <2>2 DEF IInv
  <1>2. CASE UNCHANGED vars
    <2>1. HostInv'
      BY <1>2, HostStays DEF IInv, vars, hostVars
    <2>2. TypeOK' /\ TasksOfTheAttempt'
      BY <1>2, <2>1 DEF vars, gateVars, HostInv, IInv, TypeOK, TasksOfTheAttempt
    <2>3. QED
      BY <2>1, <2>2 DEF IInv
  <1>3. QED
    BY <1>1, <1>2, DispatcherInv, TaskInv DEF Next

----------------------------------------------------------------------------
(* What cuts a generation short. *)

Spared ==
  \A r \in RunIds :
    runs[r].state = "generating" /\ runs'[r].state = "cut"
      => \/ faults' > faults
         \/ \E b \in RunIds : /\ runs[b].state = "loading" /\ runs'[b].state = "booting"
                              /\ runs[b].digest = runs[r].digest

LEMMA RowsSpared ==
  ASSUME \A r \in RunIds : runs'[r] = runs[r] \/ runs'[r].state # "cut"
  PROVE  Spared
  BY DEF Spared

LEMMA BootSpares == ASSUME HostInv, NEW b \in RunIds, Boot(b) PROVE Spared
  <1>1. runs[b].state = "loading" /\ runs'[b].state = "booting"
    BY BootRows DEF Boot, HostInv
  <1>2. \A r \in RunIds : runs[r].state = "generating" => runs[b].digest = runs[r].digest
    BY <1>1 DEF HostInv, OneModel, Works, Working
  <1>3. QED
    BY <1>1, <1>2 DEF Spared

LEMMA HostSpares == ASSUME HostInv, NEW r \in RunIds, Generate(r) \/ FaultIn(r) \/ BootFails(r) \/ HttpError(r) PROVE Spared
  <1>1. CASE Boot(r)
    BY <1>1, BootSpares
  <1>2. CASE \E st \in {"failed", "succeeded", "loading", "generating"} : Becomes(r, st)
    <2>1. PICK st \in {"failed", "succeeded", "loading", "generating"} : Becomes(r, st)
      BY <1>2
    <2>2. runs'[r].state = st /\ \A q \in RunIds \ {r} : runs'[q] = runs[q]
      BY <2>1, BecomesRows DEF HostInv, Working
    <2>3. QED
      BY <2>2, RowsSpared
  <1>3. CASE \E a \in Answers \cup {"blank"} : Answered(r, a)
    <2>1. runs'[r].state = "succeeded" /\ \A q \in RunIds \ {r} : runs'[q] = runs[q]
      BY <1>3, AnsweredRows DEF HostInv
    <2>2. QED
      BY <2>1, RowsSpared
  <1>4. QED
    BY <1>1, <1>2, <1>3 DEF Generate, FaultIn, BootFails, HttpError, Reuse, ColdLoad, Booted, TransportError,
       Generates, Fails

LEMMA TearDownSpares == ASSUME TearDown PROVE Spared
  BY RowsSpared DEF TearDown

LEMMA StepSpares == IInv /\ [Next]_vars => Spared
  <1> SUFFICES ASSUME IInv, [Next]_vars PROVE Spared
    OBVIOUS
  <1>1. CASE Host
    <2>1. CASE ServerDies \/ HostRestarts
      BY <2>1, FaultType DEF ServerDies, HostRestarts, Spared, IInv, HostInv
    <2>2. CASE VllmSettles \/ OrphanSettles
      BY <2>2, RowsSpared DEF VllmSettles, OrphanSettles
    <2>3. QED
      BY <1>1, <2>1, <2>2, HostSpares DEF Host, HostFaults, IInv
  <1>2. CASE UNCHANGED runs
    BY <1>2, RowsSpared
  <1>3. CASE TearsDown \/ TeardownArrives
    BY <1>2, <1>3, TearDownSpares DEF TearsDown, TeardownArrives
  <1>4. ASSUME NEW m \in Models, NEW lost \in SUBSET Samples, Claim(m, lost) PROVE Spared
    <2>1. \A r \in RunIds : runs'[r] = runs[r] \/ runs'[r].state = "absent"
      BY <1>4 DEF Claim, Absent
    <2>2. QED
      BY <2>1, RowsSpared
  <1>5. ASSUME NEW s \in Samples, Posts(s) PROVE Spared
    <2>1. CASE Accept(Run(s), model[attempt])
      <3> DEFINE row == [state |-> "queued", digest |-> model[attempt], answer |-> "none"]
      <3>1. row.state # "cut" /\ (runs' = runs \/ runs' = [runs EXCEPT ![Run(s)] = row])
        BY <2>1 DEF Accept
      <3> HIDE DEF row
      <3>2. \A r \in RunIds : runs'[r] = runs[r] \/ runs'[r] = row
        BY <3>1 DEF IInv, HostInv, HostTypeOK
      <3>3. QED
        BY <3>1, <3>2, RowsSpared
    <2>2. QED
      BY <1>2, <1>5, <2>1 DEF Posts, hostVars
  <1>6. ASSUME NEW s \in Samples, Reads(s) PROVE Spared
    <2>1. Absent.state # "cut" /\ runs' = [runs EXCEPT ![Run(s)] = Absent]
      BY <1>6 DEF Reads, Absent
    <2>2. \A r \in RunIds : runs'[r] = runs[r] \/ runs'[r] = Absent
      BY <2>1 DEF IInv, HostInv, HostTypeOK
    <2>3. QED
      BY <2>1, <2>2, RowsSpared
  <1>7. QED
    BY <1>1, <1>2, <1>3, <1>4, <1>5, <1>6
    DEF Next, Dispatcher, Task, Unreachable, Stops, ReadsFault, Gone, Observes, Gathers, EndsInFault,
        Judges, Ends, vars, hostVars

----------------------------------------------------------------------------
(* How a sample ends.  Fields are those of a trajectory. *)

Fields == {"turn", "segment", "stopped", "error", "reason", "retry", "bad", "silent", "submits",
           "nudged", "edits", "touched", "worked", "empty", "asIs", "wrong", "last"}

\* The reasons a sample's own turns give; the others come of checks.
Early == {"bad turns", "submission loop"}

Ended(t) == Ran(t) \/ t.reason \in Early

Over(s) == at[s] = "over"

SamplesShape == \A s \in Samples : DOMAIN sample[s] = Fields

\* Attempts are claimed in their order, and the one at work has no verdict.
VerdictsInOrder ==
  /\ \A a \in Attempts : a > attempt => verdict[a] = "none"
  /\ gate.pc # "idle" => attempt \in Attempts /\ verdict[attempt] = "none"

\* The dispatcher goes on without its tasks only when one of them raised.
Gathered ==
  /\ gate.pc # "drive" /\ (gate.raised = "no" \/ gate.pc = "idle") => \A s \in Samples : Over(s)
  /\ gate.pc = "drive" => gate.raised = "no"
  /\ gate.pc = "judge" => gate.raised = "no" /\ ~gate.failed

\* What tells tasks to stop before their end: a sample that failed, or the host.
HaltedFor ==
  gate.pc # "idle"
    => /\ gate.halt => gate.decided \/ gate.failed
       /\ gate.decided => \E s \in Samples : Over(s) /\ sample[s].reason # ""

EndedWell ==
  gate.pc # "idle" /\ gate.raised = "no" /\ ~gate.failed /\ ~gate.decided
    => \A s \in Samples : Over(s) => Ended(sample[s])

\* The checks have not been made, or had trajectories that were at their ends.
CheckedWhole ==
  \/ \A s \in Samples : sample[s].reason \in Early \cup {""}
  \/ gate.pc # "drive" /\ \A s \in Samples : Over(s) /\ Ended(sample[s])

PassedWhole ==
  attempt \in Attempts /\ verdict[attempt] = "passed" => \A s \in Samples : Ended(sample[s])

TrajInv == /\ SamplesShape /\ VerdictsInOrder /\ Gathered /\ HaltedFor /\ EndedWell
           /\ CheckedWhole /\ PassedWhole

----------------------------------------------------------------------------
(* The steps of a trajectory. *)

\* What a turn adds to a sample's record, before its next turn.
LEMMA TurnKeeps ==
  ASSUME NEW t, NEW a, DOMAIN t = Fields, t.reason \in Early \cup {""}
  PROVE  /\ DOMAIN ApplyTurn(t, a) = Fields /\ ApplyTurn(t, a).reason \in Early \cup {""}
         /\ DOMAIN SubmissionIssue(ApplyTurn(t, a)) = Fields
         /\ SubmissionIssue(ApplyTurn(t, a)).reason \in Early \cup {""}
  <1>1. DOMAIN BadTurn(t) = Fields /\ BadTurn(t).reason \in Early \cup {""}
    BY DEF BadTurn, Fields, Early
  <1>2. DOMAIN GoodTurn(t, a) = Fields /\ GoodTurn(t, a).reason \in Early \cup {""}
    BY DEF GoodTurn, Fields, Early
  <1> DEFINE u == ApplyTurn(t, a)
  <1>3. DOMAIN u = Fields /\ u.reason \in Early \cup {""}
    BY <1>1, <1>2 DEF ApplyTurn
  <1> HIDE DEF u
  <1>4. DOMAIN SubmissionIssue(u) = Fields /\ SubmissionIssue(u).reason \in Early \cup {""}
    BY <1>3 DEF SubmissionIssue, Fields, Early
  <1>5. QED
    BY <1>3, <1>4 DEF u

\* An observation accuses nobody.
LEMMA ObservedKeeps ==
  ASSUME NEW t, DOMAIN t = Fields, NEW u \in Observed(t)
  PROVE  DOMAIN u = Fields /\ u.reason = t.reason
  <1> DEFINE Kept(v) == DOMAIN v = Fields /\ v.reason = t.reason
  <1>1. \A v \in Observations(t) : Kept(v)
    BY DEF Observations, Silence, Fields
  <1>2. \A v \in Replies(t) : Kept(v)
    <2>1. Kept(Advance(t)) /\ Kept(Reject(t))
      BY DEF Advance, Reject, Fields
    <2>2. Kept(SubmissionEnds(t))
      <3> DEFINE w == Advance(t)
      <3>1. Kept(w)
        BY <2>1
      <3> HIDE DEF w
      <3>2. Kept([w EXCEPT !.stopped = TRUE, !.segment = t.segment])
        BY <3>1 DEF Fields
      <3>3. QED
        BY <3>2 DEF SubmissionEnds, w
    <2> HIDE DEF Kept
    <2>3. QED
      BY <2>1, <2>2 DEF Replies
  <1>3. PICK v : Kept(v) /\ u = [Nudge(v) EXCEPT !.turn = @ + 1]
    <2>1. Kept(t)
      OBVIOUS
    <2> HIDE DEF Kept
    <2>2. QED
      BY <1>1, <1>2, <2>1 DEF Observed
  <1>4. Kept(Nudge(v))
    BY <1>3 DEF Nudge, Fields
  <1> DEFINE w == Nudge(v)
  <1>5. Kept(w) /\ u = [w EXCEPT !.turn = @ + 1]
    BY <1>3, <1>4
  <1> HIDE DEF w
  <1>6. QED
    BY <1>5 DEF Fields

\* The checks accuse the samples that nothing is held against, and change nothing else.
LEMMA AccusedKeeps ==
  ASSUME NEW ts, NEW S, NEW reason, \A s \in Samples : DOMAIN ts[s] = Fields
  PROVE  \A s \in Samples : LET t == Accused(ts, S, reason)[s]
                            IN  /\ DOMAIN t = Fields
                                /\ Ran(t) <=> Ran(ts[s])
                                /\ s \notin S => t.reason = ts[s].reason
  BY DEF Accused, Fields, Ran

LEMMA CheckedKeeps ==
  ASSUME DOMAIN sample = Samples, SamplesShape
  PROVE  \A s \in Samples : LET t == Checked(sample)[s]
                            IN  /\ DOMAIN t = Fields
                                /\ Ran(t) <=> Ran(sample[s])
                                /\ sample[s].reason # "" => t.reason = sample[s].reason
  <1>1. ASSUME NEW s \in Samples
        PROVE  \E r : /\ sample[s].reason # "" => r = sample[s].reason
                      /\ Checked(sample)[s] \in {sample[s], [sample[s] EXCEPT !.reason = r]}
    BY DEF Checked
  <1>2. TAKE s \in Samples
  <1>3. PICK r : /\ sample[s].reason # "" => r = sample[s].reason
                 /\ Checked(sample)[s] \in {sample[s], [sample[s] EXCEPT !.reason = r]}
    BY <1>1
  <1>4. QED
    BY <1>3 DEF SamplesShape, Fields, Ran

LEMMA InspectedKeeps ==
  ASSUME DOMAIN sample = Samples, SamplesShape,
         NEW style \in SUBSET Clean(Checked(sample)), NEW judged \in SUBSET Clean(Checked(sample))
  PROVE  \A s \in Samples : LET t == Inspected(Checked(sample), style, judged)[s]
                            IN  DOMAIN t = Fields /\ (Ended(sample[s]) => Ended(t))
  <1> DEFINE ts == Checked(sample)
             us == Accused(ts, style, "style")
             vs == Accused(us, judged, "judged")
  <1>1. \A s \in Samples : /\ DOMAIN ts[s] = Fields /\ (Ran(ts[s]) <=> Ran(sample[s]))
                           /\ sample[s].reason # "" => ts[s].reason = sample[s].reason
    BY CheckedKeeps
  <1>2. \A s \in style \cup judged : ts[s].reason = ""
    BY DEF Clean
  <1>3. vs = Inspected(Checked(sample), style, judged)
    BY DEF Inspected
  <1> HIDE DEF ts
  <1>4. \A s \in Samples : /\ DOMAIN us[s] = Fields /\ (Ran(us[s]) <=> Ran(ts[s]))
                           /\ s \notin style => us[s].reason = ts[s].reason
    BY <1>1 DEF Accused, Fields, Ran
  <1> HIDE DEF us
  <1>5. \A s \in Samples : /\ DOMAIN vs[s] = Fields /\ (Ran(vs[s]) <=> Ran(us[s]))
                           /\ s \notin judged => vs[s].reason = us[s].reason
    BY <1>4, AccusedKeeps
  <1> HIDE DEF vs
  <1>6. \A s \in Samples : DOMAIN vs[s] = Fields /\ (Ended(sample[s]) => Ended(vs[s]))
    BY <1>1, <1>2, <1>4, <1>5 DEF Ended, Early
  <1>7. QED
    BY <1>3, <1>6

----------------------------------------------------------------------------
(* TrajInv is inductive. *)

LEMMA InitTrajInv == Init => TrajInv
  <1> SUFFICES ASSUME Init PROVE TrajInv
    OBVIOUS
  <1>1. \A s \in Samples : DOMAIN sample[s] = Fields /\ sample[s].reason = "" /\ Over(s)
    BY DEF Init, Fresh, Fields, Over
  <1>2. gate.pc = "idle" /\ \A a \in Attempts : verdict[a] = "none"
    BY DEF Init, Idle
  <1>3. QED
    BY <1>1, <1>2 DEF TrajInv, SamplesShape, VerdictsInOrder, Gathered, HaltedFor, EndedWell,
       CheckedWhole, PassedWhole

LEMMA TrajStays ==
  ASSUME TrajInv, UNCHANGED <<attempt, verdict, gate, at, sample>>
  PROVE  TrajInv'
  BY DEF TrajInv, SamplesShape, VerdictsInOrder, Gathered, HaltedFor, EndedWell, CheckedWhole,
     PassedWhole, Over

LEMMA ClaimTrajInv ==
  ASSUME TypeOK, TrajInv, NEW m \in Models, NEW lost \in SUBSET Samples, Claim(m, lost)
  PROVE  TrajInv'
  <1>1. /\ gate.pc = "idle" /\ attempt + 1 \in Attempts /\ attempt' = attempt + 1
        /\ gate' = [Idle EXCEPT !.pc = "drive"] /\ verdict' = verdict
        /\ at' = [s \in Samples |-> "top"]
        /\ sample' = [s \in Samples |-> [Fresh EXCEPT !.error = s \in lost]]
    BY DEF Claim, MicroTasks
  <1>2. attempt \in Nat /\ attempt + 1 > attempt
    BY GateAssumption DEF TypeOK
  <1>3. \A s \in Samples : DOMAIN sample'[s] = Fields /\ sample'[s].reason = "" /\ ~Over(s)'
    BY <1>1 DEF Fresh, Fields, Over
  <1>4. /\ gate'.pc = "drive" /\ gate'.raised = "no" /\ ~gate'.halt /\ ~gate'.decided
    BY <1>1 DEF Idle
  <1>5. VerdictsInOrder' /\ PassedWhole'
    BY <1>1, <1>2, GateAssumption DEF TrajInv, VerdictsInOrder, PassedWhole
  <1>6. SamplesShape' /\ Gathered' /\ HaltedFor' /\ EndedWell' /\ CheckedWhole'
    BY <1>3, <1>4 DEF SamplesShape, Gathered, HaltedFor, EndedWell, CheckedWhole
  <1>7. QED
    BY <1>5, <1>6 DEF TrajInv

\* A task at work means that nothing was gathered yet.
LEMMA AtWork ==
  ASSUME TrajInv, NEW s \in Samples, ~Over(s)
  PROVE  /\ gate.pc # "idle" /\ (gate.pc = "drive" \/ gate.raised # "no")
         /\ gate.pc # "judge"
         /\ \A q \in Samples : sample[q].reason \in Early \cup {""}
  BY DEF TrajInv, Gathered, CheckedWhole

\* A task that goes on to its next state, with what it did in its sample.
LEMMA GoesOnTrajInv ==
  ASSUME TypeOK, TrajInv, NEW s \in Samples, ~Over(s), UNCHANGED <<attempt, verdict, gate>>,
         NEW t, sample'[s] = t, \A q \in Samples \ {s} : sample'[q] = sample[q], DOMAIN t = Fields, t.reason \in Early \cup {""},
         NEW pc, at' = [at EXCEPT ![s] = pc], pc = "over" => Ended(t)
  PROVE  TrajInv'
  <1>1. /\ gate.pc # "idle" /\ (gate.pc = "drive" \/ gate.raised # "no") /\ gate.pc # "judge"
        /\ \A q \in Samples : sample[q].reason \in Early \cup {""}
    BY AtWork
  <1>2. /\ sample'[s] = t /\ (Over(s)' => pc = "over")
        /\ \A q \in Samples \ {s} : sample'[q] = sample[q] /\ (Over(q)' <=> Over(q))
    BY DEF TypeOK, Over
  <1>3. SamplesShape' /\ CheckedWhole'
    BY <1>1, <1>2 DEF TrajInv, SamplesShape, CheckedWhole
  <1>4. VerdictsInOrder' /\ PassedWhole'
    BY <1>1 DEF TrajInv, VerdictsInOrder, PassedWhole
  <1>5. Gathered'
    BY <1>1 DEF TrajInv, Gathered
  <1>6. HaltedFor'
    BY <1>2 DEF TrajInv, HaltedFor
  <1>7. EndedWell'
    BY <1>2 DEF TrajInv, EndedWell
  <1>8. QED
    BY <1>3, <1>4, <1>5, <1>6, <1>7 DEF TrajInv

\* A task that is over without a word of its sample: it raised, or was told to stop.
LEMMA StopsTrajInv ==
  ASSUME TypeOK, TrajInv, NEW s \in Samples, ~Over(s), at' = [at EXCEPT ![s] = "over"],
         UNCHANGED <<attempt, verdict, sample>>,
         gate'.pc \in {gate.pc, "teardown"}, gate'.pc = "teardown" => gate'.raised # "no",
         gate'.raised = "no" => gate.raised = "no",
         gate'.failed \/ (gate'.failed = gate.failed),
         gate.pc = "drive" /\ gate'.pc = "drive" => gate'.raised = "no",
         gate'.halt => gate.halt \/ gate'.decided \/ gate'.failed,
         gate.decided => gate'.decided,
         gate'.decided => gate.decided \/ sample[s].reason # "",
         \/ gate'.raised # "no" \/ gate'.failed \/ gate'.decided
         \/ Ended(sample[s])
  PROVE  TrajInv'
  <1>1. /\ gate.pc # "idle" /\ (gate.pc = "drive" \/ gate.raised # "no") /\ gate.pc # "judge"
        /\ \A q \in Samples : sample[q].reason \in Early \cup {""}
    BY AtWork
  <1>2. Over(s)' /\ \A q \in Samples \ {s} : Over(q)' <=> Over(q)
    BY DEF TypeOK, Over
  <1>3. SamplesShape' /\ CheckedWhole'
    BY <1>1 DEF TrajInv, SamplesShape, CheckedWhole
  <1>4. VerdictsInOrder' /\ PassedWhole'
    BY <1>1 DEF TrajInv, VerdictsInOrder, PassedWhole
  <1>5. Gathered'
    BY <1>1 DEF TrajInv, Gathered
  <1>6. HaltedFor'
    BY <1>1, <1>2 DEF TrajInv, HaltedFor
  <1>7. EndedWell'
    BY <1>1, <1>2 DEF TrajInv, EndedWell
  <1>8. QED
    BY <1>3, <1>4, <1>5, <1>6, <1>7 DEF TrajInv

LEMMA RaisedTrajInv ==
  ASSUME TypeOK, TrajInv, NEW s \in Samples, ~Over(s), NEW how \in {"busy", "down"}, Raised(s, how),
         UNCHANGED <<attempt, verdict, sample>>
  PROVE  TrajInv'
  <1>1. /\ gate.pc = "drive" \/ gate.raised # "no"
        /\ gate.pc # "teardown" \/ gate.raised # "no"
    BY AtWork
  <1>2. /\ gate'.pc \in {gate.pc, "teardown"} /\ gate'.raised # "no"
        /\ gate'.failed = gate.failed /\ gate'.halt = gate.halt /\ gate'.decided = gate.decided
        /\ gate'.pc = "drive" => gate'.raised = "no"
    BY <1>1 DEF Raised, TypeOK, TrajInv, Gathered
  <1>3. at' = [at EXCEPT ![s] = "over"]
    BY DEF Raised
  <1>4. gate.decided => gate'.decided
    BY <1>2
  <1>5. gate'.halt => gate.halt \/ gate'.decided \/ gate'.failed
    BY <1>2
  <1>6. QED
    BY <1>2, <1>3, <1>4, <1>5, StopsTrajInv

LEMMA TaskTrajInv == ASSUME TypeOK, TrajInv, NEW s \in Samples, Task(s) \/ Unreachable(s) PROVE TrajInv'
  <1>1. ASSUME Stops(s) PROVE TrajInv'
    <2>1. /\ ~Over(s) /\ at' = [at EXCEPT ![s] = "over"] /\ UNCHANGED <<attempt, verdict, sample>>
          /\ Halting(sample[s]) \/ gate.halt
          /\ gate' = IF sample[s].reason # "" /\ ~Consensus
                     THEN [gate EXCEPT !.decided = TRUE, !.halt = TRUE] ELSE gate
      BY <1>1 DEF Stops, Over
    <2>2. /\ gate'.pc = gate.pc /\ gate'.raised = gate.raised /\ gate'.failed = gate.failed
          /\ gate'.halt => gate.halt \/ gate'.decided
          /\ gate.decided => gate'.decided
          /\ gate'.decided => gate.decided \/ sample[s].reason # ""
      BY <2>1 DEF TypeOK
    <2>3. /\ gate.pc # "idle" /\ (gate.pc = "drive" \/ gate.raised # "no")
          /\ sample[s].reason \in Early \cup {""}
      BY <2>1, AtWork
    <2>4. gate'.failed \/ gate'.decided \/ Ended(sample[s])
      BY <2>1, <2>2, <2>3 DEF Halting, Ended, Ran, TrajInv, HaltedFor
    <2>5. /\ gate'.pc = "teardown" => gate'.raised # "no"
          /\ gate.pc = "drive" /\ gate'.pc = "drive" => gate'.raised = "no"
      BY <2>2, <2>3 DEF TrajInv, Gathered
    <2>6. QED
      BY <2>1, <2>2, <2>4, <2>5, StopsTrajInv
  <1>2. ASSUME ReadsFault(s) PROVE TrajInv'
    <2>1. /\ ~Over(s) /\ at' = [at EXCEPT ![s] = "over"] /\ UNCHANGED <<attempt, verdict, sample>>
          /\ gate' = [gate EXCEPT !.failed = TRUE, !.halt = TRUE]
      BY <1>2 DEF ReadsFault, Over
    <2>2. /\ gate'.pc = gate.pc /\ gate'.raised = gate.raised /\ gate'.failed
          /\ gate'.decided = gate.decided
      BY <2>1 DEF TypeOK
    <2>3. gate.pc = "drive" \/ gate.raised # "no"
      BY <2>1, AtWork
    <2>4. /\ gate'.pc = "teardown" => gate'.raised # "no"
          /\ gate.pc = "drive" /\ gate'.pc = "drive" => gate'.raised = "no"
      BY <2>2, <2>3 DEF TrajInv, Gathered
    <2>5. gate.decided => gate'.decided
      BY <2>2
    <2>6. QED
      BY <2>1, <2>2, <2>4, <2>5, StopsTrajInv
  <1>3. ASSUME Gone(s) \/ Unreachable(s) PROVE TrajInv'
    <2>1. ~Over(s) /\ Raised(s, "down") /\ UNCHANGED <<attempt, verdict, sample>>
      BY <1>3 DEF Gone, Unreachable, Over
    <2>2. QED
      BY <2>1, RaisedTrajInv
  <1>4. ASSUME Posts(s) PROVE TrajInv'
    <2>1. ~Over(s) /\ UNCHANGED <<attempt, verdict, sample>>
      BY <1>4 DEF Posts, Over
    <2>2. CASE \E how \in {"busy", "down"} : Raised(s, how)
      BY <2>1, <2>2, RaisedTrajInv
    <2>3. CASE UNCHANGED gate /\ \E pc \in {"wait", "post"} : at' = [at EXCEPT ![s] = pc]
      <3>1. PICK pc \in {"wait", "post"} : at' = [at EXCEPT ![s] = pc]
        BY <2>3
      <3>2. PICK t : t = sample[s]
        OBVIOUS
      <3>3. sample'[s] = t /\ \A q \in Samples \ {s} : sample'[q] = sample[q]
        BY <2>1, <3>2
      <3>4. DOMAIN t = Fields /\ t.reason \in Early \cup {""}
        BY <2>1, <3>2, AtWork DEF TrajInv, SamplesShape
      <3>5. QED
        BY <2>1, <2>3, <3>1, <3>3, <3>4, GoesOnTrajInv
    <2>4. QED
      BY <1>4, <2>2, <2>3 DEF Posts
  <1>5. ASSUME Reads(s) PROVE TrajInv'
    <2>1. /\ ~Over(s) /\ UNCHANGED <<attempt, verdict, gate>>
      BY <1>5 DEF Reads, Over
    <2>2. PICK a : a = runs[Run(s)].answer
      OBVIOUS
    <2>3. PICK t : t = ApplyTurn(sample[s], a)
      OBVIOUS
    <2>4. PICK u : /\ u = IF Next_(t) = "post" THEN t ELSE SubmissionIssue(t)
                   /\ sample' = [sample EXCEPT ![s] = u]
                   /\ at' = [at EXCEPT ![s] = Next_(u)]
      BY <1>5, <2>2, <2>3 DEF Reads
    <2>5. DOMAIN u = Fields /\ u.reason \in Early \cup {""}
      BY <2>1, <2>3, <2>4, TurnKeeps, AtWork DEF TrajInv, SamplesShape
    <2>6. PICK pc : pc = Next_(u)
      OBVIOUS
    <2>7. pc = "over" => Ended(u)
      BY <2>6 DEF Next_, Ended, Ran
    <2>8. sample'[s] = u /\ \A q \in Samples \ {s} : sample'[q] = sample[q]
      BY <2>4 DEF TypeOK
    <2>9. QED
      BY <2>1, <2>4, <2>5, <2>6, <2>7, <2>8, GoesOnTrajInv
  <1>6. ASSUME Observes(s) PROVE TrajInv'
    <2>1. /\ ~Over(s) /\ UNCHANGED <<attempt, verdict, gate>>
          /\ at' = [at EXCEPT ![s] = "top"]
      BY <1>6 DEF Observes, Over
    <2>2. PICK t \in Observed(sample[s]) : sample' = [sample EXCEPT ![s] = t]
      BY <1>6 DEF Observes
    <2>3. DOMAIN t = Fields /\ t.reason \in Early \cup {""}
      BY <2>1, ObservedKeeps, AtWork DEF TrajInv, SamplesShape
    <2>4. sample'[s] = t /\ \A q \in Samples \ {s} : sample'[q] = sample[q]
      BY <2>2 DEF TypeOK
    <2>5. QED
      BY <2>1, <2>3, <2>4, GoesOnTrajInv
  <1>7. QED
    BY <1>1, <1>2, <1>3, <1>4, <1>5, <1>6 DEF Task

LEMMA GathersTrajInv == ASSUME TypeOK, TrajInv, Gathers PROVE TrajInv'
  <1>1. /\ gate.pc = "drive" /\ gate.raised = "no" /\ \A s \in Samples : Over(s)
        /\ UNCHANGED <<attempt, verdict, at>> /\ gate' = [gate EXCEPT !.pc = "teardown"]
    BY DEF Gathers, Over, TrajInv, Gathered
  <1>2. /\ gate'.pc = "teardown" /\ gate'.raised = "no" /\ gate'.failed = gate.failed
        /\ gate'.halt = gate.halt /\ gate'.decided = gate.decided
        /\ \A s \in Samples : Over(s)'
    BY <1>1 DEF TypeOK, Over
  <1>3. VerdictsInOrder' /\ Gathered'
    BY <1>1, <1>2 DEF TrajInv, VerdictsInOrder, Gathered
  <1>4. CASE ChainChecked
    <2>1. PICK style \in SUBSET Clean(Checked(sample)), judged \in SUBSET Clean(Checked(sample)) :
            sample' = Inspected(Checked(sample), style, judged)
      BY <1>4 DEF Gathers
    <2>2. \A s \in Samples : DOMAIN sample'[s] = Fields /\ (Ended(sample[s]) => Ended(sample'[s]))
      BY <2>1, InspectedKeeps DEF TypeOK, TrajInv
    <2>3. \A s \in Samples : Ended(sample[s])
      BY <1>1, <1>4 DEF ChainChecked, TrajInv, EndedWell
    <2>4. SamplesShape' /\ EndedWell' /\ CheckedWhole' /\ PassedWhole'
      BY <1>2, <2>2, <2>3 DEF SamplesShape, EndedWell, CheckedWhole, PassedWhole
    <2>5. HaltedFor'
      BY <1>1, <1>2, <1>4 DEF ChainChecked, TrajInv, HaltedFor
    <2>6. QED
      BY <1>3, <2>4, <2>5 DEF TrajInv
  <1>5. CASE ~ChainChecked
    <2>1. sample' = sample
      BY <1>5 DEF Gathers
    <2>2. SamplesShape' /\ HaltedFor' /\ CheckedWhole' /\ PassedWhole'
      BY <1>1, <1>2, <2>1 DEF TrajInv, SamplesShape, HaltedFor, CheckedWhole, PassedWhole
    <2>3. EndedWell'
      BY <1>2, <1>5 DEF ChainChecked, EndedWell
    <2>4. QED
      BY <1>3, <2>2, <2>3 DEF TrajInv
  <1>6. QED
    BY <1>4, <1>5

\* What a verdict rests on.
Founded(v) ==
  /\ v = "passed" => \A s \in Samples : Ended(sample[s])
  /\ \/ \A s \in Samples : sample[s].reason \in Early \cup {""}
     \/ \A s \in Samples : Ended(sample[s])

LEMMA EndsTrajInv ==
  ASSUME TypeOK, TrajInv, NEW v \in Verdicts, Ends(v), gate.pc # "idle", Founded(v)
  PROVE  TrajInv'
  <1>1. /\ gate'.pc = "idle" /\ UNCHANGED <<attempt, sample>> /\ \A s \in Samples : Over(s)'
        /\ verdict' = [verdict EXCEPT ![attempt] = v]
    BY DEF Ends, TypeOK, Over
  <1>2. attempt \in Attempts /\ attempt \in Nat
    BY GateAssumption DEF TrajInv, VerdictsInOrder
  <1>3. VerdictsInOrder' /\ PassedWhole'
    <2>1. verdict'[attempt] = v /\ \A a \in Attempts \ {attempt} : verdict'[a] = verdict[a]
      BY <1>1, <1>2 DEF TypeOK
    <2>2. ~(attempt > attempt)
      BY <1>2
    <2>3. QED
      BY <1>1, <1>2, <2>1, <2>2 DEF Founded, TrajInv, VerdictsInOrder, PassedWhole
  <1>4. SamplesShape' /\ Gathered' /\ HaltedFor' /\ EndedWell' /\ CheckedWhole'
    BY <1>1 DEF Founded, TrajInv, SamplesShape, Gathered, HaltedFor, EndedWell, CheckedWhole
  <1>5. QED
    BY <1>3, <1>4 DEF TrajInv

LEMMA DispatcherTrajInv == ASSUME TypeOK, TrajInv, Dispatcher \/ TeardownArrives PROVE TrajInv'
  <1>1. ASSUME TearsDown PROVE TrajInv'
    <2>1. /\ gate.pc = "teardown" /\ UNCHANGED <<attempt, verdict, at, sample>>
          /\ gate' = [gate EXCEPT !.pc = After]
      BY <1>1 DEF TearsDown
    <2>2. /\ gate'.pc = After /\ After \in {"judge", "fault"}
          /\ gate'.raised = gate.raised /\ gate'.failed = gate.failed
          /\ gate'.halt = gate.halt /\ gate'.decided = gate.decided
      BY <2>1 DEF TypeOK, After
    <2>3. Gathered'
      BY <2>1, <2>2 DEF TrajInv, Gathered, Over, After
    <2>4. SamplesShape' /\ VerdictsInOrder' /\ HaltedFor' /\ EndedWell' /\ CheckedWhole' /\ PassedWhole'
      BY <2>1, <2>2 DEF TrajInv, SamplesShape, VerdictsInOrder, HaltedFor, EndedWell, CheckedWhole,
         PassedWhole, Over
    <2>5. QED
      BY <2>3, <2>4 DEF TrajInv
  <1>2. ASSUME EndsInFault PROVE TrajInv'
    <2>1. PICK v \in {"released", "infra"} : Ends(v)
      BY <1>2 DEF EndsInFault
    <2>2. gate.pc # "idle" /\ v \in Verdicts /\ v # "passed"
      BY <1>2 DEF EndsInFault, Verdicts
    <2>3. Founded(v)
      BY <2>2 DEF Founded, TrajInv, CheckedWhole
    <2>4. QED
      BY <2>1, <2>2, <2>3, EndsTrajInv
  <1>3. ASSUME Judges PROVE TrajInv'
    <2>1. PICK v \in Verdict : Ends(v)
      BY <1>3 DEF Judges
    <2>2. gate.pc = "judge" /\ v \in Verdicts
      BY <1>3, VerdictTells DEF Judges, Verdicts
    <2>3. v = "passed" => \A s \in Samples : sample[s].reason = ""
      BY VerdictTells
    <2>4. v = "passed" => \A s \in Samples : Ended(sample[s])
      BY <2>2, <2>3 DEF TrajInv, Gathered, HaltedFor, EndedWell
    <2>5. Founded(v)
      BY <2>4 DEF Founded, TrajInv, CheckedWhole
    <2>6. QED
      BY <2>1, <2>2, <2>5, EndsTrajInv
  <1>4. ASSUME TeardownArrives PROVE TrajInv'
    BY <1>4, TrajStays DEF TeardownArrives
  <1>5. QED
    BY <1>1, <1>2, <1>3, <1>4, ClaimTrajInv, GathersTrajInv DEF Dispatcher

LEMMA NextTrajInv == TypeOK /\ TrajInv /\ [Next]_vars => TrajInv'
  <1> SUFFICES ASSUME TypeOK, TrajInv, [Next]_vars PROVE TrajInv'
    OBVIOUS
  <1>1. CASE Host \/ UNCHANGED vars
    BY <1>1, TrajStays DEF Host, vars, gateVars
  <1>2. QED
    BY <1>1, DispatcherTrajInv, TaskTrajInv DEF Next

LEMMA TrajInvWhole == TypeOK /\ TrajInv => JudgedWhole
  <1> SUFFICES ASSUME TypeOK, TrajInv PROVE JudgedWhole
    OBVIOUS
  <1>1. ASSUME NEW s \in Samples, sample[s].reason \in Omissions PROVE \A q \in Samples : Ended(sample[q])
    BY <1>1 DEF TrajInv, CheckedWhole, Omissions, Early
  <1>2. attempt # 0 /\ verdict[attempt] = "passed" => \A q \in Samples : Ended(sample[q])
    BY DEF TypeOK, TrajInv, PassedWhole
  <1>3. QED
    BY <1>1, <1>2 DEF JudgedWhole, Ended, Early

----------------------------------------------------------------------------
(* The theorems. *)

\* A prompt is only ever at a server of its model, however the runs of samples and attempts
\* share the engine, its loads fail and its server goes.
THEOREM SpecServedByItsModel == Spec => []ServedByItsModel
  <1>1. IInv => ServedByItsModel
    BY DEF IInv, HostInv
  <1>2. QED
    BY InitIInv, NextIInv, <1>1, PTL DEF Spec

\* The gate's and its host's state is of its type.
THEOREM SpecTypeOK == Spec => []TypeOK
  <1>1. IInv => TypeOK
    BY DEF IInv
  <1>2. QED
    BY InitIInv, NextIInv, <1>1, PTL DEF Spec

\* A generation is cut short by a fault, or by the load of its own model, and by no teardown.
THEOREM SpecGenerationsAreLeftAlone == Spec => GenerationsAreLeftAlone
  <1>1. IInv /\ [Next]_vars => [Spared]_hostVars
    BY StepSpares
  <1>2. QED
    BY InitIInv, NextIInv, <1>1, PTL DEF Spec, GenerationsAreLeftAlone, Spared

\* The gate holds omissions against a model, and lets one pass, only on trajectories that all
\* ran to their own ends, whatever order the tasks, vetoes and faults come in.
THEOREM SpecJudgedWhole == Spec => []JudgedWhole
  <1>1. Init => IInv /\ TrajInv
    BY InitIInv, InitTrajInv
  <1>2. (IInv /\ TrajInv) /\ [Next]_vars => (IInv /\ TrajInv)'
    BY NextIInv, NextTrajInv DEF IInv
  <1>3. IInv /\ TrajInv => JudgedWhole
    BY TrajInvWhole DEF IInv
  <1>4. QED
    BY <1>1, <1>2, <1>3, PTL DEF Spec
=============================================================================
