----------------------------- MODULE JudgeProofs -----------------------------
(***************************************************************************)
(* OneSimulationAtATime, BestIsServed and PreparedIsUsed of Judge, proved  *)
(* for any reference runs, simulations, commands, providers, turns,        *)
(* requests and limits of the client: none depends on what a call does.    *)
(***************************************************************************)
EXTENDS Judge, TLAPS

----------------------------------------------------------------------------
(* The inductive invariant. *)

ProdRow == [pc : ProdPcs, key : Commands \cup {FreshProd.key}, rung : Nat,
            kept : CandidateKinds \cup {"none"}, served : CandidateKinds \cup {"notice", "none"}]

SimulationTyped ==
  /\ prod \in [Producers -> ProdRow]
  /\ inflight \in [Commands -> Producers \cup {NoProducer}]

\* A simulation under way is the one in flight for its key; on the ladder it has served nothing.
InFlight ==
  \A p \in Producers :
    /\ prod[p].pc \in {"ladder", "reask"} => prod[p].key \in Commands /\ inflight[prod[p].key] = p
    /\ prod[p].pc = "ladder" => prod[p].served = "none"

SimulationInv == SimulationTyped /\ InFlight

PrepTyped ==
  /\ job \in [pc : JobPcs, eval : Evals]
  /\ store \in [known : BOOLEAN, task : Tasks]
  /\ req \in [pc : ReqPcs, made : Nat]
  /\ lists \in [made : Nat, prep : Nat, used : Nat]

Working == job.pc \in {"runs", "reading", "writing", "pruning"}

\* The sample has no prepared checklist, and will have none.
NoPrep == req.made # 0 /\ (~store.known \/ store.task = "failed")

\* The prep's job works while the store waits for it, a request's while the request does, who
\* found no prep; and a list other than the prepared one is used where there is none.
PrepHolds ==
  /\ Working /\ job.eval = "run"  => store.known /\ store.task = "pending"
  /\ Working /\ job.eval = "none" => req.pc = "sync"
  /\ req.pc = "sync" => NoPrep
  /\ req.pc # "idle" => req.made # 0
  /\ lists.used # 0 /\ lists.used # lists.prep => NoPrep
  /\ store.task = "absent"  => ~store.known
  /\ store.task \in {"absent", "pending"} => lists.prep = 0

PrepInv == PrepTyped /\ PrepHolds

IInv == SimulationInv /\ PrepInv

----------------------------------------------------------------------------
(* The simulated shell. *)

\* _candidate_rank is a number, and the usable candidates have the highest.
LEMMA RankType ==
  ASSUME NEW key, NEW kind
  PROVE  Rank(key, kind) \in -1..3
  BY DEF Rank

\* A simulation whose callers have all left is forgotten when it is over, not before.
LEMMA ReleasedRow ==
  ASSUME NEW prods, NEW asks, NEW p \in Producers
  PROVE  \/ Released(prods, asks)[p] = prods[p]
         \/ prods[p].pc \in {"done", "failed"} /\ Released(prods, asks)[p] = FreshProd
  BY DEF Released

LEMMA FreshRow == FreshProd \in ProdRow /\ FreshProd.pc = "idle"
  BY DEF FreshProd, ProdRow, ProdPcs

\* The steps of a simulation p that is under way: it stays, on the same key, and what it keeps
\* is no worse, or it is over and no longer in flight.
Better(p, row) ==
  /\ row \in ProdRow /\ row.key = prod[p].key
  /\ prod[p].pc = "ladder" => /\ Rank(prod[p].key, row.kept) >= Rank(prod[p].key, prod[p].kept)
                              /\ row.kept = "good" => row.served \in {"none", "good"}

Goes(p, row) ==
  /\ Better(p, row)
  /\ \/ /\ row.pc \in {"ladder", "reask"} /\ (row.pc = "ladder" => row.served = "none")
        /\ prod' = [prod EXCEPT ![p] = row] /\ inflight' = inflight
     \/ /\ row.pc \in {"done", "failed"}
        /\ prod' = Released([prod EXCEPT ![p] = row], ask')
        /\ inflight' = [inflight EXCEPT ![prod[p].key] = NoProducer]

LEMMA GoesInv ==
  ASSUME SimulationInv, NEW p \in Producers, prod[p].pc \in {"ladder", "reask"}, NEW row, Goes(p, row)
  PROVE  SimulationInv'
  <1>1. /\ row \in ProdRow /\ row.key = prod[p].key /\ row.key \in Commands
        /\ inflight[row.key] = p
    BY DEF Goes, Better, SimulationInv, InFlight
  <1>2. CASE row.pc \in {"ladder", "reask"} /\ prod' = [prod EXCEPT ![p] = row] /\ inflight' = inflight
    <2>1. row.pc = "ladder" => row.served = "none"
      BY <1>2 DEF Goes
    <2>2. QED
      BY <1>1, <1>2, <2>1 DEF SimulationInv, SimulationTyped, InFlight
  <1>3. CASE /\ row.pc \in {"done", "failed"}
             /\ prod' = Released([prod EXCEPT ![p] = row], ask')
             /\ inflight' = [inflight EXCEPT ![prod[p].key] = NoProducer]
    <2>1. PICK prods : prods = [prod EXCEPT ![p] = row]
      OBVIOUS
    <2>2. prods \in [Producers -> ProdRow] /\ prods[p] = row /\ \A q \in Producers \ {p} : prods[q] = prod[q]
      BY <1>1, <2>1 DEF SimulationInv, SimulationTyped
    <2>3. prod' = [q \in Producers |-> prod'[q]]
      BY <1>3 DEF Released
    <2>4. ASSUME NEW q \in Producers
          PROVE  /\ prod'[q] \in ProdRow
                 /\ prod'[q].pc \in {"ladder", "reask"} => q # p /\ prod'[q] = prod[q]
      <3>1. prods[q] \in ProdRow /\ (q = p => prods[q].pc \in {"done", "failed"})
            /\ (q # p => prods[q] = prod[q])
        BY <1>3, <2>2
      <3>2. prod' = Released(prods, ask')
        BY <1>3, <2>1
      <3>3. \/ prod'[q] = prods[q]
            \/ prods[q].pc \in {"done", "failed"} /\ prod'[q] = FreshProd
        BY <3>2, ReleasedRow
      <3>4. QED
        BY <3>1, <3>3, FreshRow
    <2>5. inflight' \in [Commands -> Producers \cup {NoProducer}]
      BY <1>1, <1>3 DEF SimulationInv, SimulationTyped
    <2>6. SimulationTyped'
      BY <2>3, <2>4, <2>5 DEF SimulationTyped
    <2>7. ASSUME NEW q \in Producers, prod'[q].pc \in {"ladder", "reask"}
          PROVE  prod'[q].key \in Commands /\ inflight'[prod'[q].key] = q
      <3>1. q # p /\ prod'[q] = prod[q]
        BY <2>4, <2>7
      <3>2. prod[q].key \in Commands /\ inflight[prod[q].key] = q
        BY <2>7, <3>1 DEF SimulationInv, InFlight
      <3>3. ASSUME prod[q].key = prod[p].key PROVE FALSE
        <4>1. inflight[prod[q].key] = p
          BY <1>1, <3>3
        <4>2. QED
          BY <3>1, <3>2, <4>1
      <3>4. QED
        BY <1>1, <1>3, <3>1, <3>2, <3>3 DEF SimulationInv, SimulationTyped
    <2>8. InFlight'
      <3>1. ASSUME NEW q \in Producers, prod'[q].pc = "ladder" PROVE prod'[q].served = "none"
        BY <2>4, <3>1 DEF SimulationInv, InFlight
      <3>2. QED
        BY <2>7, <3>1 DEF InFlight
    <2>9. QED
      BY <2>6, <2>8 DEF SimulationInv
  <1>4. QED
    BY <1>2, <1>3 DEF Goes

\* What the property asks of a step.
Serves ==
  \A p \in Producers : prod[p].pc = "ladder" /\ prod'[p].pc \in {"ladder", "reask", "done"} =>
    /\ Rank(prod[p].key, prod'[p].kept) >= Rank(prod[p].key, prod[p].kept)
    /\ prod'[p].kept = "good" => prod'[p].served \in {"none", "good"}

\* A simulation on the ladder that no step of its own moves serves as it stood.
LEMMA Stands ==
  ASSUME SimulationInv, NEW p \in Producers, prod[p].pc = "ladder", prod'[p] = prod[p]
  PROVE  /\ Rank(prod[p].key, prod'[p].kept) >= Rank(prod[p].key, prod[p].kept)
         /\ prod'[p].kept = "good" => prod'[p].served \in {"none", "good"}
  BY RankType DEF SimulationInv, InFlight

LEMMA GoesServes ==
  ASSUME SimulationInv, NEW p \in Producers, prod[p].pc \in {"ladder", "reask"}, NEW row, Goes(p, row)
  PROVE  Serves
  <1> SUFFICES ASSUME NEW q \in Producers, prod[q].pc = "ladder",
                      prod'[q].pc \in {"ladder", "reask", "done"}
               PROVE  /\ Rank(prod[q].key, prod'[q].kept) >= Rank(prod[q].key, prod[q].kept)
                      /\ prod'[q].kept = "good" => prod'[q].served \in {"none", "good"}
    BY DEF Serves
  <1>1. PICK prods : prods = [prod EXCEPT ![p] = row]
    OBVIOUS
  <1>2. prods[p] = row /\ \A r \in Producers \ {p} : prods[r] = prod[r]
    BY <1>1 DEF SimulationInv, SimulationTyped
  <1>3. prod'[q] = prods[q]
    <2>1. CASE prod' = prods
      BY <2>1
    <2>2. CASE prod' = Released(prods, ask')
      BY <2>2, ReleasedRow, FreshRow
    <2>3. QED
      BY <1>1, <2>1, <2>2 DEF Goes
  <1>4. CASE q = p
    BY <1>2, <1>3, <1>4 DEF Goes, Better
  <1>5. CASE q # p
    BY <1>2, <1>3, <1>5, Stands
  <1>6. QED
    BY <1>4, <1>5

\* Steps that let go of simulations that are over.
LEMMA ReleasedInv ==
  ASSUME SimulationInv, NEW asks, prod' = Released(prod, asks), inflight' = inflight
  PROVE  SimulationInv' /\ Serves
  <1>1. ASSUME NEW q \in Producers
        PROVE  /\ prod'[q] \in ProdRow
               /\ prod'[q].pc \in {"ladder", "reask", "done"} => prod'[q] = prod[q]
    BY ReleasedRow, FreshRow DEF SimulationInv, SimulationTyped
  <1>2. prod' = [q \in Producers |-> prod'[q]]
    BY DEF Released
  <1>3. SimulationTyped'
    BY <1>1, <1>2 DEF SimulationInv, SimulationTyped
  <1>4. InFlight'
    BY <1>1 DEF SimulationInv, InFlight
  <1>5. Serves
    BY <1>1, Stands DEF Serves
  <1>6. QED
    BY <1>3, <1>4, <1>5 DEF SimulationInv

\* A candidate in hand on the ladder: what is kept of the answers so far.
Candidate(p, rec) ==
  /\ rec \in ProdRow /\ rec.key = prod[p].key /\ rec.pc = "ladder" /\ rec.served = "none"
  /\ Rank(prod[p].key, rec.kept) >= Rank(prod[p].key, prod[p].kept)

LEMMA KeepsTheBest ==
  ASSUME SimulationInv, NEW p \in Producers, prod[p].pc = "ladder", NEW kind \in CandidateKinds
  PROVE  Candidate(p, Keep(prod[p], kind)) /\ Candidate(p, prod[p])
  <1>1. prod[p] \in ProdRow /\ prod[p].served = "none"
    BY DEF SimulationInv, SimulationTyped, InFlight
  <1>2. Candidate(p, prod[p])
    BY <1>1, RankType DEF Candidate
  <1>3. PICK rec : rec = [prod[p] EXCEPT !.kept = kind]
    OBVIOUS
  <1>4. /\ rec \in ProdRow /\ rec.key = prod[p].key /\ rec.pc = "ladder" /\ rec.served = "none"
        /\ rec.kept = kind
    BY <1>1, <1>3 DEF ProdRow
  <1>5. Rank(prod[p].key, kind) > Rank(prod[p].key, prod[p].kept) => Candidate(p, rec)
    BY <1>4, RankType DEF Candidate
  <1>6. QED
    BY <1>2, <1>3, <1>5 DEF Keep

LEMMA ClimbGoes ==
  ASSUME NEW p \in Producers, NEW rec, Candidate(p, rec), NEW rung \in Nat, Climb(p, rec, rung)
  PROVE  \E row : Goes(p, row)
  <1>1. PICK row : row = [rec EXCEPT !.rung = rung]
    OBVIOUS
  <1>2. /\ row \in ProdRow /\ row.key = rec.key /\ row.pc = rec.pc /\ row.served = rec.served
        /\ row.kept = rec.kept
    BY <1>1 DEF Candidate, ProdRow
  <1>3. Goes(p, row)
    BY <1>1, <1>2 DEF Climb, Candidate, Goes, Better
  <1>4. QED
    BY <1>3

LEMMA ServeGoes ==
  ASSUME NEW p \in Producers, NEW rec \in ProdRow, rec.key = prod[p].key,
         prod[p].pc = "ladder" => Rank(prod[p].key, rec.kept) >= Rank(prod[p].key, prod[p].kept),
         NEW kind \in CandidateKinds \cup {"notice", "none"}, Serve(p, rec, kind),
         prod[p].pc = "ladder" /\ rec.kept = "good" => kind = "good"
  PROVE  \E row : Goes(p, row)
  <1>1. PICK served : served = Finished(rec.key, kind)
    OBVIOUS
  <1>2. served \in CandidateKinds \cup {"notice", "none"} /\ (kind = "good" => served = "good")
    BY <1>1 DEF Finished, CandidateKinds
  <1>3. PICK row : row = [rec EXCEPT !.pc = "done", !.rung = 1, !.served = served]
    OBVIOUS
  <1>4. /\ row \in ProdRow /\ row.key = rec.key /\ row.pc = "done" /\ row.served = served
        /\ row.kept = rec.kept
    BY <1>2, <1>3 DEF ProdRow, ProdPcs
  <1>5. /\ prod' = Released([prod EXCEPT ![p] = row], ask')
        /\ inflight' = [inflight EXCEPT ![prod[p].key] = NoProducer]
    BY <1>1, <1>3, <1>4 DEF Serve, Settle
  <1>6. Goes(p, row)
    BY <1>2, <1>4, <1>5 DEF Goes, Better
  <1>7. QED
    BY <1>6

LEMMA DeliverGoes ==
  ASSUME NEW p \in Producers, NEW rec, Candidate(p, rec), Deliver(p, rec)
  PROVE  \E row : Goes(p, row)
  <1>1. rec \in ProdRow /\ rec.kept \in CandidateKinds \cup {"none"}
    BY DEF Candidate, ProdRow
  <1>2. PICK kind \in Filtered(rec.kept) :
          \/ /\ prod' = [prod EXCEPT ![p] = [rec EXCEPT !.pc = "reask", !.served = kind]]
             /\ inflight' = inflight
          \/ Serve(p, rec, kind)
    BY DEF Deliver
  <1>3. kind \in CandidateKinds \cup {"none"} /\ (rec.kept = "good" => kind = "good")
    BY <1>1, <1>2 DEF Filtered, CandidateKinds
  <1>4. CASE Serve(p, rec, kind)
    BY <1>1, <1>3, <1>4, ServeGoes DEF Candidate
  <1>5. CASE /\ prod' = [prod EXCEPT ![p] = [rec EXCEPT !.pc = "reask", !.served = kind]]
             /\ inflight' = inflight
    <2>1. PICK row : row = [rec EXCEPT !.pc = "reask", !.served = kind]
      OBVIOUS
    <2>2. /\ row \in ProdRow /\ row.key = rec.key /\ row.pc = "reask" /\ row.served = kind
          /\ row.kept = rec.kept
      BY <1>1, <1>3, <2>1 DEF ProdRow, ProdPcs
    <2>3. Goes(p, row)
      BY <1>3, <1>5, <2>1, <2>2 DEF Candidate, Goes, Better
    <2>4. QED
      BY <2>3
  <1>6. QED
    BY <1>2, <1>4, <1>5

LEMMA ProducerGoes ==
  ASSUME SimulationInv, NEW p \in Producers, ProducerStep(p)
  PROVE  prod[p].pc \in {"ladder", "reask"} /\ \E row : Goes(p, row)
  <1>1. prod[p] \in ProdRow /\ prod[p].rung \in Nat /\ prod[p].rung + 1 \in Nat /\ LastRung \in Nat
    BY SimulationAssumption DEF SimulationInv, SimulationTyped, ProdRow, LastRung
  <1>2. ASSUME prod[p].pc = "ladder", NEW kind \in CandidateKinds, RungAnswers(p, kind)
        PROVE  \E row : Goes(p, row)
    <2>1. PICK rec : rec = Keep(prod[p], kind)
      OBVIOUS
    <2>2. Candidate(p, rec) /\ rec.rung + 1 \in Nat
      BY <1>2, <2>1, KeepsTheBest DEF Candidate, ProdRow
    <2>3. \/ Deliver(p, rec)
          \/ \E rung \in Nat : Climb(p, rec, rung)
      BY <1>1, <1>2, <2>1, <2>2 DEF RungAnswers
    <2>4. QED
      BY <2>2, <2>3, DeliverGoes, ClimbGoes
  <1>3. ASSUME prod[p].pc = "ladder", RungFails(p)
        PROVE  \E row : Goes(p, row)
    <2>1. Candidate(p, prod[p])
      BY <1>3, KeepsTheBest DEF CandidateKinds
    <2>2. CASE prod[p].rung = LastRung
      <3>1. PICK row : row = [prod[p] EXCEPT !.pc = "failed"]
        OBVIOUS
      <3>2. /\ row \in ProdRow /\ row.key = prod[p].key /\ row.pc = "failed"
            /\ row.kept = prod[p].kept /\ row.served = prod[p].served
        BY <1>1, <3>1 DEF ProdRow, ProdPcs
      <3>3. /\ prod' = Released([prod EXCEPT ![p] = row], ask')
            /\ inflight' = [inflight EXCEPT ![prod[p].key] = NoProducer]
        BY <1>3, <2>2, <3>1, <3>2 DEF RungFails, Settle
      <3>4. Goes(p, row)
        BY <2>1, <3>2, <3>3 DEF Goes, Better, Candidate
      <3>5. QED
        BY <3>4
    <2>3. CASE prod[p].rung # LastRung
      BY <1>1, <1>3, <2>1, <2>3, ClimbGoes DEF RungFails
    <2>4. QED
      BY <2>2, <2>3
  <1>4. ASSUME prod[p].pc = "reask", NEW kind \in {prod[p].served} \cup {"good"}, Serve(p, prod[p], kind)
        PROVE  \E row : Goes(p, row)
    <2>1. kind \in CandidateKinds \cup {"notice", "none"}
      BY <1>1, <1>4 DEF ProdRow, CandidateKinds
    <2>2. QED
      BY <1>1, <1>4, <2>1, ServeGoes
  <1>5. CASE LadderStep(p)
    <2>1. Usable(prod[p].key) \subseteq CandidateKinds
      BY DEF Usable, CandidateKinds
    <2>2. QED
      BY <1>2, <1>3, <1>5, <2>1 DEF LadderStep
  <1>6. CASE ReaskStep(p)
    BY <1>4, <1>6 DEF ReaskStep
  <1>7. QED
    BY <1>5, <1>6 DEF ProducerStep

\* A simulation is begun only where none is in flight for its key.
LEMMA ObserveInv ==
  ASSUME SimulationInv, NEW a, NEW key \in Commands, Observe(a, key)
  PROVE  SimulationInv' /\ Serves
  <1>1. CASE UnderWay(key) # {}
    <2>1. prod' = prod /\ inflight' = inflight
      BY <1>1 DEF Observe
    <2>2. QED
      BY <2>1, Stands DEF SimulationInv, SimulationTyped, InFlight, Serves
  <1>2. CASE UnderWay(key) = {}
    <2>1. PICK p \in Producers :
            /\ prod[p].pc = "idle"
            /\ prod' = [prod EXCEPT ![p] = [FreshProd EXCEPT !.pc = "ladder", !.key = key]]
            /\ inflight' = [inflight EXCEPT ![key] = p]
      BY <1>2 DEF Observe
    <2>2. PICK row : row = [FreshProd EXCEPT !.pc = "ladder", !.key = key]
      OBVIOUS
    <2>3. row \in ProdRow /\ row.pc = "ladder" /\ row.key = key /\ row.served = "none"
      BY <2>2 DEF FreshProd, ProdRow, ProdPcs
    <2>4. prod' = [prod EXCEPT ![p] = row]
      BY <2>1, <2>2
    <2>5. inflight[key] = NoProducer
      BY <1>2 DEF UnderWay
    <2>6. SimulationTyped'
      BY <2>1, <2>3, <2>4 DEF SimulationInv, SimulationTyped
    <2>7. InFlight'
      <3>1. ASSUME NEW q \in Producers, q # p, prod[q].pc \in {"ladder", "reask"}
            PROVE  prod[q].key \in Commands /\ inflight[prod[q].key] = q /\ prod[q].key # key
        BY <2>5, <3>1, SimulationAssumption DEF SimulationInv, InFlight
      <3>2. ASSUME NEW q \in Producers, q # p PROVE prod'[q] = prod[q]
        BY <2>4, <3>2 DEF SimulationInv, SimulationTyped
      <3>3. prod'[p] = row /\ inflight'[key] = p /\ \A k \in Commands \ {key} : inflight'[k] = inflight[k]
        BY <2>1, <2>4 DEF SimulationInv, SimulationTyped
      <3>4. ASSUME NEW q \in Producers, prod'[q].pc \in {"ladder", "reask"}
            PROVE  prod'[q].key \in Commands /\ inflight'[prod'[q].key] = q
        BY <2>3, <3>1, <3>2, <3>3, <3>4
      <3>5. ASSUME NEW q \in Producers, prod'[q].pc = "ladder" PROVE prod'[q].served = "none"
        BY <2>3, <3>2, <3>3, <3>5 DEF SimulationInv, InFlight
      <3>6. QED
        BY <3>4, <3>5 DEF InFlight
    <2>8. Serves
      BY <2>1, <2>4, Stands DEF SimulationInv, SimulationTyped, Serves
    <2>9. QED
      BY <2>6, <2>7, <2>8 DEF SimulationInv
  <1>3. QED
    BY <1>1, <1>2

LEMMA StoreMisses ==
  ASSUME SimulationInv, NEW a, Store(a) \/ Miss(a)
  PROVE  SimulationInv' /\ Serves
  BY ReleasedInv DEF Store, Miss

LEMMA SimulationStutters ==
  ASSUME SimulationInv, prod' = prod, inflight' = inflight
  PROVE  SimulationInv' /\ Serves
  <1>1. SimulationInv'
    BY DEF SimulationInv, SimulationTyped, InFlight
  <1>2. Serves
    BY Stands DEF Serves
  <1>3. QED
    BY <1>1, <1>2

LEMMA SimulationStep ==
  ASSUME SimulationInv, [Next]_vars
  PROVE  SimulationInv' /\ Serves
  <1>1. CASE JobStep
    <2>1. CASE prod' = prod /\ inflight' = inflight
      BY <2>1, SimulationStutters
    <2>2. ASSUME NEW r \in Runs, TakeTurn(r)
          PROVE  \/ prod' = prod /\ inflight' = inflight
                 \/ \E key \in Commands : Observe(r, key)
      BY <2>2 DEF TakeTurn, simulationVars
    <2>3. ASSUME NEW r \in Runs, TakeObservation(r) PROVE Store(r) \/ Miss(r)
      BY <2>3 DEF TakeObservation
    <2>4. QED
      BY <1>1, <2>1, <2>2, <2>3, ObserveInv, StoreMisses
      DEF JobStep, AskModel, ReadRuns, WriteLadders, Prune, Pruned, simulationVars
  <1>2. CASE Sweep
    BY <1>2, ReleasedInv, SimulationStutters DEF Sweep
  <1>3. ASSUME NEW p \in Producers, SimulateStep(p) PROVE SimulationInv' /\ Serves
    BY <1>3, ProducerGoes, GoesInv, GoesServes DEF SimulateStep
  <1>4. CASE \/ StartPrep \/ ScoreBatch \/ RequestStep \/ UNCHANGED vars
             \/ \E c \in Slots : CallStep(c)
    <2>1. prod' = prod /\ inflight' = inflight
      BY <1>4 DEF StartPrep, ScoreBatch, RequestStep, TakePrepared, GenerateNow, Answer, BeginSide,
         EndSide, CallStep, simulationVars, vars
    <2>2. QED
      BY <2>1, SimulationStutters
  <1>5. QED
    BY <1>1, <1>2, <1>3, <1>4 DEF Next

----------------------------------------------------------------------------
(* The prepared checklist. *)

LEMMA PrepStutters ==
  ASSUME PrepInv, UNCHANGED <<job, store, req, lists>>
  PROVE  PrepInv'
  BY DEF PrepInv, PrepTyped, PrepHolds, Working, NoPrep

\* The job goes on, or ends with a checklist or without one.
LEMMA JobGoesOn ==
  ASSUME PrepInv, Working, NEW pc \in {"reading", "writing", "pruning"}, job' = [job EXCEPT !.pc = pc],
         UNCHANGED <<store, req, lists>>
  PROVE  PrepInv'
  <1>1. job' \in [pc : JobPcs, eval : Evals] /\ job'.pc = pc /\ job'.eval = job.eval
    BY DEF PrepInv, PrepTyped, JobPcs
  <1>2. QED
    BY <1>1 DEF PrepInv, PrepTyped, PrepHolds, Working, NoPrep

LEMMA JobEnded ==
  ASSUME PrepInv, job' = [job EXCEPT !.pc = "ended"]
  PROVE  job' \in [pc : JobPcs, eval : Evals] /\ ~Working'
  BY DEF PrepInv, PrepTyped, JobPcs, Working

LEMMA JobReadyInv ==
  ASSUME PrepInv, Working, JobReady
  PROVE  PrepInv'
  <1>1. job' \in [pc : JobPcs, eval : Evals] /\ ~Working'
    BY JobEnded DEF JobReady
  <1>2. CASE job.eval = "run"
    <2>1. PICK new : new = lists.made + 1
      OBVIOUS
    <2>2. lists' = [made |-> new, prep |-> 1, used |-> lists.used] /\ new \in Nat
      <3>1. lists' = [lists EXCEPT !.made = new, !.prep = 1, !.used = lists.used]
        BY <1>2, <2>1 DEF JobReady, PrepInv, PrepTyped
      <3>2. new \in Nat
        BY <2>1 DEF PrepInv, PrepTyped
      <3>3. QED
        BY <3>1, <3>2 DEF PrepInv, PrepTyped
    <2>3. store' = [known |-> TRUE, task |-> "ready"] /\ req' = req
      BY <1>2 DEF JobReady, PrepInv, PrepTyped, PrepHolds
    <2>4. ~NoPrep /\ lists.used = 0 /\ req.pc # "sync"
      BY <1>2 DEF PrepInv, PrepTyped, PrepHolds, NoPrep
    <2>5. QED
      BY <1>1, <2>2, <2>3, <2>4 DEF PrepInv, PrepTyped, PrepHolds, NoPrep, Tasks
  <1>3. CASE job.eval # "run"
    <2>1. job.eval = "none" /\ req.pc = "sync" /\ NoPrep
      BY <1>3 DEF PrepInv, PrepTyped, PrepHolds, Evals
    <2>2. PICK new : new = lists.made + 1
      OBVIOUS
    <2>3. lists' = [made |-> new, prep |-> lists.prep, used |-> new] /\ new \in Nat
      <3>1. lists' = [lists EXCEPT !.made = new, !.prep = lists.prep, !.used = new]
        BY <1>3, <2>1, <2>2 DEF JobReady, PrepInv, PrepTyped
      <3>2. new \in Nat
        BY <2>2 DEF PrepInv, PrepTyped
      <3>3. QED
        BY <3>1, <3>2 DEF PrepInv, PrepTyped
    <2>4. store' = store /\ req' = [pc |-> "sides", made |-> req.made]
      BY <1>3 DEF JobReady, PrepInv, PrepTyped
    <2>5. QED
      BY <1>1, <2>1, <2>3, <2>4 DEF PrepInv, PrepTyped, PrepHolds, NoPrep, ReqPcs
  <1>4. QED
    BY <1>2, <1>3

LEMMA JobFailsInv ==
  ASSUME PrepInv, Working, JobFails
  PROVE  PrepInv'
  <1>1. job' \in [pc : JobPcs, eval : Evals] /\ ~Working' /\ lists' = lists
    BY JobEnded DEF JobFails
  <1>2. CASE job.eval = "run"
    <2>1. store' = [known |-> TRUE, task |-> "failed"] /\ req' = req
      BY <1>2 DEF JobFails, PrepInv, PrepTyped, PrepHolds
    <2>2. ~NoPrep
      BY <1>2 DEF PrepInv, PrepTyped, PrepHolds, NoPrep
    <2>3. QED
      BY <1>1, <2>1, <2>2 DEF PrepInv, PrepTyped, PrepHolds, NoPrep, Tasks
  <1>3. CASE job.eval # "run"
    <2>1. store' = store /\ req' = [pc |-> "unscored", made |-> req.made]
      BY <1>3 DEF JobFails, PrepInv, PrepTyped
    <2>2. req.pc = "sync" /\ NoPrep
      BY <1>3 DEF PrepInv, PrepTyped, PrepHolds, Evals
    <2>3. QED
      BY <1>1, <2>1, <2>2 DEF PrepInv, PrepTyped, PrepHolds, NoPrep, ReqPcs
  <1>4. QED
    BY <1>2, <1>3

LEMMA JobStepInv ==
  ASSUME PrepInv, JobStep
  PROVE  PrepInv'
  <1>1. CASE \E r \in Runs : AskModel(r) \/ TakeTurn(r) \/ TakeObservation(r)
    BY <1>1, PrepStutters DEF AskModel, TakeTurn, TakeObservation
  <1>2. CASE ReadRuns
    BY <1>2, JobGoesOn, JobFailsInv DEF ReadRuns, Working
  <1>3. CASE WriteLadders
    BY <1>3, JobGoesOn, JobFailsInv DEF WriteLadders, Working
  <1>4. CASE Prune
    BY <1>4, JobGoesOn, JobReadyInv, JobFailsInv DEF Prune, Working
  <1>5. CASE Pruned
    BY <1>5, JobReadyInv, JobFailsInv DEF Pruned, Working
  <1>6. QED
    BY <1>1, <1>2, <1>3, <1>4, <1>5 DEF JobStep

\* A prep is started before any request, so that no request has a list of its own yet.
LEMMA StartPrepInv ==
  ASSUME PrepInv, StartPrep
  PROVE  PrepInv'
  <1>1. /\ job' = [pc |-> "runs", eval |-> "run"] /\ store' = [known |-> TRUE, task |-> "pending"]
        /\ req' = req /\ lists' = lists /\ req.made = 0 /\ store.task = "absent"
    BY DEF StartPrep, BeginJob
  <1>2. ~NoPrep
    BY <1>1 DEF NoPrep
  <1>3. QED
    BY <1>1, <1>2 DEF PrepInv, PrepTyped, PrepHolds, Working, NoPrep, JobPcs, Evals, Tasks

LEMMA SweepInv ==
  ASSUME PrepInv, Sweep
  PROVE  PrepInv'
  <1>1. CASE store.task = "pending"
    <2>1. job' \in [pc : JobPcs, eval : Evals] /\ ~Working'
      BY <1>1, JobEnded DEF Sweep
    <2>2. store' = [known |-> FALSE, task |-> "cancelled"] /\ lists' = lists
      BY <1>1 DEF Sweep
    <2>3. /\ req' \in [pc : ReqPcs, made : Nat] /\ req'.made = req.made
          /\ req'.pc = "sync" => req.pc = "sync"
          /\ req'.pc # "idle" => req.pc # "idle"
      <3>1. CASE req.pc = "waiting"
        <4>1. req' = [pc |-> "crashed", made |-> req.made]
          BY <1>1, <3>1 DEF Sweep, PrepInv, PrepTyped
        <4>2. QED
          BY <3>1, <4>1 DEF PrepInv, PrepTyped, ReqPcs
      <3>2. CASE req.pc # "waiting"
        BY <1>1, <3>2 DEF Sweep, PrepInv, PrepTyped
      <3>3. QED
        BY <3>1, <3>2
    <2>4. PrepTyped'
      BY <2>1, <2>2, <2>3 DEF PrepInv, PrepTyped, Tasks
    <2>5. NoPrep => NoPrep'
      BY <2>2, <2>3 DEF NoPrep
    <2>6. PrepHolds'
      BY <2>1, <2>2, <2>3, <2>5 DEF PrepInv, PrepHolds
    <2>7. QED
      BY <2>4, <2>6 DEF PrepInv
  <1>2. CASE store.task # "pending"
    <2>1. /\ store' = [known |-> FALSE, task |-> store.task]
          /\ UNCHANGED <<job, req, lists>>
      BY <1>2 DEF Sweep, PrepInv, PrepTyped
    <2>2. QED
      BY <1>2, <2>1 DEF PrepInv, PrepTyped, PrepHolds, Working, NoPrep
  <1>3. QED
    BY <1>1, <1>2

LEMMA ScoreBatchInv ==
  ASSUME PrepInv, ScoreBatch
  PROVE  PrepInv'
  <1>1. PICK pc : pc = IF Prepared THEN "waiting" ELSE "sync"
    OBVIOUS
  <1>2. PICK n : n = req.made + 1
    OBVIOUS
  <1>3. pc \in ReqPcs /\ n \in Nat /\ n # 0 /\ (pc = "sync" => ~store.known)
    BY <1>1, <1>2 DEF Prepared, ReqPcs, PrepInv, PrepTyped
  <1>4. req' = [pc |-> pc, made |-> n] /\ job' = job /\ store' = store
    BY <1>1, <1>2 DEF ScoreBatch
  <1>5. lists' = [made |-> lists.made, prep |-> lists.prep, used |-> 0]
    BY DEF ScoreBatch, PrepInv, PrepTyped
  <1>6. req.pc # "sync"
    BY DEF ScoreBatch
  <1>7. QED
    BY <1>3, <1>4, <1>5, <1>6 DEF PrepInv, PrepTyped, PrepHolds, Working, NoPrep

LEMMA TakePreparedInv ==
  ASSUME PrepInv, TakePrepared
  PROVE  PrepInv'
  <1>1. job' = job /\ store' = store /\ req.pc = "waiting"
    BY DEF TakePrepared
  <1>2. CASE store.task = "ready" /\ req' = [req EXCEPT !.pc = "sides"] /\ lists' = [lists EXCEPT !.used = lists.prep]
    <2>1. /\ req' = [pc |-> "sides", made |-> req.made]
          /\ lists' = [made |-> lists.made, prep |-> lists.prep, used |-> lists.prep]
      BY <1>2 DEF PrepInv, PrepTyped
    <2>2. QED
      BY <1>1, <2>1 DEF PrepInv, PrepTyped, PrepHolds, Working, NoPrep, ReqPcs
  <1>3. CASE store.task = "failed" /\ req' = [req EXCEPT !.pc = "sync"] /\ lists' = lists
    <2>1. req' = [pc |-> "sync", made |-> req.made]
      BY <1>3 DEF PrepInv, PrepTyped
    <2>2. QED
      BY <1>1, <1>3, <2>1 DEF PrepInv, PrepTyped, PrepHolds, Working, NoPrep, ReqPcs
  <1>4. QED
    BY <1>2, <1>3 DEF TakePrepared

\* GenerateNow, Answer and the sides leave the store and the lists as they are.
LEMMA RequestStepInv ==
  ASSUME PrepInv, RequestStep
  PROVE  PrepInv'
  <1>1. CASE TakePrepared
    BY <1>1, TakePreparedInv
  <1>2. CASE GenerateNow
    <2>1. job' = [pc |-> "runs", eval |-> "none"] /\ UNCHANGED <<store, req, lists>> /\ req.pc = "sync"
      BY <1>2 DEF GenerateNow, BeginJob
    <2>2. QED
      BY <2>1 DEF PrepInv, PrepTyped, PrepHolds, Working, NoPrep, JobPcs, Evals
  <1>3. CASE Answer
    <2>1. PICK pc : pc = IF \A s \in Sides : side[s] # "void" THEN "scored" ELSE "unscored"
      OBVIOUS
    <2>2. req' = [pc |-> pc, made |-> req.made] /\ UNCHANGED <<store, job, lists>> /\ req.pc = "sides"
      BY <1>3, <2>1 DEF Answer, PrepInv, PrepTyped
    <2>3. pc \in ReqPcs /\ pc # "sync"
      BY <2>1 DEF ReqPcs
    <2>4. QED
      BY <2>2, <2>3 DEF PrepInv, PrepTyped, PrepHolds, Working, NoPrep
  <1>4. CASE \E s \in Sides : BeginSide(s) \/ EndSide(s)
    BY <1>4, PrepStutters DEF BeginSide, EndSide
  <1>5. QED
    BY <1>1, <1>2, <1>3, <1>4 DEF RequestStep

LEMMA PrepStep ==
  ASSUME PrepInv, [Next]_vars
  PROVE  PrepInv'
  <1>1. CASE \/ UNCHANGED vars
             \/ \E c \in Slots : CallStep(c)
             \/ \E p \in Producers : SimulateStep(p)
    BY <1>1, PrepStutters DEF vars, CallStep, SimulateStep, judgeVars
  <1>2. CASE StartPrep \/ Sweep \/ ScoreBatch
    BY <1>2, StartPrepInv, SweepInv, ScoreBatchInv
  <1>3. CASE JobStep \/ RequestStep
    BY <1>3, JobStepInv, RequestStepInv
  <1>4. QED
    BY <1>1, <1>2, <1>3 DEF Next

----------------------------------------------------------------------------
(* The results. *)

LEMMA InitIInv == Init => IInv
  <1> SUFFICES ASSUME Init PROVE IInv
    OBVIOUS
  <1>1. SimulationInv
    BY FreshRow DEF Init, SimulationInit, SimulationInv, SimulationTyped, InFlight
  <1>2. PrepInv
    BY DEF Init, PrepInv, PrepTyped, PrepHolds, Working, JobPcs, Evals, Tasks, ReqPcs
  <1>3. QED
    BY <1>1, <1>2 DEF IInv

LEMMA NextIInv == IInv /\ [Next]_vars => IInv'
  BY SimulationStep, PrepStep DEF IInv

LEMMA SpecIInv == Spec => []IInv
  BY InitIInv, NextIInv, PTL DEF Spec

\* ObservationMemo: the key leaves _inflight before any waiter has stored the answer, and still
\* no two simulations of one command in one state are under way, whoever asks, fails or is
\* cancelled meanwhile.
THEOREM SpecOneSimulationAtATime == Spec => []OneSimulationAtATime
  <1>1. IInv => OneSimulationAtATime
    BY DEF IInv, SimulationInv, InFlight, OneSimulationAtATime
  <1>2. QED
    BY <1>1, SpecIInv, PTL

\* _simulate_uncached, with any number of providers: the ladder gives no candidate up for a
\* worse one, and what it kept as good is served as it is, unless the last caller has left.
THEOREM SpecBestIsServed == Spec => BestIsServed
  <1>1. IInv /\ [Next]_vars =>
          [\A p \in Producers : prod[p].pc = "ladder" /\ prod'[p].pc \in {"ladder", "reask", "done"} =>
             /\ Rank(prod[p].key, prod'[p].kept) >= Rank(prod[p].key, prod[p].kept)
             /\ prod'[p].kept = "good" => prod'[p].served \in {"none", "good"}]_vars
    BY SimulationStep DEF IInv, Serves
  <1>2. QED
    BY <1>1, SpecIInv, PTL DEF Spec, BestIsServed

\* _questions_for: however a request, the prep's task and the sweep of the store interleave, no
\* request uses a checklist of its own while the store has the prepared one.
THEOREM SpecPreparedIsUsed == Spec => []PreparedIsUsed
  <1>1. IInv => PreparedIsUsed
    BY DEF IInv, PrepInv, PrepHolds, NoPrep, PreparedIsUsed
  <1>2. QED
    BY <1>1, SpecIInv, PTL
=============================================================================
