---------------------------- MODULE Simulation ----------------------------
(* The simulated shell of the judge API (ObservationSimulationService and its     *)
(* ObservationMemo): a command the repository cannot answer is put to a model, on  *)
(* one provider after another and at last on the evaluator model; the best answer  *)
(* is cleaned and served; and an answer is remembered for the command and the      *)
(* state it was given in, so that every trajectory of a sample lives in one world. *)
(* The keys are commands run in one grounded state of one sample.                  *)
EXTENDS LlmClient

CONSTANTS Askers,       \* coroutines that ask for an observation
          Producers,    \* simulations: tasks of the memo, each one produce()
          Commands,     \* memo keys
          Providers,    \* simulation_providers
          NoProducer

ASSUME SimulationAssumption ==
  /\ Producers \subseteq Slots
  /\ Providers \in Nat \ {0}
  /\ NoProducer \notin Producers

VARIABLES
  nature,    \* what each command is: the sample's, it never changes
  memo,      \* _memo: the keys whose answer is remembered
  inflight,  \* _inflight: the simulation under way for a key
  prod,      \* each simulation: its rung, the candidate kept, what it served
  ask        \* each asker: what it waits for

simulationVars == <<nature, memo, inflight, prod, ask>>

\* A command that reads a named file, one whose output nothing can derive, one that prints
\* nothing when it succeeds, any other.
Natures     == {"read", "make", "quiet", "plain"}
MustPrint   == {k \in Commands : nature[k] = "read"}
Underivable == {k \in Commands : nature[k] = "make"}
Quiet       == {k \in Commands : nature[k] = "quiet"}

\* What a candidate is ("markup": a turn or a tool call that leaked into it).  An answer that
\* repeats the command passes for a usable one, and so does silence, but for a read.
CandidateKinds == {"good", "echo", "silent", "content", "loop", "markup", "invalid"}
Usable(key)    == {"good", "echo"} \cup (IF key \in MustPrint THEN {} ELSE {"silent"})
ProdPcs     == {"idle", "ladder", "reask", "done", "failed"}

SimulationTypeOK ==
  /\ nature \in [Commands -> Natures]
  /\ memo \subseteq Commands
  /\ inflight \in [Commands -> Producers \cup {NoProducer}]
  /\ prod \in [Producers -> [pc : ProdPcs, key : Commands, rung : 1..(Providers + 1),
                             kept : CandidateKinds \cup {"none"},
                             served : CandidateKinds \cup {"notice", "none"}]]
  /\ ask \in [Askers -> [pc : {"idle", "waiting", "woken", "error"}, key : Commands,
                         from : Producers \cup {NoProducer}]]

FreshProd == [pc |-> "idle", key |-> CHOOSE k \in Commands : TRUE, rung |-> 1,
              kept |-> "none", served |-> "none"]
NoAsk == [pc |-> "idle", key |-> CHOOSE k \in Commands : TRUE, from |-> NoProducer]

SimulationInit ==
  /\ nature \in [Commands -> Natures]
  /\ memo = {}
  /\ inflight = [k \in Commands |-> NoProducer]
  /\ prod = [p \in Producers |-> FreshProd]
  /\ ask = [a \in Askers |-> NoAsk]
-----------------------------------------------------------------------------
(* The ladder of _simulate_uncached.                                          *)

\* _candidate_rank: none, invalid, valid, with content, usable.
Rank(key, kind) == CASE kind = "none"        -> -1
                     [] kind \in Usable(key) -> 3
                     [] kind = "invalid"     -> 0
                     [] kind = "silent"      -> 1
                     [] OTHER                -> 2

LastRung == Providers + 1
RungKind(rung) == IF rung = LastRung THEN "lastRung" ELSE "rung"

\* The filters between the ladder and the answer: a loop is collapsed, an echo of the
\* command and a leaked turn are emptied.
Filtered(kind) == CASE kind = "loop" -> {"content", "good"}
                    [] kind \in {"echo", "markup"} -> {"silent"}
                    [] OTHER -> {kind}

\* The end of _simulate_uncached: an answer in the wrong format is emptied; a command
\* whose output cannot be derived is refused rather than answered with silence.
Finished(key, kind) == IF kind = "invalid" THEN "silent"
                       ELSE IF kind = "silent" /\ key \in Underivable THEN "notice"
                       ELSE kind

\* Mutant: the last candidate is kept, whatever it is.
KeepsTheLast(rec, kind) == [rec EXCEPT !.kept = kind]

\* "escalation keeps the best one rather than the last".
Keep(rec, kind) == IF Rank(rec.key, kind) > Rank(rec.key, rec.kept) THEN [rec EXCEPT !.kept = kind] ELSE rec

\* Its callers: the waiters of shield(task) are resolved and the key leaves _inflight in the
\* same pass of the event loop; each waiter runs on in a later one.
Wake(p, pc) == [a \in Askers |-> IF ask[a].pc = "waiting" /\ ask[a].from = p
                                 THEN [ask[a] EXCEPT !.pc = pc] ELSE ask[a]]
\* Once its last caller has left, a simulation is of no more account.
Released(prods, asks) == [p \in Producers |->
  IF prods[p].pc \in {"done", "failed"} /\ \A a \in Askers : asks[a].from # p THEN FreshProd ELSE prods[p]]
Settle(p, rec, pc) ==
  /\ ask' = Wake(p, pc)
  /\ prod' = Released([prod EXCEPT ![p] = rec], ask')
  /\ inflight' = [inflight EXCEPT ![rec.key] = NoProducer]
  /\ call' = Collected(p)

Serve(p, rec, kind) ==
  Settle(p, [rec EXCEPT !.pc = "done", !.rung = 1, !.served = Finished(rec.key, kind)], "woken")

\* The ladder is over: a read that must print and has no content is asked for once more.
\* An answer in the wrong format may have content or none.
Deliver(p, rec) ==
  \E kind \in Filtered(rec.kept) :
  \E silent \in IF kind = "silent" THEN {TRUE} ELSE IF kind = "invalid" THEN BOOLEAN ELSE {FALSE} :
    IF silent /\ rec.key \in MustPrint
    THEN /\ prod' = [prod EXCEPT ![p] = [rec EXCEPT !.pc = "reask", !.served = kind]]
         /\ call' = Calling(p, "reask", "run")
         /\ UNCHANGED <<inflight, ask>>
    ELSE Serve(p, rec, kind)

Climb(p, rec, rung) ==
  /\ prod' = [prod EXCEPT ![p] = [rec EXCEPT !.rung = rung]]
  /\ call' = Calling(p, RungKind(rung), "run")
  /\ UNCHANGED <<inflight, ask>>

\* A rung that answers.  The providers of the primary model are passed over once it has
\* answered with its own tool-call markup.
RungAnswers(p, kind) ==
  LET rec == Keep(prod[p], kind) IN
  IF kind \in Usable(rec.key) \/ rec.rung = LastRung
  THEN Deliver(p, rec)
  ELSE Climb(p, rec, IF kind = "markup" THEN LastRung ELSE rec.rung + 1)

\* A rung that fails: the next one, or, on the evaluator model, no observation at all.
RungFails(p) ==
  IF prod[p].rung = LastRung
  THEN Settle(p, [prod[p] EXCEPT !.pc = "failed"], "error")
  ELSE Climb(p, prod[p], prod[p].rung + 1)

LadderStep(p) ==
  /\ prod[p].pc = "ladder"
  /\ call[p].pc = "done"
  /\ \/ call[p].answer = "error" /\ RungFails(p)
     \/ call[p].answer = "usable" /\ \E kind \in Usable(prod[p].key) : RungAnswers(p, kind)
     \/ /\ call[p].answer = "unusable"
        /\ \E kind \in CandidateKinds \ Usable(prod[p].key) : RungAnswers(p, kind)
  /\ UNCHANGED <<nature, memo, engyErrors>>

\* _retry_for_output: taken when it is usable and no echo, else the silence stands.
ReaskStep(p) ==
  /\ prod[p].pc = "reask"
  /\ call[p].pc = "done"
  /\ \E kind \in {prod[p].served} \cup (IF call[p].answer = "usable" THEN {"good"} ELSE {}) :
       Serve(p, prod[p], kind)
  /\ UNCHANGED <<nature, memo, engyErrors>>

ProducerStep(p) == LadderStep(p) \/ ReaskStep(p)
-----------------------------------------------------------------------------
(* The memo.                                                                  *)

\* Mutant: a simulation under way is not looked for.
AsksAnew(key) == {}

\* A simulation of the key that is under way.
UnderWay(key) == {inflight[key]} \ {NoProducer}

\* observe(), when nothing is remembered, up to its first suspension: the simulation under
\* way, or a task of its own.
Observe(a, key) ==
  /\ key \notin memo
  /\ IF UnderWay(key) # {}
     THEN /\ ask' = [ask EXCEPT ![a] = [pc |-> "waiting", key |-> key, from |-> inflight[key]]]
          /\ UNCHANGED <<inflight, prod>>
          /\ call' = Collected(a)
     ELSE \E p \in Producers :
          /\ prod[p].pc = "idle"
          /\ prod' = [prod EXCEPT ![p] = [FreshProd EXCEPT !.pc = "ladder", !.key = key]]
          /\ inflight' = [inflight EXCEPT ![key] = p]
          /\ ask' = [ask EXCEPT ![a] = [pc |-> "waiting", key |-> key, from |-> p]]
          /\ call' = [Calling(p, "rung", "run") EXCEPT ![a] = NoCall]

\* _cacheable_observation: a usable answer, and no silence but of a quiet command.
Cacheable(p) == \/ prod[p].served \in {"good", "notice"}
                \/ prod[p].served = "silent" /\ prod[p].key \in Quiet

\* The waiter runs on: it stores the answer before it returns it.
Store(a) ==
  /\ ask[a].pc = "woken"
  /\ memo' = IF Cacheable(ask[a].from) THEN memo \cup {ask[a].key} ELSE memo
  /\ ask' = [ask EXCEPT ![a] = NoAsk]
  /\ prod' = Released(prod, ask')
  /\ UNCHANGED <<nature, inflight>>

\* The simulation failed, and the waiter with it.
Miss(a) ==
  /\ ask[a].pc = "error"
  /\ ask' = [ask EXCEPT ![a] = NoAsk]
  /\ prod' = Released(prod, ask')
  /\ UNCHANGED <<nature, memo, inflight>>
=============================================================================
