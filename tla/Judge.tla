------------------------------- MODULE Judge -------------------------------
(* The judge API (judge_api.py) on one sample of one evaluation: the reference     *)
(* runs and the checklist written from them, prepared ahead in a store that        *)
(* expires, and the score requests that judge both sides on that checklist.        *)
(* Every model call goes through LlmClient, every command of a reference run        *)
(* through Simulation.  A prepare() is one job: the sample's task of the prep       *)
(* store, or the one a score request makes on the spot.                            *)
EXTENDS Simulation

CONSTANTS Runs,         \* reference runs of a prepare()
          Writer,       \* the coroutine that writes the checklist
          Turns,        \* turns of a trajectory
          MaxRequests   \* bound: score requests for the sample, one after the other

Sides == {"king", "challenger"}

ASSUME JudgeAssumption ==
  /\ Askers = Runs /\ Runs # {} /\ IsFiniteSet(Runs)
  /\ Slots = Runs \cup Producers \cup {Writer} \cup Sides
  /\ Turns \in Nat \ {0} /\ MaxRequests \in Nat

VARIABLES
  run,      \* the reference runs of the job
  job,      \* the prepare() under way or last ended
  store,    \* the prep store: whether it knows the prep, and what its task came to
  req,      \* the score request under way or last ended, and how many there were
  side,     \* its two sides
  lists     \* the checklists written so far and the requests' choices among them

judgeVars == <<run, job, store, req, side, lists>>
vars == <<call, engyErrors, nature, memo, inflight, prod, ask, run, job, store, req, side, lists>>

RunPcs  == {"idle", "asking", "watching", "done", "failed"}
JobPcs  == {"none", "runs", "reading", "writing", "pruning", "ended"}
Tasks   == {"absent", "pending", "ready", "failed", "cancelled"}
ReqPcs  == {"idle", "waiting", "sync", "sides", "scored", "unscored", "crashed"}
SidePcs == {"idle", "judging", "held", "void", "zero"}

TypeOK ==
  /\ LlmTypeOK /\ SimulationTypeOK
  /\ run \in [Runs -> [pc : RunPcs, turn : 1..Turns]]
  /\ job \in [pc : JobPcs, eval : Evals]
  /\ store \in [known : BOOLEAN, task : Tasks]
  /\ req \in [pc : ReqPcs, made : 0..MaxRequests]
  /\ side \in [Sides -> SidePcs]
  /\ lists \in [made : 0..(MaxRequests + 1), prep : 0..1, used : 0..(MaxRequests + 1)]

NoRun == [pc |-> "idle", turn |-> 1]

Init ==
  /\ LlmInit /\ SimulationInit
  /\ run = [r \in Runs |-> NoRun]
  /\ job = [pc |-> "none", eval |-> "run"]
  /\ store = [known |-> FALSE, task |-> "absent"]
  /\ req = [pc |-> "idle", made |-> 0]
  /\ side = [s \in Sides |-> "idle"]
  /\ lists = [made |-> 0, prep |-> 0, used |-> 0]
-----------------------------------------------------------------------------
(* The job.                                                                   *)

BeginJob(ev) == /\ job' = [pc |-> "runs", eval |-> ev]
                /\ run' = [r \in Runs |-> NoRun]

\* The job returns a checklist, or raises: the prep task ends, or the request that waited
\* for it goes on.
JobReady == /\ job' = [job EXCEPT !.pc = "ended"]
            /\ lists' = [lists EXCEPT !.made = @ + 1,
                                      !.prep = IF job.eval = "run" THEN 1 ELSE @,
                                      !.used = IF job.eval = "none" THEN lists.made + 1 ELSE @]
            /\ IF job.eval = "run"
               THEN store' = [store EXCEPT !.task = "ready"] /\ UNCHANGED req
               ELSE req' = [req EXCEPT !.pc = "sides"] /\ UNCHANGED store
JobFails == /\ job' = [job EXCEPT !.pc = "ended"]
            /\ IF job.eval = "run"
               THEN store' = [store EXCEPT !.task = "failed"] /\ UNCHANGED req
               ELSE req' = [req EXCEPT !.pc = "unscored"] /\ UNCHANGED store
            /\ UNCHANGED lists

\* _generate_once: the run asks its model for the first turn.
AskModel(r) ==
  /\ job.pc = "runs"
  /\ run[r].pc = "idle"
  /\ run' = [run EXCEPT ![r].pc = "asking"]
  /\ call' = Calling(r, "reference", job.eval)
  /\ UNCHANGED <<engyErrors, simulationVars, job, store, req, side, lists>>

\* An observation in hand, it asks for the next turn.
NextTurn(r) ==
  /\ run' = [run EXCEPT ![r] = [pc |-> "asking", turn |-> @.turn + 1]]
  /\ call' = Calling(r, "reference", job.eval)

\* The turn is there.  A run that submits, or has had its turns, is done; any other puts
\* its command to the simulated shell, which may remember the answer.
TakeTurn(r) ==
  /\ run[r].pc = "asking"
  /\ call[r].pc = "done"
  /\ \/ /\ call[r].answer = "usable"
        /\ run' = [run EXCEPT ![r].pc = "done"]
        /\ call' = Collected(r)
        /\ UNCHANGED simulationVars
     \/ /\ call[r].answer = "usable"
        /\ run[r].turn < Turns
        /\ \E key \in Commands :
             \/ /\ Observe(r, key)
                /\ run' = [run EXCEPT ![r].pc = "watching"]
                /\ UNCHANGED <<nature, memo>>
             \/ /\ key \in memo
                /\ NextTurn(r)
                /\ UNCHANGED simulationVars
     \/ /\ call[r].answer # "usable"
        /\ run' = [run EXCEPT ![r].pc = "failed"]
        /\ call' = Collected(r)
        /\ UNCHANGED simulationVars
  /\ UNCHANGED <<engyErrors, job, store, req, side, lists>>

\* The simulation it waited for is over: the run goes on, or dies with it.
TakeObservation(r) ==
  /\ run[r].pc = "watching"
  /\ \/ Store(r) /\ NextTurn(r)
     \/ /\ Miss(r)
        /\ run' = [run EXCEPT ![r].pc = "failed"]
        /\ UNCHANGED call
  /\ UNCHANGED <<engyErrors, job, store, req, side, lists>>

\* "Losing one run is survivable; below two there is nothing to compare".
Enough(held) == LET two == IF Cardinality(Runs) < 2 THEN Cardinality(Runs) ELSE 2
                IN  Cardinality(held) >= two

\* generate_many returns, and the milestones are read from the runs that held.
ReadRuns ==
  /\ job.pc = "runs"
  /\ \A r \in Runs : run[r].pc \in {"done", "failed"}
  /\ IF Enough({r \in Runs : run[r].pc = "done"})
     THEN /\ job' = [job EXCEPT !.pc = "reading"]
          /\ call' = Calling(Writer, "questions", job.eval)
          /\ UNCHANGED <<store, req, lists>>
     ELSE JobFails /\ UNCHANGED call
  /\ run' = [r \in Runs |-> NoRun]
  /\ UNCHANGED <<engyErrors, simulationVars, side>>

\* _extract_validated_vector and _write_ladders: no milestone, or fewer questions than the
\* floor, and the sample has no checklist.
WriteLadders ==
  /\ job.pc = "reading"
  /\ call[Writer].pc = "done"
  /\ \/ /\ call[Writer].answer = "usable"
        /\ job' = [job EXCEPT !.pc = "writing"]
        /\ call' = Calling(Writer, "questions", job.eval)
        /\ UNCHANGED <<store, req, lists>>
     \/ JobFails /\ call' = Collected(Writer)
  /\ UNCHANGED <<engyErrors, simulationVars, run, side>>

\* _prune_unreachable: Jev judges the reference runs, or the judge model does.
Prune ==
  /\ job.pc = "writing"
  /\ call[Writer].pc = "done"
  /\ \/ call[Writer].answer = "usable" /\ JobReady /\ call' = Collected(Writer)
     \/ /\ call[Writer].answer = "usable"
        /\ job' = [job EXCEPT !.pc = "pruning"]
        /\ call' = Calling(Writer, "judge", job.eval)
        /\ UNCHANGED <<store, req, lists>>
     \/ JobFails /\ call' = Collected(Writer)
  /\ UNCHANGED <<engyErrors, simulationVars, run, side>>

\* With no readable verdict the checklist is kept as it is.
Pruned ==
  /\ job.pc = "pruning"
  /\ call[Writer].pc = "done"
  /\ call' = Collected(Writer)
  /\ \/ JobReady
     \/ call[Writer].answer = "usable" /\ JobFails
  /\ UNCHANGED <<engyErrors, simulationVars, run, side>>

JobStep == \/ \E r \in Runs : AskModel(r) \/ TakeTurn(r) \/ TakeObservation(r)
           \/ ReadRuns \/ WriteLadders \/ Prune \/ Pruned
-----------------------------------------------------------------------------
(* The prep store.                                                            *)

\* /category-prep: the worker prepares the run's samples before it generates.
StartPrep ==
  /\ store.task = "absent" /\ req.made = 0 /\ job.pc = "none"
  /\ store' = [known |-> TRUE, task |-> "pending"]
  /\ BeginJob("run")
  /\ UNCHANGED <<call, engyErrors, simulationVars, req, side, lists>>

\* A cancelled coroutine leaves its call; a simulation it waited for goes on without it.
Cancelled == [c \in Slots |-> IF c \in Runs \cup {Writer} THEN NoCall ELSE call[c]]

\* _sweep_expired, in the start or the lookup of any prep once this one is older than its
\* time to live.  The cancellation of an unfinished task reaches the request that awaits it,
\* where no `except Exception` catches it.
Sweep ==
  /\ store.known
  /\ IF store.task = "pending"
     THEN /\ store' = [known |-> FALSE, task |-> "cancelled"]
          /\ job' = [job EXCEPT !.pc = "ended"]
          /\ run' = [r \in Runs |-> NoRun]
          /\ ask' = [r \in Runs |-> NoAsk]
          /\ prod' = Released(prod, ask')
          /\ call' = Cancelled
          /\ req' = IF req.pc = "waiting" THEN [req EXCEPT !.pc = "crashed"] ELSE req
     ELSE store' = [store EXCEPT !.known = FALSE] /\ UNCHANGED <<job, run, ask, prod, call, req>>
  /\ UNCHANGED <<engyErrors, nature, memo, inflight, side, lists>>
-----------------------------------------------------------------------------
(* The score request.                                                         *)

\* Mutant: a prep that is not finished counts as missing.
OnlyFinished == store.known /\ store.task \in {"ready", "failed"}

\* get_with_reason finds a task of the prep for the sample.
Prepared == store.known

\* The worker scores the pair, and scores it again when the answer did not hold:
\* _questions_for waits for the prepared checklist, or makes one on the spot.
ScoreBatch ==
  /\ req.pc \in {"idle", "unscored", "crashed"}
  /\ req.made < MaxRequests
  /\ req' = [pc |-> IF Prepared THEN "waiting" ELSE "sync", made |-> req.made + 1]
  /\ lists' = [lists EXCEPT !.used = 0]
  /\ UNCHANGED <<call, engyErrors, simulationVars, run, job, store, side>>

\* The prepared checklist is there, or its task failed.
TakePrepared ==
  /\ req.pc = "waiting"
  /\ \/ /\ store.task = "ready"
        /\ req' = [req EXCEPT !.pc = "sides"]
        /\ lists' = [lists EXCEPT !.used = lists.prep]
     \/ /\ store.task = "failed"
        /\ req' = [req EXCEPT !.pc = "sync"]
        /\ UNCHANGED lists
  /\ UNCHANGED <<call, engyErrors, simulationVars, run, job, store, side>>

\* prep_store.service.prepare(sample), with no eval_run_id.
GenerateNow ==
  /\ req.pc = "sync"
  /\ job.pc \in {"none", "ended"}
  /\ BeginJob("none")
  /\ UNCHANGED <<call, engyErrors, simulationVars, store, req, side, lists>>

\* _side: truncated, abandoned, leaking or looping documents score zero unread.
BeginSide(s) ==
  /\ req.pc = "sides"
  /\ side[s] = "idle"
  /\ \/ side' = [side EXCEPT ![s] = "zero"] /\ UNCHANGED call
     \/ side' = [side EXCEPT ![s] = "judging"] /\ call' = Calling(s, "judge", "run")
  /\ UNCHANGED <<engyErrors, simulationVars, run, job, store, req, lists>>

\* _judge_side: a reading that parses and has its logprobs is held.
EndSide(s) ==
  /\ side[s] = "judging"
  /\ call[s].pc = "done"
  /\ side' = [side EXCEPT ![s] = IF call[s].answer = "usable" THEN "held" ELSE "void"]
  /\ call' = Collected(s)
  /\ UNCHANGED <<engyErrors, simulationVars, run, job, store, req, lists>>

\* The record is scored when both sides are, and the batch when enough records are.
Answer ==
  /\ req.pc = "sides"
  /\ \A s \in Sides : side[s] \in {"held", "void", "zero"}
  /\ req' = [req EXCEPT !.pc = IF \A s \in Sides : side[s] # "void" THEN "scored" ELSE "unscored"]
  /\ side' = [s \in Sides |-> "idle"]
  /\ UNCHANGED <<call, engyErrors, simulationVars, run, job, store, lists>>

RequestStep == TakePrepared \/ GenerateNow \/ Answer \/ \E s \in Sides : BeginSide(s) \/ EndSide(s)
-----------------------------------------------------------------------------
CallStep(c)     == ClientStep(c) /\ UNCHANGED <<simulationVars, judgeVars>>
SimulateStep(p) == ProducerStep(p) /\ UNCHANGED judgeVars

Ended == req.pc = "scored" \/ (req.pc \in {"unscored", "crashed"} /\ req.made = MaxRequests)

Next ==
  \/ StartPrep \/ Sweep \/ ScoreBatch
  \/ JobStep \/ RequestStep
  \/ \E c \in Slots : CallStep(c)
  \/ \E p \in Producers : SimulateStep(p)
  \/ Ended /\ UNCHANGED vars

\* The coroutines run, the exchanges end (a stall or a deadline ends them at the latest),
\* and asyncio's semaphores serve their waiters in order.
Exchange(c) == (Fail(c) \/ Retry(c) \/ \E x \in {"usable", "unusable"} : Reply(c, x))
                 /\ UNCHANGED <<simulationVars, judgeVars>>
Fairness ==
  /\ WF_vars(JobStep) /\ WF_vars(RequestStep)
  /\ \A c \in Slots : /\ WF_vars(Exchange(c))
                      /\ SF_vars(PassGate(c) /\ UNCHANGED <<simulationVars, judgeVars>>)
                      /\ SF_vars(EnterRoom(c) /\ UNCHANGED <<simulationVars, judgeVars>>)
  /\ \A p \in Producers : WF_vars(SimulateStep(p))

Spec == Init /\ [][Next]_vars /\ Fairness
-----------------------------------------------------------------------------
(* Properties.                                                                *)

\* The memo dedupes the work in flight: no two simulations of a command in one state run at
\* the same time, although the key leaves _inflight before any waiter has stored the answer.
OneSimulationAtATime ==
  \A p, q \in Producers :
    p # q /\ prod[p].pc \in {"ladder", "reask"} /\ prod[q].pc \in {"ladder", "reask"}
      => prod[p].key # prod[q].key

\* The ladder never gives up a candidate for a worse one, and a good one is served as it
\* is (_candidate_rank, the filters after the ladder).
BestIsServed ==
  [][\A p \in Producers : prod[p].pc = "ladder" /\ prod'[p].pc \in {"ladder", "reask", "done"} =>
       /\ Rank(prod[p].key, prod'[p].kept) >= Rank(prod[p].key, prod[p].kept)
       /\ prod'[p].kept = "good" => prod'[p].served \in {"none", "good"}]_vars

\* While the prep store has the sample's checklist, no request scores the sample on another
\* one, however early it asked.
PreparedIsUsed ==
  store.known /\ store.task = "ready" /\ lists.used # 0 => lists.used = lists.prep
=============================================================================
