----------------------------- MODULE SanityHost -----------------------------
(***************************************************************************)
(* The GPU host of the sanity gate (sanity_remote): a store of runs and    *)
(* one vLLM server.  A run takes the engine's lock to get its model        *)
(* loaded and lets it go before it generates, so that what keeps another   *)
(* model from being loaded under its generation is the API, which refuses  *)
(* runs and teardowns.                                                     *)
(*                                                                         *)
(* A run is named by the attempt and the sample it is for: a sample's runs *)
(* follow each other and the store's record of one that was read is not    *)
(* looked at again.                                                        *)
(***************************************************************************)
EXTENDS Integers, FiniteSets

CONSTANTS
  Models,       \* digests
  Attempts,     \* attempts of the gate, in the order of their claims
  Samples,
  Answers,      \* what a model may answer, see SanityTrajectory
  MaxFaults     \* bound: crashes, failed loads and lost calls

ASSUME HostAssumption == MaxFaults \in Nat /\ "none" \notin Models

RunIds  == Attempts \X Samples
NoModel == "none"

VARIABLES
  runs,      \* SanityRunStore and what each generate() does
  loaded,    \* VllmEngine._loaded_digest
  vllm,      \* VllmEngine._proc: the model it was started with, and whether it listens
  orphans,   \* models of vLLMs an earlier process of the host left behind, not listening yet
  squatter,  \* the model of an orphan that listens on the port
  faults

engineVars == <<loaded, vllm, orphans, squatter>>
hostVars == <<runs, engineVars, faults>>

\* queued: waits for the lock; loading, booting: holds it; generating: its prompt is at the
\* server; cut: the server went while it was.
Working == {"queued", "loading", "booting", "generating", "cut"}
RunRow == [state : {"absent", "failed", "succeeded"} \cup Working,
           digest : Models \cup {NoModel}, answer : Answers \cup {"blank", "none"}]
Absent == [state |-> "absent", digest |-> NoModel, answer |-> "none"]
NoVllm == [model |-> NoModel, up |-> FALSE]

HostTypeOK ==
  /\ runs \in [RunIds -> RunRow]
  /\ {loaded, squatter} \subseteq Models \cup {NoModel}
  /\ vllm \in [model : Models \cup {NoModel}, up : BOOLEAN]
  /\ orphans \subseteq Models
  /\ faults \in 0..MaxFaults

HostInit ==
  /\ runs = [r \in RunIds |-> Absent]
  /\ loaded = NoModel /\ vllm = NoVllm
  /\ orphans = {} /\ squatter = NoModel
  /\ faults = 0

Fault == faults < MaxFaults /\ faults' = faults + 1

----------------------------------------------------------------------------
\* The API.

In(S)  == {r \in RunIds : runs[r].state \in S}
Active == In(Working)

\* 409: another model's runs are active.
Busy(r, m) == r \notin Active /\ \E a \in Active : runs[a].digest # m

\* store.start and mark_worker_started: a run that is known is answered for, not started again.
Accept(r, m) ==
  runs' = IF runs[r].state = "absent"
          THEN [runs EXCEPT ![r] = [state |-> "queued", digest |-> m, answer |-> "none"]]
          ELSE runs

\* The model that answers on the port: one process listens at a time.
Serving == IF squatter # NoModel THEN squatter
           ELSE IF vllm.up THEN vllm.model ELSE NoModel

\* The generations the server was at end with it.
Without(rows) ==
  [r \in RunIds |-> IF rows[r].state = "generating" THEN [rows[r] EXCEPT !.state = "cut"]
                                                    ELSE rows[r]]

\* _kill_vllm: the engine's own process, which a squatter answers in the place of.
Killed == IF squatter = NoModel THEN Without(runs) ELSE runs

\* Mutant: the server is killed whatever the store says.
TearDownAnyway ==
  /\ runs' = Killed
  /\ loaded' = NoModel /\ vllm' = NoVllm
  /\ UNCHANGED <<orphans, squatter>>

\* Skipped while a run is active.
TearDown ==
  IF Active # {}
  THEN UNCHANGED <<runs, engineVars>>
  ELSE /\ loaded' = NoModel /\ vllm' = NoVllm
       /\ UNCHANGED <<runs, orphans, squatter>>

----------------------------------------------------------------------------
\* generate().

LockFree == In({"loading", "booting"}) = {}

Becomes(r, state) == runs' = [runs EXCEPT ![r].state = state]

\* Mutant: whatever answers on the port is the model.
Answering(r) == Serving # NoModel

\* _loaded_digest is the run's, the process is alive and the port answers.
Warm(r) == loaded = runs[r].digest /\ vllm.model # NoModel /\ Serving # NoModel

Reuse(r) ==
  /\ runs[r].state = "queued" /\ LockFree
  /\ Warm(r)
  /\ Becomes(r, "generating")
  /\ UNCHANGED <<engineVars, faults>>

\* A server at work may miss the health probe: it is then loaded again.
ColdLoad(r) ==
  /\ runs[r].state = "queued" /\ LockFree
  /\ IF Warm(r) THEN Fault ELSE UNCHANGED faults
  /\ Becomes(r, "loading")
  /\ UNCHANGED engineVars

\* The model's files are there: the server is killed and started again with them.
Boot(r) ==
  /\ runs[r].state = "loading"
  /\ runs' = [Killed EXCEPT ![r].state = "booting"]
  /\ loaded' = NoModel
  /\ vllm' = [model |-> runs[r].digest, up |-> FALSE]
  /\ UNCHANGED <<orphans, squatter, faults>>

\* _wait_healthy: the process is alive and the port answers, whoever listens there.
Booted(r) ==
  /\ runs[r].state = "booting"
  /\ vllm' = IF squatter = NoModel THEN [vllm EXCEPT !.up = TRUE] ELSE vllm
  /\ loaded' = runs[r].digest
  /\ Becomes(r, "generating")
  /\ UNCHANGED <<orphans, squatter, faults>>

\* WorkerFault: the model is forgotten, so that the next run loads it again.
Fails(r) ==
  /\ Becomes(r, "failed")
  /\ loaded' = NoModel
  /\ UNCHANGED <<orphans, squatter>>

\* The download fails or takes too long, or the generation does.
FaultIn(r) ==
  /\ runs[r].state \in {"loading", "generating"}
  /\ Fault
  /\ Fails(r)
  /\ UNCHANGED vllm

\* The process exits, as it does when an orphan has the GPUs or the port, or it is still not up
\* after vllm_startup_s: it is left as it is, for the next load to kill.
BootFails(r) ==
  /\ runs[r].state = "booting"
  /\ IF squatter = NoModel /\ orphans = {} THEN Fault ELSE UNCHANGED faults
  /\ Fails(r)
  /\ vllm' = NoVllm \/ (squatter = NoModel /\ UNCHANGED vllm)

TransportError(r) ==
  /\ runs[r].state = "cut"
  /\ Fails(r)
  /\ UNCHANGED <<vllm, faults>>

Answered(r, a) ==
  /\ runs[r].state = "generating"
  /\ runs' = [runs EXCEPT ![r].state = "succeeded", ![r].answer = a]
  /\ UNCHANGED engineVars

\* The server answers, or refuses the name of another model: the empty text.
Generates(r, a) ==
  /\ Serving = runs[r].digest
  /\ Answered(r, a)
  /\ UNCHANGED faults

HttpError(r) ==
  /\ IF Serving = runs[r].digest THEN Fault ELSE UNCHANGED faults
  /\ Answered(r, "blank")

Generate(r) ==
  \/ Reuse(r) \/ ColdLoad(r) \/ Boot(r) \/ Booted(r) \/ TransportError(r)
  \/ \E a \in Answers : Generates(r, a)

\* What answers on the port dies.
ServerDies ==
  /\ Serving # NoModel /\ Fault
  /\ runs' = Without(runs)
  /\ IF squatter # NoModel THEN squatter' = NoModel /\ UNCHANGED vllm
                           ELSE vllm' = NoVllm /\ UNCHANGED squatter
  /\ UNCHANGED <<loaded, orphans>>

\* A process no run waits for: it comes to listen, or exits when it finds the port taken.
VllmSettles ==
  /\ In({"booting"}) = {} /\ vllm.model # NoModel /\ ~vllm.up
  /\ vllm' = IF squatter = NoModel THEN [vllm EXCEPT !.up = TRUE] ELSE NoVllm
  /\ UNCHANGED <<runs, loaded, orphans, squatter, faults>>

\* An orphan takes the port, if it is free, or exits.
OrphanSettles ==
  /\ \E m \in orphans :
       /\ orphans' = orphans \ {m}
       /\ \/ Serving = NoModel /\ squatter' = m
          \/ UNCHANGED squatter
  /\ UNCHANGED <<runs, loaded, vllm, faults>>

\* The host's process ends with all its runs, its vLLM, in a session of its own, does not;
\* the next engine begins with _kill_port_squatter, which finds who listens by then.
HostRestarts ==
  /\ vllm # NoVllm \/ \E r \in RunIds : runs[r] # Absent
  /\ Fault
  /\ runs' = [r \in RunIds |-> Absent]
  /\ loaded' = NoModel /\ vllm' = NoVllm /\ squatter' = NoModel
  /\ orphans' = orphans \cup IF vllm.up THEN {} ELSE {vllm.model} \ {NoModel}

HostFaults ==
  \/ \E r \in RunIds : FaultIn(r) \/ BootFails(r) \/ HttpError(r)
  \/ ServerDies \/ VllmSettles \/ OrphanSettles
  \/ HostRestarts

----------------------------------------------------------------------------
\* A prompt is only ever at a server of the model it was formatted for: between the check of
\* the loaded digest and the generation the lock is let go, and a refused name is an empty
\* answer the gate would hold against the model.  The escape is the code's gap: a vLLM that was
\* not listening yet when a restarted host looked for squatters takes the port later, and its
\* /health is taken for that of the model being booted.
ServedByItsModel ==
  \A r \in RunIds : runs[r].state = "generating" => Serving = runs[r].digest \/ squatter # NoModel

\* tests/test_sanity_gate.py: a stale teardown must never kill vLLM under live generations.
\* Neither does the load of another model: only a run of the same one that is loaded again -
\* its probe of the server failed, or another run's fault made the engine forget the model -,
\* the server's own end or the host's cut a generation short.
GenerationsAreLeftAlone ==
  [][\A r \in RunIds :
       runs[r].state = "generating" /\ runs'[r].state = "cut"
         => \/ faults' > faults
            \/ \E b \in RunIds : /\ runs[b].state = "loading" /\ runs'[b].state = "booting"
                                 /\ runs[b].digest = runs[r].digest]_hostVars
=============================================================================
