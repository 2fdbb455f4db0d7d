----------------------------- MODULE KingEngine -----------------------------
(* The host that serves the king to the chat: the operator's downloads, prunings and  *)
(* changes of the .env (engine/king_ctl.py), and the supervisor that keeps a vLLM      *)
(* running (engine/supervisor.py, vllm_process.py).                                    *)
EXTENDS Integers, FiniteSets

CONSTANTS Models,          \* mirrors that are ready, by king
          NoModel,
          UnhealthyAfter,  \* unhealthy_restart_after
          MaxEngineFaults  \* bound: failed downloads, dead and hung processes, missed probes

ASSUME EngineAssumption ==
  IsFiniteSet(Models) /\ NoModel \notin Models /\ UnhealthyAfter \in Nat \ {0} /\ MaxEngineFaults \in Nat

VARIABLES
  disk,      \* files of each model in models_dir
  env,       \* KING_ENGINE_MODEL_PATH in .env
  operator,  \* what the operator is doing, and about which model
  engine,    \* the supervisor
  vllm,      \* its process
  orphan,    \* what holds the GPUs without being the supervisor's process
  engineFaults

engineVars == <<disk, env, operator, engine, vllm, orphan, engineFaults>>

WholeModel == {"config", "weights"}
Stopped == [pc |-> "off", path |-> NoModel, unhealthy |-> 0]
NoTask == [pc |-> "idle", model |-> NoModel]
\* stuck: it holds the GPUs and does not listen; hung: it listens and does not answer.
States  == {"none", "loading", "stuck", "up", "hung", "dead"}

EngineTypeOK ==
  /\ disk \in [Models -> SUBSET WholeModel]
  /\ env \in Models \cup {NoModel}
  /\ operator \in [pc : {"idle", "config", "weights", "ready", "restart"}, model : Models \cup {NoModel}]
  /\ engine \in [pc : {"off", "clear", "boot", "serve"}, path : Models \cup {NoModel},
                 unhealthy : 0..UnhealthyAfter]
  /\ vllm \in States /\ orphan \in States
  /\ engineFaults \in 0..MaxEngineFaults

EngineInit ==
  /\ disk = [m \in Models |-> {}]
  /\ env = NoModel /\ operator = NoTask
  /\ engine = Stopped /\ vllm = "none" /\ orphan = "none"
  /\ engineFaults = 0
-----------------------------------------------------------------------------
EngineFault == engineFaults < MaxEngineFaults /\ engineFaults' = engineFaults + 1

\* model_complete: the shards of the index and config.json.
ModelComplete(m) == disk[m] = WholeModel

\* cmd_download, materialize: the config files, then the shards.
DownloadModel(m) ==
  /\ operator.pc = "idle"
  /\ operator' = [pc |-> IF ModelComplete(m) THEN "ready" ELSE "config", model |-> m]
  /\ UNCHANGED <<disk, env, engine, vllm, orphan, engineFaults>>
GetFiles ==
  LET m == operator.model IN
  /\ \/ /\ operator.pc = "config"
        /\ disk' = [disk EXCEPT ![m] = @ \cup {"config"}]
        /\ operator' = [operator EXCEPT !.pc = "weights"]
     \/ /\ operator.pc = "weights"
        /\ disk' = [disk EXCEPT ![m] = WholeModel]
        /\ operator' = [operator EXCEPT !.pc = "ready"]
  /\ UNCHANGED <<env, engine, vllm, orphan, engineFaults>>
DownloadFails ==
  /\ operator.pc \in {"config", "weights"} /\ EngineFault
  /\ operator' = NoTask
  /\ UNCHANGED <<disk, env, engine, vllm, orphan>>

\* "put this line in the repo .env, then pm2 restart": the new process is started beside the
\* vLLM of the old one, which runs in a session of its own.
Point ==
  /\ operator.pc = "ready"
  /\ env' = operator.model /\ operator' = [operator EXCEPT !.pc = "restart"]
  /\ UNCHANGED <<disk, engine, vllm, orphan, engineFaults>>

Orphaned == orphan' = IF vllm \in {"none", "dead"} THEN orphan ELSE vllm
Restart ==
  /\ operator.pc = "restart" /\ operator' = NoTask
  /\ engine' = Stopped /\ vllm' = "none" /\ Orphaned
  /\ UNCHANGED <<disk, env, engineFaults>>

\* cmd_prune: a complete model, unless the .env names it; also between Point and Restart.
Prune(m) ==
  /\ operator.pc \in {"idle", "restart"}
  /\ ModelComplete(m) /\ env # m
  /\ disk' = [disk EXCEPT ![m] = {}]
  /\ UNCHANGED <<env, operator, engine, vllm, orphan, engineFaults>>
-----------------------------------------------------------------------------
\* pm2 starts the supervisor; check_model_path: it exits unless the path has a config.json.
Boot ==
  /\ engine.pc = "off" /\ env # NoModel /\ "config" \in disk[env]
  /\ engine' = [Stopped EXCEPT !.pc = "clear", !.path = env]
  /\ UNCHANGED <<disk, env, operator, vllm, orphan, engineFaults>>

\* SIGKILL of a process alone: the workers it started may stay on the GPUs.
Leftovers == {"none", "stuck"}

\* kill_port_squatter: whoever listens on the port is killed, a process that does not is missed.
Squatter == IF orphan \in {"up", "hung"} THEN Leftovers ELSE {orphan}

\* busy_gpus: whatever is left of an earlier vLLM holds its GPUs.
GpusFree(left) == left = "none"

\* wait_gpus_free, start; the supervisor exits when the GPUs stay busy.
StartVllm ==
  /\ engine.pc = "clear" /\ vllm = "none"
  /\ orphan' \in Squatter
  /\ IF GpusFree(orphan')
     THEN vllm' = "loading" /\ engine' = [engine EXCEPT !.pc = "boot", !.unhealthy = 0]
     ELSE engine' = Stopped /\ UNCHANGED vllm
  /\ UNCHANGED <<disk, env, operator, engineFaults>>

\* vLLM itself: it comes up with a whole model, or exits; it dies, or stops before it listens
\* or after.  What is left of a dead one may end by itself.
VllmLoads ==
  /\ \/ /\ vllm = "loading" /\ UNCHANGED orphan
        /\ vllm' = IF disk[engine.path] = WholeModel THEN "up" ELSE "dead"
     \/ /\ orphan = "loading" /\ UNCHANGED vllm
        /\ orphan' \in {"up", "none"}
  /\ UNCHANGED <<disk, env, operator, engine, engineFaults>>
VllmFails ==
  /\ EngineFault
  /\ \/ vllm = "loading" /\ vllm' \in {"dead", "stuck"}
     \/ vllm = "up" /\ vllm' \in {"dead", "hung"}
  /\ UNCHANGED <<disk, env, operator, engine, orphan>>
OrphanEnds ==
  /\ orphan = "stuck" /\ orphan' = "none"
  /\ UNCHANGED <<disk, env, operator, engine, vllm, engineFaults>>

\* kill(): the process and its group; a leader that is gone has been reaped, and its group,
\* which has no name any more, is not killed.
Kill ==
  /\ engine' = [engine EXCEPT !.pc = "clear"] /\ vllm' = "none"
  /\ IF vllm = "dead" THEN orphan' \in Leftovers ELSE UNCHANGED orphan

\* wait_healthy: healthy, or the process exited, or vllm_startup_s is over.
Booted ==
  /\ engine.pc = "boot" /\ vllm \notin {"none", "loading"}
  /\ IF vllm = "up" THEN engine' = [engine EXCEPT !.pc = "serve"] /\ UNCHANGED <<vllm, orphan>>
     ELSE Kill
  /\ UNCHANGED <<disk, env, operator, engineFaults>>

\* Mutant: the count starts again with every poll.
NoStrike == 1

\* A poll of /health that finds it unhealthy.
Strike == engine.unhealthy + 1

\* unhealthy_restart_after of them in a row break the loop.
Struck ==
  IF Strike < UnhealthyAfter
  THEN engine' = [engine EXCEPT !.unhealthy = Strike] /\ UNCHANGED <<vllm, orphan>>
  ELSE Kill

\* The loop while proc.alive.
Poll ==
  /\ engine.pc = "serve"
  /\ \/ /\ vllm = "up" /\ engine.unhealthy # 0
        /\ engine' = [engine EXCEPT !.unhealthy = 0] /\ UNCHANGED <<vllm, orphan>>
     \/ vllm = "hung" /\ Struck
     \/ vllm = "dead" /\ Kill
  /\ UNCHANGED <<disk, env, operator, engineFaults>>

\* A probe misses a server that is up.
Misses ==
  /\ engine.pc = "serve" /\ vllm = "up" /\ EngineFault
  /\ Struck
  /\ UNCHANGED <<disk, env, operator>>

\* The supervisor is killed and started by pm2.
SupervisorDies ==
  /\ engine.pc # "off" /\ EngineFault
  /\ engine' = Stopped /\ vllm' = "none" /\ Orphaned
  /\ UNCHANGED <<disk, env, operator>>

Supervise == Boot \/ StartVllm \/ VllmLoads \/ Booted \/ Poll \/ OrphanEnds
EngineNext ==
  \/ Supervise \/ VllmFails \/ Misses \/ SupervisorDies
  \/ GetFiles \/ DownloadFails \/ Point \/ Restart
  \/ \E m \in Models : DownloadModel(m) \/ Prune(m)

\* The supervisor and vLLM run; an operator who has changed the .env restarts the engine.
EngineFairness ==
  /\ WF_engineVars(Boot) /\ WF_engineVars(StartVllm) /\ WF_engineVars(VllmLoads)
  /\ WF_engineVars(Booted) /\ WF_engineVars(Poll) /\ WF_engineVars(Restart)
-----------------------------------------------------------------------------
(* Properties.                                                                *)

Serving == engine.pc = "serve" /\ vllm = "up"

\* king_ctl: what the .env names is a whole model on disk, through failed downloads and prunings.
PointedIsWhole == env # NoModel => disk[env] = WholeModel

\* supervisor.run: dead, hung or never up, killed or left behind by its supervisor: the engine
\* serves again, unless the operator keeps on restarting it.  The escape is the code's gap: what
\* holds the GPUs and does not listen, a vLLM left behind while it was loading that got stuck or
\* the workers of a dead one, is killed by nobody, and every supervisor exits as long as it stays.
EngineComesBack ==
  (<>[][~Restart]_engineVars) /\ ([]<>(orphan # "stuck")) => (env # NoModel ~> Serving)
=============================================================================
