----------------------------- MODULE ModelHosts -----------------------------
(* The hosts that keep models on their disks.  They share nothing but finished files: *)
(* the copies in the eval directory (evald of HfMirror, deleted as ModelCache does) and *)
(* the repositories on the hub (KingEngine's Models are those with nothing missing), so *)
(* that a behaviour is that of one of them.                                             *)
EXTENDS ModelCache, HfMirror, KingEngine

VARIABLE host

hostVars == <<host, cacheVars, mirrorVars, engineVars>>

HostsInit ==
  /\ host \in {"eval", "mirror", "king"}
  /\ CacheInit  /\ (host # "eval" => kind = [r \in Refs |-> "layers"])
  /\ MirrorInit /\ (host # "mirror" => backend = [k \in Kings |-> "hf"] /\ ~verify)
  /\ EngineInit

HostsNext ==
  \/ host = "eval"   /\ CacheNext  /\ UNCHANGED <<host, mirrorVars, engineVars>>
  \/ host = "mirror" /\ MirrorNext /\ UNCHANGED <<host, cacheVars, engineVars>>
  \/ host = "king"   /\ EngineNext /\ UNCHANGED <<host, cacheVars, mirrorVars>>

\* Only the host that acts is scheduled.
HostsFairness ==
  /\ host = "mirror" => MirrorFairness
  /\ host = "king" => EngineFairness

HostsSpec == HostsInit /\ [][HostsNext]_hostVars /\ HostsFairness

HostsTypeOK == CacheTypeOK /\ MirrorTypeOK /\ EngineTypeOK

\* resolver.py, king_ctl.py: what an eval uses and what the king's engine is pointed at is a
\* whole model on disk, whatever crashed, stalled or was pruned before or meanwhile; but for the
\* models whose deletion was cut off (torn), and those deleted under a resolve or after they were
\* submitted again behind the cleanup daemon's snapshot (raced).
ModelsAreWhole == UsedIsWhole /\ PointedIsWhole
=============================================================================
