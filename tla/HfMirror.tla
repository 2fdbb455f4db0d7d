------------------------------ MODULE HfMirror ------------------------------
(* The mirror of the kings on the model hub: the uploader's passes over the crowned *)
(* kings (scripts/king_hf_uploader.py), beside the daemon that deletes the copies of *)
(* dethroned kings from the eval directory.                                          *)
EXTENDS Integers, FiniteSets

CONSTANTS MaxKings,       \* bound: kings crowned
          MaxHubFaults    \* bound: errors of the hub and of the sources, crashes of the uploader

ASSUME MirrorAssumption == MaxKings \in Nat \ {0} /\ MaxHubFaults \in Nat

VARIABLES
  crowned,    \* number of kings in king_versions
  backend,    \* where the miner of each king uploaded it
  gone,       \* kings whose upload is gone
  evald,      \* each king's copy in the eval directory
  work,       \* and in the work directory
  hub,        \* files of its repository on the hub
  verify,     \* --verify
  monitor,    \* the back-fill pass is over
  pass,       \* the pass of the uploader
  completed, permanent_skip, backoff,   \* UploaderState
  hubFaults

mirrorVars == <<crowned, backend, gone, evald, work, hub, verify, monitor, pass,
                completed, permanent_skip, backoff, hubFaults>>
theirs == <<crowned, backend, gone, evald, verify>>   \* what the uploader does not change

Kings  == 1..MaxKings
Parts  == {"config", "weights"}
Card   == "albedo.md"
NoCopy == [files |-> {}, marker |-> FALSE]
Asleep == [pc |-> "sleep", todo |-> {}, files |-> {}, from |-> "none", repair |-> FALSE]
Copies == [files : SUBSET Parts, marker : BOOLEAN]

MirrorTypeOK ==
  /\ crowned \in 0..MaxKings /\ backend \in [Kings -> {"hf", "oci", "s3"}]
  /\ evald \in [Kings -> Copies] /\ work \in [Kings -> Copies]
  /\ hub \in [Kings -> SUBSET (Parts \cup {Card})]
  /\ verify \in BOOLEAN /\ monitor \in BOOLEAN
  /\ \A S \in {gone, completed, permanent_skip, backoff, pass.todo} : S \subseteq Kings
  /\ pass.pc \in {"sleep", "check", "source", "commit"} /\ pass.files \subseteq Parts
  /\ hubFaults \in 0..MaxHubFaults

MirrorInit ==
  /\ crowned = 0 /\ gone = {}
  /\ backend \in [Kings -> {"hf", "oci", "s3"}]
  /\ evald = [k \in Kings |-> NoCopy] /\ work = [k \in Kings |-> NoCopy]
  /\ hub = [k \in Kings |-> {}]
  /\ verify \in BOOLEAN /\ monitor = FALSE
  /\ pass = Asleep
  /\ completed = {} /\ permanent_skip = {} /\ backoff = {}
  /\ hubFaults = 0
-----------------------------------------------------------------------------
HubFault == hubFaults < MaxHubFaults /\ hubFaults' = hubFaults + 1
Current  == CHOOSE k \in pass.todo : \A j \in pass.todo : k <= j
Turn     == [Asleep EXCEPT !.pc = "check", !.todo = pass.todo \ {Current}]

\* process_once: the kings are listed, and `now` is read, once for the pass.
ListKings ==
  /\ pass.pc = "sleep"
  /\ pass' = [Asleep EXCEPT !.pc = "check",
                            !.todo = (1..crowned) \ (completed \cup permanent_skip \cup backoff)]
  /\ UNCHANGED <<theirs, work, hub, monitor, completed, permanent_skip, backoff, hubFaults>>

PassEnds ==
  /\ pass.pc = "check" /\ pass.todo = {}
  /\ pass' = Asleep /\ monitor' = TRUE
  /\ UNCHANGED <<theirs, work, hub, completed, permanent_skip, backoff, hubFaults>>

BackoffEnds(k) ==
  /\ k \in backoff /\ backoff' = backoff \ {k}
  /\ UNCHANGED <<theirs, work, hub, monitor, pass, completed, permanent_skip, hubFaults>>

\* already_uploaded: the repository exists and has a file.
AlreadyUploaded(k) == hub[k] # {}

\* hf_repo_problems
Problems(k) == Parts \ hub[k]

Check ==
  LET k == Current IN
  /\ pass.pc = "check" /\ pass.todo # {}
  /\ LET repair == AlreadyUploaded(k) /\ verify /\ ~monitor /\ Problems(k) # {} IN
     IF AlreadyUploaded(k) /\ ~repair
     THEN /\ completed' = completed \cup {k}
          /\ pass' = Turn
     ELSE /\ pass' = [pass EXCEPT !.pc = "source", !.repair = repair]
          /\ UNCHANGED completed
  /\ UNCHANGED <<theirs, work, hub, monitor, permanent_skip, backoff, hubFaults>>

\* eval_dir_path, work_dir_path: by the marker; an s3 upload has no path in either.
Hit(copy, k) == backend[k] # "s3" /\ copy[k].marker

\* download_to_work_dir: of a model on the hub the resolver fetches the weights alone.
Fetchable(k) == IF backend[k] = "hf" THEN {"weights"} ELSE Parts

\* What is to be committed is listed; a repair adds what is missing, if the copy has it.
Sourced(k, files, from) ==
  LET ops == IF pass.repair THEN files \ hub[k] ELSE files IN
  IF pass.repair /\ ops = {}
  THEN pass' = Turn /\ completed' = completed \cup {k}
  ELSE pass' = [pass EXCEPT !.pc = "commit", !.files = ops, !.from = from] /\ UNCHANGED completed

FromDisk ==
  LET k == Current IN
  /\ pass.pc = "source"
  /\ \/ Hit(evald, k) /\ Sourced(k, evald[k].files, "eval")
     \/ ~Hit(evald, k) /\ Hit(work, k) /\ Sourced(k, work[k].files, "work")
  /\ UNCHANGED <<theirs, work, hub, monitor, permanent_skip, backoff, hubFaults>>

Download ==
  LET k == Current IN
  /\ pass.pc = "source" /\ ~Hit(evald, k) /\ ~Hit(work, k) /\ k \notin gone
  /\ Sourced(k, Fetchable(k), "work")
  /\ work' = [work EXCEPT ![k] = IF pass'.pc = "commit" THEN [files |-> Fetchable(k), marker |-> TRUE]
                                 ELSE NoCopy]
  /\ UNCHANGED <<theirs, hub, monitor, permanent_skip, backoff, hubFaults>>

\* Mutant: given up whatever the error is.
AnyError(k) == TRUE

\* _is_source_gone: 404 or 410.
SourceGone(k) == k \in gone

\* Unreachable: given up for good when the source is gone, else tried again later.
Unreachable ==
  LET k == Current IN
  /\ pass.pc = "source" /\ ~Hit(evald, k) /\ ~Hit(work, k)
  /\ pass' = Turn
  /\ IF SourceGone(k)
     THEN permanent_skip' = permanent_skip \cup {k} /\ UNCHANGED <<backoff, hubFaults>>
     ELSE HubFault /\ backoff' = backoff \cup {k} /\ UNCHANGED permanent_skip
  /\ UNCHANGED <<theirs, work, hub, monitor, completed>>

\* _delete_work_copy: never what is in the eval directory.
CleanUp(k) == work' = [work EXCEPT ![k] = IF pass.from = "work" THEN NoCopy ELSE @]

There    == pass.from = "work" \/ pass.files \subseteq evald[Current].files
Landed(k) == hub' = [hub EXCEPT ![k] = @ \cup pass.files \cup {Card}]

\* One commit for all files and albedo.md.  A repaired king is looked at again.
Commit ==
  LET k == Current IN
  /\ pass.pc = "commit" /\ There /\ Landed(k)
  /\ completed' = IF pass.repair THEN completed ELSE completed \cup {k}
  /\ pass' = Turn /\ CleanUp(k)
  /\ UNCHANGED <<theirs, monitor, permanent_skip, backoff, hubFaults>>

\* A listed file is gone, or the hub fails, whether the commit landed or not; at its limit the
\* pass is over.
CommitFails ==
  LET k == Current IN
  /\ pass.pc = "commit" /\ CleanUp(k)
  /\ \/ There /\ HubFault /\ (Landed(k) \/ UNCHANGED hub)
     \/ ~There /\ UNCHANGED <<hub, hubFaults>>
  /\ \/ backoff' = backoff \cup {k} /\ pass' = Turn /\ UNCHANGED monitor
     \/ There /\ UNCHANGED backoff /\ pass' = Asleep /\ monitor' = TRUE
  /\ UNCHANGED <<theirs, completed, permanent_skip>>

\* The state of the uploader is in memory only.
UploaderCrash ==
  /\ pass.pc # "sleep" /\ HubFault
  /\ pass' = Asleep /\ monitor' = FALSE
  /\ completed' = {} /\ permanent_skip' = {} /\ backoff' = {}
  /\ UNCHANGED <<theirs, work, hub>>
-----------------------------------------------------------------------------
\* A coronation; the eval directory may be that of the host that judged the model.
Crown ==
  /\ crowned < MaxKings /\ crowned' = crowned + 1
  /\ \E c \in {NoCopy, [files |-> Parts, marker |-> TRUE]} :
       evald' = [evald EXCEPT ![crowned + 1] = IF backend[crowned + 1] = "s3" THEN NoCopy ELSE c]
  /\ UNCHANGED <<backend, gone, work, hub, verify, monitor, pass, completed, permanent_skip, backoff, hubFaults>>

\* A dethroned king: its miner deletes the upload, the daemon the copy, entry by entry.
SourceGoes(k) ==
  /\ k < crowned /\ k \notin gone /\ gone' = gone \cup {k}
  /\ UNCHANGED <<crowned, backend, evald, work, hub, verify, monitor, pass, completed, permanent_skip, backoff, hubFaults>>
CleanEval(k) ==
  /\ k < crowned
  /\ \/ \E f \in evald[k].files : evald' = [evald EXCEPT ![k].files = @ \ {f}]
     \/ evald[k].marker /\ evald' = [evald EXCEPT ![k].marker = FALSE]
  /\ UNCHANGED <<crowned, backend, gone, work, hub, verify, monitor, pass, completed, permanent_skip, backoff, hubFaults>>

Uploader == ListKings \/ PassEnds \/ Check \/ FromDisk \/ Download \/ Unreachable \/ Commit \/ CommitFails

MirrorNext ==
  \/ Uploader \/ UploaderCrash \/ Crown
  \/ \E k \in Kings : BackoffEnds(k) \/ SourceGoes(k) \/ CleanEval(k)

\* The uploader runs, and its backoffs pass.
MirrorFairness == WF_mirrorVars(Uploader) /\ \A k \in Kings : WF_mirrorVars(BackoffEnds(k))
-----------------------------------------------------------------------------
(* Properties.                                                                *)

\* Every crowned king gets a mirror, through errors, limits and crashes, unless its upload is gone.
EveryKingIsMirrored == \A k \in Kings : k <= crowned ~> hub[k] # {} \/ k \in gone
=============================================================================
