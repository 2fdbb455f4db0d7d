----------------------------- MODULE ModelCache -----------------------------
(* The model cache of the GPU host: resolve() of the two sides of an eval          *)
(* (modelstore/resolver.py), each in a thread of the worker, and the daemon that    *)
(* deletes what no submission needs any more (scripts/eval_cache_cleanup.py).       *)
EXTENDS Integers, FiniteSets

CONSTANTS Refs, Files, Threads, NoRef,
          StallRetries,   \* model_download_stall_retries
          MaxFaults,      \* bound: stalls without progress, failed and crashed downloads
          MaxTorn         \* bound: deletions that leave the marker of a model behind

ASSUME CacheAssumption ==
  /\ \A S \in {Refs, Files, Threads} : IsFiniteSet(S) /\ S # {}
  /\ NoRef \notin Refs
  /\ StallRetries \in Nat \ {0} /\ MaxFaults \in Nat /\ MaxTorn \in Nat

VARIABLES
  kind,      \* each model's source: single layers, a supervised child, or the objects of s3
  dir,       \* its cache directory: model files and the done marker
  partial,   \* files in its .partial directory, which s3 does without
  resolver,  \* each thread; todo is what its download has yet to visit
  gate,      \* the threads that hold _DOWNLOAD_GATE, a semaphore of one
  need,      \* what the database says of the model's submissions
  cleaner,   \* the pass of the cleanup daemon; left is what its rmtree listed and has to delete
  torn,      \* models whose deletion was cut off before that of the marker
  raced,     \* models deleted under a resolve, or for what the database no longer says
  faults

cacheVars == <<kind, dir, partial, resolver, gate, need, cleaner, torn, raced, faults>>

Kinds  == {"layers", "child", "s3"}
Pcs    == {"idle", "lock", "slot", "fetch", "settle", "using"}
Idle   == [pc |-> "idle", ref |-> NoRef, todo |-> {}, wrote |-> FALSE, progressed |-> FALSE, fruitless |-> 0]
Empty  == [files |-> {}, marker |-> FALSE]
Resting == [pc |-> "sleep", kept |-> {}, victim |-> NoRef, place |-> "dir", left |-> Empty]

CacheTypeOK ==
  /\ kind \in [Refs -> Kinds]
  /\ dir \in [Refs -> [files : SUBSET Files, marker : BOOLEAN]]
  /\ partial \in [Refs -> SUBSET Files]
  /\ \A t \in Threads : /\ resolver[t].pc \in Pcs /\ resolver[t].ref \in Refs \cup {NoRef}
                        /\ resolver[t].todo \subseteq Files /\ resolver[t].fruitless \in 0..StallRetries
  /\ gate \subseteq Threads
  /\ need \in [Refs -> {"flight", "king", "done"}]
  /\ cleaner.pc \in {"sleep", "scan", "delete"} /\ cleaner.kept \subseteq Refs
  /\ torn \cup raced \subseteq Refs /\ faults \in 0..MaxFaults

CacheInit ==
  /\ kind \in [Refs -> Kinds]
  /\ dir = [r \in Refs |-> Empty]
  /\ partial = [r \in Refs |-> {}]
  /\ resolver = [t \in Threads |-> Idle]
  /\ gate = {}
  /\ need = [r \in Refs |-> "flight"]
  /\ cleaner = Resting
  /\ torn = {} /\ raced = {} /\ faults = 0
-----------------------------------------------------------------------------
Fault == faults < MaxFaults /\ faults' = faults + 1
LockedBy(r) == {t \in Threads : resolver[t].ref = r /\ resolver[t].pc \notin {"idle", "lock", "using"}}
Deleting(r) == cleaner.pc = "delete" /\ cleaner.victim = r
To(t, pc)   == resolver' = [resolver EXCEPT ![t].pc = pc]
Raise(t)    == resolver' = [resolver EXCEPT ![t] = Idle]
Into(r)     == IF kind[r] = "s3" THEN dir[r].files ELSE partial[r]

\* _resolve_model_for_side: an eval of a challenger against the king.
Resolve(t) ==
  /\ resolver[t].pc = "idle"
  /\ \E r \in Refs : /\ need[r] # "done"
                     /\ resolver' = [resolver EXCEPT ![t] = [Idle EXCEPT !.pc = "lock", !.ref = r]]
  /\ UNCHANGED <<kind, dir, partial, gate, need, cleaner, torn, raced, faults>>

\* _has_loadable_model_files: the index or any shard.
Loadable(d) == d.files # {}

\* Layers that an earlier attempt left are skipped for good; the child and s3 visit every file.
Pending(r) == IF kind[r] = "layers" THEN Files \ partial[r] ELSE Files

\* Under the lock of the ref: a hit, or a download into an emptied directory, which does
\* without the slot when no layer is pending.
Look(t) ==
  LET r == resolver[t].ref IN
  /\ resolver[t].pc = "lock" /\ LockedBy(r) = {}
  /\ IF dir[r].marker /\ Loadable(dir[r])
     THEN To(t, "using") /\ UNCHANGED dir
     ELSE /\ resolver' = [resolver EXCEPT ![t].pc = IF Pending(r) = {} THEN "settle" ELSE "slot",
                                          ![t].todo = Pending(r)]
          /\ dir' = [dir EXCEPT ![r] = IF @.marker THEN Empty ELSE @]
  /\ raced' = raced \cup {x \in {r} : Deleting(x)}
  /\ UNCHANGED <<kind, partial, gate, need, cleaner, torn, faults>>

\* _download_slot: one download at a time.
SlotFree == gate = {}

TakeSlot(t) ==
  /\ resolver[t].pc = "slot" /\ SlotFree
  /\ To(t, "fetch") /\ gate' = gate \cup {t}
  /\ UNCHANGED <<kind, dir, partial, need, cleaner, torn, raced, faults>>

\* A file is complete: it takes its name when its digest is right.  s3 writes it in place, again
\* if it is there; a file that is there costs the others no byte.
FetchFile(t) ==
  LET r == resolver[t].ref IN
  /\ resolver[t].pc = "fetch"
  /\ \E f \in resolver[t].todo :
       LET new == kind[r] = "s3" \/ f \notin Into(r) IN
       /\ resolver' = [resolver EXCEPT ![t].todo = @ \ {f}, ![t].wrote = @ \/ new,
                                       ![t].progressed = @ \/ new]
       /\ IF kind[r] = "s3" THEN dir' = [dir EXCEPT ![r].files = @ \cup {f}] /\ UNCHANGED partial
          ELSE partial' = [partial EXCEPT ![r] = @ \cup {f}] /\ UNCHANGED dir
  /\ UNCHANGED <<kind, gate, need, cleaner, torn, raced, faults>>

\* Mutant: the download is taken for ended when something is there.
Enough(t) == Into(resolver[t].ref) # {}

\* The child exits with 0, every pending layer was written, every object of the listing was.
Fetched(t) == resolver[t].todo = {}

FetchEnds(t) ==
  /\ resolver[t].pc = "fetch" /\ Fetched(t)
  /\ To(t, "settle") /\ gate' = gate \ {t}
  /\ UNCHANGED <<kind, dir, partial, need, cleaner, torn, raced, faults>>

\* No manifest; the child exits with an error; a layer or an object fails.
FetchFails(t) ==
  /\ resolver[t].pc \in {"slot", "fetch"} /\ Fault
  /\ Raise(t) /\ gate' = gate \ {t}
  /\ UNCHANGED <<kind, dir, partial, need, cleaner, torn, raced>>

\* verify_snapshot: the digest of an s3 ref that has one is wrong, as it is when a file is missing.
DigestFails(t) ==
  LET r == resolver[t].ref IN
  /\ resolver[t].pc = "fetch" /\ kind[r] = "s3" /\ Fetched(t)
  /\ IF dir[r].files = Files THEN Fault ELSE UNCHANGED faults
  /\ Raise(t) /\ gate' = gate \ {t}
  /\ dir' = [dir EXCEPT ![r] = Empty]
  /\ UNCHANGED <<kind, partial, need, cleaner, torn, raced>>

\* _run_hf_download_supervised: attempts in a row without progress.
Fruitless(p) == IF p.progressed THEN 0 ELSE p.fruitless + 1

\* No byte for stall_seconds: the child is terminated and another is started, from the listing.
Stall(t) ==
  LET p == resolver[t]  n == Fruitless(p) IN
  /\ p.pc = "fetch" /\ kind[p.ref] = "child" /\ ~Fetched(t)
  /\ IF p.progressed THEN UNCHANGED faults ELSE Fault
  /\ IF n >= StallRetries THEN Raise(t) /\ gate' = gate \ {t}
     ELSE /\ resolver' = [resolver EXCEPT ![t].fruitless = n, ![t].progressed = FALSE, ![t].todo = Files]
          /\ UNCHANGED gate
  /\ UNCHANGED <<kind, dir, partial, need, cleaner, torn, raced>>

\* With a file to load, the .partial directory becomes the cache directory, unless that still
\* has files in it, or the marker is written.  A deletion under way follows the directory.
Settle(t) ==
  LET r == resolver[t].ref IN
  /\ resolver[t].pc = "settle"
  /\ IF Into(r) = {} \/ (kind[r] # "s3" /\ dir[r].files # {})
     THEN Raise(t) /\ UNCHANGED <<dir, partial, cleaner>>
     ELSE /\ To(t, "using")
          /\ dir' = [dir EXCEPT ![r] = [files |-> Into(r), marker |-> TRUE]]
          /\ partial' = [partial EXCEPT ![r] = {}]
          /\ cleaner' = IF Deleting(r) THEN [cleaner EXCEPT !.place = "dir"] ELSE cleaner
  /\ UNCHANGED <<kind, gate, need, torn, raced, faults>>

\* The eval is over.
Release(t) ==
  /\ resolver[t].pc = "using" /\ Raise(t)
  /\ UNCHANGED <<kind, dir, partial, gate, need, cleaner, torn, raced, faults>>

\* The worker is killed: the locks are gone, the files stay.
WorkerCrash ==
  /\ \E t \in Threads : resolver[t].pc # "idle"
  /\ Fault
  /\ resolver' = [t \in Threads |-> Idle] /\ gate' = {}
  /\ UNCHANGED <<kind, dir, partial, need, cleaner, torn, raced>>
-----------------------------------------------------------------------------
\* load_db_state, once a pass: the active reign's and the submissions in flight.
Kept == {r \in Refs : need[r] # "done"}

Snapshot ==
  /\ cleaner.pc = "sleep"
  /\ cleaner' = [Resting EXCEPT !.pc = "scan", !.kept = Kept]
  /\ UNCHANGED <<kind, dir, partial, resolver, gate, need, torn, raced, faults>>

\* rmtree lists the directory.
Deletes(r, place, listing) ==
  cleaner' = [cleaner EXCEPT !.pc = "delete", !.victim = r, !.place = place, !.left = listing]

\* decide: a model that nobody needed at the snapshot, whoever needs it now, or the end of the pass.
Decide ==
  /\ cleaner.pc = "scan"
  /\ \/ \E r \in Refs \ cleaner.kept : /\ dir[r] # Empty /\ (kind[r] = "s3" => dir[r].marker)
                                       /\ Deletes(r, "dir", dir[r])
                                       /\ raced' = raced \cup ({r} \cap Kept)
     \/ cleaner' = Resting /\ UNCHANGED raced
  /\ UNCHANGED <<kind, dir, partial, resolver, gate, need, torn, faults>>

\* newest_mtime: a resolve that wrote something stalls for less than the grace period; one that
\* waits for the slot, or found every layer there, may find files of any age.
Untouched(r) == \A t \in LockedBy(r) : ~resolver[t].wrote

\* A download without a byte for the grace period is deleted, whoever's it is.
Abandon(r) ==
  /\ cleaner.pc = "scan" /\ Untouched(r)
  /\ \/ partial[r] # {} /\ Deletes(r, "partial", [files |-> partial[r], marker |-> FALSE])
     \/ kind[r] = "s3" /\ ~dir[r].marker /\ dir[r] # Empty /\ Deletes(r, "dir", dir[r])
  /\ raced' = raced \cup {x \in {r} : LockedBy(x) # {}}
  /\ UNCHANGED <<kind, dir, partial, resolver, gate, need, torn, faults>>

\* rmtree, one entry after another.
DeleteEntry ==
  LET r == cleaner.victim IN
  /\ cleaner.pc = "delete"
  /\ \/ \E f \in cleaner.left.files :
          /\ cleaner' = [cleaner EXCEPT !.left.files = @ \ {f}]
          /\ IF cleaner.place = "dir" THEN dir' = [dir EXCEPT ![r].files = @ \ {f}] /\ UNCHANGED partial
             ELSE partial' = [partial EXCEPT ![r] = @ \ {f}] /\ UNCHANGED dir
     \/ /\ cleaner.left.marker /\ cleaner' = [cleaner EXCEPT !.left.marker = FALSE]
        /\ dir' = [dir EXCEPT ![r].marker = FALSE] /\ UNCHANGED partial
  /\ UNCHANGED <<kind, resolver, gate, need, torn, raced, faults>>

Scanning == [cleaner EXCEPT !.pc = "scan", !.victim = NoRef, !.place = "dir", !.left = Empty]

Deleted ==
  /\ cleaner.pc = "delete" /\ cleaner.left = Empty /\ cleaner' = Scanning
  /\ UNCHANGED <<kind, dir, partial, resolver, gate, need, torn, raced, faults>>

\* The daemon is restarted in the middle of a deletion.
Tear ==
  /\ cleaner.pc = "delete" /\ cleaner' = Resting
  /\ torn' = torn \cup {r \in {cleaner.victim} : dir[r].marker}
  /\ Cardinality(torn') <= MaxTorn
  /\ UNCHANGED <<kind, dir, partial, resolver, gate, need, raced, faults>>

\* The control plane: an eval ends and its challenger has lost, or is the new king, or a model
\* that is not on this disk is.
Dethroned == [r \in Refs |-> IF need[r] = "king" THEN "done" ELSE need[r]]

Judged(r) ==
  /\ need[r] = "flight" /\ \A t \in Threads : resolver[t].ref # r
  /\ \/ need' = [need EXCEPT ![r] = "done"]
     \/ /\ \A t \in Threads : resolver[t].pc = "idle"
        /\ need' = [Dethroned EXCEPT ![r] = "king"]
  /\ UNCHANGED <<kind, dir, partial, resolver, gate, cleaner, torn, raced, faults>>

OtherCrowned ==
  /\ \A t \in Threads : resolver[t].pc = "idle"
  /\ need' = Dethroned
  /\ UNCHANGED <<kind, dir, partial, resolver, gate, cleaner, torn, raced, faults>>

\* The same model is submitted again, also after the daemon read that nobody needs it.
Resubmit(r) ==
  /\ need[r] = "done"
  /\ need' = [need EXCEPT ![r] = "flight"]
  /\ UNCHANGED <<kind, dir, partial, resolver, gate, cleaner, torn, raced, faults>>

CacheNext ==
  \/ \E t \in Threads : \/ Resolve(t) \/ Look(t) \/ TakeSlot(t) \/ FetchFile(t) \/ FetchEnds(t)
                        \/ FetchFails(t) \/ DigestFails(t) \/ Stall(t) \/ Settle(t) \/ Release(t)
  \/ WorkerCrash
  \/ Snapshot \/ Decide \/ DeleteEntry \/ Deleted \/ Tear \/ OtherCrowned
  \/ \E r \in Refs : Abandon(r) \/ Judged(r) \/ Resubmit(r)
-----------------------------------------------------------------------------
(* Properties.                                                                *)

\* resolver.py: the done marker stands for a whole model, whatever crashes or stalls before it
\* is written; a deletion takes no file of a model that is in use.  It is said of every model but
\* those the daemon was restarted in the middle of deleting, and those it deleted while a resolve
\* was at them or after they were submitted again behind its snapshot: neither the marker nor a
\* lock tells the two processes of each other.
WholeIn(S) == \A t \in Threads : resolver[t].pc = "using" /\ resolver[t].ref \in S =>
  dir[resolver[t].ref] = [files |-> Files, marker |-> TRUE]
UsedIsWhole == WholeIn(Refs \ (torn \cup raced))
=============================================================================
