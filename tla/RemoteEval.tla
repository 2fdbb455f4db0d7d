---------------------------- MODULE RemoteEval ----------------------------
(* One evaluation run on the GPU host: remote/worker.py, with the scoring       *)
(* clients that reach the judge over the score bridge.  Every sample is walked  *)
(* by the king and by the challenger, each walk on a thread of its own:         *)
(* generate a turn, have its command's output simulated, go again.  A pair of   *)
(* walks that ended is judged in a batch while other walks still run; at the    *)
(* end the batches are gathered into one verdict.                               *)
EXTENDS ScoreBridge, Sequences, FiniteSetsExt

CONSTANTS Samples,    \* the samples of the run (rollouts included)
          Horizon,    \* turns each sample may take (assign_horizons)
          Patched,    \* samples whose given conversation already made a patch file
          Texts,      \* [side -> what its model may generate]
          BatchSize,  \* dataset.scoring_batch_size
          MinPct      \* scoring_min_valid_fraction, in percent

Sides == {"previous_king", "challenger"}

\* What one turn of a model amounts to, after its re-asks: an engine error, an output cut
\* at the token limit, an output unusable at every attempt, a command that edits and leaves
\* a patch file, the submission that prints that file, and one that also writes the file,
\* after printing it.
TextKinds == {"error", "truncated", "abandoned", "edit", "submit", "submitThenPatch"}

ASSUME RunAssumption ==
  /\ IsFiniteSet(Samples) /\ Samples # {}
  /\ Horizon \in [Samples -> Nat \ {0}]
  /\ Patched \subseteq Samples
  /\ Texts \in [Sides -> SUBSET TextKinds]
  /\ BatchSize \in Nat \ {0}
  /\ MinPct \in 0..100

Walks == Sides \X Samples

VARIABLES
  phase,    \* how far _execute is
  walk,     \* each walk: where its thread is, the turns it took
  pending,  \* pairs ready and not yet in a batch
  batches,  \* batches handed to the scoring pool: pairs, state, samples scored
  verdict   \* the verdict event, NoVerdict before it

runVars == <<phase, walk, pending, batches, verdict>>
vars    == <<bridgeVars, runVars>>

Phases    == {"accepted", "prep", "generating", "scoring", "publishing", "succeeded", "failed"}
WalkPcs   == {"start", "generate", "observe", "over", "pair", "ended"}
Faults    == {"none", "MINER_FAULT", "REMOTE_EVAL_FAULT", "PROVIDER_FAULT"}
NoVerdict == [state |-> "none", fault |-> "none"]

Prep           == <<"prep">>
ObsCall(w, k)  == <<"observe", w, k>>
ScoreCall(b)   == <<"score", b>>
RunCalls == {Prep} \cup {ScoreCall(b) : b \in 1..Cardinality(Samples)}
            \cup {ObsCall(w, k) : w \in Walks, k \in 1..(Max({Horizon[s] : s \in Samples}) - 1)}

\* Every observation a walk may ask for is a call of the bridge.
ASSUME CallsAssumption ==
  \A w \in Walks : \A k \in 1..(Horizon[w[2]] - 1) : ObsCall(w, k) \in Calls

TypeOK ==
  /\ BridgeTypeOK
  /\ phase \in Phases
  /\ \A w \in Walks : /\ walk[w].pc \in WalkPcs
                      /\ Len(walk[w].turns) <= Horizon[w[2]]
                      /\ \A k \in 1..Len(walk[w].turns) :
                           /\ walk[w].turns[k].text \in TextKinds
                           /\ walk[w].turns[k].obs \in Results \cup {"none"}
  /\ pending \subseteq Samples
  /\ \A b \in 1..Len(batches) : /\ batches[b].pairs \subseteq Samples
                                /\ batches[b].scored \subseteq batches[b].pairs
  /\ verdict.fault \in Faults

Init ==
  /\ BridgeInit
  /\ phase = "accepted"
  /\ walk = [w \in Walks |-> [pc |-> "start", turns |-> <<>>]]
  /\ pending = {}
  /\ batches = <<>>
  /\ verdict = NoVerdict
-----------------------------------------------------------------------------
(* A walk as its thread sees it, and as it is merged afterwards.              *)

\* missing_patch_output: the submission only prints a patch that an earlier command made,
\* in the sample's given conversation or in its first n turns.
PatchMade(w, turns, n) == \/ w[2] \in Patched
                          \/ \E k \in 1..n : turns[k].text \in {"edit", "submitThenPatch"}
Submits(text)          == text \in {"submit", "submitThenPatch"}

\* _assistant_submitted with the conversation before the turn, as the walk asks it.
WalkSubmitted(w, turns, k) == Submits(turns[k].text) /\ PatchMade(w, turns, k - 1)

\* Mutant: the merge looks for the patch in the turn alone.
LooksAtTheTurnAlone(w, turns, k) == turns[k].text = "submitThenPatch"

\* And with the turns merged so far, the turn itself among them, as the merge asks it.
MergeSubmitted(w, turns, k) == Submits(turns[k].text) /\ PatchMade(w, turns, k)

Cut(text) == text \in {"truncated", "abandoned"}

\* _merge_trajectory_results: the turn at which the replay of a walk stops.
MergeStops(w, k) ==
  LET turns == walk[w].turns
  IN  \/ turns[k].text = "error"
      \/ Cut(turns[k].text)
      \/ k >= Horizon[w[2]]
      \/ turns[k].obs # "ok"
      \/ MergeSubmitted(w, turns, k)

\* The error of the merged result: "none", an engine error, a missing turn, or the outcome
\* of the observation that failed.
MergeError(w) ==
  LET turns == walk[w].turns
      stops == {k \in 1..Len(turns) : MergeStops(w, k)}
      last  == Min(stops)
  IN  IF stops = {} THEN "missing_generation"
      ELSE CASE turns[last].text = "error" -> "generation"
             [] Cut(turns[last].text) \/ last >= Horizon[w[2]] -> "none"
             [] turns[last].obs # "ok" -> turns[last].obs
             [] OTHER -> "none"

King(s)       == <<"previous_king", s>>
Challenger(s) == <<"challenger", s>>
ValidPairs(S) == {s \in S : MergeError(King(s)) = "none" /\ MergeError(Challenger(s)) = "none"}

\* _miner_failed_pair_count: the challenger failed alone, and not by one of the
\* _INFRA_ERROR_MARKERS; of what request() raises only ScoreBridgeUnavailable is one.
MinerFailed(s) == /\ MergeError(Challenger(s)) \notin {"none", "unavailable"}
                  /\ MergeError(King(s)) = "none"
-----------------------------------------------------------------------------
(* Generation.                                                                *)

\* _execute up to the category prep: samples loaded, the judge asked to start on the
\* questions.
StartPrep ==
  /\ phase = "accepted"
  /\ phase' = "prep"
  /\ call' = Requested(Prep)
  /\ UNCHANGED <<sock, conns, client, leg, walk, pending, batches, verdict>>

\* A failed prep is only logged: scoring writes the questions itself.  Then both models are
\* resolved and every walk gets its thread.
StartGeneration ==
  /\ phase = "prep"
  /\ Returned(Prep)
  /\ phase' = "generating"
  /\ walk' = [w \in Walks |-> [walk[w] EXCEPT !.pc = "generate"]]
  /\ call' = Taken(Prep)
  /\ UNCHANGED <<sock, conns, client, leg, pending, batches, verdict>>

\* execute(): any exception outside the scored parts fails the run, to be retried.  One of a
\* walk's thread is raised once all of them have ended, and the batches are waited for.
RunFails ==
  /\ \/ phase = "accepted"                        \* samples, topology
     \/ phase = "prep" /\ Returned(Prep)          \* model resolution, engines
     \/ /\ phase = "generating"                   \* a thread
        /\ \A w \in Walks : walk[w].pc = "ended"
        /\ \A b \in DOMAIN batches : batches[b].state # "asked"
     \/ phase = "publishing"                      \* artifact upload
  /\ phase' = "failed"
  /\ verdict' = [state |-> "failed", fault |-> "REMOTE_EVAL_FAULT"]
  /\ UNCHANGED <<bridgeVars, walk, pending, batches>>

\* The turn with which a walk is over whatever it says.
LastTurn(w, k) == k = Horizon[w[2]]

\* walk(): one turn, its re-asks included; the turn after which the thread asks for an
\* observation, or has the answer without asking (_simulate_observations), or is over.
Generate(w) ==
  /\ walk[w].pc = "generate"
  /\ \E text \in Texts[w[1]] :
       LET k     == Len(walk[w].turns) + 1
           turns == Append(walk[w].turns, [text |-> text, obs |-> "none"])
           asked == [turns EXCEPT ![k].obs = "ok"]
       IN  \/ /\ LastTurn(w, k) \/ text = "error"
              /\ walk' = [walk EXCEPT ![w] = [pc |-> "over", turns |-> turns]]
              /\ UNCHANGED call
           \/ /\ ~LastTurn(w, k)
              /\ Cut(text) \/ WalkSubmitted(w, turns, k)
              /\ walk' = [walk EXCEPT ![w] = [pc |-> "over", turns |-> asked]]
              /\ UNCHANGED call
           \/ /\ ~LastTurn(w, k)
              /\ text # "error" /\ ~Cut(text) /\ ~WalkSubmitted(w, turns, k)
              /\ walk' = [walk EXCEPT ![w] = [pc |-> "observe", turns |-> turns]]
              /\ call' = Requested(ObsCall(w, k))
  /\ UNCHANGED <<sock, conns, client, leg, phase, pending, batches, verdict>>

\* The observation, or the exception kept as its error; _next_turn_samples goes on only
\* with an observation.
Observed(w) ==
  LET k == Len(walk[w].turns)
  IN  /\ walk[w].pc = "observe"
      /\ Returned(ObsCall(w, k))
      /\ walk' = [walk EXCEPT ![w].turns[k].obs = call[ObsCall(w, k)].res,
                              ![w].pc = IF call[ObsCall(w, k)].res = "ok" THEN "generate"
                                                                          ELSE "over"]
      /\ call' = Taken(ObsCall(w, k))
      /\ UNCHANGED <<sock, conns, client, leg, phase, pending, batches, verdict>>

Finished(w) == walk[w].pc \in {"pair", "ended"}
Other(w)    == <<CHOOSE side \in Sides : side # w[1], w[2]>>

\* Mutant: a thread looks for its partner before it has put itself down as finished.
SeesNobody(w) == /\ Finished(Other(w))
                 /\ walk[Other(w)].pc = "pair"

\* trajectory(): under finished_lock the thread adds its side, and knows whether it is the
\* second.
Second(w) == Finished(Other(w))

Finish(w) ==
  /\ walk[w].pc = "over"
  /\ walk' = [walk EXCEPT ![w].pc = IF Second(w) THEN "pair" ELSE "ended"]
  /\ UNCHANGED <<bridgeVars, phase, pending, batches, verdict>>
-----------------------------------------------------------------------------
(* Scoring.                                                                   *)

\* The pairs still pending once some were flushed.
Remaining(pairs, flushed) == pairs \ flushed

\* flush(), under pending_lock: the pending pairs become a batch; a batch without a valid
\* pair has no payload to send (_score_batch_payloads).
Flush(pairs) ==
  LET b == Len(batches) + 1
  IN  IF pairs = {}
      THEN UNCHANGED <<batches, call>> /\ pending' = pairs
      ELSE /\ pending' = Remaining(pairs, pairs)
           /\ IF ValidPairs(pairs) = {}
              THEN /\ batches' = Append(batches, [pairs |-> pairs, state |-> "scored",
                                                  scored |-> {}])
                   /\ UNCHANGED call
              ELSE /\ batches' = Append(batches, [pairs |-> pairs, state |-> "asked",
                                                  scored |-> {}])
                   /\ call' = Requested(ScoreCall(b))

\* on_pair(): the second thread of a pair hands both merged results over.
OnPair(w) ==
  LET pairs == pending \cup {w[2]}
  IN  /\ walk[w].pc = "pair"
      /\ walk' = [walk EXCEPT ![w].pc = "ended"]
      /\ IF Cardinality(pairs) >= BatchSize
         THEN Flush(pairs)
         ELSE /\ pending' = pairs
              /\ UNCHANGED <<batches, call>>
      /\ UNCHANGED <<sock, conns, client, leg, phase, verdict>>

\* The judge scores each sample of the batch on its own: one it cannot judge comes back
\* unscored, and fails nothing (_score_samples).
BatchReturns(b) ==
  /\ batches[b].state = "asked"
  /\ Returned(ScoreCall(b))
  /\ IF call[ScoreCall(b)].res = "ok"
     THEN \E scored \in SUBSET ValidPairs(batches[b].pairs) :
            batches' = [batches EXCEPT ![b].state = "scored", ![b].scored = scored]
     ELSE batches' = [batches EXCEPT ![b].state = "raised"]
  /\ call' = Taken(ScoreCall(b))
  /\ UNCHANGED <<sock, conns, client, leg, phase, walk, pending, verdict>>

\* Every walk has ended: the engines are closed and the last pairs flushed.
EndGeneration ==
  /\ phase = "generating"
  /\ \A w \in Walks : walk[w].pc = "ended"
  /\ phase' = "scoring"
  /\ Flush(pending)
  /\ UNCHANGED <<sock, conns, client, leg, walk, verdict>>

Total      == Cardinality(Samples)
TooFew(n)  == n * 100 < MinPct * Total
BatchIds   == 1..Len(batches)
Raised     == {b \in BatchIds : batches[b].state = "raised"}

\* aggregate_scores: the samples the batches came back with a score for.
ScoredSum == MapThenSumSet(LAMBDA b : Cardinality(batches[b].scored), BatchIds)

\* _build_verdict: too few challengers failed alone to lay the failure to the miner.
Ours == Cardinality({s \in Samples : MinerFailed(s)}) * 100 <= (100 - MinPct) * Total

\* _score_pairs, aggregate_scores and _build_verdict.
ScorePairs ==
  CASE TooFew(Cardinality(ValidPairs(Samples))) ->
         [state |-> "failed", fault |-> IF Ours THEN "REMOTE_EVAL_FAULT" ELSE "MINER_FAULT"]
    [] ~TooFew(Cardinality(ValidPairs(Samples))) /\ (Raised # {} \/ TooFew(ScoredSum)) ->
         [state |-> "failed", fault |-> "PROVIDER_FAULT"]
    [] OTHER -> [state |-> "succeeded", fault |-> "none"]

\* The scoring pool has let the last batch go.
BuildVerdict ==
  /\ phase = "scoring"
  /\ \A b \in BatchIds : batches[b].state # "asked"
  /\ phase' = "publishing"
  /\ verdict' = ScorePairs
  /\ UNCHANGED <<bridgeVars, walk, pending, batches>>

\* _write_and_upload_artifacts, then the verdict event and the run's state.
Publish ==
  /\ phase = "publishing"
  /\ phase' = verdict.state
  /\ UNCHANGED <<bridgeVars, walk, pending, batches, verdict>>

Ended == phase \in {"succeeded", "failed"}

WalkStep(w) == Generate(w) \/ Observed(w) \/ Finish(w) \/ OnPair(w)

RunStep == \/ StartPrep \/ StartGeneration \/ RunFails \/ EndGeneration
           \/ BuildVerdict \/ Publish

Next ==
  \/ ~Ended /\ BridgeNext /\ UNCHANGED runVars
  \/ \E w \in Walks : WalkStep(w)
  \/ \E b \in BatchIds : BatchReturns(b)
  \/ RunStep

Spec == Init /\ [][Next]_vars

\* The threads of the worker and of its hub run, the engines answer or fail, and every
\* wait on the bridge ends by its deadline.  Nothing is asked of the client or the judge.
LiveSpec ==
  /\ Spec
  /\ WF_vars(RunStep)
  /\ \A w \in Walks : WF_vars(WalkStep(w))
  /\ \A b \in 1..Cardinality(Samples) : WF_vars(b \in BatchIds /\ BatchReturns(b))
  /\ \A r \in Calls : WF_vars(~Ended /\ HubStep(r) /\ UNCHANGED runVars)
-----------------------------------------------------------------------------
(* Properties.                                                                *)

Batched == UNION {batches[b].pairs : b \in BatchIds}

\* Two threads end a pair, and any thread fills a batch: every pair whose walks have both
\* ended is judged in exactly one batch, none before both its walks ended, and none is left
\* out when the verdict is built (trajectory, on_pair, flush).
EveryPairJudgedOnce ==
  /\ \A b, c \in BatchIds : b # c => batches[b].pairs \cap batches[c].pairs = {}
  /\ pending \cap Batched = {}
  /\ \A s \in Batched \cup pending : \A side \in Sides : Finished(<<side, s>>)
  /\ phase \in {"scoring", "publishing", "succeeded"} => Batched = Samples

WalkClean(w) ==
  LET turns == walk[w].turns
      k     == Len(turns)
  IN  turns[k].text # "error" /\ turns[k].obs \in {"ok", "none"}

\* The walk decides with the conversation it had when a trajectory is over, the merge decides
\* it again over the recorded turns: a walk that ended well is never merged into an error,
\* for which the miner would answer (_next_turn_samples, _merge_trajectory_results).
WalksMergeAsTheyEnded ==
  \A w \in Walks : Finished(w) /\ WalkClean(w) => MergeError(w) = "none"

\* A run only succeeds when every batch came back, and enough of the run's own samples,
\* not of those that reached the judge, were scored on both sides.
SuccessIsFullyJudged ==
  verdict.state = "succeeded" =>
    /\ \A b \in BatchIds : batches[b].state = "scored"
    /\ Cardinality({s \in Samples : \E b \in BatchIds : s \in batches[b].scored}) * 100
         >= MinPct * Total

\* The verdict is of every pair, each judged once.
VerdictIsOfEveryPair == EveryPairJudgedOnce /\ SuccessIsFullyJudged

\* Whatever the bridge does, the run ends with a verdict (the 120 s a request waits for a
\* client, its answer timeout and the pools that wait for all their threads).
RunEnds == <>Ended
=============================================================================
