# Verification of the albedo subnet backend

TLA+ modules, TLC runs and TLAPS proofs about the backend of subnet 97, "king of
the hill" for language models. Miners commit models on the chain; the backend
validates them, screens them, duels them against the reigning king, promotes those
that win twice and sets the chain's weights for the reign. The king answers in a chat.

The backend is a set of processes over one Postgres database, two GPU hosts and a few
outside services. A submission is a row of `model_submissions`, and its `state` column is
the program counter of the pipeline:

```
chain_reader        -> SUBMITTED
model_validation    -> HIPPIUS_* -> HIPPIUS_VALIDATED
sanity dispatcher   -> PRE_EVAL_RUNNING -> PRE_EVAL_PASSED
requeuer            -> EVAL_QUEUED
eval dispatcher     -> EVAL_RUNNING -> COMPLETE_LOSS
                                    -> EVAL_QUEUED at priority 0   (first win)
                                    -> EVAL_WIN                    (second win)
set_reign_worker    -> REIGN_SET
weight_setter       -> WEIGHT_SET_RUNNING -> COMPLETE_CORONATED
*_RETRYABLE after an infrastructure failure; TERMINAL_INVALID, TERMINAL_INFRA_FAILED
```

Paths below are relative to the repository root; the Python packages are under `src/`.
`PROJECT.json` maps every definition to the lines it models, and lists the components with
their sources, the runs, the mutants that each property is known to catch, the hazards of
this code at the lines where they bite, and the theorems.

## 1. Inventory

| component | state it keeps | operations | interacts with | hard behaviour | what makes it correct |
|---|---|---|---|---|---|
| eval control plane: `albedo_eval_service/control` | `model_submissions`, `stage_attempts`, `eval_runs` | claim, start remote, follow and record events, heartbeat, complete, reconcile, sweep, requeue | GPU host over HTTP; set-reign and sanity over the tables | five processes may end one attempt; leases; lost replies; late events; the host forgets | one eval at a time, an attempt ends once, two wins for a crown, one verdict per hotkey, everyone is decided |
| GPU host: `albedo_eval_service/remote` | event log per run, walks, batches | start, events, status, cancel; generate, observe, score | control plane, score bridge, judge | two threads end a pair; timeouts; reconnections | every pair of walks is judged once, a run ends |
| score bridge: `albedo_eval_service/scoring` | one websocket, pending futures | attach, request, answer | judge, remote worker | replaced sockets, late answers | nothing waits on a socket that is gone |
| judge: `judge_api`, `judge_core`, `judge_llm_client`, `evaluator/reference` | prep store, memo, budgets and rooms of the model client | prepare, simulate, write the checklist, score | score bridge, language models | coroutines that share work in flight, provider failures, expiry | one simulation of a key at a time, the best attempt served, no milestone lost, a win is earned |
| set-reign: `set_reign_worker` | `reigns`, `reign_members`, `weight_epochs` | promote, mark retryable | eval control plane, weight setter | stale wins, long transactions | reigns shift by one |
| weight setter: `weight_setter` | `weight_epochs`, `weight_transactions` | claim newest epoch, refresh, set weights, mark | chain RPC, set-reign | a call that cannot be taken back between two transactions, rate limit | settled epochs stay settled, weights follow the reigns, shares go to who holds the uid |
| genesis script: `scripts/create_genesis_king.py` | first reign and epoch | bootstrap | weight setter | run twice, run late | never replaces a won reign |
| pre-eval gate: `sanity_service`, `sanity_remote` | `stage_attempts` of stage PRE_EVAL; runs and one vLLM on the host; trajectories | claim, load, generate, check, judge, pass, fail, sweep, teardown | GPU host, simulator, judges | completions that look at nothing; teardowns that arrive late; samples that stop each other | a run is served by its own model, a verdict is of whole trajectories |
| model validation: `model_validation` | attempts of stage HIPPIUS, the dedup bank | enqueue, claim, check, deduplicate, done, failed, retry, sweep | object stores, chain guard | late worker after a sweep; bank and database apart | verdicts stand, everyone is screened, what is accepted is guarded |
| chain reader and guard: `chain_reader`, `chain_guard` | `chain_commits`, `miners`, `used_hotkeys` | poll, detect swaps, refresh, insert, signal | chain | a row of transactions per poll, each may fail | a hotkey whose swap was noticed brings nothing in |
| private store: `private_store` | `private_registrations`, tokens, mailbox, bucket | activate, freeze, verify, submit, close windows, reap | object store, Cloudflare, chain reader | effects outside the database before the commit; reaper beside uploads | no live token after the freeze, verified bytes stay |
| repository context service | overlay of a session's checkout | replay, answer, parts | judge's simulator | long sessions of renames, removals, unknown writes | what it says of a file is so on the machine |
| shared algorithms: `albedo_eval_service/shared` | none | sampling, loop check, verdict levels | worker, judge | boundaries | agree with their definitions |
| chat with the king: `chat_to_king` | accounts, keys, usage; slots; engine process | sign up, create, rotate, revoke, delete, complete; supervise | web gateway, vLLM | checks and writes in different calls, processes that hang or are left behind, with or without the port | limits are passed by no more than the races allow; the engine comes back |
| model stores and uploader: `modelstore`, `scripts` | cache directories, markers, `.partial`s, mirrors | resolve, clean, mirror, download, prune | eval worker, king's host | crashes in downloads, deletions beside use without a lock | what is used is whole, every king is mirrored |
| configuration and upload checks, registries, CLI, website, dashboards, dataset scripts | files | I/O | everything | - | not modelled |

## 2. Plan of the modules

| system | modules | abstract or reference side | proofs |
|---|---|---|---|
| eval control plane | `EvalControl` | `KingOfTheHill`, implemented by it | `EvalControlProofs` |
| reigns and weights | `Coronation` | - | `CoronationProofs` |
| intake | `ChainIntake`, composed with `PrivateStore` | - | `PrivateStoreProofs` |
| validation and the gate's rows | `Screening` | - | `ScreeningProofs` |
| the gate at work | `SanityHost`, `SanityTrajectory`, composed in `SanityGate` | - | `SanityGateProofs` |
| one run on the GPU host | `ScoreBridge`, composed with `RemoteEval` | - | `RemoteEvalProofs` |
| the judge | `LlmClient`, `Simulation`, composed in `Judge` | - | `JudgeProofs` |
| the dedup gate | `Dedup` | - | `ScreeningProofs` |
| the judge's content | `Checklist`, `Marks`, `Sampling`, `LoopCheck` | the definition each property states | `CoronationProofs` (`Marks`) |
| repository context | `Overlay`, `Grounding` | `Shell`, the machine itself | - |
| chat with the king | `KeyStore`, `Portal`, composed in `KingApi` | - | `ServingProofs` |
| hosts that keep models | `ModelCache`, `HfMirror`, `KingEngine`, composed in `ModelHosts` | - | `ServingProofs` |

`MC...` modules instantiate them for TLC. `MCParts` holds seven parts that run alone and
lets one of them, picked at the start, act.

What is left to prove: the types of `RemoteEval` and `LlmClient`, and what is said of sequences
that are folded or flattened (section 6).

## 3. How the code is modelled

An action is what other processes can interleave with: a database transaction, a call to a
remote service, the code of a coroutine between two awaits, the work of a thread
between two locks. A process that dies between two of them is an action of its own, and so is a
reply that is lost after its effect. Advisory locks are what makes a claim atomic; they
are not variables. Timeouts are steps that are always possible, bounded as faults where they
cost nothing in the code. Constants that start with `Max` and are marked "bound" are
bounds of the instance; the others are settings of the program.

### `EvalControl`, `KingOfTheHill`

| variable | code |
|---|---|
| `subs[s]` | `model_submissions`: `state`, `retry_count`, `priority`; `s` is the position in `created_at` order |
| `attempts[r]` | the `stage_attempts` row of run `r`: state, submission, whether the lease is in the future |
| `evals[r]` | the `eval_runs` row: state, king dueled, remote id, whether the result was a win, events recorded |
| `king` | slot 1 of the ACTIVE reign |
| `oldReg` | submissions committed before the hotkey's present `registration_block` |
| `log[r]` | the GPU host's event list; empty when the host does not know the run |
| `proc[f]` | what dispatcher and reconciler hold between transactions |

The host's verdict event and its status row are one list read in two ways (`FollowEvent`,
`FollowStatus`). A follower renews its lease far more often than it expires, so a followed
lease expires only by a stall. "Five consecutive errors" is `FollowGivesUp`, free when the
host has forgotten the run and a fault otherwise. `SET_REIGN_RUNNING` is set and left in
one transaction. Progress events, artifacts, scores and notices are read by no guard.
`MCEvalControl!Observable` drops what no action reads any more: the log and
recorded events of a finalized run that nobody follows.

`KingOfTheHill` is the contract: submissions enter, wait, duel one at a time, are turned away
for good or collect wins, and the crown goes only to someone with two. `EvalControl` maps to it
by the stage of each state and the set of won runs (`Promise == INSTANCE KingOfTheHill
WITH ...`). The first win sends a submission back for one rematch, the second makes it the winner;
a third duel after two wins is no step of the contract.

### `Coronation`

`reigns`, `epochs` (numbered by `created_at`), `setter` (what `run_once` holds), `marker` (the block
of the rate limit), and the chain: `block`, `metagraph`, `chain`. `now()` in Postgres is the
start of the transaction, so a promotion is two actions: a refresh claimed in between gets
the larger `created_at` although the coronation is for the newer reign. A model wins against the
king of the moment here; the chain call's effect is atomic; there is one weight
setter, as in the pm2 configuration.

### `ChainIntake`, `PrivateStore`

A poll reads the chain at one block, loads the rows it knows and confirms the swaps (`FindSwaps`),
then writes: each swap in a transaction of its own (`RecordSwap`), the registration blocks, the
commits with their miners rows, each signal, and the coldkeys that the commits did not bring
(`SetColdkey`, for the hotkeys in `Ownerless`; it makes the row the one updated last). It may fail
after any of them, a part of the swaps included; the next poll begins anew. Only the chain read,
the load and the confirmation are one step: what the chain does between them could as well come
after. The access controller takes one row at a time under a row lock (`Tick`, `TickStep`) and
sweeps without one (`SweepStep`): closing windows, then reaping by a plan made from a listing of
the bucket. Tokens live outside the database and a step that minted one may die before its commit.
What `left`, `seen` and `noticed` keep is bookkeeping for the property alone; how long an object
is kept is a choice; one key and one model per registration, so that a second key and a wrong
upload are not tried.

### `Screening`, `Dedup`

The questions about a hotkey's history are asked one query at a time, so a verdict of the
gate or a registration may fall between two of them. A completion finds its rows by id and writes
them whatever their state: `mark_done` and `mark_pre_eval_passed` are unguarded. The
reconciler asks the host for a run named by the attempt, is told 404 and skips. `Dedup` is the
bank: what two sketches come to is a choice within what `Weights` says of the models, the
worker may die after the bank has the model and before the database has the verdict.

### `SanityHost`, `SanityTrajectory`, `SanityGate`

`SanityHost` is the store of runs and the one vLLM server: a run takes the engine's lock to
load its model and lets it go before it generates. vLLM has a session of its own and outlives a
restart of the host: one that listens is found by the next engine and killed, one that is still
loading is not (`orphans`) and may take the port later (`squatter`), where it answers `/health` in
place of another model's boot. `SanityTrajectory` is one sample's
conversation, as operators on its state with texts reduced to what a turn counts as.
`SanityGate` drives the samples at once; the first fault or veto stops the others at their next
turn. What models and judges say, and which samples a text check finds, is a choice. Tasks that
go on when one raised end before the next claim; their runs do not. Left out: downloads
and disk, the exemption of a repeated demand. A nudge is a flag of the conversation instead of the
turn it came at.

### `ScoreBridge`, `RemoteEval`

A call is one `hub.request()`; it keeps the socket it captured. Two walks per sample, each on a
thread; when both ended, the pair is pending, and any thread fills a batch. Generating is one
step. `execute()` raises, and the run fails to be retried, while it picks its samples, prepares
model and engines, when a thread has raised and the others have ended, or when the artifacts are
uploaded (`RunFails`); an error in between counts as one at the next of these points, since
nothing else reads the run's outcome before. The read loop of a replaced socket, and answers to
calls that already returned, change nothing the properties see and are not followed. The
simulator's slots and the pool of 128 threads do not bind.

### `LlmClient`, `Simulation`, `Judge`, `Checklist`, `Marks`

`LlmClient`: routes, the gate and error budget of engy, a room per model. `Simulation`: the
ladder of providers and the memo with its work in flight. `Judge`: `prepare()` as a job of
the prep store or of a request, reference runs, score requests, on one sample and with the
readings and ladders of the checklist as single calls; their content is `Checklist`, where what the
models answer is any of a small set of replies. `Marks` counts scores in exact millionths.
Left out: sums in floating point, QUESTIONS_MAX, wording, reports, the reward arithmetic.

### `Overlay`, `Shell`, `Grounding`

`Shell` is no code of the repository: it is the machine that the commands would have run on.
`Overlay` is the service's replay of a transcript and `Grounding` a session in which both go
along: exact answers, parts, and what the simulator is asked for. The simulator is taken to
answer as the machine does, and observations to show the right status or none, so that any
difference is the service's. Left out: git, globs and braces, pipelines, working
directories, `set -e` and `exit`, paths outside the checkout, SEARCH/REPLACE edits,
snapshots, the memo.

### `Sampling`, `LoopCheck`

The shuffle by the block hash is any order; one row per instance. The largest remainders are
compared as the code does, on `value % 1` of a float: where the true remainders are equal, `Drift`
is what rounding to 53 bits is off by, so that 24 rows are 15, 4 and 5. This is the code's order
for counts up to 1000 (`SamplingAssumption`), far above any sample count. A document of turns is
built turn by turn and the loop check asked of each.

### `KeyStore`, `Portal`, `KingApi`

A method of the store is a step under its lock; a connection that breaks in the middle of one
loses what it had written before. A handler is a coroutine that makes one call after another. A
`GlobalMax` of 0 is no limit. One person, one day; expiry, tiers, IP limits and the probe are left
out.

### `ModelCache`, `HfMirror`, `KingEngine`, `ModelHosts`

Hosts share nothing but finished files, so a behaviour is that of one of them.

`ModelCache`: threads that resolve under a lock per model and one download slot. A model comes
in single layers (those in the `.partial` are skipped for good, and with none pending no slot is
taken), by a supervised child that starts again from the listing after a stall, or as objects of s3,
written in place. The cleanup daemon takes neither lock. It decides by a snapshot of the
database and by modification times (`Untouched`) and deletes one entry after another, beside
resolves and submissions that come after the snapshot. Neither process sees the other, so a
marker may come to stand on an incomplete model; `UsedIsWhole` says so for the models in
`torn` (the daemon was stopped between two entries, with the marker still there) and in `raced`
(deleted while a resolve held the lock or while someone needed them), and for no other.
`OtherCrowned` is the crowning of a model that is not on this disk.

`HfMirror`: passes of the uploader. Committing the same files twice leaves the hub as it was, so a
lost answer only costs another pass.

`KingEngine`: the operator and the supervisor with its vLLM. A vLLM that stops is `hung` if it
listens, and then `kill_port_squatter` finds it, or `stuck` if it holds the GPUs without
listening, as do the workers left of a leader that was reaped or killed alone. A probe
may miss a server that is up. Left out: `--force`, `--limit`, `--once`, dry runs, repository
revisions.

## 4. Runs

| run | instance | properties | states |
|---|---|---|---|
| `EvalLife` | 1 submission, 3 runs, 2 retries, 1 fault, fair | `OneEvalAtATime`, `FinalStaysFinal`, `EveryoneIsDecided` | 1.1 M |
| `EvalHotkeys` | 2 submissions of a hotkey that may register again, no king at first, 3 runs, 1 fault | `CrownNeedsTwoWins`, `OneVerdictPerHotkey`, `KeepsThePromise` | 1.8 M |
| `EvalWedged` | 1 submission, 2 runs, 1 fault, fair | `QueueIsServed` is violated | - |
| `CoronationChain` | 3 models of 2 miners, 2 slots, rate 2, 4 epochs, 1 fault, fair | `ReignsSucceed`, `OneShareEach`, `SettledForGood`, `OnlyARacedRefreshGoesBack`, `ChainCatchesUp` | 0.5 M |
| `Intake` | 3 hotkeys, 2 of them private, 2 uids, 2 attempts, 1 move, 1 fault, fair | `FrozenUploads`, `VerifiedBytesStay`, `SwappedNeverEnters`, `ActivationAnswered` | 1.0 M |
| `RemoteRun` | 2 samples of different horizons, 2 connections, fair | `NothingWaitsOnAReplacedSocket`, `VerdictIsOfEveryPair`, `WalksMergeAsTheyEnded`, `RunEnds` | 0.5 M |
| `SanityGate` | 2 attempts of 2 models, 2 samples, 3 turns, answers that look, submit or talk, 1 fault | `ServedByItsModel`, `JudgedWhole`, `GenerationsAreLeftAlone` | 5.7 M |
| `JudgeRun` | 2 reference runs of 2 turns, 2 simulations, 1 provider before the fallback, fair | `OneSimulationAtATime`, `PreparedIsUsed`, `BestIsServed` | 2.1 M |
| `KingApi` | 1 person, 3 keys, 2 browsers, 2 clients, 1 lost connection | `KeyCapHolds`, `QuotaHolds` | 4.0 M |
| `ModelHosts` | 1 model of 2 files, 2 threads, 2 kings to mirror or to serve, 1-2 faults per host, fair | `ModelsAreWhole`, `EveryKingIsMirrored`, `EngineComesBack` | 0.7 M |
| `Parts` | the instances of `MCParts` | `TriesAreInStep`, `VerdictStands`, `EveryoneIsScreened` (screening), `OverlayIsTheMachine`, `AnswersAreTheMachines` (grounding), `SampleIsTheMix`, `ReaskingIsNoLoop`, `AcceptedIsGuarded` (dedup), `NothingIsLost` (checklist), `WinIsEarned` (marks) | 0.7 M |
| `DedupSelf` | the same | `OwnCopyIsOfAnother` is violated | - |

Why the bounds are enough. One submission with three runs has every overlap of two attempts
and their followers, and a failure followed by two wins. Two submissions of one hotkey are
all a check over pairs needs; the interplay of two submissions is in `EvalHotkeys`, faults
on the way of one in `EvalLife`. Two slots and three models make a reign overflow, and the
third model shares its hotkey with the first. Two attempts of a registration are what a
returned upload and a sweep's stale plan need, two connections what a replaced socket does.
Two samples let one stop the other, two models let one displace the other on the host; the gate's
consensus is off in the run, and any in the theorems. Models in the cache meet only at the download
slot and at a crowning, so one, with a stall or a fault in place of waiting for the slot and
`OtherCrowned` in place of another's crowning, and two threads that want it have every overlap with
the daemon; the theorem is for any number. Two
browsers race the portal's checks, two reference runs the memo. In `Parts` the grid is
computed for every count from 1 to 128 and rows are picked for counts up to 6; sessions are of
three turns over 28 commands in both formats, with at most one recorded turn; loops are counted to 3
instead of 5; duels are of 2 judges, 2 questions, 2 repeats and 2 samples. `KingApi` has a
constraint, at most two requests at once, which is what its races need. Symmetry is used on
interchangeable browsers, clients, names, runs, simulations, samples and models, only in
runs without liveness.

Deadlock is checked only in `JudgeRun`, which goes on for ever by its own terms; elsewhere the
instance really stops, with every submission decided or every epoch used.

### Fairness

pm2 restarts the loops and cron starts the sweepers, so each step of theirs that stays
possible is taken: weak fairness of each transaction. Remote work is bounded by timeouts;
leases expire unless renewed; blocks are produced. Nothing is assumed of faults, of miners, of
re-registration, of genesis, of the reconciler's pick, or of the judge's client and what it
answers: every wait on the bridge ends by its deadline.

- `PrivateStore`: strong fairness of `Tick`, since the controller's loop takes one whenever a row
  waits, however many sweeps come between.
- `Judge`: strong fairness of passing the gate and of entering a room, which asyncio's
  semaphores serve in the order of arrival. Its run checks no liveness.
- `ModelHosts`: fairness of the host that acts, and of no other.
- `Parts`: fairness of the screening alone; the other parts' properties are invariants.

`ChainCatchesUp` has the escape `Exhausted` (the last epoch row is used, or no block is left), a
bound of the model; `EveryoneIsDecided` has `IndexHeld`, the finding below.

## 5. Disagreements and observations

Two runs show a violation.

- `EvalWedged` / `QueueIsServed`. `_apply_remote_event_to_eval_run_inside_tx`
  (`src/albedo_eval_service/control/repository.py:768`) writes `eval_runs.state` whatever the
  attempt's state. A follower that stalls past its lease, is swept, then records one more event
  makes the abandoned run active again; the row holds `eval_runs_one_active_uidx`, and each later
  claim's INSERT fails. `docs/eval-service-status.md:39` promises another attempt.
- `DedupSelf` / `OwnCopyIsOfAnother`. A validator that dies between the bank and the
  database is retried, and the retry's `_own_copy` (`src/model_validation/dedup/gate.py:107`)
  finds the model's own document. `docs/MINING.md:136` speaks of a model already accepted.

Met on the way, without a run of their own:

*Chain guard.* A poll that fails half-way has recorded some of its swaps only; the next one finds
the others, since the registration blocks are refreshed last. A swap is told from the miners row
of the uid updated last (`chain_guard/db.py:49`), so some leave no trace: the old hotkey has an
owner again before the next poll (`confirm_swaps`), another row of the uid was upserted later,
also by the access controller with the uid of the first activation, or the row was inserted after
the poll's refresh and `registration_block` is still NULL. `SwappedNeverEnters` speaks of the
swaps that a poll has what it takes to notice.

*Eval and coronation.* The claim gate waits for `EVAL_WIN` but not `SET_REIGN_RETRYABLE`
(`repository.py:98`). A refused call takes a crowned submission to `WEIGHT_SET_RETRYABLE`
(`weight_setter/service.py:493`), which `_SCORED_OR_BEYOND` lacks, while
`docs/PRIVATE_UPLOADS.md:131` calls the hotkey finished. The weight setter does not wait for
inclusion: a call that was accepted and is not included is marked a success; acceptance and
inclusion are one outcome here.

*Screening and dedup.* `_VALIDATED_OR_BEYOND` (`model_validation/db.py:9`) lacks the
`*_RETRYABLE` states, while `website/llms.txt:592` promises one validated model per hotkey.
Without a coldkey every reject is only shadowed; a copy judged before its original leaves both
accepted.

*Remote run.* `_miner_failed_pair_count` (`remote/worker.py:895`) does not excuse a timeout or a
status error of our own outage.

*Judge.* The memo's race gives two runs different observations, against `docs/SCORING.md:31`; an
error of the fallback model loses an earlier valid attempt; escalation can raise although its
docstring promises the best; regeneration passes no `eval_run_id`, so its budget never resets;
after `[DONE]` neither stop nor deadline is looked at; the sweep of the prep store lets a
`CancelledError` out. A merged milestone's evidence may be of a kind its category does
not admit, and its dependencies may be cyclic; the keeper of a dropped duplicate may itself be
dropped later. In floating point 0.825 - 0.8 is below 0.025, so an exact lead of 2.5 points
may lose (`judge_core.py`, `docs/SCORING.md:319`).

*Repository context.* The memo's key does not change with a second opaque edit
(`overlay.py:451`); `sed -i` with one missing file, `tee`, `mv d e` onto a non-empty `e/d`, `cp f d`
over a directory `d/f` and `cat d > x` are taken for what they are not.

*Chat with the king.* Cap, daily creations and sign-up are checks in one call and writes in
another; a revocation is acknowledged though its UPDATE was lost with the connection; expired
keys cannot be revoked or rotated and block their name; slots leak when the upstream's body
raises; `lsof -t -i:port` kills clients too; a supervisor killed while vLLM starts leaves it
behind.

*Hosts.* `kill()` asks for the group of a leader already reaped (`vllm_process.py:159`), so its
workers keep the GPUs; a vLLM left behind while it loaded that never binds the port is missed by
`kill_port_squatter` (`:173`), and `wait_gpus_free` makes every supervisor exit as long as either
stays (`supervisor.py:45`): the escape in `EngineComesBack`; leftovers without a marker make
`temp_dir.replace(cache_dir)` fail for ever; a deletion that is cut off leaves a marker on an
incomplete model, which is then used (`docs/eval-service-status.md:144` says otherwise): an
exception in `UsedIsWhole`. The other: the daemon looks at times alone
(`eval_cache_cleanup.py:197`, `:245`), a resolve decides once which layers it skips
(`resolver.py:431`), and the snapshot may be older than a submission. So a download that waits for
its slot or found all its layers there may lose a file behind its back and be marked whole. The
uploader sends weights and index only (`king_hf_uploader.py:793`) though it says "mirrored
verbatim"; it lists a copy while the cleanup deletes it; `_verify_and_repair` leaves a king open
which the next pass completes unchecked.

*Sanity.* A vLLM that a restarted host leaves behind while it loads is not listening when
`_kill_port_squatter` looks (`sanity_remote/worker.py:262`), takes the port later and answers the
health probe of another model's boot (`:428`); the engine then believes the other model loaded,
and the refused prompts count as the miner's empty turns. It is the escape in `ServedByItsModel`.
A 4xx or 5xx of vLLM counts as an empty turn; a submission on the final turn is not recorded;
`_reject_submission` lacks `post_nudge` (`dispatcher.py:1130`); `gather` without
`return_exceptions` leaves the other drives running; a failed boot forgets the old directory.

## 6. Proofs

Eight modules, `...Proofs`, hold theorems. All are of the specification as TLC checks
it and for every value of the constants that satisfies the named assumptions beside them
(sets finite or not empty, bounds natural numbers, model values distinct), which is all they
assume. Every inductive invariant was checked by TLC on the instance of its run before
it was proved.

| theorem | property |
|---|---|
| `EvalControlProofs!SpecTypeOK`, `SpecOneEvalAtATime`, `SpecCrownNeedsTwoWins`, `SpecFinalStaysFinal`, `SpecOneVerdictPerHotkey` | the safety of the eval stage |
| `EvalControlProofs!SpecKeepsThePromise` | `EvalControl` implements `KingOfTheHill` |
| `CoronationProofs!SpecSettledForGood`, `SpecOnlyARacedRefreshGoesBack` | what may happen to an epoch and to the chain's weights |
| `CoronationProofs!SpecReignsSucceed`, `SpecOneShareEach` | who sits in a reign, and what is paid for it |
| `CoronationProofs!SpecWinIsEarned` | what a duel is won by |
| `PrivateStoreProofs!SpecChainTyped`, `SpecFrozenUploads`, `SpecVerifiedBytesStay` | tokens and bytes of a private upload |
| `PrivateStoreProofs!SpecSwappedNeverEnters` | hotkeys that came by a swap |
| `ScreeningProofs!SpecTypeOK`, `SpecTriesAreInStep`, `SpecVerdictStands` | attempts, budgets and verdicts before the duel |
| `SanityGateProofs!SpecTypeOK`, `SpecServedByItsModel`, `SpecGenerationsAreLeftAlone`, `SpecJudgedWhole` | the host and the trajectories of the gate |
| `RemoteEvalProofs!SpecNothingWaitsOnAReplacedSocket`, `SpecWalksMergeAsTheyEnded`, `SpecVerdictIsOfEveryPair` | the bridge and the run on it |
| `ScreeningProofs!SpecAcceptedIsGuarded` | the dedup bank |
| `JudgeProofs!SpecOneSimulationAtATime`, `SpecBestIsServed`, `SpecPreparedIsUsed` | the memo, the ladder and the prep store of the judge |
| `ServingProofs!SpecKeyCapHolds`, `SpecQuotaHolds` | an account's keys, and what it spends |
| `ServingProofs!SpecModelsAreWhole` | models on disk, but those of a torn or raced deletion |

The arguments, and why the properties are not inductive by themselves:

- `EvalControl`. An attempt that exists belongs to a submission, a won run's attempt has
  succeeded, a busy follower holds a run that exists: without it a completion might end an attempt
  of nobody, or a claim reuse a row a follower points at. One eval at a time: the claim gate reads
  no submission as `EVAL_RUNNING`, so no attempt is `RUNNING`, and whoever ends one moves attempt
  and submission together. Two wins: a step into `EVAL_WIN` has an earlier won run, distinct from
  the one being finalized, and `won` is never taken back. The refinement maps each action to a
  step of `KingOfTheHill` or a stutter, under that invariant. That a first win is the first takes
  one more, `Indexed`: while an attempt runs, its eval run is the one that
  `eval_runs_one_active_uidx` holds, so the row of an earlier win is still `SUCCEEDED` and
  counted.
- `Coronation`. Rows are in the order of `created_at` (`RefreshesInOrder`, `CrownsInOrder`),
  nothing before the one at work is open (`NothingOpenBefore`), what is settled is of a past
  window (`SettledIsPast`). The windows are `block \div Rate` for any rate, so the steps that
  compare them rest on lemmas of their own about division.
- `ReignsSucceed`. The plan of a reign follows from the one before only where that one has a slot
  for each hotkey (`Seated`) and the challenger sits in none, which is because who sits in a reign
  has won and is not judged again (`KingsHaveWon`, `ReignsHold`). `Others`, the members without
  the challenger, is a recursion over the sequence: that it picks them in their order (`OthersAre`)
  is an argument from a least counterexample, the induction that `WFMin` leaves possible.
- `OneShareEach`. What is on the chain is the payload of a reign that stands (`MembersStand`).
  The sum over the uids is a fold over a set whose order is arbitrary: any function that satisfies
  its equation is the fold (`OneSum`, by a smallest set where two differ), and what the slots paid
  to some uids draw together is such a function (`Draws`, `PaidInFull`), equal to the whole for all
  slots by `Division`. No uid but the burn uid has two slots, since a hotkey has one.
- `WinIsEarned`. A score is a rounded mean of rounded means of rounded means, and so is the sum
  the duel is decided by. A sum over a set is a number of pairs again (`SumAddsUp`), so that a
  lead of `c` everywhere is one of `c` times as many in the sum (`SumsOrdered`, a smallest set
  where it is not), of `c` in the rounded mean (`SumsLead`, `MeansOrdered`), and so on from the
  judgings of a question to the judges of a side (`RatesOrdered`, `PlainOrdered`), whichever
  judgings could not be read. The sums of a duel are honest as those of its samples are
  (`Honest`), the unscored included. Assumed are a judge, a question, a sample and a least share
  of samples above zero, as the settings and the floor of a checklist have them;
  `aggregate_scores` fails a duel of no samples.
- `FrozenUploads`. Before the freeze only the token that the row names may be alive
  (`OwnTokens`); a tick holds the state of the row it has locked (`TickHolds`); the window a sweep
  closes was open when it read it (`SweepHolds`). `VerifiedBytesStay`: rows count their attempts,
  each attempt has at most one submission and follows its row (`BytesHeld`), and a sweep's plan
  excludes every prefix in use, also those that come into use after it was made
  (`PlanHolds`).
- `SwappedNeverEnters`. Whoever holds a uid has an owner and holds no other, and no registration
  is of block 0 (`SwapsHold`): so a row that still names a swapped hotkey without an owner is one
  `find_swaps` sees and `confirm_swaps` confirms (`NoticedIsSwapped`), every swap of a poll is in
  the ledger before the registration blocks are refreshed, which is when it counts as noticed, and
  the ledger only grows. Only two steps make a submission, and both ask the ledger. The theorem is
  for any number of swaps and registrations; the run has one.
- `Screening`. An invariant of each submission; the gate may hold an attempt the sweeper has
  abandoned (`GateHolds`), and that is the one exception in `VerdictStands`. The failed tries
  are at most the charges: a statement on the cardinality of the set of failed attempts.
- `SanityGate`. Of the host: the runs at work are of one model (`OneModel`), one run holds the
  lock and only an orphan answers while it boots (`OneHolder`), the engine knows the model of its
  own process or none (`ServerKnown`), tasks of the attempt at work only. Of the trajectories:
  verdicts in the order of the checks, samples gathered before they are judged, a halted one
  halted for a veto that stands, so that a pass is of samples that all ended well, with the
  consensus or without (`VerdictTells`).
- `RemoteEval`. What waits is on the socket of the hub. Every turn of a walk but the last went
  on, and the last is one at which the merge stops too; that the merge stops nowhere before is
  the least number principle, from the library's `WFMin`. A pair is handed over by exactly the
  thread that ends second (`HandedOver`, `OneSecond`), so batches and pending pairs never overlap.
  The verdict counts samples batch by batch: as no sample is in two batches, the sum of the counts
  is the number of samples scored (`ScoresAddUp`, with the same lemma on folds), which is what
  `SuccessIsFullyJudged` says of the run (`VerdictOK`).
- `Dedup`. Between bank and database a passed model has its document in the bank and was past
  every copy of those accepted before it (`JudgedHolds`), and none is accepted meanwhile, since the
  worker holds one model at a time. That a model which passed is no copy rests on what was
  accepted being in the bank (`PassedIsNoCopy`), so the two halves of the property need each other.
- `Judge`. A simulation under way is the one its key names in `_inflight` (`InFlight`), so two of
  one key are one; a simulation is let go only when it is over. On the ladder nothing has been
  served, and each candidate kept has a rank at least that of the one before. The prep's job works
  only while the store waits for it, and a request makes a list of its own only where the store has
  none, or had one that failed, which does not change back (`NoPrep`, `PrepHolds`): a prep is
  begun before the first request. None of it depends on what the model client does.
- `KingApi`. The count and the insert of a key are two calls, so the cap itself is not an
  invariant. The names of an account's live keys, together with the names claimed by requests past
  their check, are at most `MaxKeys + Cardinality(Browsers) - 1`; live keys of an account
  have different names, by the index.
- `QuotaHolds`. Requests look at the quota before they are charged, so the quota itself is not an
  invariant: what an account has spent, and two replies for each request past its look, are
  together at most `Quota - 1 + 2 * Cardinality(Clients)` (`InQuota`). What an account has spent
  is a fold over its keys; that it equals the number of charges to them (`SpentCounts`) is a least
  counterexample again (`OneSum`, `FoldCounts`), and the bound is then one on the cardinality of
  sets.
- `ModelHosts`. Of the models in neither `torn` nor `raced` (`Sure`): at most one thread is past
  the lock of each (`OneInside`), in a directory without a marker (`NotMarkedYet`), and what is
  not there is still on its list, so that it settles with every file (`Awaited`). A deletion that
  is no race meets no thread at its model, and has the marker on its list for as long as it stands
  (`Undisturbed`). So the marker of a model that is not being deleted stands for the whole of it
  (`MarkedIsWhole`), and what is in use has one (`UsedIsMarked`). What the operator points at is
  whole by the order of its own steps, and a pruning comes only where no download is under way.

What stays with TLC:

- Liveness under fairness and everything with `ENABLED`: `EveryoneIsDecided`, `ChainCatchesUp`,
  `ActivationAnswered`, `RunEnds`, `EveryoneIsScreened`, `EveryKingIsMirrored`, `EngineComesBack`.
- What folds over sequences, `SelectSeq` and `RECURSIVE` operators compute: the induction theorems
  of the library are out of reach, and only recursive functions and folds over sets of which a
  witness can be named gave way to a least counterexample. `SampleIsTheMix`, `ReaskingIsNoLoop`,
  `NothingIsLost` and the two of `Grounding` stay with TLC. Largest remainders need not grow with
  the count; that those of the mix do as far as `SampleIsTheMix` needs it is what its run
  computes.

## 7. Not modelled

Registries' protocols and digests, the comparison of configurations, checks on the
files of an upload, the miner client, the website and its dashboards, dataset scripts, process
files and the pages of the portal: I/O and layout without a step another process could come
between. The package `model_validation.storage` is not in the source tree. Observation formatting
and git emulation are string processing that no small instance would say much about.
