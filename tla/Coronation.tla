----------------------------- MODULE Coronation -----------------------------
(***************************************************************************)
(* From a second win to weights on the chain.                              *)
(*                                                                         *)
(*   set-reign      promote_next_winner: one transaction writes the new    *)
(*                  reign and its weight epoch (set_reign_worker)          *)
(*   weight setter  claim_next_epoch, the chain call, mark_success or      *)
(*                  mark_failed: two transactions around a call that       *)
(*                  cannot be taken back (weight_setter)                   *)
(*   genesis        scripts/create_genesis_king.py                         *)
(*                                                                         *)
(* Who wins and whether the win is stale is EvalControl's matter: here a   *)
(* model simply wins against the king of the moment.  Rows of              *)
(* weight_epochs are numbered in created_at order, and created_at is the   *)
(* start of the inserting transaction: a promotion takes its number when   *)
(* it begins and shows its row only when it commits.                       *)
(***************************************************************************)
EXTENDS Integers, Sequences, FiniteSets, FiniteSetsExt

CONSTANTS
  NumWinners,     \* submissions that may win; 0 is the genesis model
  Hotkeys, Uids,
  HotkeyOf,       \* the hotkey each model was committed by
  UidOf,          \* the uid it had then
  BurnUid,        \* WeightSetterSettings.burn_uid
  FirstMetagraph, \* the hotkeys registered when the services start
  MaxSlots,       \* slots of a reign, 5 in the code
  Rate,           \* WeightSetterSettings.set_rate_blocks
  MaxBlock,       \* bound: the chain's last block
  MaxEpochs,      \* bound: weight_epochs rows
  MaxFaults       \* bound: crashes, aborted transactions and failed chain calls

Kings   == 0..NumWinners
NoKing  == -1
Winners == 1..NumWinners
Rows    == 1..MaxEpochs
NoRow   == 0
NoReign == 0
Windows == 0..(MaxBlock \div Rate)
NoWindow == -1            \* the hash of a coronation or genesis epoch has no window

ASSUME CountsAssumption ==
  /\ NumWinners \in Nat /\ MaxBlock \in Nat /\ MaxEpochs \in Nat /\ MaxFaults \in Nat
  /\ MaxSlots \in Nat \ {0} /\ Rate \in Nat \ {0}

ASSUME ModelAssumption ==
  /\ HotkeyOf \in [Kings -> Hotkeys]
  /\ UidOf \in [Kings -> Uids]
  /\ IsFiniteSet(Uids)
  /\ BurnUid \in Uids
  /\ FirstMetagraph \in [Uids -> Hotkeys]

VARIABLES
  subs,        \* model_submissions.state of the models
  reigns,      \* reigns by version; the last is ACTIVE, the others SUPERSEDED
  epochs,      \* weight_epochs
  promo,       \* the row the open promotion transaction will insert
  setter,      \* what the weight setter holds between its two transactions
  marker,      \* block of the last weight_transactions row that counts for the rate
  block,       \* the chain's current block
  metagraph,   \* the hotkey registered at each uid
  chain,       \* the weights last set on the chain, and for which reign
  faults

vars == <<subs, reigns, epochs, promo, setter, marker, block, metagraph, chain, faults>>

----------------------------------------------------------------------------
SubStates == {"EVAL", "EVAL_WIN", "REIGN_SET", "WEIGHT_SET_RUNNING",
              "WEIGHT_SET_RETRYABLE", "COMPLETE_CORONATED"}

EpochStates == {"NONE", "PENDING", "RUNNING", "SUCCESS",
                "FAILED_RETRYABLE", "FAILED_TERMINAL"}

\* cool: FAILED_RETRYABLE for 60 seconds.  The weight hash is (reign, window).
EpochRow == [state : EpochStates, reign : Nat, window : Windows \cup {NoWindow},
             cool : BOOLEAN]
NoEpoch  == [state |-> "NONE", reign |-> NoReign, window |-> NoWindow, cool |-> FALSE]

Metagraphs == [Uids -> Hotkeys]
Answers   == {"success", "rejected", "rate_limited", "exception"}
SetterRow == [pc : {"idle", "claimed", "ready", "answered"}, row : Rows \cup {NoRow},
              trigger : Kings \cup {NoKing}, block : 0..MaxBlock,
              seen : Metagraphs, answer : Answers \cup {"none"}]
Idle      == [pc |-> "idle", row |-> NoRow, trigger |-> NoKing, block |-> 0,
              seen |-> FirstMetagraph, answer |-> "none"]

Whole == 10000   \* all of the weight, in basis points

\* weight_bps_for_member_count
WeightBps(n, slot) == (Whole \div n) + (IF slot <= Whole % n THEN 1 ELSE 0)

Active == Len(reigns)
Lead   == reigns[Active].members[1]

MembersOf(v) == IF v = NoReign THEN <<>> ELSE reigns[v].members

TypeOK ==
  /\ subs \in [Kings -> SubStates]
  /\ reigns \in Seq([members : Seq(Kings), trigger : Kings])
  /\ epochs \in [Rows -> EpochRow]
  /\ promo \in Rows \cup {NoRow}
  /\ setter \in SetterRow
  /\ marker \in (-Rate)..MaxBlock
  /\ block \in 0..MaxBlock
  /\ metagraph \in Metagraphs
  /\ chain \in [set : BOOLEAN, reign : Nat, weights : [Uids -> 0..Whole]]
  /\ faults \in 0..MaxFaults

Init ==
  /\ subs = [k \in Kings |-> IF k = 0 THEN "COMPLETE_CORONATED" ELSE "EVAL"]
  /\ reigns = <<>>
  /\ epochs = [e \in Rows |-> NoEpoch]
  /\ promo = NoRow
  /\ setter = Idle
  /\ marker = -Rate
  /\ block = 0
  /\ metagraph = FirstMetagraph
  /\ chain = [set |-> FALSE, reign |-> NoReign, weights |-> [u \in Uids |-> 0]]
  /\ faults = 0

----------------------------------------------------------------------------
\* Rows of weight_epochs.

\* The next created_at: after every committed row and the open transaction's.
NextRow(e) == /\ e \in Rows /\ e > promo
              /\ \A d \in Rows : d >= e => epochs[d].state = "NONE"
              /\ e - 1 \notin {NoRow, promo} => epochs[e - 1].state # "NONE"

Pending(v, w) == [state |-> "PENDING", reign |-> v, window |-> w, cool |-> FALSE]

Due(e) == \/ epochs[e].state = "PENDING"
          \/ epochs[e].state = "FAILED_RETRYABLE" /\ epochs[e].cool

----------------------------------------------------------------------------
\* Time, registration and the eval stage.

AdvanceBlock ==
  /\ block < MaxBlock
  /\ block' = block + 1
  /\ UNCHANGED <<subs, reigns, epochs, promo, setter, marker, metagraph, chain, faults>>

\* now() passes updated_at + 60 seconds.
CoolDown(e) ==
  /\ epochs[e].state = "FAILED_RETRYABLE" /\ ~epochs[e].cool
  /\ epochs' = [epochs EXCEPT ![e].cool = TRUE]
  /\ UNCHANGED <<subs, reigns, promo, setter, marker, block, metagraph, chain, faults>>

\* Another hotkey registers at the uid.
TakeUid(u, h) ==
  /\ \A v \in Uids : metagraph[v] # h
  /\ \E k \in Kings : HotkeyOf[k] = h /\ UidOf[k] = u
  /\ metagraph' = [metagraph EXCEPT ![u] = h]
  /\ UNCHANGED <<subs, reigns, epochs, promo, setter, marker, block, chain, faults>>

\* One winner at a time, against the king of the moment: EvalControl's claim gate.
WinEval(s) ==
  /\ Active # NoReign
  /\ subs[s] = "EVAL"
  /\ metagraph[UidOf[s]] = HotkeyOf[s]
  /\ \A t \in Winners : subs[t] # "EVAL_WIN"
  /\ subs' = [subs EXCEPT ![s] = "EVAL_WIN"]
  /\ UNCHANGED <<reigns, epochs, promo, setter, marker, block, metagraph, chain, faults>>

----------------------------------------------------------------------------
\* The first reign, of one member, and the epoch that pays it; a second call of the script
\* keeps its reign, and the epoch it inserts meets the first one's hash: DO NOTHING.
GenesisReign ==
  \/ /\ Active = NoReign
     /\ reigns' = <<[members |-> <<0>>, trigger |-> 0]>>
     /\ \E e \in Rows : NextRow(e) /\ epochs' = [epochs EXCEPT ![e] = Pending(1, NoWindow)]
  \/ Active # NoReign /\ UNCHANGED <<reigns, epochs>>

\* create_genesis_king.py, refused once another king leads; its submission is completed.
BootstrapGenesis ==
  /\ Active # NoReign => Lead = 0
  /\ subs' = [subs EXCEPT ![0] = "COMPLETE_CORONATED"]
  /\ GenesisReign
  /\ UNCHANGED <<promo, setter, marker, block, metagraph, chain, faults>>

----------------------------------------------------------------------------
\* promote_next_winner.

\* Mutant: a second model of the same hotkey is not a duplicate.
SameKingMutant(m, c) == m = c

\* Model hashes are unique, so a duplicate is the submission itself or its hotkey.
SameKing(m, c) == m = c \/ HotkeyOf[m] = HotkeyOf[c]

\* The members that are not the challenger, in their order.
Others(members, c) ==
  LET among[n \in 0..Len(members)] ==   \* the first n
        IF n = 0 THEN <<>>
        ELSE IF SameKing(members[n], c) THEN among[n - 1]
        ELSE Append(among[n - 1], members[n])
  IN  among[Len(members)]

\* build_reign_plan: the challenger in slot 1, the others shifted down.
ReignPlan(members, c) ==
  LET others == Others(members, c)
  IN  <<c>> \o SubSeq(others, 1, Min({Len(others), MaxSlots - 1}))

PromotionBegins ==
  /\ promo = NoRow
  /\ \E s \in Winners : subs[s] = "EVAL_WIN"
  /\ \E e \in Rows : NextRow(e) /\ promo' = e
  /\ UNCHANGED <<subs, reigns, epochs, setter, marker, block, metagraph, chain, faults>>

\* What is inserted for the winner: a king version, the next reign with its members, its epoch.
NewReign(s) ==
  /\ reigns' = Append(reigns, [members |-> ReignPlan(reigns[Active].members, s),
                               trigger |-> s])
  /\ epochs' = [epochs EXCEPT ![promo] = Pending(Active + 1, NoWindow)]

PromotionCommits(s) ==
  /\ promo # NoRow
  /\ subs[s] = "EVAL_WIN"
  /\ NewReign(s)
  /\ subs' = [subs EXCEPT ![s] = "REIGN_SET"]
  /\ promo' = NoRow
  /\ UNCHANGED <<setter, marker, block, metagraph, chain, faults>>

PromotionAborts ==
  /\ promo # NoRow
  /\ faults < MaxFaults
  /\ promo' = NoRow
  /\ faults' = faults + 1
  /\ UNCHANGED <<subs, reigns, epochs, setter, marker, block, metagraph, chain>>

----------------------------------------------------------------------------
\* claim_next_epoch: one transaction under the weight_setter lock.

\* Mutant: the limit is one block short.
RateAllowsMutant == block - marker >= Rate - 1

RateAllows == block - marker >= Rate

Claimed(e, trigger) ==
  [Idle EXCEPT !.pc = "claimed", !.row = e, !.trigger = trigger, !.block = block]

\* Mutant: only the pending epochs are superseded.
SupersededMutant(e) == {d \in Rows : d < e /\ epochs[d].state = "PENDING"}

Superseded(e) == {d \in Rows : d < e /\ epochs[d].state \in {"PENDING", "FAILED_RETRYABLE"}}

\* The submission that triggered the epoch's reign, whatever the epoch's reason.
TriggerOf(e) == IF epochs[e].reign = NoReign THEN NoKing ELSE reigns[epochs[e].reign].trigger

\* The newest due epoch supersedes every older one; its submission starts (again).
ClaimNewest(e) ==
  /\ setter.pc = "idle"
  /\ RateAllows
  /\ Due(e)
  /\ \A d \in Rows : d > e => ~Due(d)
  /\ epochs' = [d \in Rows |->
                  IF d = e THEN [epochs[d] EXCEPT !.state = "RUNNING", !.cool = FALSE]
                  ELSE IF d \in Superseded(e)
                  THEN [epochs[d] EXCEPT !.state = "FAILED_TERMINAL", !.cool = FALSE]
                  ELSE epochs[d]]
  /\ subs' = [k \in Kings |-> IF k = TriggerOf(e)
                                 /\ subs[k] \in {"REIGN_SET", "WEIGHT_SET_RETRYABLE"}
                              THEN "WEIGHT_SET_RUNNING" ELSE subs[k]]
  /\ setter' = Claimed(e, TriggerOf(e))
  /\ UNCHANGED <<reigns, promo, marker, block, metagraph, chain, faults>>

\* Mutant: no refresh while an epoch is under way.
NothingDueMutant ==
  \A d \in Rows : epochs[d].state \notin {"PENDING", "RUNNING", "FAILED_RETRYABLE"}

NothingDue == \A d \in Rows : ~Due(d)

Window == block \div Rate

Refreshes(e) == epochs[e].reign = Active /\ epochs[e].window = Window
                /\ epochs[e].state # "NONE"

\* Nothing is due: the ACTIVE reign's epoch of this window, inserted or found again in
\* whatever state it is.  It carries no trigger.
ClaimRefresh(e) ==
  /\ setter.pc = "idle"
  /\ RateAllows
  /\ NothingDue
  /\ \/ Refreshes(e)
     \/ NextRow(e) /\ \A d \in Rows : ~Refreshes(d)
  /\ epochs' = [epochs EXCEPT ![e] = [Pending(Active, Window) EXCEPT !.state = "RUNNING"]]
  /\ setter' = Claimed(e, NoKing)
  /\ UNCHANGED <<subs, reigns, promo, marker, block, metagraph, chain, faults>>

----------------------------------------------------------------------------
\* run_once after the claim.

ReadMetagraph ==
  /\ setter.pc = "claimed"
  /\ setter' = [setter EXCEPT !.pc = "ready", !.seen = metagraph]
  /\ UNCHANGED <<subs, reigns, epochs, promo, marker, block, metagraph, chain, faults>>

\* Mutant: a uid is paid whoever holds it now.
PaidUidMutant(m, seen) == UidOf[m]

PaidUid(m, seen) == IF seen[UidOf[m]] = HotkeyOf[m] THEN UidOf[m] ELSE BurnUid

\* build_weight_payload
Payload(members, seen) ==
  LET share(u) == {i \in DOMAIN members : PaidUid(members[i], seen) = u}
  IN  [u \in Uids |->
        IF members = <<>> THEN IF u = BurnUid THEN Whole ELSE 0
        ELSE MapThenSumSet(LAMBDA i : WeightBps(Len(members), i), share(u))]

Applied == LET v == epochs[setter.row].reign
           IN  [set |-> TRUE, reign |-> v, weights |-> Payload(MembersOf(v), setter.seen)]

\* The chain accepts and says so; or refuses, or the answer is lost, or nothing arrives.
SetWeights ==
  /\ setter.pc = "ready"
  /\ \/ setter' = [setter EXCEPT !.pc = "answered", !.answer = "success"]
        /\ chain' = Applied /\ UNCHANGED faults
     \/ /\ faults < MaxFaults /\ faults' = faults + 1
        /\ \E a \in {"rejected", "rate_limited", "exception"} :
             /\ setter' = [setter EXCEPT !.pc = "answered", !.answer = a]
             /\ \/ UNCHANGED chain
                \/ a = "exception" /\ chain' = Applied
  /\ UNCHANGED <<subs, reigns, epochs, promo, marker, block, metagraph>>

Settle(state, sub, counts) ==
  /\ epochs' = [epochs EXCEPT ![setter.row].state = state, ![setter.row].cool = FALSE]
  /\ subs' = [k \in Kings |-> IF k = setter.trigger THEN sub ELSE subs[k]]
  /\ marker' = IF counts THEN Max({marker, setter.block}) ELSE marker
  /\ setter' = Idle
  /\ UNCHANGED <<reigns, promo, block, metagraph, chain, faults>>

MarkSuccess ==
  /\ setter.pc = "answered" /\ setter.answer = "success"
  /\ Settle("SUCCESS", "COMPLETE_CORONATED", TRUE)

MarkFailed ==
  /\ setter.pc = "answered" /\ setter.answer # "success"
  /\ Settle("FAILED_RETRYABLE", "WEIGHT_SET_RETRYABLE", setter.answer = "rate_limited")

\* The process dies: its epoch stays RUNNING.
SetterCrash ==
  /\ setter.pc # "idle"
  /\ faults < MaxFaults
  /\ setter' = Idle
  /\ faults' = faults + 1
  /\ UNCHANGED <<subs, reigns, epochs, promo, marker, block, metagraph, chain>>

----------------------------------------------------------------------------
SetReign == \/ PromotionBegins
            \/ \E s \in Winners : PromotionCommits(s)
            \/ PromotionAborts

WeightSetter == \/ \E e \in Rows : ClaimNewest(e)
                \/ \E e \in Rows : ClaimRefresh(e)
                \/ ReadMetagraph
                \/ SetWeights
                \/ MarkSuccess
                \/ MarkFailed
                \/ SetterCrash

Environment == \/ AdvanceBlock
               \/ \E e \in Rows : CoolDown(e)
               \/ \E u \in Uids, h \in Hotkeys : TakeUid(u, h)
               \/ \E s \in Winners : WinEval(s)
               \/ BootstrapGenesis

Next == SetReign \/ WeightSetter \/ Environment

Spec == Init /\ [][Next]_vars

\* pm2 keeps both workers running and restarts them, blocks are produced and time
\* passes.  A call the chain refuses is a fault, and faults are finitely many.
Fairness ==
  /\ WF_vars(AdvanceBlock)
  /\ WF_vars(\E e \in Rows : CoolDown(e))
  /\ WF_vars(PromotionBegins) /\ WF_vars(\E s \in Winners : PromotionCommits(s))
  /\ WF_vars(\E e \in Rows : ClaimNewest(e)) /\ WF_vars(\E e \in Rows : ClaimRefresh(e))
  /\ WF_vars(ReadMetagraph) /\ WF_vars(SetWeights)
  /\ WF_vars(MarkSuccess) /\ WF_vars(MarkFailed)

LiveSpec == Spec /\ Fairness
----------------------------------------------------------------------------
(* Safety. *)

\* The reign new, of the challenger c, after the reign old.
Succeeds(old, new, c) ==
  LET at(m) == CHOOSE i \in DOMAIN new : new[i] = m
      kept  == {i \in DOMAIN old : \E j \in DOMAIN new : new[j] = old[i]}
  IN  /\ new[1] = c
      /\ Len(new) <= MaxSlots
      /\ \A i, j \in DOMAIN new : HotkeyOf[new[i]] = HotkeyOf[new[j]] => i = j
      /\ \A i, j \in kept : i < j => at(old[i]) < at(old[j])
      /\ \A i \in DOMAIN old \ kept :
           HotkeyOf[old[i]] = HotkeyOf[c] \/ (i = Len(old) /\ Len(new) = MaxSlots)

\* A promotion shifts the reign down by one: hotkeys stay distinct, survivors keep their
\* order, and a king leaves only for a model of its own hotkey or out of the last slot.
ReignsSucceed ==
  \A v \in 1..(Active - 1) :
    Succeeds(reigns[v].members, reigns[v + 1].members, reigns[v + 1].trigger)

Paid(weights) == MapThenSumSet(LAMBDA u : weights[u], Uids)

\* What is set on the chain is whole, and no uid but the burn uid draws more than one
\* slot's share: a slot whose uid has changed hands is burned, not paid to the new holder.
OneShareEach ==
  chain.set =>
    /\ Paid(chain.weights) = Whole
    /\ \A u \in Uids \ {BurnUid} :
         chain.weights[u] <= WeightBps(Max({1, Len(MembersOf(chain.reign))}), 1)

\* An epoch that succeeded or was superseded is never run again, though a refresh takes
\* over the row of its reign and window in whatever state that is: the rate limit puts
\* the claim after a success into a later window, and only older reigns are superseded.
SettledForGood ==
  [][\A e \in Rows : epochs[e].state \in {"SUCCESS", "FAILED_TERMINAL"} =>
                       epochs'[e].state = epochs[e].state]_vars

\* The chain never goes back to an older reign, but for one race: a refresh of the old
\* reign claimed while the promotion was in flight is the newer row, so the coronation's
\* claim does not supersede it and it may be applied after it.
OnlyARacedRefreshGoesBack ==
  [][chain.set /\ chain'.reign < chain.reign =>
       /\ epochs[setter.row].window # NoWindow
       /\ \E e \in Rows : /\ e < setter.row
                          /\ epochs[e].reign = chain.reign /\ epochs[e].window = NoWindow]_vars

----------------------------------------------------------------------------
(* Liveness. *)

\* The bounds of the model: no block is left at which the rate allows a claim, or no row.
Exhausted == marker + Rate > MaxBlock \/ epochs[MaxEpochs].state # "NONE"

\* Whatever crashes or is refused, the chain catches up with every reign, if only by the
\* periodic refresh that finds the coronation's epoch stuck in RUNNING.
ChainCatchesUp ==
  \A v \in 1..(NumWinners + 1) :
    Active >= v ~> (chain.set /\ chain.reign >= v) \/ Exhausted
=============================================================================
