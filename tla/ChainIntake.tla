---------------------------- MODULE ChainIntake ----------------------------
(***************************************************************************)
(* What the chain reader makes of the subnet: chain_reader polls a block,  *)
(* compares who holds each uid with the miners it knows, enters hotkeys    *)
(* that came by swap_hotkey in a ledger (chain_guard), and turns public    *)
(* commitments into submissions.  One poll is a row of transactions and    *)
(* may fail after each of them; the next poll starts over.  The            *)
(* commitments of the private store are in PrivateStore.                   *)
(***************************************************************************)
EXTENDS Integers, Sequences, FiniteSets, FiniteSetsExt

CONSTANTS
  Hotkeys,
  Private,      \* hotkeys that submit by the private store, the others in public
  Ownerless,    \* hotkeys whose neuron shows no coldkey when their row is made
  Uids,
  FirstHolder,  \* who holds each uid at first
  Repos,        \* models of public commitments
  Keys,         \* submission keys of activations
  Models,       \* manifests of ready signals
  MaxBlock,     \* bound: commitments, registrations and swaps on the chain
  MaxMoves,     \* bound: registrations and swaps among them
  MaxFaults     \* bound: failed polls, failed steps and crashes

ASSUME ChainAssumption ==
  /\ MaxBlock \in Nat /\ MaxMoves \in Nat /\ MaxFaults \in Nat
  /\ Private \subseteq Hotkeys /\ Ownerless \subseteq Hotkeys
  /\ FirstHolder \in [Uids -> Hotkeys]
  /\ \A u, v \in Uids : FirstHolder[u] = FirstHolder[v] => u = v

VARIABLES
  chain,   \* the revealed commitments, in the order of their blocks
  meta,    \* who holds each uid, since which registration, and (ghost) whom swaps took it from
  owned,   \* hotkeys with an Owner on the chain
  miners,  \* miners rows, the one updated last at the end
  ledger,  \* used_hotkeys
  subs,    \* model_submissions, by hotkey and payload
  newest,  \* the largest chain_commits.block_number
  reader,  \* the poll: its phase, the block it looks at, the swaps it has yet to record, the
           \* signals it has handled, and (ghost) the hotkeys with swaps that it had what it
           \* takes to notice (seen), and that polls recorded (noticed)
  moves, faults

chainVars  == <<chain, meta, owned, moves>>
readerVars == <<miners, ledger, reader>>
intakeVars == <<chain, meta, owned, moves, miners, ledger, reader, subs, newest, faults>>

----------------------------------------------------------------------------
Kinds  == {"commit", "activate", "ready"}
Phases == {"idle", "record", "commits", "signals"}

\* What a commitment of a kind says.
Says(kind) == CASE kind = "commit" -> Repos [] kind = "activate" -> Keys [] OTHER -> Models

\* LIVE: not decided.  INVALID: the hotkey may try again.  REUSED: rejected as it was made,
\* hotkey_swap or hotkey_reused.  CLOSED: lost, failed, or invalid and the hotkey barred.
Reapable  == {"INVALID", "REUSED", "CLOSED"}
SubStates == {"LIVE"} \cup Reapable

Commitment == UNION {[hotkey : Hotkeys, kind : {k}, payload : Says(k)] : k \in Kinds}
Seat       == [holder : Hotkeys, reg : Nat, left : SUBSET Hotkeys]
MinerRow   == [hotkey : Hotkeys, uid : Uids, reg : Nat,  \* reg 0: registration_block NULL
               coldkey : BOOLEAN]                        \* whether it has one
Submission == [hotkey : Hotkeys, payload : Repos \cup Models, attempt : Nat, state : SubStates]

\* What a poll reads of the chain at its block.
View == [meta : [Uids -> Seat], upto : Nat]
Poll == [pc : Phases, view : View, next : Nat,
         swaps : SUBSET Hotkeys, seen : SUBSET Hotkeys, noticed : SUBSET Hotkeys]

Holders(seats) == {seats[u].holder : u \in Uids}

FirstView ==
  [meta  |-> [u \in Uids |-> [holder |-> FirstHolder[u], reg |-> 1, left |-> {}]],
   upto  |-> 0]

\* Between two polls, nothing is held in memory.
Idle == [pc |-> "idle", view |-> FirstView, next |-> 1, swaps |-> {}, seen |-> {}, noticed |-> {}]
Rest == reader' = [Idle EXCEPT !.noticed = reader.noticed]

IntakeInit ==
  /\ chain = <<>> /\ meta = FirstView.meta /\ owned = Holders(meta)
  /\ miners = <<>> /\ ledger = {} /\ subs = {} /\ newest = 0
  /\ reader = Idle
  /\ moves = 0 /\ faults = 0

Fault == faults < MaxFaults /\ faults' = faults + 1

----------------------------------------------------------------------------
(* The subnet. *)

RowsOf(u) == {i \in DOMAIN miners : miners[i].uid = u}

\* load_uid_state: DISTINCT ON (uid), the row updated last.
Known(u, h, reg) ==
  RowsOf(u) # {} /\ LET row == miners[Max(RowsOf(u))] IN row.hotkey = h /\ row.reg = reg

Move(u, seat) ==
  /\ moves < MaxMoves /\ Len(chain) + moves < MaxBlock /\ moves' = moves + 1
  /\ seat.holder \notin Holders(meta)
  /\ meta' = [meta EXCEPT ![u] = seat]
  /\ UNCHANGED <<chain, miners, ledger, reader, subs, newest, faults>>

\* swap_hotkey: the seat keeps its registration, the old hotkey loses its owner.
SwapHotkey(u, h) ==
  LET old == meta[u]
  IN  /\ Move(u, [holder |-> h, reg |-> old.reg,
                  left |-> old.left \cup {old.holder}])
      /\ owned' = (owned \ {old.holder}) \cup {h}

\* A uid is pruned and registered by another hotkey.
RegisterHotkey(u, h) ==
  /\ Move(u, [holder |-> h, reg |-> meta[u].reg + 1, left |-> {}])
  /\ owned' = owned \cup {h}

\* A registered hotkey commits: one model in public, or any number of private signals.
Commit(h, kind, p) ==
  /\ Len(chain) + moves < MaxBlock
  /\ h \in Holders(meta)
  /\ IF h \in Private THEN kind # "commit"
     ELSE kind = "commit" /\ \A i \in DOMAIN chain : chain[i].hotkey # h
  /\ chain' = Append(chain, [hotkey |-> h, kind |-> kind, payload |-> p])
  /\ UNCHANGED <<meta, owned, moves, miners, ledger, reader, subs, newest, faults>>

----------------------------------------------------------------------------
(* chain_reader.reader.run, one poll. *)

\* Mutant: confirm_swaps asks for the new hotkey's owner.
SwappedMutant(u) ==
  LET seat == meta[u]
      row  == miners[Max(RowsOf(u))]
  IN  /\ RowsOf(u) # {}
      /\ row.hotkey # seat.holder /\ row.reg # 0 /\ row.reg = seat.reg
      /\ seat.holder \notin owned

\* find_swaps: the same registration block under another hotkey.
Swapped(u) ==
  LET seat == meta[u]
      row  == miners[Max(RowsOf(u))]
  IN  /\ RowsOf(u) # {}
      /\ row.hotkey # seat.holder /\ row.reg # 0 /\ row.reg = seat.reg
      /\ row.hotkey \notin owned  \* confirm_swaps

\* The row of the uid still names a hotkey of this registration that was swapped away, and
\* which has not come back since.
Noticeable(u) == \E h \in meta[u].left \ owned : Known(u, h, meta[u].reg)

\* get_current_block, metagraph_snapshot; load_uid_state; find_swaps, confirm_swaps.  The
\* chain is read at one block throughout, and what it does while the rows are loaded could
\* as well come after.
FindSwaps ==
  /\ reader.pc = "idle"
  /\ reader' = [pc |-> "record", next |-> 1, view |-> [meta |-> meta, upto |-> Len(chain)],
                swaps |-> {meta[u].holder : u \in {v \in Uids : Swapped(v)}},
                seen |-> {meta[u].holder : u \in {v \in Uids : Noticeable(v)}},
                noticed |-> reader.noticed]
  /\ UNCHANGED <<chainVars, miners, ledger, subs, newest, faults>>

\* record_swaps: each in a transaction of its own.
RecordSwap(h) ==
  /\ reader.pc = "record" /\ h \in reader.swaps
  /\ ledger' = ledger \cup {h}
  /\ reader' = [reader EXCEPT !.swaps = @ \ {h}]
  /\ UNCHANGED <<chainVars, miners, subs, newest, faults>>

\* refresh_registration_blocks: by hotkey, and without touching updated_at.
Refreshed(row) ==
  LET seats == {u \in Uids : reader.view.meta[u].holder = row.hotkey}
  IN  IF seats = {} THEN row
      ELSE [row EXCEPT !.reg = reader.view.meta[CHOOSE u \in seats : TRUE].reg]

\* The swaps of this poll are recorded by now.
RefreshRegistrationBlocks ==
  /\ reader.pc = "record" /\ reader.swaps = {}
  /\ miners' = [i \in DOMAIN miners |-> Refreshed(miners[i])]
  /\ reader' = [reader EXCEPT !.pc = "commits", !.seen = {}, !.noticed = @ \cup reader.seen]
  /\ UNCHANGED <<chainVars, ledger, subs, newest, faults>>

\* chain_guard.db.is_used: a ledgered hotkey's submission is rejected as it is made.
Accepted(h) == IF h \in ledger THEN "REUSED" ELSE "LIVE"

\* insert_new_commits for one commit: one submission per hotkey and payload.
WithCommit(all, h, p, n) ==
  IF \E s \in all : s.hotkey = h /\ s.payload = p /\ s.attempt = n THEN all
  ELSE all \cup {[hotkey |-> h, payload |-> p, attempt |-> n, state |-> Accepted(h)]}

\* The row of h counts as just updated.
Updated(rows, h, row) ==
  LET other(r) == r.hotkey # h IN Append(SelectSeq(rows, other), row)

Rows(rows, h) == {rows[i] : i \in {j \in DOMAIN rows : rows[j].hotkey = h}}

\* The miners upsert of the same transaction.
Upsert(rows, h, u) ==
  LET new == [hotkey |-> h, uid |-> u, reg |-> 0, coldkey |-> h \notin Ownerless]
      old == CHOOSE row \in Rows(rows, h) : TRUE
  IN  Updated(rows, h, IF Rows(rows, h) = {} THEN new ELSE [old EXCEPT !.uid = u])

\* scan_commitments at the block of the snapshot, insert_new_commits.  A commit whose
\* hotkey holds no uid is skipped, and found again by every later poll.
ScannedCommits ==
  {i \in 1..reader.view.upto :
     chain[i].kind = "commit" /\ chain[i].hotkey \in Holders(reader.view.meta)}

SeatOf(h) == CHOOSE u \in Uids : reader.view.meta[u].holder = h

InsertNewCommits ==
  LET hit == ScannedCommits
      row[n \in 0..reader.view.upto] ==
        IF n = 0 THEN miners
        ELSE IF n \in hit THEN Upsert(row[n - 1], chain[n].hotkey, SeatOf(chain[n].hotkey))
        ELSE row[n - 1]
  IN  /\ reader.pc = "commits"
      /\ miners' = row[reader.view.upto]
      /\ subs' = subs \cup UNION {WithCommit(subs, chain[i].hotkey, chain[i].payload, 0) : i \in hit}
      /\ newest' = Max({newest} \cup hit)
      /\ reader' = [reader EXCEPT !.pc = "signals"]
      /\ UNCHANGED <<chainVars, ledger, faults>>

\* resolve_missing_coldkeys: the registered hotkeys, and set_coldkey touches their rows.
Missing ==
  {h \in Holders(reader.view.meta) : \E row \in Rows(miners, h) : ~row.coldkey}

Handled == reader.pc = "signals" /\ reader.next > reader.view.upto

SetColdkey(h) ==
  /\ Handled /\ h \in Missing
  /\ \E row \in Rows(miners, h) : miners' = Updated(miners, h, [row EXCEPT !.coldkey = TRUE])
  /\ UNCHANGED <<chainVars, ledger, reader, subs, newest, faults>>

\* The poll has handled its signals.
EndPoll ==
  /\ Handled /\ Missing = {}
  /\ Rest
  /\ UNCHANGED <<chainVars, miners, ledger, subs, newest, faults>>

\* "tick failed - retrying", or a restart, after any of its transactions.
PollFails ==
  /\ reader.pc # "idle"
  /\ Fault
  /\ Rest
  /\ UNCHANGED <<chainVars, miners, ledger, subs, newest>>

----------------------------------------------------------------------------
\* Validation and evaluation decide a submission; here, any way they can, and of a private hotkey:
\* how one made in public ends is read by nothing in intake.
Decide(s, st) ==
  /\ s.state = "LIVE" /\ s.hotkey \in Private /\ st \in Reapable \ {"REUSED"}
  /\ subs' = (subs \ {s}) \cup {[s EXCEPT !.state = st]}
  /\ UNCHANGED <<chainVars, readerVars, newest, faults>>

SubnetNext ==
  \/ \E u \in Uids, h \in Hotkeys : SwapHotkey(u, h) \/ RegisterHotkey(u, h)
  \/ \E h \in Hotkeys, k \in Kinds : \E p \in Says(k) : Commit(h, k, p)
  \/ \E s \in subs, st \in SubStates : Decide(s, st)

PollNext ==
  \/ FindSwaps \/ RefreshRegistrationBlocks \/ InsertNewCommits
  \/ \E h \in Hotkeys : RecordSwap(h) \/ SetColdkey(h)
  \/ EndPoll \/ PollFails

----------------------------------------------------------------------------
IntakeTypeOK ==
  /\ chain \in Seq(Commitment) /\ newest \in Nat
  /\ meta \in [Uids -> Seat] /\ owned \subseteq Hotkeys
  /\ miners \in Seq(MinerRow) /\ ledger \subseteq Hotkeys
  /\ subs \subseteq Submission
  /\ reader \in Poll /\ reader.view.upto <= Len(chain)
  /\ moves \in Nat /\ faults \in Nat
=============================================================================
