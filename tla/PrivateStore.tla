---------------------------- MODULE PrivateStore ----------------------------
(***************************************************************************)
(* Submissions whose weights stay private.  A miner commits r2activate,    *)
(* gets credentials for one prefix of the bucket in a sealed envelope,     *)
(* uploads, and commits r2ready; the upload is frozen, verified and turned *)
(* into a submission.  Three processes meet in a row of                    *)
(* private_registrations:                                                  *)
(*                                                                         *)
(*   reader      chain_reader, which applies the signals of every poll     *)
(*               again (private_store.intake)                              *)
(*   ctl         the access controller: a tick moves one row under a row   *)
(*               lock, a sweep closes windows and reaps without one        *)
(*   validation  decides the submission, which may return the attempt      *)
(*                                                                         *)
(* and in things no transaction rolls back: tokens, mailbox and bucket.    *)
(***************************************************************************)
EXTENDS ChainIntake

CONSTANTS
  MaxAttempts,  \* PrivateStoreSettings.max_attempts (+ extra_attempts)
  Stuck         \* hotkeys for whose row every step of a tick raises

ASSUME StoreAssumption ==
  /\ MaxAttempts \in Nat \ {0}
  /\ Stuck \subseteq Hotkeys

VARIABLES
  regs,    \* private_registrations
  queue,   \* the registrations by updated_at, oldest first
  tokens,  \* live parent tokens at Cloudflare, by registration
  mailbox, \* the token in the sealed envelope of each registration, if any
  bucket,  \* what each attempt's prefix holds
  ctl      \* what the access controller holds between two of its steps

storeVars == <<regs, queue, tokens, mailbox, bucket, ctl>>
vars      == <<intakeVars, storeVars>>

----------------------------------------------------------------------------
Attempts == 1..MaxAttempts
Prefixes == Hotkeys \X Attempts
Empty    == "empty"
NoToken  == [id |-> 0, attempt |-> 1]

\* A parent token, by what its temporary credentials open: one attempt's prefix.
Token    == [id : Nat, attempt : Attempts]

RegStates == {"NONE", "ACTIVATED", "CREDENTIALED", "READY", "REVOKED", "SUBMITTED", "FAILED"}

\* sub is 0 while submission_id is NULL, prefix is 0 while model_prefix is.
Registration ==
  [state : RegStates, uid : Uids, attempt : Attempts, block : Nat, key : Keys \cup {Empty},
   token : Token, prefix : Attempts \cup {0}, manifest : Models \cup {Empty},
   ready : Nat, sub : Attempts \cup {0}]

NoRegistration ==
  [state |-> "NONE", uid |-> CHOOSE u \in Uids : TRUE, attempt |-> 1, block |-> 0, key |-> Empty, token |-> NoToken,
   prefix |-> 0, manifest |-> Empty, ready |-> 0, sub |-> 0]

\* A tick works on row, locked; a sweep on the rows of todo, read before, and then on the
\* prefixes of plan.
Locking  == {"mint", "minted", "published", "freeze", "frozen", "verify", "inserted"}
Sweeping == {"close", "wiped", "resubmit", "reset", "inventory", "protect", "reap"}
NoRow    == "none"

Loop == [pc |-> "loop", row |-> NoRow, token |-> NoToken, todo |-> {}, plan |-> {}]

Controller ==
  [pc : {"loop"} \cup Locking \cup Sweeping, row : Hotkeys \cup {NoRow}, token : Token,
   todo : SUBSET Hotkeys, plan : SUBSET Prefixes]

Init ==
  /\ IntakeInit
  /\ regs = [h \in Hotkeys |-> NoRegistration] /\ queue = <<>>
  /\ tokens = [h \in Hotkeys |-> {}] /\ mailbox = [h \in Hotkeys |-> NoToken]
  /\ bucket = [p \in Prefixes |-> Empty]
  /\ ctl = Loop

Locked(h) == ctl.pc \in Locking /\ h = ctl.row

\* updated_at = now(): from its place, if it had one, to the end.
Touch(h) ==
  \/ /\ \A i \in DOMAIN queue : queue[i] # h
     /\ queue' = Append(queue, h)
  \/ \E i \in DOMAIN queue :
       /\ queue[i] = h
       /\ queue' = Append(SubSeq(queue, 1, i - 1) \o SubSeq(queue, i + 1, Len(queue)), h)

\* _prefix_of: model_prefix, or the first attempt's while it is NULL.
PrefixOf(h) == <<h, IF regs[h].prefix = 0 THEN 1 ELSE regs[h].prefix>>

----------------------------------------------------------------------------
(* private_store.intake, in the reader: a poll applies every signal the    *)
(* chain still shows, the oldest ones included.                            *)

Signal == chain[reader.next]

\* Each signal is a transaction; it waits for the row's lock.
Handle(kind) ==
  /\ reader.pc = "signals" /\ reader.next <= reader.view.upto
  /\ Signal.kind = kind
  /\ ~Locked(Signal.hotkey)
  /\ reader' = [reader EXCEPT !.next = @ + 1]
  /\ UNCHANGED <<chainVars, miners, ledger, subs, newest>>
  /\ UNCHANGED <<tokens, mailbox, bucket, ctl>>

Newer(row, block) == block > row.block

\* The UPDATE of _apply_activate: another key while the upload is open, or another
\* attempt after a failure or for a submission that was returned.
MayRekey(row, key) ==
  \/ row.state \in {"ACTIVATED", "CREDENTIALED"} /\ row.key # key
  \/ row.state = "SUBMITTED" /\ row.sub = 0
  \/ row.state = "FAILED"

AttemptsLeft(row) == row.attempt < MaxAttempts

Rekeys(row) ==
  /\ MayRekey(row, Signal.payload)
  /\ Newer(row, reader.next)
  /\ AttemptsLeft(row)

\* _apply_activate: the hotkey is registered at the block of the poll and not ledgered.
\* parent_token_id stays: the next credential revokes it.
ApplyActivate ==
  LET h == Signal.hotkey
      fresh == [NoRegistration EXCEPT !.state = "ACTIVATED", !.uid = SeatOf(h),
                                      !.block = reader.next, !.key = Signal.payload]
      next == [regs[h] EXCEPT !.state = "ACTIVATED", !.attempt = @ + 1, !.prefix = 0,
                              !.block = reader.next, !.key = Signal.payload]
  IN  /\ Handle("activate")
      /\ \/ /\ h \in Holders(reader.view.meta) \ ledger
            /\ regs[h].state = "NONE" \/ Rekeys(regs[h])
            /\ regs' = [regs EXCEPT ![h] = IF @.state = "NONE" THEN fresh ELSE next]
            /\ Touch(h)
         \/ /\ \/ h \notin Holders(reader.view.meta) \ ledger
               \/ regs[h].state # "NONE" /\ ~Rekeys(regs[h])
            /\ UNCHANGED <<regs, queue>>
      /\ UNCHANGED faults

\* _apply_ready.
Readies(row) == row.state = "CREDENTIALED" /\ Newer(row, reader.next)

ApplyReady ==
  LET h == Signal.hotkey
  IN  /\ Handle("ready")
      /\ IF Readies(regs[h])
         THEN /\ regs' = [regs EXCEPT ![h].state = "READY", ![h].manifest = Signal.payload,
                                      ![h].ready = reader.next]
              /\ Touch(h)
         ELSE UNCHANGED <<regs, queue>>
      /\ UNCHANGED faults

\* A public commitment, or a signal whose handler raised: the next poll has it again.
PassOver ==
  /\ \/ Handle("commit") /\ UNCHANGED faults
     \/ Handle("activate") /\ Fault
     \/ Handle("ready") /\ Fault
  /\ UNCHANGED <<regs, queue>>

----------------------------------------------------------------------------
(* The access controller's tick: the oldest row of three states, locked.   *)

TickStates == {"ACTIVATED", "READY", "REVOKED"}
Waiting == {i \in DOMAIN queue : regs[queue[i]].state \in TickStates}

Tick ==
  \E i \in Waiting :
    LET h == queue[i]
    IN  /\ ctl.pc = "loop" /\ \A j \in Waiting : i <= j
        /\ ctl' = [Loop EXCEPT !.row = h,
                     !.pc = CASE regs[h].state = "ACTIVATED" -> "mint"
                              [] regs[h].state = "READY"     -> "freeze"
                              [] OTHER                       -> "verify"]
        /\ UNCHANGED <<intakeVars, regs, queue, tokens, mailbox, bucket>>

\* A step of a tick that succeeds.
InTick(pc, h) == ctl.pc = pc /\ h = ctl.row /\ h \notin Stuck /\ UNCHANGED intakeVars

\* Mutant: the oldest row stays the oldest.
RaisedMutant(h) == UNCHANGED queue

\* The row steps back behind the others.
Raised(h) == Touch(h)

\* A step that raises: what it did outside the transaction stays done.
TickRaises(h) ==
  /\ ctl.pc \in Locking /\ h = ctl.row
  /\ \/ h \in Stuck /\ UNCHANGED faults
     \/ h \notin Stuck /\ Fault
  /\ Raised(h)
  /\ ctl' = Loop
  /\ UNCHANGED <<chainVars, readerVars, subs, newest, regs, tokens, mailbox, bucket>>

FreshId(h) == Min({n \in 1..(Cardinality(tokens[h]) + 2) :
                     n # regs[h].token.id /\ \A t \in tokens[h] : t.id # n})

\* Mutant: orphans of a crash are left alone.
SurvivorsMutant(h) == tokens[h] \ {regs[h].token}

\* revoke_parent_token of the row's, then create_parent_token revokes those of its name.
Survivors(h) == {}

\* _credential, up to the temporary credentials.
MintToken(h) ==
  LET t == [id |-> FreshId(h), attempt |-> regs[h].attempt]
  IN  /\ InTick("mint", h)
      /\ tokens' = [tokens EXCEPT ![h] = Survivors(h) \cup {t}]
      /\ ctl' = [ctl EXCEPT !.pc = "minted", !.token = t]
      /\ UNCHANGED <<regs, queue, mailbox, bucket>>

\* MailboxStore.delete of any stale envelope, publish.
PublishEnvelope(h) ==
  /\ InTick("minted", h)
  /\ mailbox' = [mailbox EXCEPT ![h] = ctl.token]
  /\ ctl' = [ctl EXCEPT !.pc = "published"]
  /\ UNCHANGED <<regs, queue, tokens, bucket>>

CommitCredential(h) ==
  /\ InTick("published", h)
  /\ regs' = [regs EXCEPT ![h].state = "CREDENTIALED", ![h].token = ctl.token,
                          ![h].prefix = regs[h].attempt]
  /\ Touch(h)
  /\ ctl' = Loop
  /\ UNCHANGED <<tokens, mailbox, bucket>>

\* _revoke: the token, then the envelope, then the row.
FreezeUpload(h) ==
  /\ InTick("freeze", h)
  /\ tokens' = [tokens EXCEPT ![h] = @ \ {regs[h].token}]
  /\ mailbox' = [mailbox EXCEPT ![h] = NoToken]
  /\ ctl' = [ctl EXCEPT !.pc = "frozen"]
  /\ UNCHANGED <<regs, queue, bucket>>

CommitRevoked(h) ==
  /\ InTick("frozen", h)
  /\ regs' = [regs EXCEPT ![h].state = "REVOKED"]
  /\ Touch(h)
  /\ ctl' = Loop
  /\ UNCHANGED <<tokens, mailbox, bucket>>

\* verify_manifest: the prefix holds what the ready signal announced.  An upload that fails
\* another of its checks is, here, one that nothing announced matches.
Verified(h) == bucket[PrefixOf(h)] = regs[h].manifest

\* insert_new_commits on another connection of the pool, committed on its own: the uid is
\* the one of the first activation.
VerifyAndInsert(h) ==
  /\ ctl.pc = "verify" /\ h = ctl.row /\ h \notin Stuck
  /\ Verified(h)
  /\ miners' = Upsert(miners, h, regs[h].uid)
  /\ subs' = WithCommit(subs, h, regs[h].manifest, regs[h].attempt)
  /\ newest' = Max({newest, regs[h].ready})
  /\ ctl' = [ctl EXCEPT !.pc = "inserted"]
  /\ UNCHANGED <<chainVars, ledger, reader, faults, regs, queue, tokens, mailbox, bucket>>

CommitSubmitted(h) ==
  /\ InTick("inserted", h)
  /\ regs' = [regs EXCEPT ![h].state = "SUBMITTED", ![h].sub = regs[h].attempt]
  /\ Touch(h)
  /\ ctl' = Loop
  /\ UNCHANGED <<tokens, mailbox, bucket>>

\* ArtifactIntegrityError.
VerifyFails(h) ==
  /\ InTick("verify", h)
  /\ ~Verified(h)
  /\ regs' = [regs EXCEPT ![h].state = "FAILED"]
  /\ Touch(h)
  /\ ctl' = Loop
  /\ UNCHANGED <<tokens, mailbox, bucket>>

----------------------------------------------------------------------------
(* The controller's sweep, between two ticks and without any row's lock.   *)

InSweep(pc) == ctl.pc = pc /\ UNCHANGED intakeVars

SubOf(h) == {s \in subs : s.hotkey = h /\ s.attempt = regs[h].sub /\ regs[h].sub # 0}

\* TERMINAL_INVALID, of a hotkey not barred from validation.
Returnable(st) == st \in {"INVALID", "REUSED"}

Resubmittable ==
  {h \in Hotkeys : /\ regs[h].state = "SUBMITTED" /\ AttemptsLeft(regs[h])
                   /\ \E s \in SubOf(h) : Returnable(s.state)}

Retained == {p \in Prefixes : bucket[p] # Empty}

\* sweep_credentialed: an expired window or an exceeded quota, of any rows at any time.
\* A sweep that has nothing to do is left out.
SweepCredentialed ==
  /\ InSweep("loop")
  /\ \E due \in SUBSET {h \in Hotkeys : regs[h].state = "CREDENTIALED"} :
       /\ due # {} \/ Resubmittable # {} \/ Retained # {}
       /\ ctl' = [Loop EXCEPT !.pc = "close", !.todo = due]
  /\ UNCHANGED <<regs, queue, tokens, mailbox, bucket>>

\* _close_upload_window, its three calls; parent_token_id is still as it was read, since
\* nobody else writes it.
CloseAccess(h) ==
  /\ InSweep("close") /\ h \in ctl.todo
  /\ tokens' = [tokens EXCEPT ![h] = @ \ {regs[h].token}]
  /\ mailbox' = [mailbox EXCEPT ![h] = NoToken]
  /\ ctl' = [ctl EXCEPT !.pc = "wiped", !.row = h, !.todo = @ \ {h}]
  /\ UNCHANGED <<regs, queue, bucket>>

\* Its UPDATE: by id, whatever the reader made of the row since it was read.
CloseRow(h) ==
  /\ InSweep("wiped") /\ h = ctl.row
  /\ regs' = [regs EXCEPT ![h].state = "FAILED"]
  /\ Touch(h)
  /\ ctl' = [ctl EXCEPT !.pc = "close", !.row = NoRow]
  /\ UNCHANGED <<tokens, mailbox, bucket>>

\* resubmit_terminal: the rows, and for each whether its hotkey is barred.
ResubmitTerminal ==
  /\ InSweep("close") /\ ctl.todo = {}
  /\ ctl' = [ctl EXCEPT !.pc = "reset",
               !.todo = Resubmittable]
  /\ UNCHANGED <<regs, queue, tokens, mailbox, bucket>>

\* _reset_for_retry: the attempt is returned, for an activation that is yet to come.
ResetForRetry(h) ==
  /\ InSweep("reset") /\ h \in ctl.todo
  /\ regs' = [regs EXCEPT ![h].block = Max({@, newest}), ![h].token = NoToken,
                          ![h].prefix = 0, ![h].manifest = Empty, ![h].ready = 0,
                          ![h].sub = 0]
  /\ Touch(h)
  /\ ctl' = [ctl EXCEPT !.todo = @ \ {h}]
  /\ UNCHANGED <<tokens, mailbox, bucket>>

\* retained_uploads: what is in the bucket and older than the retention, of any age here.
TakeInventory ==
  /\ InSweep("reset") /\ ctl.todo = {}
  /\ \E old \in SUBSET Retained :
       ctl' = [ctl EXCEPT !.pc = "protect", !.plan = old]
  /\ UNCHANGED <<regs, queue, tokens, mailbox, bucket>>

\* Mutant: the submission's state is not looked up.
NeededMutant(h) == regs[h].state \notin {"NONE", "FAILED", "SUBMITTED"}

\* The WHERE of _protected_prefixes.
Needed(h) ==
  /\ regs[h].state \notin {"NONE", "FAILED"}
  /\ ~(regs[h].state = "SUBMITTED" /\ regs[h].sub = 0)
  /\ \A s \in SubOf(h) : s.state \notin Reapable

Protected == {PrefixOf(h) : h \in {g \in Hotkeys : Needed(g)}}

\* plan_reap.
PlanReap ==
  /\ InSweep("protect")
  /\ ctl' = [ctl EXCEPT !.pc = "reap", !.plan = @ \ Protected]
  /\ UNCHANGED <<regs, queue, tokens, mailbox, bucket>>

\* cleanup_model_prefix; one that raises is left to the next sweep.
ReapOne(p) ==
  /\ InSweep("reap") /\ p \in ctl.plan
  /\ bucket' = [bucket EXCEPT ![p] = Empty]
  /\ ctl' = [ctl EXCEPT !.plan = @ \ {p}]
  /\ UNCHANGED <<regs, queue, tokens, mailbox>>

EndSweep ==
  /\ InSweep("reap") /\ ctl.plan = {}
  /\ ctl' = Loop
  /\ UNCHANGED <<regs, queue, tokens, mailbox, bucket>>

\* The controller dies: in a tick the row is rolled back, in a sweep what is done is done.
\* An exception of a sweep's call has the same end, for run() does not catch it.
ControllerCrashes ==
  /\ ctl # Loop
  /\ Fault
  /\ ctl' = Loop
  /\ UNCHANGED <<chainVars, readerVars, subs, newest, regs, queue, tokens, mailbox, bucket>>

----------------------------------------------------------------------------
(* The miner. *)

\* Who holds credentials writes what and when it likes, until they are revoked.
Upload(h, model) ==
  /\ bucket[<<h, mailbox[h].attempt>>] # model
  /\ mailbox[h] \in tokens[h]
  /\ bucket' = [bucket EXCEPT ![<<h, mailbox[h].attempt>>] = model]
  /\ UNCHANGED <<intakeVars, regs, queue, tokens, mailbox, ctl>>

----------------------------------------------------------------------------
HandleSignals == ApplyActivate \/ ApplyReady \/ PassOver

TickStep ==
  \E h \in Hotkeys :
    \/ MintToken(h) \/ PublishEnvelope(h) \/ CommitCredential(h)
    \/ FreezeUpload(h) \/ CommitRevoked(h)
    \/ VerifyAndInsert(h) \/ CommitSubmitted(h) \/ VerifyFails(h)
    \/ TickRaises(h)

SweepStep ==
  \/ \E h \in Hotkeys : CloseAccess(h) \/ CloseRow(h) \/ ResetForRetry(h)
  \/ \E p \in Prefixes : ReapOne(p)
  \/ ResubmitTerminal \/ TakeInventory \/ PlanReap \/ EndSweep

World ==
  \/ SubnetNext /\ UNCHANGED storeVars
  \/ \E h \in Hotkeys, model \in Models : Upload(h, model)

Next ==
  \/ PollNext /\ UNCHANGED storeVars
  \/ HandleSignals
  \/ Tick \/ TickStep \/ SweepCredentialed \/ SweepStep \/ ControllerCrashes
  \/ World

Spec == Init /\ [][Next]_vars

\* Both processes run on: the reader polls, and the controller's loop takes a tick whenever
\* a row waits, however often it sweeps.
Fairness ==
  /\ WF_vars(PollNext /\ UNCHANGED storeVars) /\ WF_vars(HandleSignals)
  /\ SF_vars(Tick) /\ WF_vars(TickStep) /\ WF_vars(SweepStep)

LiveSpec == Spec /\ Fairness

----------------------------------------------------------------------------
(* Safety. *)

TypeOK ==
  /\ IntakeTypeOK
  /\ regs \in [Hotkeys -> Registration] /\ queue \in Seq(Hotkeys)
  /\ tokens \in [Hotkeys -> SUBSET Token] /\ mailbox \in [Hotkeys -> Token]
  /\ bucket \in [Prefixes -> Models \cup {Empty}]
  /\ ctl \in Controller

\* An upload that is being verified, was submitted or has failed is frozen: no token that
\* opens any prefix of its registration is alive.
FrozenUploads ==
  \A h \in Hotkeys : regs[h].state \in {"REVOKED", "SUBMITTED", "FAILED"} => tokens[h] = {}

\* What is queued for evaluation is still in the bucket, as it was verified.
VerifiedBytesStay ==
  \A s \in subs : s.state = "LIVE" /\ s.attempt > 0 => bucket[<<s.hotkey, s.attempt>>] = s.payload

\* From the first poll on that had what it takes to notice the swap a hotkey came by and got
\* past recording its swaps, no submission of it is accepted, by whichever of the two
\* processes, and whatever polls before failed between one record and the next.
SwappedNeverEnters ==
  [][\A s \in subs' \ subs : s.state = "LIVE" => s.hotkey \notin reader.noticed]_vars

----------------------------------------------------------------------------
(* Liveness. *)

\* An activation is answered although another registration's row never moves.
ActivationAnswered ==
  \A h \in Private \ Stuck : regs[h].state = "ACTIVATED" ~> regs[h].state # "ACTIVATED"
=============================================================================
