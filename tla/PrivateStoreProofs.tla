------------------------- MODULE PrivateStoreProofs -------------------------
(***************************************************************************)
(* FrozenUploads, VerifiedBytesStay and SwappedNeverEnters of PrivateStore,*)
(* proved for any number of hotkeys, uids, moves, attempts, blocks and     *)
(* faults.                                                                 *)
(***************************************************************************)
EXTENDS PrivateStore, SequenceTheorems, TLAPS

----------------------------------------------------------------------------
(* The inductive invariant. *)

\* Rows, tokens, the queue and the controller have the fields the steps write.
Shape ==
  /\ regs = [h \in Hotkeys |-> regs[h]]
  /\ \A h \in Hotkeys : {"state", "token", "sub"} \subseteq DOMAIN regs[h]
  /\ tokens = [h \in Hotkeys |-> tokens[h]]
  /\ queue \in Seq(Hotkeys)
  /\ ctl = [pc |-> ctl.pc, row |-> ctl.row, token |-> ctl.token, todo |-> ctl.todo, plan |-> ctl.plan]

\* Before the freeze only the token the row names can be alive.
OwnTokens ==
  \A h \in Hotkeys : regs[h].state \in {"CREDENTIALED", "READY"} => tokens[h] \subseteq {regs[h].token}

\* What the controller's next step takes for granted of the row it works on: nobody else
\* mints, and the reader readies or rekeys only rows that are not locked.
TickHolds ==
  LET h == ctl.row IN
  ctl.pc \in Locking =>
    /\ h \in Hotkeys
    /\ ctl.pc \in {"mint", "minted", "published"} => regs[h].state = "ACTIVATED"
    /\ ctl.pc \in {"minted", "published"} => tokens[h] \subseteq {ctl.token}
    /\ ctl.pc \in {"freeze", "frozen"} => regs[h].state = "READY"
    /\ ctl.pc = "frozen" => tokens[h] = {}
    /\ ctl.pc \in {"verify", "inserted"} => regs[h].state = "REVOKED"

\* A window that is being closed was open when it was read: the reader may have rekeyed or
\* readied the row since, with the same token.
SweepHolds ==
  /\ ctl.pc \in {"close", "wiped"} =>
       \A h \in ctl.todo : /\ h \in Hotkeys
                           /\ regs[h].state \in {"ACTIVATED", "CREDENTIALED", "READY"}
                           /\ tokens[h] \subseteq {regs[h].token}
  /\ ctl.pc = "wiped" => /\ ctl.row \in Hotkeys \ ctl.todo
                         /\ tokens[ctl.row] = {}
                         /\ regs[ctl.row].state \in {"ACTIVATED", "CREDENTIALED", "READY"}
  /\ ctl.pc = "reset" =>
       \A h \in ctl.todo : h \in Hotkeys /\ regs[h].state = "SUBMITTED" /\ regs[h].sub # 0

IInv == Shape /\ FrozenUploads /\ OwnTokens /\ TickHolds /\ SweepHolds

LEMMA InitIInv == Init => IInv
  <1> SUFFICES ASSUME Init PROVE IInv
    OBVIOUS
  <1>1. \A h \in Hotkeys : /\ regs[h].state = "NONE" /\ tokens[h] = {}
                           /\ {"state", "token", "sub"} \subseteq DOMAIN regs[h]
    BY DEF Init, NoRegistration
  <1>2. ctl.pc = "loop" /\ "loop" \notin Locking
    BY DEF Init, Loop, Locking
  <1>3. Shape
    BY <1>1 DEF Init, Shape, Loop
  <1>4. QED
    BY <1>1, <1>2, <1>3 DEF IInv, FrozenUploads, OwnTokens, TickHolds, SweepHolds

\* A step that touches neither a row nor a token nor the controller.
LEMMA RowsKept ==
  ASSUME IInv, UNCHANGED <<regs, tokens, queue, ctl>>
  PROVE  IInv'
  BY DEF IInv, Shape, FrozenUploads, OwnTokens, TickHolds, SweepHolds

\* A row that is touched is one of the queue's afterwards.
LEMMA TouchType ==
  ASSUME queue \in Seq(Hotkeys), NEW h \in Hotkeys, Touch(h)
  PROVE  queue' \in Seq(Hotkeys)
  <1>1. CASE queue' = Append(queue, h)
    BY <1>1
  <1>2. ASSUME NEW i \in DOMAIN queue,
               queue' = Append(SubSeq(queue, 1, i - 1) \o SubSeq(queue, i + 1, Len(queue)), h)
        PROVE  queue' \in Seq(Hotkeys)
    <2>1. /\ SubSeq(queue, 1, i - 1) \in Seq(Hotkeys)
          /\ SubSeq(queue, i + 1, Len(queue)) \in Seq(Hotkeys)
      BY SubSeqProperties
    <2>2. QED
      BY <1>2, <2>1
  <1>3. QED
    BY <1>1, <1>2 DEF Touch

----------------------------------------------------------------------------
(* The chain, as far as it says whose row a signal is about. *)

ChainTyped ==
  /\ chain \in Seq(Commitment) /\ meta \in [Uids -> Seat]
  /\ reader \in Poll /\ reader.view.upto <= Len(chain) /\ reader.next # 0

----------------------------------------------------------------------------
(* The reader: it changes a row that no tick has locked, and no token. *)

LEMMA ReaderInv ==
  ASSUME IInv, NEW h \in Hotkeys, NEW row, NEW key, ~Locked(h), Touch(h),
         regs' = [regs EXCEPT ![h] = row], UNCHANGED <<tokens, ctl>>,
         {"state", "token", "sub"} \subseteq DOMAIN row,
         \/ row.state = "ACTIVATED" /\ (regs[h].state = "NONE" \/ MayRekey(regs[h], key))
         \/ row.state = "READY" /\ regs[h].state = "CREDENTIALED",
         regs[h].state # "NONE" => row.token = regs[h].token
  PROVE  IInv'
  <1>0. Shape'
    BY TouchType DEF IInv, Shape
  <1>1. FrozenUploads'
    BY DEF IInv, Shape, FrozenUploads
  <1>2. OwnTokens'
    BY DEF IInv, Shape, OwnTokens
  <1>3. TickHolds'
    BY DEF IInv, Shape, TickHolds, Locked
  <1>4. SweepHolds'
    BY DEF IInv, Shape, SweepHolds, MayRekey
  <1>5. QED
    BY <1>0, <1>1, <1>2, <1>3, <1>4 DEF IInv

\* Whoever signals is a hotkey.
LEMMA SignalType ==
  ASSUME ChainTyped, NEW kind, Handle(kind)
  PROVE  Signal \in Commitment /\ Signal.hotkey \in Hotkeys
  <1>1. reader.next \in 1..Len(chain)
    BY DEF ChainTyped, Handle, Poll, View
  <1>2. Signal \in Commitment
    BY <1>1 DEF ChainTyped, Signal
  <1>3. QED
    BY <1>2 DEF Commitment

LEMMA ActivateInv == ASSUME IInv, ChainTyped, ApplyActivate PROVE IInv'
  <1> DEFINE h == Signal.hotkey
             fresh == [NoRegistration EXCEPT !.state = "ACTIVATED", !.uid = SeatOf(h),
                                             !.block = reader.next, !.key = Signal.payload]
             next == [regs[h] EXCEPT !.state = "ACTIVATED", !.attempt = @ + 1, !.prefix = 0,
                                     !.block = reader.next, !.key = Signal.payload]
             row == IF regs[h].state = "NONE" THEN fresh ELSE next
  <1>0. h \in Hotkeys
    BY SignalType DEF ApplyActivate
  <1>1. CASE UNCHANGED <<regs, queue>>
    BY <1>1, RowsKept DEF ApplyActivate, Handle
  <1>2. CASE /\ regs[h].state = "NONE" \/ Rekeys(regs[h])
             /\ regs' = [regs EXCEPT ![h] = IF @.state = "NONE" THEN fresh ELSE next]
             /\ Touch(h)
    <2>1. /\ {"state", "token", "sub"} \subseteq DOMAIN row
          /\ row.state = "ACTIVATED" /\ (regs[h].state # "NONE" => row.token = regs[h].token)
      BY <1>0 DEF IInv, Shape, NoRegistration
    <2>2. regs[h].state = "NONE" \/ MayRekey(regs[h], Signal.payload)
      BY <1>2 DEF Rekeys
    <2>3. regs' = [regs EXCEPT ![h] = row]
      BY <1>2, <1>0 DEF IInv, Shape
    <2>4. ~Locked(h) /\ Touch(h) /\ UNCHANGED <<tokens, ctl>>
      BY <1>2 DEF ApplyActivate, Handle
    <2> HIDE DEF row, h
    <2>5. QED
      BY <1>0, <2>1, <2>2, <2>3, <2>4, ReaderInv
  <1>3. QED
    BY <1>1, <1>2 DEF ApplyActivate

LEMMA ReadyInv == ASSUME IInv, ChainTyped, ApplyReady PROVE IInv'
  <1> DEFINE h == Signal.hotkey
             row == [[[regs[h] EXCEPT !.state = "READY"] EXCEPT !.manifest = Signal.payload]
                      EXCEPT !.ready = reader.next]
  <1>0. h \in Hotkeys
    BY SignalType DEF ApplyReady
  <1>1. CASE ~Readies(regs[h])
    BY <1>1, RowsKept DEF ApplyReady, Handle
  <1>2. CASE Readies(regs[h])
    <2>1. /\ {"state", "token", "sub"} \subseteq DOMAIN row
          /\ row.state = "READY" /\ row.token = regs[h].token
      BY <1>0 DEF IInv, Shape
    <2>2. regs[h].state = "CREDENTIALED"
      BY <1>2 DEF Readies
    <2>3. regs' = [regs EXCEPT ![h] = row]
      BY <1>2, <1>0 DEF IInv, Shape, ApplyReady
    <2>4. ~Locked(h) /\ Touch(h) /\ UNCHANGED <<tokens, ctl>>
      BY <1>2 DEF ApplyReady, Handle
    <2> HIDE DEF row, h
    <2>5. QED
      BY <1>0, <2>1, <2>2, <2>3, <2>4, ReaderInv
  <1>3. QED
    BY <1>1, <1>2

----------------------------------------------------------------------------
(* The controller's tick. *)

LEMMA TickInv == ASSUME IInv, Tick PROVE IInv'
  <1>1. PICK i \in Waiting :
          /\ ctl' = [Loop EXCEPT !.row = queue[i],
                       !.pc = CASE regs[queue[i]].state = "ACTIVATED" -> "mint"
                                [] regs[queue[i]].state = "READY"     -> "freeze"
                                [] OTHER                              -> "verify"]
          /\ UNCHANGED <<regs, queue, tokens>>
    BY DEF Tick
  <1>2. queue[i] \in Hotkeys /\ regs[queue[i]].state \in TickStates
    BY DEF Waiting, IInv, Shape
  <1>3. ctl' = [Loop EXCEPT !.row = queue[i], !.pc = ctl'.pc] /\ ctl'.pc \in {"mint", "freeze", "verify"}
    BY <1>1 DEF Loop
  <1>4. /\ ctl'.row = queue[i]
        /\ ctl'.pc = "mint" => regs[queue[i]].state = "ACTIVATED"
        /\ ctl'.pc = "freeze" => regs[queue[i]].state = "READY"
        /\ ctl'.pc = "verify" => regs[queue[i]].state = "REVOKED"
    BY <1>1, <1>2 DEF Loop, TickStates
  <1>5. Shape'
    BY <1>1, <1>3 DEF IInv, Shape, Loop
  <1>6. QED
    BY <1>1, <1>2, <1>3, <1>4, <1>5 DEF IInv, FrozenUploads, OwnTokens, TickHolds, SweepHolds

LEMMA MintTokenInv == ASSUME IInv, NEW h \in Hotkeys, MintToken(h) PROVE IInv'
  <1> DEFINE t == [id |-> FreshId(h), attempt |-> regs[h].attempt]
  <1>1. /\ h = ctl.row /\ regs[h].state = "ACTIVATED" /\ UNCHANGED <<regs, queue>>
        /\ ctl' = [ctl EXCEPT !.pc = "minted", !.token = t]
        /\ tokens' = [tokens EXCEPT ![h] = {t}]
    BY DEF MintToken, InTick, Survivors, IInv, TickHolds, Locking
  <1> HIDE DEF t
  <1>2. Shape'
    BY <1>1 DEF IInv, Shape
  <1>3. ctl'.pc = "minted" /\ ctl'.token = t /\ ctl'.row = h /\ tokens'[h] = {t}
    BY <1>1 DEF IInv, Shape
  <1>4. QED
    BY <1>1, <1>2, <1>3 DEF IInv, Shape, FrozenUploads, OwnTokens, TickHolds, SweepHolds

LEMMA PublishEnvelopeInv == ASSUME IInv, NEW h \in Hotkeys, PublishEnvelope(h) PROVE IInv'
  BY DEF PublishEnvelope, InTick, Locking, IInv, Shape, FrozenUploads, OwnTokens, TickHolds, SweepHolds

LEMMA FreezeUploadInv == ASSUME IInv, NEW h \in Hotkeys, FreezeUpload(h) PROVE IInv'
  <1>1. /\ h = ctl.row /\ regs[h].state = "READY" /\ tokens[h] \subseteq {regs[h].token}
        /\ UNCHANGED <<regs, queue>> /\ ctl' = [ctl EXCEPT !.pc = "frozen"]
        /\ tokens' = [tokens EXCEPT ![h] = @ \ {regs[h].token}]
    BY DEF FreezeUpload, InTick, IInv, TickHolds, OwnTokens, Locking
  <1>2. Shape'
    BY <1>1 DEF IInv, Shape
  <1>3. ctl'.pc = "frozen" /\ ctl'.row = h /\ tokens'[h] = {}
    BY <1>1 DEF IInv, Shape
  <1>4. QED
    BY <1>1, <1>2, <1>3 DEF IInv, Shape, FrozenUploads, OwnTokens, TickHolds, SweepHolds

LEMMA VerifyAndInsertInv == ASSUME IInv, NEW h \in Hotkeys, VerifyAndInsert(h) PROVE IInv'
  BY DEF VerifyAndInsert, Locking, IInv, Shape, FrozenUploads, OwnTokens, TickHolds, SweepHolds

\* The row a tick commits, or a closed window.
LEMMA CommitInv ==
  ASSUME IInv, NEW h \in Hotkeys, NEW row, Touch(h),
         regs' = [regs EXCEPT ![h] = row], UNCHANGED tokens,
         {"state", "token", "sub"} \subseteq DOMAIN row,
         row.state \in {"REVOKED", "SUBMITTED", "FAILED"} => tokens[h] = {},
         row.state \in {"CREDENTIALED", "READY"} => tokens[h] \subseteq {row.token},
         ctl' = Loop
  PROVE  IInv'
  <1>1. Shape'
    BY TouchType DEF IInv, Shape, Loop
  <1>2. ctl'.pc = "loop" /\ "loop" \notin Locking
    BY DEF Loop, Locking
  <1>3. QED
    BY <1>1, <1>2 DEF IInv, Shape, FrozenUploads, OwnTokens, TickHolds, SweepHolds

LEMMA CommitCredentialInv == ASSUME IInv, NEW h \in Hotkeys, CommitCredential(h) PROVE IInv'
  <1> DEFINE row == [[[regs[h] EXCEPT !.state = "CREDENTIALED"] EXCEPT !.token = ctl.token]
                      EXCEPT !.prefix = regs[h].attempt]
  <1>1. /\ Touch(h) /\ ctl' = Loop /\ UNCHANGED tokens
        /\ regs' = [regs EXCEPT ![h] = row] /\ tokens[h] \subseteq {ctl.token}
    BY DEF CommitCredential, InTick, Locking, IInv, TickHolds, Shape
  <1>2. /\ {"state", "token", "sub"} \subseteq DOMAIN row
        /\ row.state = "CREDENTIALED" /\ row.token = ctl.token
    BY DEF IInv, Shape
  <1> HIDE DEF row
  <1>3. QED
    BY <1>1, <1>2, CommitInv

LEMMA CommitRevokedInv == ASSUME IInv, NEW h \in Hotkeys, CommitRevoked(h) PROVE IInv'
  <1> DEFINE row == [regs[h] EXCEPT !.state = "REVOKED"]
  <1>1. /\ Touch(h) /\ ctl' = Loop /\ UNCHANGED tokens
        /\ regs' = [regs EXCEPT ![h] = row] /\ tokens[h] = {}
    BY DEF CommitRevoked, InTick, Locking, IInv, TickHolds, Shape
  <1>2. /\ {"state", "token", "sub"} \subseteq DOMAIN row /\ row.state = "REVOKED"
    BY DEF IInv, Shape
  <1> HIDE DEF row
  <1>3. QED
    BY <1>1, <1>2, CommitInv

LEMMA CommitSubmittedInv == ASSUME IInv, NEW h \in Hotkeys, CommitSubmitted(h) PROVE IInv'
  <1> DEFINE row == [[regs[h] EXCEPT !.state = "SUBMITTED"] EXCEPT !.sub = regs[h].attempt]
  <1>1. /\ Touch(h) /\ ctl' = Loop /\ UNCHANGED tokens
        /\ regs' = [regs EXCEPT ![h] = row] /\ tokens[h] = {}
    BY DEF CommitSubmitted, InTick, Locking, IInv, TickHolds, FrozenUploads, Shape
  <1>2. /\ {"state", "token", "sub"} \subseteq DOMAIN row /\ row.state = "SUBMITTED"
    BY DEF IInv, Shape
  <1> HIDE DEF row
  <1>3. QED
    BY <1>1, <1>2, CommitInv

LEMMA VerifyFailsInv == ASSUME IInv, NEW h \in Hotkeys, VerifyFails(h) PROVE IInv'
  <1> DEFINE row == [regs[h] EXCEPT !.state = "FAILED"]
  <1>1. /\ Touch(h) /\ ctl' = Loop /\ UNCHANGED tokens
        /\ regs' = [regs EXCEPT ![h] = row] /\ tokens[h] = {}
    BY DEF VerifyFails, InTick, Locking, IInv, TickHolds, FrozenUploads, Shape
  <1>2. /\ {"state", "token", "sub"} \subseteq DOMAIN row /\ row.state = "FAILED"
    BY DEF IInv, Shape
  <1> HIDE DEF row
  <1>3. QED
    BY <1>1, <1>2, CommitInv

\* The controller is back in its loop, with rows and tokens as they were.
LEMMA LoopInv ==
  ASSUME IInv, UNCHANGED <<regs, tokens>>, queue' \in Seq(Hotkeys), ctl' = Loop
  PROVE  IInv'
  <1>1. ctl'.pc = "loop" /\ "loop" \notin Locking /\ Shape'
    BY DEF Loop, Locking, IInv, Shape
  <1>2. QED
    BY <1>1 DEF IInv, FrozenUploads, OwnTokens, TickHolds, SweepHolds

LEMMA TickRaisesInv == ASSUME IInv, NEW h \in Hotkeys, TickRaises(h) PROVE IInv'
  BY LoopInv, TouchType DEF TickRaises, Raised, IInv, Shape

----------------------------------------------------------------------------
(* The controller's sweep. *)

\* A sweep's own step: rows and tokens stay, and what it has read is right.
LEMMA SweepPlanInv ==
  ASSUME IInv, UNCHANGED <<regs, queue, tokens>>, Shape', ctl'.pc \in Sweeping, SweepHolds'
  PROVE  IInv'
  <1>1. ctl'.pc \notin Locking
    BY DEF Sweeping, Locking
  <1>2. QED
    BY <1>1 DEF IInv, FrozenUploads, OwnTokens, TickHolds

LEMMA SweepCredentialedInv == ASSUME IInv, SweepCredentialed PROVE IInv'
  <1>1. PICK due \in SUBSET {h \in Hotkeys : regs[h].state = "CREDENTIALED"} :
          ctl' = [Loop EXCEPT !.pc = "close", !.todo = due]
    BY DEF SweepCredentialed
  <1>2. UNCHANGED <<regs, queue, tokens>>
    BY DEF SweepCredentialed
  <1>3. Shape' /\ ctl'.pc = "close" /\ ctl'.todo = due
    BY <1>1, <1>2 DEF IInv, Shape, Loop
  <1>4. SweepHolds'
    BY <1>2, <1>3 DEF SweepHolds, IInv, OwnTokens
  <1>5. ctl'.pc \in Sweeping
    <2>1. ctl'.pc = "close"
      BY <1>3
    <2>2. QED
      BY ONLY <2>1 DEF Sweeping
  <1>6. QED
    BY <1>2, <1>3, <1>4, <1>5, SweepPlanInv, Zenon

LEMMA CloseAccessInv == ASSUME IInv, NEW h \in Hotkeys, CloseAccess(h) PROVE IInv'
  <1>1. /\ h \in ctl.todo /\ UNCHANGED <<regs, queue>>
        /\ regs[h].state \in {"ACTIVATED", "CREDENTIALED", "READY"}
        /\ tokens[h] \subseteq {regs[h].token}
        /\ tokens' = [tokens EXCEPT ![h] = @ \ {regs[h].token}]
        /\ ctl' = [ctl EXCEPT !.pc = "wiped", !.row = h, !.todo = @ \ {h}]
    BY DEF CloseAccess, InSweep, IInv, SweepHolds
  <1>2. ctl' = [pc |-> "wiped", row |-> h, token |-> ctl.token, todo |-> ctl.todo \ {h},
                plan |-> ctl.plan]
    BY <1>1 DEF IInv, Shape
  <1>3. ctl.pc = "close" /\ ctl'.pc = "wiped" /\ ctl'.row = h /\ ctl'.todo = ctl.todo \ {h}
    BY <1>2 DEF CloseAccess, InSweep
  <1>4. tokens'[h] = {} /\ \A g \in Hotkeys \ {h} : tokens'[g] = tokens[g]
    BY <1>1 DEF IInv, Shape
  <1>5. tokens' = [g \in Hotkeys |-> tokens'[g]]
    BY <1>1 DEF IInv, Shape
  <1>6. Shape'
    BY <1>1, <1>2, <1>5 DEF IInv, Shape
  <1>7. ctl'.pc \notin Locking
    BY <1>3 DEF Locking
  <1>8. FrozenUploads' /\ OwnTokens'
    BY <1>1, <1>3, <1>4 DEF IInv, FrozenUploads, OwnTokens
  <1>9. TickHolds'
    BY <1>7 DEF TickHolds
  <1>10. SweepHolds'
    BY <1>1, <1>3, <1>4 DEF IInv, SweepHolds
  <1>11. QED
    BY <1>6, <1>8, <1>9, <1>10 DEF IInv

LEMMA CloseRowInv == ASSUME IInv, NEW h \in Hotkeys, CloseRow(h) PROVE IInv'
  <1> DEFINE row == [regs[h] EXCEPT !.state = "FAILED"]
  <1>1. /\ Touch(h) /\ UNCHANGED tokens /\ regs' = [regs EXCEPT ![h] = row]
        /\ ctl.pc = "wiped" /\ h = ctl.row /\ tokens[h] = {} /\ h \notin ctl.todo
        /\ ctl' = [ctl EXCEPT !.pc = "close", !.row = NoRow]
    BY DEF CloseRow, InSweep, IInv, Shape, SweepHolds
  <1>2. {"state", "token", "sub"} \subseteq DOMAIN row /\ row.state = "FAILED"
    BY DEF IInv, Shape
  <1> HIDE DEF row
  <1>3. /\ regs'[h] = row /\ \A g \in Hotkeys \ {h} : regs'[g] = regs[g]
        /\ regs' = [g \in Hotkeys |-> regs'[g]]
    BY <1>1 DEF IInv, Shape
  <1>4. ctl' = [pc |-> "close", row |-> NoRow, token |-> ctl.token, todo |-> ctl.todo,
                plan |-> ctl.plan]
    BY <1>1 DEF IInv, Shape
  <1>5. ctl'.pc = "close" /\ ctl'.todo = ctl.todo
    BY <1>4
  <1>6. queue' \in Seq(Hotkeys)
    BY <1>1, TouchType DEF IInv, Shape
  <1>7. Shape'
    BY <1>1, <1>2, <1>3, <1>4, <1>6 DEF IInv, Shape
  <1>8. ctl'.pc \notin Locking
    BY <1>5 DEF Locking
  <1>9. FrozenUploads' /\ OwnTokens'
    BY <1>1, <1>2, <1>3 DEF IInv, FrozenUploads, OwnTokens
  <1>10. TickHolds'
    BY <1>8 DEF TickHolds
  <1>11. SweepHolds'
    BY <1>1, <1>2, <1>3, <1>5 DEF IInv, SweepHolds
  <1>12. QED
    BY <1>7, <1>9, <1>10, <1>11 DEF IInv

LEMMA ResubmitTerminalInv == ASSUME IInv, ResubmitTerminal PROVE IInv'
  <1>1. UNCHANGED <<regs, queue, tokens>> /\ ctl' = [ctl EXCEPT !.pc = "reset", !.todo = Resubmittable]
    BY DEF ResubmitTerminal
  <1>2. Shape' /\ ctl'.pc = "reset" /\ ctl'.todo = Resubmittable
    BY <1>1 DEF IInv, Shape
  <1>3. SweepHolds'
    BY <1>1, <1>2 DEF SweepHolds, Resubmittable, SubOf
  <1>4. QED
    BY <1>1, <1>2, <1>3, SweepPlanInv DEF Sweeping

LEMMA ResetForRetryInv == ASSUME IInv, NEW h \in Hotkeys, ResetForRetry(h) PROVE IInv'
  <1>1. /\ Touch(h) /\ UNCHANGED tokens /\ ctl.pc = "reset" /\ h \in ctl.todo
        /\ ctl' = [ctl EXCEPT !.todo = @ \ {h}]
        /\ regs[h].state = "SUBMITTED" /\ tokens[h] = {}
    BY DEF ResetForRetry, InSweep, IInv, SweepHolds, FrozenUploads
  <1>2. PICK row : /\ regs' = [regs EXCEPT ![h] = row] /\ row.state = "SUBMITTED"
                   /\ {"state", "token", "sub"} \subseteq DOMAIN row
    <2> DEFINE row == [[[[[[regs[h] EXCEPT !.block = Max({@, newest})] EXCEPT !.token = NoToken]
                          EXCEPT !.prefix = 0] EXCEPT !.manifest = Empty] EXCEPT !.ready = 0]
                        EXCEPT !.sub = 0]
    <2>1. row.state = "SUBMITTED" /\ {"state", "token", "sub"} \subseteq DOMAIN row
      BY <1>1 DEF IInv, Shape
    <2>2. regs' = [regs EXCEPT ![h] = row]
      BY DEF IInv, Shape, ResetForRetry
    <2>3. QED
      BY <2>1, <2>2
  <1>3. Shape' /\ ctl'.pc = "reset" /\ ctl'.todo = ctl.todo \ {h}
    BY <1>1, <1>2, TouchType DEF IInv, Shape
  <1>4. ctl'.pc \notin Locking
    BY <1>3 DEF Locking
  <1>5. QED
    BY <1>1, <1>2, <1>3, <1>4 DEF IInv, Shape, FrozenUploads, OwnTokens, TickHolds, SweepHolds

\* From the inventory on, a sweep is about prefixes only.
LEMMA ReapInv == ASSUME IInv, TakeInventory \/ PlanReap \/ EndSweep \/ \E p \in Prefixes : ReapOne(p)
                 PROVE  IInv'
  <1>1. UNCHANGED <<regs, queue, tokens>>
    BY DEF TakeInventory, PlanReap, EndSweep, ReapOne
  <1>2. CASE EndSweep
    BY <1>1, <1>2, LoopInv DEF EndSweep, IInv, Shape
  <1>3. CASE ~EndSweep
    <2>1. Shape' /\ ctl'.pc \in {"protect", "reap"}
      BY <1>1, <1>3 DEF TakeInventory, PlanReap, ReapOne, InSweep, IInv, Shape
    <2>2. SweepHolds'
      BY <2>1 DEF SweepHolds
    <2>3. QED
      BY <1>1, <2>1, <2>2, SweepPlanInv DEF Sweeping
  <1>4. QED
    BY <1>2, <1>3

----------------------------------------------------------------------------
(* All steps. *)

LEMMA StepIInv == ASSUME IInv, ChainTyped, [Next]_vars PROVE IInv'
  <1>1. CASE HandleSignals
    <2>1. CASE PassOver
      BY <2>1, RowsKept DEF PassOver, Handle
    <2>2. QED
      BY <1>1, <2>1, ActivateInv, ReadyInv DEF HandleSignals
  <1>2. CASE TickStep
    BY <1>2, MintTokenInv, PublishEnvelopeInv, CommitCredentialInv, FreezeUploadInv, CommitRevokedInv,
       VerifyAndInsertInv, CommitSubmittedInv, VerifyFailsInv, TickRaisesInv DEF TickStep
  <1>3. CASE SweepStep
    BY <1>3, CloseAccessInv, CloseRowInv, ResubmitTerminalInv, ResetForRetryInv, ReapInv DEF SweepStep
  <1>4. CASE ControllerCrashes
    BY <1>4, LoopInv DEF ControllerCrashes, IInv, Shape
  <1>5. CASE World \/ (PollNext /\ UNCHANGED storeVars) \/ UNCHANGED vars
    BY <1>5, RowsKept DEF World, Upload, storeVars, vars
  <1>6. QED
    BY <1>1, <1>2, <1>3, <1>4, <1>5, TickInv, SweepCredentialedInv DEF Next

----------------------------------------------------------------------------
(* The chain keeps its type: it grows, and a poll looks at a prefix of it. *)

LEMMA InitChainTyped == ASSUME ChainAssumption, Init PROVE ChainTyped
  <1>1. FirstView \in View
    BY DEF ChainAssumption, FirstView, View, Seat
  <1>2. QED
    BY <1>1 DEF Init, IntakeInit, ChainTyped, Idle, Poll, Phases, View, FirstView

LEMMA IdleType == ASSUME ChainAssumption PROVE Idle \in Poll /\ Idle.view.upto = 0 /\ Idle.next = 1
  BY DEF ChainAssumption, FirstView, View, Seat, Idle, Poll, Phases

LEMMA SubnetChainTyped == ASSUME ChainTyped, SubnetNext PROVE ChainTyped'
  <1>1. ASSUME NEW u \in Uids, NEW h \in Hotkeys, SwapHotkey(u, h) \/ RegisterHotkey(u, h)
        PROVE  ChainTyped'
    <2>1. PICK seat \in Seat : Move(u, seat)
      <3>1. CASE SwapHotkey(u, h)
        <4>1. meta[u] \in Seat
          BY DEF ChainTyped
        <4>2. meta[u].reg \in Nat /\ meta[u].left \subseteq Hotkeys /\ meta[u].holder \in Hotkeys
          BY <4>1 DEF Seat
        <4>3. meta[u].left \cup {meta[u].holder} \in SUBSET Hotkeys
          BY <4>2
        <4> DEFINE seat == [holder |-> h, reg |-> meta[u].reg,
                            left |-> meta[u].left \cup {meta[u].holder}]
        <4>4. Move(u, seat)
          BY <3>1 DEF SwapHotkey
        <4>5. seat \in Seat
          BY <4>2, <4>3 DEF Seat
        <4> HIDE DEF seat
        <4>6. QED
          BY <4>4, <4>5
      <3>2. CASE RegisterHotkey(u, h)
        <4> DEFINE seat == [holder |-> h, reg |-> meta[u].reg + 1, left |-> {}]
        <4>1. Move(u, seat)
          BY <3>2 DEF RegisterHotkey
        <4>2. seat \in Seat
          BY DEF ChainTyped, Seat
        <4> HIDE DEF seat
        <4>3. QED
          BY <4>1, <4>2
      <3>3. QED
        BY <1>1, <3>1, <3>2
    <2>2. QED
      BY <2>1 DEF Move, ChainTyped
  <1>2. ASSUME NEW h \in Hotkeys, NEW k \in Kinds, NEW p \in Says(k), Commit(h, k, p)
        PROVE  ChainTyped'
    <2>1. [hotkey |-> h, kind |-> k, payload |-> p] \in Commitment
      BY DEF Commitment
    <2>2. chain' \in Seq(Commitment) /\ Len(chain') = Len(chain) + 1
      BY <1>2, <2>1 DEF Commit, ChainTyped
    <2>3. QED
      BY <1>2, <2>2 DEF Commit, ChainTyped, Poll, View
  <1>3. ASSUME NEW s \in subs, NEW st \in SubStates, Decide(s, st)
        PROVE  ChainTyped'
    BY <1>3 DEF Decide, ChainTyped, chainVars, readerVars
  <1>4. QED
    BY <1>1, <1>2, <1>3 DEF SubnetNext

LEMMA PollChainTyped == ASSUME ChainAssumption, ChainTyped, PollNext PROVE ChainTyped'
  <1>1. CASE FindSwaps
    <2>1. \A u \in Uids : meta[u].holder \in Hotkeys
      BY DEF ChainTyped, Seat
    <2>2. PICK found \in SUBSET Hotkeys, evident \in SUBSET Hotkeys :
            reader' = [pc |-> "record", next |-> 1, view |-> [meta |-> meta, upto |-> Len(chain)],
                       swaps |-> found, seen |-> evident, noticed |-> reader.noticed]
      <3>1. /\ {meta[u].holder : u \in {v \in Uids : Swapped(v)}} \in SUBSET Hotkeys
            /\ {meta[u].holder : u \in {v \in Uids : Noticeable(v)}} \in SUBSET Hotkeys
        BY <2>1, Zenon
      <3>2. QED
        BY <1>1, <3>1, Zenon DEF FindSwaps
    <2>3. UNCHANGED <<chain, meta>>
      BY <1>1 DEF FindSwaps, chainVars
    <2>4. reader' \in Poll
      BY <2>2 DEF ChainTyped, Poll, View, Phases
    <2>5. QED
      BY <2>2, <2>3, <2>4 DEF ChainTyped
  <1>2. CASE RefreshRegistrationBlocks \/ InsertNewCommits
    <2>1. UNCHANGED <<chain, meta>>
      BY <1>2 DEF RefreshRegistrationBlocks, InsertNewCommits, chainVars
    <2>2. PICK pc \in Phases, evident \in SUBSET Hotkeys, known \in SUBSET Hotkeys :
            reader' = [reader EXCEPT !.pc = pc, !.seen = evident, !.noticed = known]
      <3>1. /\ reader.seen \in SUBSET Hotkeys /\ reader.noticed \in SUBSET Hotkeys
            /\ reader.noticed \cup reader.seen \in SUBSET Hotkeys
            /\ {} \in SUBSET Hotkeys /\ "commits" \in Phases /\ "signals" \in Phases
        BY DEF ChainTyped, Poll, Phases
      <3>2. CASE RefreshRegistrationBlocks
        BY <3>1, <3>2 DEF RefreshRegistrationBlocks
      <3>3. CASE InsertNewCommits
        <4>1. reader' = [reader EXCEPT !.pc = "signals", !.seen = reader.seen,
                                       !.noticed = reader.noticed]
          BY <3>3 DEF InsertNewCommits, ChainTyped, Poll
        <4>2. QED
          BY <3>1, <4>1
      <3>4. QED
        BY <1>2, <3>2, <3>3
    <2>3. QED
      BY <2>1, <2>2 DEF ChainTyped, Poll
  <1>3. CASE EndPoll \/ PollFails
    BY <1>3, IdleType DEF EndPoll, PollFails, Rest, ChainTyped, Poll, chainVars
  <1>4. ASSUME NEW h \in Hotkeys, RecordSwap(h) PROVE ChainTyped'
    BY <1>4 DEF RecordSwap, ChainTyped, Poll, chainVars
  <1>5. ASSUME NEW h \in Hotkeys, SetColdkey(h) PROVE ChainTyped'
    BY <1>5 DEF SetColdkey, ChainTyped, chainVars
  <1>6. QED
    BY <1>1, <1>2, <1>3, <1>4, <1>5 DEF PollNext

LEMMA StoreChainTyped ==
  ASSUME ChainTyped, HandleSignals \/ UNCHANGED <<chainVars, reader>>
  PROVE  ChainTyped'
  <1>1. ASSUME NEW kind, Handle(kind) PROVE ChainTyped'
    <2>1. UNCHANGED <<chain, meta>> /\ reader' = [reader EXCEPT !.next = @ + 1]
      BY <1>1 DEF Handle, chainVars
    <2>2. reader.next + 1 \in Nat /\ reader.next + 1 # 0
      BY DEF ChainTyped, Poll
    <2>3. QED
      BY <2>1, <2>2 DEF ChainTyped, Poll
  <1>2. QED
    BY <1>1 DEF HandleSignals, ApplyActivate, ApplyReady, PassOver, ChainTyped, chainVars

\* The controller leaves the chain and the reader's state alone.
LEMMA ControllerKeepsChain ==
  ASSUME Tick \/ TickStep \/ SweepCredentialed \/ SweepStep \/ ControllerCrashes
  PROVE  UNCHANGED <<chainVars, ledger, reader>>
  <1>1. CASE TickStep
    <2>1. CASE \E h \in Hotkeys : VerifyAndInsert(h) \/ TickRaises(h)
      BY <2>1 DEF VerifyAndInsert, TickRaises, readerVars
    <2>2. QED
      BY <1>1, <2>1 DEF TickStep, InTick, MintToken, PublishEnvelope, CommitCredential,
         FreezeUpload, CommitRevoked, CommitSubmitted, VerifyFails, intakeVars, chainVars
  <1>2. CASE Tick \/ SweepCredentialed \/ SweepStep \/ ControllerCrashes
    BY <1>2 DEF Tick, SweepCredentialed, SweepStep, ControllerCrashes, InSweep, CloseAccess,
       CloseRow, ResubmitTerminal, ResetForRetry, TakeInventory, PlanReap, ReapOne, EndSweep,
       intakeVars, readerVars, chainVars
  <1>3. QED
    BY <1>1, <1>2

LEMMA StepChainTyped == ASSUME ChainAssumption, ChainTyped, [Next]_vars PROVE ChainTyped'
  <1>1. CASE Tick \/ TickStep \/ SweepCredentialed \/ SweepStep \/ ControllerCrashes
    <2>1. UNCHANGED <<chainVars, reader>>
      BY <1>1, ControllerKeepsChain
    <2>2. QED
      BY <2>1, StoreChainTyped
  <1>2. CASE World
    BY <1>2, SubnetChainTyped, StoreChainTyped DEF World, Upload, intakeVars, chainVars
  <1>3. CASE UNCHANGED vars
    BY <1>3, StoreChainTyped DEF vars, intakeVars, chainVars
  <1>4. QED
    BY <1>1, <1>2, <1>3, PollChainTyped, StoreChainTyped DEF Next

----------------------------------------------------------------------------
\* A poll never looks beyond the chain, whatever is committed, swapped or registered while it runs.
THEOREM SpecChainTyped == Spec => []ChainTyped
  <1>1. Init => ChainTyped
    BY InitChainTyped, ChainAssumption
  <1>2. ChainTyped /\ [Next]_vars => ChainTyped'
    BY StepChainTyped, ChainAssumption
  <1>3. QED
    BY <1>1, <1>2, PTL DEF Spec

\* An upload that is being verified, was submitted or has failed is frozen: whatever the
\* reader applies again, and wherever a tick or a sweep raises or dies, no token for it lives.
THEOREM SpecFrozenUploads == Spec => []FrozenUploads
  <1>1. ChainTyped /\ IInv /\ [Next]_vars => IInv'
    BY StepIInv
  <1>2. IInv => FrozenUploads
    BY DEF IInv
  <1>3. QED
    BY InitIInv, <1>1, <1>2, SpecChainTyped, PTL DEF Spec

----------------------------------------------------------------------------
(* The inductive invariant, beside IInv. *)

\* A row counts its attempts, and names the prefix and the submission of the current one.
RowCounts(row) ==
  /\ {"state", "token", "sub", "attempt", "prefix", "manifest"} \subseteq DOMAIN row
  /\ row.attempt \in Attempts
  /\ row.state = "NONE" => row.attempt = 1
  /\ row.state # "SUBMITTED" => row.sub = 0
  /\ row.state \in {"CREDENTIALED", "READY", "REVOKED"} => row.prefix = row.attempt
  /\ row.state = "SUBMITTED" /\ row.sub # 0 => row.sub = row.attempt /\ row.prefix = row.attempt

SubTyped(s) ==
  /\ s = [hotkey |-> s.hotkey, payload |-> s.payload, attempt |-> s.attempt, state |-> s.state]
  /\ s.hotkey \in Hotkeys /\ s.attempt \in Nat

\* An attempt has one submission, although the row that made it may be rolled back.
OneSub(all) ==
  \A s, t \in all :
    s.hotkey = t.hotkey /\ s.attempt = t.attempt /\ s.attempt # 0 => s = t

\* No submission is ahead of its row; one of the current attempt was verified, and while the
\* row has not recorded that, it can only be verified again with the same bytes.
Follows(s, row) ==
  s.attempt # 0 =>
    /\ s.attempt <= row.attempt
    /\ s.attempt = row.attempt => row.state \in {"REVOKED", "SUBMITTED"}
    /\ s.attempt = row.attempt /\ row.state = "REVOKED" =>
         s.payload = row.manifest /\ bucket[<<s.hotkey, s.attempt>>] = s.payload
    /\ s.state = "LIVE" =>
         /\ s.attempt = row.attempt /\ bucket[<<s.hotkey, s.attempt>>] = s.payload
         /\ row.state = "SUBMITTED" => row.sub = s.attempt

BytesHeld ==
  /\ bucket = [p \in Prefixes |-> bucket[p]]
  /\ \A h \in Hotkeys : RowCounts(regs[h])
  /\ \A s \in subs : SubTyped(s) /\ Follows(s, regs[s.hotkey])
  /\ OneSub(subs)

\* The row is verified, or its submission waits: its prefix is in use.
InUse(h) ==
  \/ regs[h].state = "REVOKED"
  \/ \E s \in SubOf(h) : s.state = "LIVE"

\* What a sweep holds of submissions it read before.
PlanHolds ==
  /\ ctl.pc = "reset" => \A h \in ctl.todo : \E s \in SubOf(h) : Returnable(s.state)
  /\ ctl.pc = "reap" => \A h \in Hotkeys : InUse(h) => <<h, regs[h].attempt>> \notin ctl.plan

BInv == BytesHeld /\ PlanHolds

LEMMA InitBInv == ASSUME Init, ChainAssumption, StoreAssumption PROVE BInv
  <1>1. \A h \in Hotkeys : RowCounts(regs[h])
    BY DEF Init, NoRegistration, RowCounts, Attempts, StoreAssumption
  <1>2. subs = {} /\ ctl.pc = "loop"
    BY DEF Init, IntakeInit, Loop
  <1>3. bucket = [p \in Prefixes |-> bucket[p]]
    BY DEF Init
  <1>4. QED
    BY <1>1, <1>2, <1>3 DEF BInv, BytesHeld, OneSub, PlanHolds

\* Rows, submissions, bucket and controller stay.
LEMMA BytesKept ==
  ASSUME BInv, UNCHANGED <<regs, subs, bucket, ctl>>
  PROVE  BInv'
  BY DEF BInv, BytesHeld, RowCounts, SubTyped, Follows, OneSub, PlanHolds, InUse, SubOf

\* One row changes, and the submissions of its hotkey still follow it.
LEMMA RowMoves ==
  ASSUME Shape, BytesHeld, NEW h \in Hotkeys, NEW row, RowCounts(row),
         regs' = [regs EXCEPT ![h] = row], UNCHANGED <<subs, bucket>>,
         \A s \in subs : s.hotkey = h => Follows(s, row)
  PROVE  BytesHeld'
  <1>1. /\ regs'[h] = row
        /\ \A g \in Hotkeys : g # h => regs'[g] = regs[g]
    BY DEF Shape
  <1>2. \A g \in Hotkeys : RowCounts(regs'[g])
    BY <1>1 DEF BytesHeld
  <1>3. ASSUME NEW s \in subs PROVE SubTyped(s)' /\ Follows(s, regs[s.hotkey])'
    <2>1. SubTyped(s) /\ s.hotkey \in Hotkeys /\ Follows(s, regs'[s.hotkey])
      BY <1>1 DEF BytesHeld, SubTyped
    <2>2. QED
      BY <2>1 DEF SubTyped, Follows
  <1>4. QED
    BY <1>2, <1>3 DEF BytesHeld, OneSub, RowCounts

\* Rows and submissions stay, what is in the bucket under verified rows too.
LEMMA BucketMoves ==
  ASSUME BytesHeld, UNCHANGED <<regs, subs>>, bucket' = [p \in Prefixes |-> bucket'[p]],
         \A s \in subs : s.attempt # 0 /\ s.attempt = regs[s.hotkey].attempt
                           /\ (regs[s.hotkey].state = "REVOKED" \/ s.state = "LIVE") =>
           bucket'[<<s.hotkey, s.attempt>>] = bucket[<<s.hotkey, s.attempt>>]
  PROVE  BytesHeld'
  <1>1. ASSUME NEW s \in subs PROVE SubTyped(s)' /\ Follows(s, regs[s.hotkey])'
    BY DEF BytesHeld, SubTyped, Follows
  <1>2. QED
    BY <1>1 DEF BytesHeld, OneSub, RowCounts

----------------------------------------------------------------------------
(* The reader. *)

LEMMA ReaderBytes ==
  ASSUME IInv, BInv, NEW h \in Hotkeys, NEW row, RowCounts(row),
         regs' = [regs EXCEPT ![h] = row], UNCHANGED <<subs, bucket, ctl>>,
         row.state \in {"ACTIVATED", "READY"},
         \/ row.attempt = regs[h].attempt /\ regs[h].state \notin {"REVOKED", "SUBMITTED"}
         \/ row.attempt = regs[h].attempt + 1
              /\ (regs[h].state # "REVOKED" /\ ~(regs[h].state = "SUBMITTED" /\ regs[h].sub # 0))
  PROVE  BInv'
  <1>1. BytesHeld'
    <2>1. ASSUME NEW s \in subs, s.hotkey = h PROVE Follows(s, row)
      <3>1. Follows(s, regs[h]) /\ s.attempt \in Nat /\ regs[h].attempt \in Nat
        BY <2>1 DEF BInv, BytesHeld, SubTyped, RowCounts, Attempts
      <3>2. s.attempt # 0 => s.attempt # row.attempt /\ s.attempt <= row.attempt /\ s.state # "LIVE"
        BY <3>1, <2>1 DEF Follows
      <3>3. QED
        BY <3>2 DEF Follows
    <2>2. QED
      BY <2>1, RowMoves DEF IInv, BInv
  <1>2. /\ regs'[h] = row
        /\ \A g \in Hotkeys : g # h => regs'[g] = regs[g]
    BY DEF IInv, Shape
  <1>3. \A g \in Hotkeys : g # h => SubOf(g)' = SubOf(g)
    BY <1>2 DEF SubOf
  <1>4. SubOf(h)' = {}
    BY <1>2 DEF SubOf, RowCounts
  <1>5. ctl.pc = "reset" => h \notin ctl.todo
    BY DEF IInv, SweepHolds
  <1>6. PlanHolds'
    BY <1>2, <1>3, <1>4, <1>5 DEF PlanHolds, InUse, BInv, IInv, SweepHolds
  <1>7. QED
    BY <1>1, <1>6 DEF BInv

LEMMA ActivateBytes == ASSUME IInv, ChainTyped, BInv, ApplyActivate PROVE BInv'
  <1> DEFINE h == Signal.hotkey
             fresh == [NoRegistration EXCEPT !.state = "ACTIVATED", !.uid = SeatOf(h),
                                             !.block = reader.next, !.key = Signal.payload]
             next == [regs[h] EXCEPT !.state = "ACTIVATED", !.attempt = @ + 1, !.prefix = 0,
                                     !.block = reader.next, !.key = Signal.payload]
             row == IF regs[h].state = "NONE" THEN fresh ELSE next
  <1>0. h \in Hotkeys /\ UNCHANGED <<subs, bucket, ctl>>
    BY SignalType DEF ApplyActivate, Handle
  <1>1. CASE UNCHANGED <<regs, queue>>
    BY <1>0, <1>1, BytesKept
  <1>2. CASE /\ regs[h].state = "NONE" \/ Rekeys(regs[h])
             /\ regs' = [regs EXCEPT ![h] = IF @.state = "NONE" THEN fresh ELSE next]
    <2>1. RowCounts(regs[h]) /\ regs' = [regs EXCEPT ![h] = row]
      BY <1>0, <1>2 DEF BInv, BytesHeld, IInv, Shape
    <2>2. CASE regs[h].state = "NONE"
      <3>1. RowCounts(row) /\ row.state = "ACTIVATED" /\ row.attempt = regs[h].attempt
        BY <2>1, <2>2 DEF RowCounts, NoRegistration
      <3> HIDE DEF row, h
      <3>2. QED
        BY <1>0, <2>1, <2>2, <3>1, ReaderBytes
    <2>3. CASE regs[h].state # "NONE"
      <3>1. MayRekey(regs[h], Signal.payload) /\ regs[h].attempt < MaxAttempts
        BY <1>2, <2>3 DEF Rekeys, AttemptsLeft
      <3>2. RowCounts(row) /\ row.state = "ACTIVATED" /\ row.attempt = regs[h].attempt + 1
        BY <2>1, <2>3, <3>1, StoreAssumption DEF RowCounts, Attempts, MayRekey
      <3>3. regs[h].state # "REVOKED" /\ ~(regs[h].state = "SUBMITTED" /\ regs[h].sub # 0)
        BY <3>1 DEF MayRekey
      <3> HIDE DEF row, h
      <3>4. QED
        BY <1>0, <2>1, <3>2, <3>3, ReaderBytes
    <2>4. QED
      BY <2>2, <2>3
  <1>3. QED
    BY <1>1, <1>2 DEF ApplyActivate

LEMMA ReadyBytes == ASSUME IInv, ChainTyped, BInv, ApplyReady PROVE BInv'
  <1> DEFINE h == Signal.hotkey
             row == [[[regs[h] EXCEPT !.state = "READY"] EXCEPT !.manifest = Signal.payload]
                      EXCEPT !.ready = reader.next]
  <1>0. h \in Hotkeys /\ UNCHANGED <<subs, bucket, ctl>>
    BY SignalType DEF ApplyReady, Handle
  <1>1. CASE ~Readies(regs[h])
    BY <1>0, <1>1, BytesKept DEF ApplyReady
  <1>2. CASE Readies(regs[h])
    <2>1. RowCounts(regs[h]) /\ regs[h].state = "CREDENTIALED"
      BY <1>0, <1>2 DEF BInv, BytesHeld, Readies
    <2>2. RowCounts(row) /\ row.state = "READY" /\ row.attempt = regs[h].attempt
      BY <2>1 DEF RowCounts
    <2>3. regs' = [regs EXCEPT ![h] = row]
      BY <1>2, <1>0 DEF IInv, Shape, ApplyReady
    <2> HIDE DEF row, h
    <2>4. QED
      BY <1>0, <2>1, <2>2, <2>3, ReaderBytes
  <1>3. QED
    BY <1>1, <1>2

----------------------------------------------------------------------------
(* The submissions: public ones have no attempt, decided ones are no longer live. *)

LEMMA InsertBytes == ASSUME IInv, ChainTyped, BInv, InsertNewCommits, UNCHANGED storeVars PROVE BInv'
  <1>1. /\ subs \subseteq subs' /\ UNCHANGED <<regs, bucket, ctl>>
        /\ subs' = subs \cup UNION {WithCommit(subs, chain[i].hotkey, chain[i].payload, 0) :
                                     i \in ScannedCommits}
    BY DEF InsertNewCommits, storeVars
  <1>2. ASSUME NEW s \in subs', s \notin subs PROVE SubTyped(s) /\ s.attempt = 0
    <2>1. PICK i \in ScannedCommits : s \in WithCommit(subs, chain[i].hotkey, chain[i].payload, 0)
      BY <1>1, <1>2
    <2>2. s = [hotkey |-> chain[i].hotkey, payload |-> chain[i].payload, attempt |-> 0,
               state |-> Accepted(chain[i].hotkey)]
      BY <1>2, <2>1 DEF WithCommit
    <2>3. chain[i] \in Commitment
      BY DEF ScannedCommits, ChainTyped, Poll, View
    <2>4. chain[i].hotkey \in Hotkeys
      BY <2>3 DEF Commitment
    <2>5. QED
      BY <2>2, <2>4 DEF SubTyped
  <1>3. ASSUME NEW s \in subs' PROVE SubTyped(s)' /\ Follows(s, regs[s.hotkey])'
    BY <1>1, <1>2 DEF BInv, BytesHeld, SubTyped, Follows
  <1>4. OneSub(subs')
    BY <1>2 DEF BInv, BytesHeld, OneSub
  <1>5. BytesHeld'
    BY <1>1, <1>3, <1>4 DEF BInv, BytesHeld, RowCounts, OneSub
  <1>6. \A h \in Hotkeys : SubOf(h)' = SubOf(h)
    BY <1>1, <1>2 DEF SubOf
  <1>7. QED
    BY <1>1, <1>5, <1>6 DEF BInv, PlanHolds, InUse, IInv, SweepHolds

LEMMA DecideBytes ==
  ASSUME IInv, BInv, NEW s \in subs, NEW st, Decide(s, st), UNCHANGED storeVars
  PROVE  BInv'
  <1> DEFINE t == [s EXCEPT !.state = st]
  <1>1. /\ subs' = (subs \ {s}) \cup {t} /\ s.state = "LIVE" /\ st # "LIVE"
        /\ UNCHANGED <<regs, bucket, ctl>>
    BY DEF Decide, storeVars, Reapable
  <1>2. SubTyped(s) /\ Follows(s, regs[s.hotkey])
    BY DEF BInv, BytesHeld
  <1>3. /\ SubTyped(t) /\ t.hotkey = s.hotkey /\ t.attempt = s.attempt /\ t.payload = s.payload
        /\ t.state = st
    BY <1>2 DEF SubTyped
  <1> HIDE DEF t
  <1>4. Follows(t, regs[t.hotkey])
    BY <1>1, <1>2, <1>3 DEF Follows
  <1>5. ASSUME NEW r \in subs' PROVE SubTyped(r)' /\ Follows(r, regs[r.hotkey])'
    BY <1>1, <1>3, <1>4 DEF BInv, BytesHeld, SubTyped, Follows
  <1>6. OneSub(subs')
    BY <1>1, <1>3 DEF BInv, BytesHeld, OneSub
  <1>7. BytesHeld'
    BY <1>1, <1>5, <1>6 DEF BInv, BytesHeld, RowCounts, OneSub
  <1>8. ASSUME NEW h \in Hotkeys, ctl.pc = "reset", h \in ctl.todo
        PROVE  \E r \in SubOf(h)' : Returnable(r.state)
    <2>1. PICK r \in SubOf(h) : Returnable(r.state)
      BY <1>8 DEF BInv, PlanHolds
    <2>2. r # s /\ r \in SubOf(h)'
      BY <1>1, <2>1 DEF SubOf, Returnable
    <2>3. QED
      BY <2>1, <2>2
  <1>9. ASSUME NEW h \in Hotkeys, InUse(h)' PROVE InUse(h)
    BY <1>1, <1>3, <1>9 DEF InUse, SubOf
  <1>10. PlanHolds'
    BY <1>1, <1>8, <1>9 DEF PlanHolds, BInv, IInv, SweepHolds
  <1>11. QED
    BY <1>7, <1>10 DEF BInv

----------------------------------------------------------------------------
(* The controller's tick, and the windows a sweep closes. *)

LEMMA LoopPlan == ASSUME ctl'.pc \notin {"reset", "reap"} PROVE PlanHolds'
  BY DEF PlanHolds

LEMMA LoopPc == ctl' = Loop => ctl'.pc = "loop"
  BY DEF Loop

\* A row that the controller holds moves on.
LEMMA RowBytes ==
  ASSUME IInv, BInv, NEW h \in Hotkeys, NEW row, RowCounts(row),
         regs' = [regs EXCEPT ![h] = row], UNCHANGED <<subs, bucket>>,
         ctl'.pc \notin {"reset", "reap"}, row.attempt = regs[h].attempt,
         \/ regs[h].state \notin {"REVOKED", "SUBMITTED"}
         \/ row.state = "SUBMITTED" /\ row.sub = row.attempt /\ regs[h].state = "REVOKED"
         \/ row.state = "FAILED" /\ regs[h].state = "REVOKED"
              /\ bucket[<<h, regs[h].attempt>>] # regs[h].manifest
  PROVE  BInv'
  <1>1. ASSUME NEW s \in subs, s.hotkey = h PROVE Follows(s, row)
    <2>1. Follows(s, regs[h]) /\ s.attempt \in Nat /\ regs[h].attempt \in Nat
      BY <1>1 DEF BInv, BytesHeld, SubTyped, RowCounts, Attempts
    <2>2. QED
      BY <1>1, <2>1 DEF Follows
  <1>2. BytesHeld'
    BY <1>1, RowMoves DEF IInv, BInv
  <1>3. QED
    BY <1>2, LoopPlan DEF BInv

LEMMA CommitCredentialBytes == ASSUME IInv, BInv, NEW h \in Hotkeys, CommitCredential(h) PROVE BInv'
  <1> DEFINE row == [[[regs[h] EXCEPT !.state = "CREDENTIALED"] EXCEPT !.token = ctl.token]
                      EXCEPT !.prefix = regs[h].attempt]
  <1>1. /\ ctl' = Loop /\ UNCHANGED <<subs, bucket>> /\ regs' = [regs EXCEPT ![h] = row]
        /\ regs[h].state = "ACTIVATED"
    BY DEF CommitCredential, InTick, Locking, IInv, TickHolds, Shape, intakeVars
  <1>2. RowCounts(row) /\ row.attempt = regs[h].attempt
    BY <1>1 DEF BInv, BytesHeld, RowCounts
  <1> HIDE DEF row
  <1>3. QED
    BY <1>1, <1>2, RowBytes, LoopPc

LEMMA CommitRevokedBytes == ASSUME IInv, BInv, NEW h \in Hotkeys, CommitRevoked(h) PROVE BInv'
  <1> DEFINE row == [regs[h] EXCEPT !.state = "REVOKED"]
  <1>1. /\ ctl' = Loop /\ UNCHANGED <<subs, bucket>> /\ regs' = [regs EXCEPT ![h] = row]
        /\ regs[h].state = "READY"
    BY DEF CommitRevoked, InTick, Locking, IInv, TickHolds, Shape, intakeVars
  <1>2. RowCounts(row) /\ row.attempt = regs[h].attempt
    BY <1>1 DEF BInv, BytesHeld, RowCounts
  <1> HIDE DEF row
  <1>3. QED
    BY <1>1, <1>2, RowBytes, LoopPc

LEMMA CommitSubmittedBytes == ASSUME IInv, BInv, NEW h \in Hotkeys, CommitSubmitted(h) PROVE BInv'
  <1> DEFINE row == [[regs[h] EXCEPT !.state = "SUBMITTED"] EXCEPT !.sub = regs[h].attempt]
  <1>1. /\ ctl' = Loop /\ UNCHANGED <<subs, bucket>> /\ regs' = [regs EXCEPT ![h] = row]
        /\ regs[h].state = "REVOKED"
    BY DEF CommitSubmitted, InTick, Locking, IInv, TickHolds, Shape, intakeVars
  <1>2. /\ RowCounts(row) /\ row.attempt = regs[h].attempt
        /\ row.state = "SUBMITTED" /\ row.sub = row.attempt
    BY <1>1 DEF BInv, BytesHeld, RowCounts
  <1> HIDE DEF row
  <1>3. QED
    BY <1>1, <1>2, RowBytes, LoopPc

LEMMA VerifyFailsBytes == ASSUME IInv, BInv, NEW h \in Hotkeys, VerifyFails(h) PROVE BInv'
  <1> DEFINE row == [regs[h] EXCEPT !.state = "FAILED"]
  <1>1. /\ ctl' = Loop /\ UNCHANGED <<subs, bucket>> /\ regs' = [regs EXCEPT ![h] = row]
        /\ regs[h].state = "REVOKED" /\ ~Verified(h)
    BY DEF VerifyFails, InTick, Locking, IInv, TickHolds, Shape, intakeVars
  <1>2. RowCounts(row) /\ row.attempt = regs[h].attempt /\ row.state = "FAILED"
    BY <1>1 DEF BInv, BytesHeld, RowCounts
  <1>3. bucket[<<h, regs[h].attempt>>] # regs[h].manifest
    BY <1>1 DEF Verified, PrefixOf, BInv, BytesHeld, RowCounts, Attempts
  <1> HIDE DEF row
  <1>4. QED
    BY <1>1, <1>2, <1>3, RowBytes, LoopPc

LEMMA CloseRowBytes == ASSUME IInv, BInv, NEW h \in Hotkeys, CloseRow(h) PROVE BInv'
  <1> DEFINE row == [regs[h] EXCEPT !.state = "FAILED"]
  <1>1. /\ UNCHANGED <<subs, bucket>> /\ regs' = [regs EXCEPT ![h] = row]
        /\ regs[h].state \in {"ACTIVATED", "CREDENTIALED", "READY"}
        /\ ctl' = [ctl EXCEPT !.pc = "close", !.row = NoRow]
    BY DEF CloseRow, InSweep, IInv, Shape, SweepHolds, intakeVars
  <1>2. RowCounts(row) /\ row.attempt = regs[h].attempt
    BY <1>1 DEF BInv, BytesHeld, RowCounts
  <1>3. ctl'.pc = "close"
    BY <1>1 DEF IInv, Shape
  <1> HIDE DEF row
  <1>4. QED
    BY <1>1, <1>2, <1>3, RowBytes

\* The submission is inserted before the row says so; a second time, it is there already.
LEMMA VerifyAndInsertBytes == ASSUME IInv, BInv, NEW h \in Hotkeys, VerifyAndInsert(h) PROVE BInv'
  <1> DEFINE row == regs[h]
             new == [hotkey |-> h, payload |-> row.manifest, attempt |-> row.attempt, state |-> Accepted(h)]
  <1>1. /\ UNCHANGED <<regs, bucket>> /\ row.state = "REVOKED" /\ RowCounts(row)
        /\ bucket[<<h, row.attempt>>] = row.manifest
    BY DEF VerifyAndInsert, Locking, IInv, TickHolds, Verified, PrefixOf, BInv, BytesHeld, RowCounts, Attempts
  <1>2. ctl'.pc = "inserted"
    BY DEF VerifyAndInsert, IInv, Shape
  <1>3. CASE subs' = subs
    <2>1. BytesHeld'
      BY <1>1, <1>3, BucketMoves DEF BInv, BytesHeld
    <2>2. QED
      BY <1>2, <2>1, LoopPlan DEF BInv
  <1>4. CASE /\ subs' = subs \cup {new}
             /\ ~\E s \in subs : s.hotkey = h /\ s.payload = row.manifest /\ s.attempt = row.attempt
    <2>1. \A s \in subs : ~(s.hotkey = h /\ s.attempt = row.attempt)
      BY <1>1, <1>4 DEF BInv, BytesHeld, Follows, RowCounts, Attempts
    <2>2. /\ new.hotkey = h /\ new.attempt = row.attempt /\ new.payload = row.manifest
          /\ SubTyped(new)
      BY <1>1 DEF SubTyped, RowCounts, Attempts
    <2>3. Follows(new, regs[new.hotkey])
      BY <1>1, <2>2 DEF Follows, RowCounts, Attempts
    <2> HIDE DEF new
    <2>4. ASSUME NEW s \in subs' PROVE SubTyped(s)' /\ Follows(s, regs[s.hotkey])'
      BY <1>1, <1>4, <2>2, <2>3 DEF BInv, BytesHeld, SubTyped, Follows
    <2>5. OneSub(subs')
      BY <1>4, <2>1, <2>2 DEF BInv, BytesHeld, OneSub
    <2>6. BytesHeld'
      BY <1>1, <2>4, <2>5 DEF BInv, BytesHeld, RowCounts, OneSub
    <2>7. QED
      BY <1>2, <2>6, LoopPlan DEF BInv
  <1>5. QED
    BY <1>3, <1>4 DEF VerifyAndInsert, WithCommit

\* Steps of a tick that write neither rows nor submissions nor the bucket.
LEMMA TickBytes ==
  ASSUME BInv, UNCHANGED <<regs, subs, bucket>>, ctl'.pc \notin {"reset", "reap"}
  PROVE  BInv'
  <1>1. BytesHeld'
    BY BucketMoves DEF BInv, BytesHeld
  <1>2. QED
    BY <1>1, LoopPlan DEF BInv

----------------------------------------------------------------------------
(* The controller's sweep. *)

LEMMA ResubmitTerminalBytes == ASSUME IInv, BInv, ResubmitTerminal PROVE BInv'
  <1>1. UNCHANGED <<regs, subs, bucket>> /\ ctl'.pc = "reset" /\ ctl'.todo = Resubmittable
    BY DEF ResubmitTerminal, InSweep, intakeVars, IInv, Shape
  <1>2. BytesHeld'
    BY <1>1, BucketMoves DEF BInv, BytesHeld
  <1>3. PlanHolds'
    BY <1>1 DEF PlanHolds, Resubmittable, SubOf
  <1>4. QED
    BY <1>2, <1>3 DEF BInv

\* The submission that returns the attempt is the only one of it, and no longer live.
LEMMA ResetForRetryBytes == ASSUME IInv, BInv, NEW h \in Hotkeys, ResetForRetry(h) PROVE BInv'
  <1> DEFINE row == [[[[[[regs[h] EXCEPT !.block = Max({@, newest})] EXCEPT !.token = NoToken]
                        EXCEPT !.prefix = 0] EXCEPT !.manifest = Empty] EXCEPT !.ready = 0]
                      EXCEPT !.sub = 0]
  <1>1. /\ UNCHANGED <<subs, bucket>> /\ ctl.pc = "reset" /\ h \in ctl.todo
        /\ regs[h].state = "SUBMITTED" /\ regs[h].sub # 0
    BY DEF ResetForRetry, InSweep, intakeVars, IInv, SweepHolds
  <1>2. regs' = [regs EXCEPT ![h] = row]
    BY DEF IInv, Shape, ResetForRetry
  <1>3. /\ RowCounts(row) /\ row.attempt = regs[h].attempt
        /\ row.state = "SUBMITTED"
    BY <1>1 DEF BInv, BytesHeld, RowCounts
  <1>4. ctl'.pc = "reset" /\ ctl'.todo = ctl.todo \ {h}
    BY <1>1 DEF ResetForRetry, IInv, Shape
  <1> HIDE DEF row
  <1>5. ASSUME NEW s \in subs, s.hotkey = h PROVE Follows(s, row)
    <2>1. PICK r \in subs : r.hotkey = h /\ r.attempt = regs[h].sub /\ Returnable(r.state)
      BY <1>1 DEF BInv, PlanHolds, SubOf
    <2>2. Follows(s, regs[h]) /\ OneSub(subs) /\ RowCounts(regs[h])
      BY <1>5 DEF BInv, BytesHeld
    <2>3. s.attempt # 0 => s.state # "LIVE"
      BY <1>1, <1>5, <2>1, <2>2 DEF Follows, OneSub, Returnable, RowCounts
    <2>4. QED
      BY <1>1, <1>3, <2>2, <2>3 DEF Follows
  <1>6. BytesHeld'
    BY <1>1, <1>2, <1>3, <1>5, RowMoves DEF IInv, BInv
  <1>7. \A g \in Hotkeys : g # h => SubOf(g)' = SubOf(g)
    BY <1>1, <1>2 DEF SubOf, IInv, Shape
  <1>8. PlanHolds'
    BY <1>1, <1>4, <1>7 DEF PlanHolds, BInv, IInv, SweepHolds
  <1>9. QED
    BY <1>6, <1>8 DEF BInv

\* What is in use is protected.
LEMMA UseIsProtected ==
  ASSUME BInv, NEW h \in Hotkeys, InUse(h)
  PROVE  <<h, regs[h].attempt>> \in Protected
  <1>1. RowCounts(regs[h])
    BY DEF BInv, BytesHeld
  <1>2. CASE regs[h].state = "REVOKED"
    <2>1. SubOf(h) = {} /\ Needed(h)
      BY <1>1, <1>2 DEF RowCounts, SubOf, Needed
    <2>2. PrefixOf(h) = <<h, regs[h].attempt>>
      BY <1>1, <1>2 DEF RowCounts, PrefixOf, Attempts
    <2>3. QED
      BY <2>1, <2>2 DEF Protected
  <1>3. ASSUME NEW s \in SubOf(h), s.state = "LIVE" PROVE <<h, regs[h].attempt>> \in Protected
    <2>1. s \in subs /\ s.hotkey = h /\ s.attempt = regs[h].sub /\ s.attempt # 0
      BY <1>3 DEF SubOf
    <2>2. regs[h].state = "SUBMITTED" /\ regs[h].prefix = regs[h].attempt
      BY <1>1, <2>1 DEF RowCounts
    <2>3. \A r \in SubOf(h) : r = s
      BY <2>1 DEF SubOf, BInv, BytesHeld, OneSub
    <2>4. Needed(h)
      BY <1>3, <2>1, <2>2, <2>3 DEF Needed, Reapable
    <2>5. PrefixOf(h) = <<h, regs[h].attempt>>
      BY <1>1, <2>2 DEF RowCounts, PrefixOf, Attempts
    <2>6. QED
      BY <2>4, <2>5 DEF Protected
  <1>4. QED
    BY <1>2, <1>3 DEF InUse

LEMMA PlanReapBytes == ASSUME IInv, BInv, PlanReap PROVE BInv'
  <1>1. UNCHANGED <<regs, subs, bucket>> /\ ctl'.pc = "reap" /\ ctl'.plan = ctl.plan \ Protected
    BY DEF PlanReap, InSweep, intakeVars, IInv, Shape
  <1>2. BytesHeld'
    BY <1>1, BucketMoves DEF BInv, BytesHeld
  <1>3. \A h \in Hotkeys : InUse(h)' => InUse(h)
    BY <1>1 DEF InUse, SubOf
  <1>4. PlanHolds'
    BY <1>1, <1>3, UseIsProtected DEF PlanHolds
  <1>5. QED
    BY <1>2, <1>4 DEF BInv

LEMMA ReapOneBytes == ASSUME IInv, BInv, NEW p \in Prefixes, ReapOne(p) PROVE BInv'
  <1>1. /\ UNCHANGED <<regs, subs>> /\ bucket' = [bucket EXCEPT ![p] = Empty]
        /\ ctl.pc = "reap" /\ p \in ctl.plan
        /\ ctl'.pc = "reap" /\ ctl'.plan = ctl.plan \ {p}
    BY DEF ReapOne, InSweep, intakeVars, IInv, Shape
  <1>2. ASSUME NEW s \in subs, s.attempt # 0, s.attempt = regs[s.hotkey].attempt,
               regs[s.hotkey].state = "REVOKED" \/ s.state = "LIVE"
        PROVE  bucket'[<<s.hotkey, s.attempt>>] = bucket[<<s.hotkey, s.attempt>>]
    <2>1. /\ s.hotkey \in Hotkeys /\ Follows(s, regs[s.hotkey]) /\ RowCounts(regs[s.hotkey])
      BY DEF BInv, BytesHeld, SubTyped
    <2>2. InUse(s.hotkey)
      BY <1>2, <2>1 DEF InUse, SubOf, Follows
    <2>3. <<s.hotkey, s.attempt>> # p /\ <<s.hotkey, s.attempt>> \in Prefixes
      BY <1>1, <1>2, <2>1, <2>2 DEF BInv, PlanHolds, Prefixes, RowCounts
    <2>4. QED
      BY <1>1, <2>3 DEF BInv, BytesHeld
  <1>3. BytesHeld'
    <2>1. bucket' = [q \in Prefixes |-> bucket'[q]]
      BY <1>1 DEF BInv, BytesHeld
    <2>2. QED
      BY <1>1, <1>2, <2>1, BucketMoves DEF BInv
  <1>4. \A h \in Hotkeys : InUse(h)' => InUse(h)
    BY <1>1 DEF InUse, SubOf
  <1>5. PlanHolds'
    BY <1>1, <1>4 DEF BInv, PlanHolds
  <1>6. QED
    BY <1>3, <1>5 DEF BInv

----------------------------------------------------------------------------
(* The miner. *)

\* Credentials that still work open no prefix that was verified.
LEMMA UploadBytes == ASSUME IInv, BInv, NEW h \in Hotkeys, NEW model, Upload(h, model) PROVE BInv'
  <1>1. /\ UNCHANGED <<regs, subs, ctl>> /\ tokens[h] # {}
        /\ bucket' = [bucket EXCEPT ![<<h, mailbox[h].attempt>>] = model]
    BY DEF Upload, intakeVars
  <1>2. regs[h].state \notin {"REVOKED", "SUBMITTED"}
    BY <1>1 DEF IInv, FrozenUploads
  <1>3. ASSUME NEW s \in subs, s.attempt # 0, s.attempt = regs[s.hotkey].attempt,
               regs[s.hotkey].state = "REVOKED" \/ s.state = "LIVE"
        PROVE  bucket'[<<s.hotkey, s.attempt>>] = bucket[<<s.hotkey, s.attempt>>]
    <2>1. /\ s.hotkey \in Hotkeys /\ Follows(s, regs[s.hotkey]) /\ RowCounts(regs[s.hotkey])
      BY DEF BInv, BytesHeld, SubTyped
    <2>2. s.hotkey # h /\ <<s.hotkey, s.attempt>> \in Prefixes
      BY <1>2, <1>3, <2>1 DEF Follows, Prefixes, RowCounts
    <2>3. QED
      BY <1>1, <2>2 DEF BInv, BytesHeld
  <1>4. bucket' = [q \in Prefixes |-> bucket'[q]]
    BY <1>1 DEF BInv, BytesHeld
  <1>5. BytesHeld'
    BY <1>1, <1>3, <1>4, BucketMoves DEF BInv
  <1>6. PlanHolds'
    BY <1>1 DEF BInv, PlanHolds, InUse, SubOf
  <1>7. QED
    BY <1>5, <1>6 DEF BInv

----------------------------------------------------------------------------
(* All steps. *)

LEMMA TickStepBytes == ASSUME IInv, BInv, TickStep PROVE BInv'
  <1> PICK h \in Hotkeys :
        \/ MintToken(h) \/ PublishEnvelope(h) \/ CommitCredential(h)
        \/ FreezeUpload(h) \/ CommitRevoked(h)
        \/ VerifyAndInsert(h) \/ CommitSubmitted(h) \/ VerifyFails(h)
        \/ TickRaises(h)
    BY DEF TickStep
  <1>1. CASE MintToken(h) \/ PublishEnvelope(h) \/ FreezeUpload(h)
    <2>1. UNCHANGED <<regs, subs, bucket>>
      BY <1>1 DEF MintToken, PublishEnvelope, FreezeUpload, InTick, intakeVars
    <2>2. ctl'.pc \in {"minted", "published", "frozen"}
      BY <1>1 DEF MintToken, PublishEnvelope, FreezeUpload, IInv, Shape
    <2>3. QED
      BY <2>1, <2>2, TickBytes
  <1>2. CASE TickRaises(h)
    BY <1>2, TickBytes, LoopPc DEF TickRaises
  <1>3. QED
    BY <1>1, <1>2, CommitCredentialBytes, CommitRevokedBytes, VerifyAndInsertBytes,
       CommitSubmittedBytes, VerifyFailsBytes

LEMMA SweepStepBytes == ASSUME IInv, BInv, SweepCredentialed \/ SweepStep PROVE BInv'
  <1>1. CASE SweepCredentialed \/ TakeInventory \/ \E h \in Hotkeys : CloseAccess(h)
    <2>1. UNCHANGED <<regs, subs, bucket>>
      BY <1>1 DEF SweepCredentialed, TakeInventory, CloseAccess, InSweep, intakeVars
    <2>2. ctl'.pc \in {"close", "protect", "wiped"}
      BY <1>1 DEF SweepCredentialed, TakeInventory, CloseAccess, Loop, IInv, Shape
    <2>3. QED
      BY <2>1, <2>2, TickBytes
  <1>2. CASE EndSweep
    BY <1>2, TickBytes, LoopPc DEF EndSweep, InSweep, intakeVars
  <1>3. QED
    BY <1>1, <1>2, CloseRowBytes, ResubmitTerminalBytes, ResetForRetryBytes, PlanReapBytes,
       ReapOneBytes DEF SweepStep

LEMMA WorldBytes ==
  ASSUME IInv, ChainTyped, BInv, World \/ (PollNext /\ UNCHANGED storeVars)
  PROVE  BInv'
  <1>1. ASSUME NEW s \in subs, NEW st \in SubStates, Decide(s, st), UNCHANGED storeVars PROVE BInv'
    BY <1>1, DecideBytes
  <1>2. CASE InsertNewCommits /\ UNCHANGED storeVars
    BY <1>2, InsertBytes
  <1>3. ASSUME UNCHANGED storeVars,
               \/ \E u \in Uids, h \in Hotkeys : SwapHotkey(u, h) \/ RegisterHotkey(u, h)
               \/ \E h \in Hotkeys, k \in Kinds : \E p \in Says(k) : Commit(h, k, p)
               \/ FindSwaps \/ RefreshRegistrationBlocks \/ EndPoll \/ PollFails
               \/ \E h \in Hotkeys : RecordSwap(h) \/ SetColdkey(h)
        PROVE  BInv'
    BY <1>3, BytesKept DEF SwapHotkey, RegisterHotkey, Move, Commit, FindSwaps, RecordSwap,
       SetColdkey, RefreshRegistrationBlocks, EndPoll, PollFails, storeVars
  <1>4. QED
    BY <1>1, <1>2, <1>3, UploadBytes DEF World, SubnetNext, PollNext

LEMMA StepBInv == ASSUME IInv, ChainTyped, BInv, [Next]_vars PROVE BInv'
  <1>1. CASE HandleSignals
    <2>1. CASE PassOver
      BY <2>1, BytesKept DEF PassOver, Handle
    <2>2. QED
      BY <1>1, <2>1, ActivateBytes, ReadyBytes DEF HandleSignals
  <1>2. CASE Tick
    <2>1. PICK i \in Waiting :
            ctl' = [Loop EXCEPT !.row = queue[i],
                      !.pc = CASE regs[queue[i]].state = "ACTIVATED" -> "mint"
                               [] regs[queue[i]].state = "READY"     -> "freeze"
                               [] OTHER                              -> "verify"]
      BY <1>2 DEF Tick
    <2>2. ctl'.pc \in {"mint", "freeze", "verify"}
      BY <2>1 DEF Loop
    <2>3. QED
      BY <1>2, <2>2, TickBytes DEF Tick, intakeVars
  <1>3. CASE ControllerCrashes
    BY <1>3, TickBytes, LoopPc DEF ControllerCrashes
  <1>4. CASE UNCHANGED vars
    BY <1>4, BytesKept DEF vars, intakeVars, storeVars
  <1>5. QED
    BY <1>1, <1>2, <1>3, <1>4, TickStepBytes, SweepStepBytes, WorldBytes DEF Next

----------------------------------------------------------------------------
\* What is queued for evaluation is still in the bucket as it was verified, whatever its
\* miner uploads, a sweep reaps or a tick that failed in between does again.
THEOREM SpecVerifiedBytesStay == Spec => []VerifiedBytesStay
  <1>1. Init => BInv
    BY InitBInv, ChainAssumption, StoreAssumption
  <1>2. Init => IInv /\ ChainTyped
    BY InitIInv, InitChainTyped, ChainAssumption
  <1>3. IInv /\ ChainTyped /\ BInv /\ [Next]_vars => IInv' /\ ChainTyped' /\ BInv'
    BY StepIInv, StepChainTyped, StepBInv, ChainAssumption
  <1>4. BInv => VerifiedBytesStay
    <2> SUFFICES ASSUME BInv, NEW s \in subs, s.state = "LIVE", s.attempt > 0
                 PROVE  bucket[<<s.hotkey, s.attempt>>] = s.payload
      BY DEF VerifiedBytesStay
    <2>1. SubTyped(s) /\ Follows(s, regs[s.hotkey])
      BY DEF BInv, BytesHeld
    <2>2. QED
      BY <2>1 DEF SubTyped, Follows
  <1>5. QED
    BY <1>1, <1>2, <1>3, <1>4, PTL DEF Spec

----------------------------------------------------------------------------
(* Swaps. *)

\* Who holds a uid has an owner and holds no other uid, and no registration is of block 0;
\* what a poll has seen is in the ledger or about to be, what was noticed is in it.
SwapsHold ==
  /\ \A u \in Uids : meta[u].holder \in owned /\ meta[u].reg # 0
  /\ \A u, v \in Uids : meta[u].holder = meta[v].holder => u = v
  /\ reader.seen \subseteq ledger \cup reader.swaps
  /\ reader.noticed \subseteq ledger

LEMMA InitSwaps == ASSUME ChainAssumption, Init PROVE SwapsHold
  BY DEF ChainAssumption, Init, IntakeInit, FirstView, Holders, Idle, SwapsHold

\* A hotkey that takes a uid held none, and whoever it replaces loses at most itself.
LEMMA SeatMoves ==
  ASSUME ChainTyped, SwapsHold, NEW u \in Uids, NEW seat, Move(u, seat), seat.reg # 0,
         seat.holder \in owned', owned \ {meta[u].holder} \subseteq owned'
  PROVE  SwapsHold'
  <1>1. /\ meta \in [Uids -> Seat] /\ meta' = [meta EXCEPT ![u] = seat]
        /\ \A v \in Uids : meta[v].holder # seat.holder
        /\ UNCHANGED <<reader, ledger>>
    BY DEF ChainTyped, Move, Holders
  <1>2. meta'[u] = seat /\ \A v \in Uids \ {u} : meta'[v] = meta[v]
    BY <1>1
  <1>3. \A v \in Uids : meta'[v].holder \in owned' /\ meta'[v].reg # 0
    BY <1>2 DEF SwapsHold
  <1>4. \A v, w \in Uids : meta'[v].holder = meta'[w].holder => v = w
    BY <1>1, <1>2 DEF SwapsHold
  <1>5. QED
    BY <1>1, <1>3, <1>4 DEF SwapsHold

LEMMA SubnetSwaps == ASSUME ChainTyped, SwapsHold, SubnetNext PROVE SwapsHold'
  <1>1. ASSUME NEW u \in Uids, NEW h \in Hotkeys, SwapHotkey(u, h) PROVE SwapsHold'
    <2>1. PICK seat : Move(u, seat) /\ seat.holder = h /\ seat.reg = meta[u].reg
      BY <1>1 DEF SwapHotkey
    <2>2. owned' = (owned \ {meta[u].holder}) \cup {h} /\ meta[u].reg # 0
      BY <1>1 DEF SwapHotkey, SwapsHold
    <2>3. QED
      BY <2>1, <2>2, SeatMoves
  <1>2. ASSUME NEW u \in Uids, NEW h \in Hotkeys, RegisterHotkey(u, h) PROVE SwapsHold'
    <2>1. PICK seat : Move(u, seat) /\ seat.holder = h /\ seat.reg = meta[u].reg + 1
      BY <1>2 DEF RegisterHotkey
    <2>2. owned' = owned \cup {h} /\ meta[u].reg \in Nat
      BY <1>2 DEF RegisterHotkey, ChainTyped, Seat
    <2>3. seat.reg # 0 /\ seat.holder \in owned' /\ owned \ {meta[u].holder} \subseteq owned'
      BY <2>1, <2>2
    <2>4. QED
      BY <2>1, <2>3, SeatMoves
  <1>3. ASSUME UNCHANGED <<meta, owned, reader, ledger>> PROVE SwapsHold'
    BY <1>3 DEF SwapsHold
  <1>4. QED
    BY <1>1, <1>2, <1>3 DEF SubnetNext, Commit, Decide, chainVars, readerVars

\* The row names a hotkey without an owner, so not the one that holds the uid: find_swaps
\* sees it and confirm_swaps confirms it.
LEMMA NoticedIsSwapped ==
  ASSUME SwapsHold, NEW u \in Uids, Noticeable(u)
  PROVE  Swapped(u)
  <1>1. PICK h \in meta[u].left \ owned : Known(u, h, meta[u].reg)
    BY DEF Noticeable
  <1>2. meta[u].holder # h /\ meta[u].reg # 0
    BY <1>1 DEF SwapsHold
  <1>3. RowsOf(u) # {} /\ miners[Max(RowsOf(u))].hotkey = h /\ miners[Max(RowsOf(u))].reg = meta[u].reg
    BY <1>1, Zenon DEF Known
  <1>4. QED
    BY <1>1, <1>2, <1>3, Zenon DEF Swapped

\* A step that takes nothing from the ledger or from what a poll is about to record, and
\* sees and notices nothing.
LEMMA SwapsKept ==
  ASSUME SwapsHold, UNCHANGED <<meta, owned>>, ledger \subseteq ledger',
         reader'.seen \subseteq reader.seen, reader'.noticed \subseteq reader.noticed,
         reader'.seen = {} \/ reader.swaps \subseteq ledger' \cup reader'.swaps
  PROVE  SwapsHold'
  BY DEF SwapsHold

LEMMA PollSwaps == ASSUME ChainTyped, SwapsHold, PollNext PROVE SwapsHold'
  <1>1. CASE FindSwaps
    <2>1. \A u \in Uids : Noticeable(u) => Swapped(u)
      BY NoticedIsSwapped
    <2>2. /\ reader'.swaps = {meta[u].holder : u \in {v \in Uids : Swapped(v)}}
          /\ reader'.seen = {meta[u].holder : u \in {v \in Uids : Noticeable(v)}}
          /\ reader'.noticed = reader.noticed
          /\ UNCHANGED <<meta, owned, ledger>>
      BY <1>1, Zenon DEF FindSwaps, chainVars
    <2>3. reader'.seen \subseteq reader'.swaps
      BY <2>1, <2>2, Zenon
    <2>4. QED
      BY <2>2, <2>3 DEF SwapsHold
  <1>2. CASE RefreshRegistrationBlocks
    <2>1. UNCHANGED <<meta, owned, ledger>> /\ reader.swaps = {}
      BY <1>2 DEF RefreshRegistrationBlocks, chainVars
    <2>2. reader'.seen = {} /\ reader'.noticed = reader.noticed \cup reader.seen
      BY <1>2 DEF RefreshRegistrationBlocks, ChainTyped, Poll
    <2>3. QED
      BY <2>1, <2>2 DEF SwapsHold
  <1>3. CASE InsertNewCommits
    <2>1. UNCHANGED <<meta, owned, ledger>>
      BY <1>3 DEF InsertNewCommits, chainVars
    <2>2. UNCHANGED <<reader.seen, reader.swaps, reader.noticed>>
      BY <1>3 DEF InsertNewCommits, ChainTyped, Poll
    <2>3. QED
      BY <2>1, <2>2, SwapsKept
  <1>4. CASE EndPoll \/ PollFails
    <2>1. UNCHANGED <<meta, owned, ledger>> /\ Rest
      BY <1>4 DEF EndPoll, PollFails, chainVars
    <2>2. reader'.seen = {} /\ reader'.noticed = reader.noticed
      BY <2>1 DEF Rest, Idle
    <2>3. QED
      BY <2>1, <2>2, SwapsKept
  <1>5. ASSUME NEW h \in Hotkeys, RecordSwap(h) PROVE SwapsHold'
    <2>1. UNCHANGED <<meta, owned>> /\ ledger' = ledger \cup {h}
      BY <1>5 DEF RecordSwap, chainVars
    <2>2. /\ UNCHANGED <<reader.seen, reader.noticed>>
          /\ reader'.swaps = reader.swaps \ {h}
      BY <1>5 DEF RecordSwap, ChainTyped, Poll
    <2>3. QED
      BY <2>1, <2>2, SwapsKept
  <1>6. ASSUME NEW h \in Hotkeys, SetColdkey(h) PROVE SwapsHold'
    BY <1>6, SwapsKept DEF SetColdkey, chainVars
  <1>7. QED
    BY <1>1, <1>2, <1>3, <1>4, <1>5, <1>6 DEF PollNext

LEMMA HandleSwaps == ASSUME ChainTyped, SwapsHold, HandleSignals PROVE SwapsHold'
  <1>1. PICK kind \in Kinds : Handle(kind)
    BY DEF HandleSignals, ApplyActivate, ApplyReady, PassOver, Kinds
  <1>2. UNCHANGED <<meta, owned, ledger>> /\ reader' = [reader EXCEPT !.next = @ + 1]
    BY <1>1 DEF Handle, chainVars
  <1>3. UNCHANGED <<reader.seen, reader.swaps, reader.noticed>>
    BY <1>2 DEF ChainTyped, Poll
  <1>4. QED
    BY <1>2, <1>3, SwapsKept

LEMMA StepSwaps == ASSUME ChainTyped, SwapsHold, [Next]_vars PROVE SwapsHold'
  <1>1. CASE Tick \/ TickStep \/ SweepCredentialed \/ SweepStep \/ ControllerCrashes
    BY <1>1, ControllerKeepsChain, SwapsKept DEF chainVars
  <1>2. CASE World
    BY <1>2, SubnetSwaps, SwapsKept DEF World, Upload, intakeVars, chainVars
  <1>3. CASE UNCHANGED vars
    BY <1>3, SwapsKept DEF vars, intakeVars
  <1>4. QED
    BY <1>1, <1>2, <1>3, PollSwaps, HandleSwaps DEF Next

\* insert_new_commits asks the ledger for every submission it makes, whoever calls it.
LEMMA NewAreAccepted ==
  ASSUME NEW all, NEW h, NEW p, NEW n, NEW s \in WithCommit(all, h, p, n) \ all, s.state = "LIVE"
  PROVE  s.hotkey \notin ledger
  BY DEF WithCommit, Accepted

LEMMA OnlyTwoInsert ==
  ASSUME [Next]_vars, NEW s \in subs' \ subs, s.state = "LIVE"
  PROVE  InsertNewCommits \/ \E h \in Hotkeys : VerifyAndInsert(h)
  <1>1. subs' # subs
    OBVIOUS
  <1>2. CASE PollNext
    BY <1>1, <1>2 DEF PollNext, FindSwaps, RecordSwap, SetColdkey, RefreshRegistrationBlocks, EndPoll, PollFails
  <1>3. CASE HandleSignals
    BY <1>1, <1>3 DEF HandleSignals, ApplyActivate, ApplyReady, PassOver, Handle
  <1>4. CASE TickStep
    BY <1>1, <1>4 DEF TickStep, InTick, MintToken, PublishEnvelope, CommitCredential, FreezeUpload,
       CommitRevoked, CommitSubmitted, VerifyFails, TickRaises, intakeVars
  <1>5. CASE Tick \/ SweepCredentialed \/ SweepStep \/ ControllerCrashes
    BY <1>1, <1>5 DEF Tick, SweepCredentialed, SweepStep, ControllerCrashes, InSweep, CloseAccess,
       CloseRow, ResubmitTerminal, ResetForRetry, TakeInventory, PlanReap, ReapOne, EndSweep,
       intakeVars
  <1>6. CASE World
    <2>1. ASSUME NEW t \in subs, NEW st \in SubStates, Decide(t, st) PROVE FALSE
      <3>1. s = [t EXCEPT !.state = st] /\ t.state = "LIVE" /\ st # "LIVE"
        BY <2>1 DEF Decide, Reapable
      <3>2. QED
        BY <3>1
    <2>2. QED
      BY <1>1, <1>6, <2>1 DEF World, SubnetNext, SwapHotkey, RegisterHotkey, Move, Commit, Upload,
         intakeVars
  <1>7. QED
    BY <1>1, <1>2, <1>3, <1>4, <1>5, <1>6 DEF Next, vars, intakeVars

\* From the first poll on that had what it takes to notice the swap a hotkey came by and got
\* past recording its swaps, neither chain_reader nor the access controller accepts a submission of it: every later
\* insert_new_commits finds it in used_hotkeys, whatever fails or moves in between.
THEOREM SpecSwappedNeverEnters == Spec => SwappedNeverEnters
  <1>1. Init => SwapsHold
    BY InitSwaps, ChainAssumption
  <1>2. ChainTyped /\ SwapsHold /\ [Next]_vars => SwapsHold'
    BY StepSwaps
  <1>3. SwapsHold /\ [Next]_vars
          => [\A s \in subs' \ subs : s.state = "LIVE" => s.hotkey \notin reader.noticed]_vars
    <2> SUFFICES ASSUME SwapsHold, [Next]_vars, NEW s \in subs' \ subs, s.state = "LIVE"
                 PROVE  s.hotkey \notin reader.noticed
      OBVIOUS
    <2>1. s.hotkey \notin ledger
      <3>1. CASE InsertNewCommits
        <4>1. PICK i \in ScannedCommits : s \in WithCommit(subs, chain[i].hotkey, chain[i].payload, 0)
          BY <3>1 DEF InsertNewCommits
        <4>2. QED
          BY <4>1, NewAreAccepted
      <3>2. ASSUME NEW h \in Hotkeys, VerifyAndInsert(h) PROVE s.hotkey \notin ledger
        BY <3>2, NewAreAccepted DEF VerifyAndInsert
      <3>3. QED
        BY <3>1, <3>2, OnlyTwoInsert
    <2>2. QED
      BY <2>1 DEF SwapsHold
  <1>4. QED
    BY <1>1, <1>2, <1>3, SpecChainTyped, PTL DEF Spec, SwappedNeverEnters
=============================================================================
