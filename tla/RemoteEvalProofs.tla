-------------------------- MODULE RemoteEvalProofs --------------------------
(***************************************************************************)
(* The evaluation run and its score bridge, proved for any samples, models,*)
(* horizons and connections: NothingWaitsOnAReplacedSocket,                *)
(* WalksMergeAsTheyEnded and VerdictIsOfEveryPair.                         *)
(***************************************************************************)
EXTENDS RemoteEval, FiniteSetTheorems, WellFoundedInduction, TLAPS

----------------------------------------------------------------------------
(* The bridge. *)

CallRow == [pc : CallPcs, sock : Socks \cup {NoSock}, res : Results \cup {"none"}]

BridgeInv == BridgeTypeOK /\ NothingWaitsOnAReplacedSocket

LEMMA RowSet ==
  ASSUME NEW row \in CallRow
  PROVE  /\ \A pc \in CallPcs : /\ [row EXCEPT !.pc = pc] \in CallRow
                                /\ [row EXCEPT !.pc = pc].pc = pc
                                /\ [row EXCEPT !.pc = pc].sock = row.sock
         /\ /\ [row EXCEPT !.res = "none"] \in CallRow
            /\ [row EXCEPT !.res = "none"].pc = row.pc
            /\ [row EXCEPT !.res = "none"].sock = row.sock
  BY DEF CallRow

\* The calls that return wait no longer, and the others as they did.
LEMMA ReturnRows ==
  ASSUME BridgeTypeOK, NEW R, NEW x \in Results, Return(R, x)
  PROVE  /\ call' \in [Calls -> CallRow] /\ leg' \in [Calls -> Legs]
         /\ \A r \in Calls : r \in R => call'[r].pc = "done"
         /\ \A r \in Calls : r \notin R => call'[r] = call[r]
  <1>1. /\ call \in [Calls -> CallRow] /\ leg \in [Calls -> Legs]
        /\ [pc |-> "done", sock |-> NoSock, res |-> x] \in CallRow
    BY DEF BridgeTypeOK, CallRow, CallPcs
  <1>2. QED
    BY <1>1 DEF Return, Legs

LEMMA ReturnInv ==
  ASSUME BridgeInv, NEW R, NEW x \in Results, Return(R, x), UNCHANGED <<client, conns>>,
         sock' = sock \/ (Pending \subseteq R /\ sock' \in Socks \cup {NoSock})
  PROVE  BridgeInv'
  <1>1. /\ call' \in [Calls -> CallRow] /\ leg' \in [Calls -> Legs]
        /\ \A r \in Calls : r \in R => call'[r].pc = "done"
        /\ \A r \in Calls : r \notin R => call'[r] = call[r]
    BY ReturnRows DEF BridgeInv
  <1>2. BridgeTypeOK'
    BY <1>1 DEF BridgeInv, BridgeTypeOK, CallRow
  <1>3. NothingWaitsOnAReplacedSocket'
    BY <1>1 DEF BridgeInv, NothingWaitsOnAReplacedSocket, Pending
  <1>4. QED
    BY <1>2, <1>3 DEF BridgeInv

\* A call goes on under the socket of the hub.
LEMMA MovesInv ==
  ASSUME BridgeInv, NEW r, NEW row \in CallRow, call' = [call EXCEPT ![r] = row],
         UNCHANGED <<sock, client, conns>>, leg' \in [Calls -> Legs],
         row.pc = "sent" => row.sock = sock
  PROVE  BridgeInv'
  <1>1. call \in [Calls -> CallRow]
    BY DEF BridgeInv, BridgeTypeOK, CallRow
  <1>2. call' \in [Calls -> CallRow] /\ \A q \in Calls : call'[q] = call[q] \/ call'[q] = row
    BY <1>1
  <1>3. BridgeTypeOK'
    BY <1>2 DEF BridgeInv, BridgeTypeOK, CallRow
  <1>4. NothingWaitsOnAReplacedSocket'
    BY <1>2 DEF BridgeInv, NothingWaitsOnAReplacedSocket, Pending
  <1>5. QED
    BY <1>3, <1>4 DEF BridgeInv

LEMMA CallRows ==
  ASSUME BridgeInv, NEW r \in Calls
  PROVE  call[r] \in CallRow /\ (call[r].pc = "sent" => call[r].sock = sock)
  BY DEF BridgeInv, BridgeTypeOK, CallRow, NothingWaitsOnAReplacedSocket, Pending

LEMMA CaptureInv == ASSUME BridgeInv, NEW r \in Calls, Capture(r) PROVE BridgeInv'
  <1> DEFINE row == [call[r] EXCEPT !.pc = "captured", !.sock = sock]
  <1>1. row \in CallRow /\ row.pc = "captured"
    BY CallRows DEF CallRow, CallPcs, BridgeInv, BridgeTypeOK
  <1>2. call' = [call EXCEPT ![r] = row] /\ UNCHANGED <<sock, client, conns, leg>>
    BY DEF Capture, BridgeInv, BridgeTypeOK
  <1> HIDE DEF row
  <1>3. QED
    BY <1>1, <1>2, MovesInv DEF BridgeInv, BridgeTypeOK

LEMMA SendRequestInv == ASSUME BridgeInv, NEW r \in Calls, SendRequest(r) PROVE BridgeInv'
  <1>1. CASE /\ StillAttached(r) /\ call' = [call EXCEPT ![r].pc = "sent"]
             /\ leg' = [leg EXCEPT ![r] = IF client = call[r].sock THEN "post" ELSE "none"]
    <2> DEFINE row == [call[r] EXCEPT !.pc = "sent"]
    <2>1. row \in CallRow /\ row.sock = sock
      BY <1>1, CallRows, RowSet DEF CallPcs, StillAttached
    <2>2. call' = [call EXCEPT ![r] = row] /\ UNCHANGED <<sock, client, conns>>
      BY <1>1 DEF SendRequest, BridgeInv, BridgeTypeOK
    <2>3. leg' \in [Calls -> Legs]
      BY <1>1 DEF BridgeInv, BridgeTypeOK, Legs
    <2> HIDE DEF row
    <2>4. QED
      BY <2>1, <2>2, <2>3, MovesInv
  <1>2. CASE \E x \in {"error", "unavailable"} : Return({r}, x)
    <2>1. PICK x \in {"error", "unavailable"} : Return({r}, x)
      BY <1>2
    <2>2. x \in Results /\ UNCHANGED <<sock, client, conns>>
      BY DEF SendRequest, Results
    <2>3. QED
      BY <2>1, <2>2, ReturnInv
  <1>3. QED
    BY <1>1, <1>2 DEF SendRequest

LEMMA HubStepInv == ASSUME BridgeInv, NEW r \in Calls, HubStep(r) PROVE BridgeInv'
  <1>1. CASE GiveUp(r) \/ RequestTimesOut(r) \/ HandleMessage(r)
    <2>1. PICK x \in Results : Return({r}, x) /\ UNCHANGED <<sock, client, conns>>
      BY <1>1 DEF GiveUp, RequestTimesOut, HandleMessage, Results
    <2>2. QED
      BY <2>1, ReturnInv
  <1>2. QED
    BY <1>1, CaptureInv, SendRequestInv DEF HubStep

\* What is outside the hub moves without it.
LEMMA LegInv ==
  ASSUME BridgeInv, leg' \in [Calls -> Legs], UNCHANGED <<sock, conns, call>>,
         client' \in {client, NoSock}
  PROVE  BridgeInv'
  BY DEF BridgeInv, BridgeTypeOK, NothingWaitsOnAReplacedSocket, Pending, NoSock, Legs

LEMMA BridgeNextInv == ASSUME BridgeInv, BridgeNext PROVE BridgeInv'
  <1>1. leg \in [Calls -> Legs]
    BY DEF BridgeInv, BridgeTypeOK
  <1>2. CASE Drop \/ \E r \in Calls : JudgeStep(r)
    BY <1>1, <1>2, LegInv DEF Drop, JudgeStep, JudgeAnswers, JudgeRefuses, JudgeConnectionDrops, Legs
  <1>3. CASE HubDisconnect
    <2>1. Return(Pending, "unavailable") /\ sock' = NoSock /\ UNCHANGED <<client, conns>>
      BY <1>3 DEF HubDisconnect
    <2>2. /\ "unavailable" \in Results
          /\ (Pending \subseteq Pending) /\ sock' \in Socks \cup {NoSock}
      BY <2>1 DEF Results
    <2>3. QED
      BY <2>1, <2>2, ReturnInv
  <1>4. CASE Connect
    <2>1. /\ call' \in [Calls -> CallRow] /\ leg' \in [Calls -> Legs]
          /\ \A r \in Calls : r \in Pending => call'[r].pc = "done"
          /\ \A r \in Calls : r \notin Pending => call'[r] = call[r]
      BY <1>4, ReturnRows DEF Connect, BridgeInv, Results
    <2>2. NothingWaitsOnAReplacedSocket'
      BY <2>1 DEF NothingWaitsOnAReplacedSocket, Pending
    <2>3. conns' \in 0..MaxConns /\ client' \in Socks /\ sock' \in Socks
      BY <1>4, ConnsAssumption DEF Connect, BridgeInv, BridgeTypeOK, Socks
    <2>4. QED
      BY <2>1, <2>2, <2>3 DEF BridgeInv, BridgeTypeOK, CallRow
  <1>5. QED
    BY <1>2, <1>3, <1>4, HubStepInv DEF BridgeNext

\* The run asks, or takes what came back.
LEMMA AsksInv ==
  ASSUME BridgeInv, NEW r, call' = Requested(r) \/ call' = Taken(r) \/ call' = call,
         UNCHANGED <<sock, conns, client, leg>>
  PROVE  BridgeInv'
  <1>1. CASE r \notin Calls \/ call' = call
    BY <1>1 DEF BridgeInv, BridgeTypeOK, NothingWaitsOnAReplacedSocket, Pending, Requested, Taken
  <1>2. CASE r \in Calls /\ (call' = Requested(r) \/ call' = Taken(r))
    <2> DEFINE one == [call[r] EXCEPT !.pc = "await"]
               two == [call[r] EXCEPT !.res = "none"]
    <2>1. /\ call[r] \in CallRow /\ (call[r].pc = "sent" => call[r].sock = sock)
          /\ "await" \in CallPcs
      BY <1>2, CallRows DEF CallPcs
    <2>2. one \in CallRow /\ one.pc = "await"
      BY <2>1, RowSet
    <2>3. two \in CallRow /\ (two.pc = "sent" => two.sock = sock)
      BY <2>1, RowSet
    <2>4. call' = [call EXCEPT ![r] = one] \/ call' = [call EXCEPT ![r] = two]
      BY <1>2 DEF Requested, Taken, BridgeInv, BridgeTypeOK
    <2> HIDE DEF one, two
    <2>5. PICK row \in CallRow : /\ call' = [call EXCEPT ![r] = row]
                                 /\ row.pc = "sent" => row.sock = sock
      BY <2>2, <2>3, <2>4
    <2>6. leg' \in [Calls -> Legs]
      BY DEF BridgeInv, BridgeTypeOK
    <2>7. QED
      BY <2>5, <2>6, MovesInv
  <1>3. QED
    BY <1>1, <1>2

----------------------------------------------------------------------------
(* A walk.  Its turns before the last all went on to another one. *)

Turn    == [text : TextKinds, obs : Results \cup {"none"}]
WalkRow == [pc : WalkPcs, turns : Seq(Turn)]

WentOn(t, k, horizon) == t[k].text # "error" /\ t[k].obs = "ok" /\ k < horizon

\* What its thread made of the turn with which it was over.
WasLast(w, t) ==
  LET k == Len(t)
  IN  \/ t[k].text = "error" \/ k = Horizon[w[2]]
      \/ Cut(t[k].text) /\ t[k].obs = "ok"
      \/ WalkSubmitted(w, t, k) /\ t[k].obs = "ok"
      \/ t[k].obs # "ok" /\ k < Horizon[w[2]]

WalkOK(w, row) ==
  LET t == row.turns
      n == Len(t)
  IN  CASE row.pc \in {"start", "generate"} ->
             n < Horizon[w[2]] /\ \A k \in 1..n : WentOn(t, k, Horizon[w[2]])
        [] row.pc = "observe" ->
             /\ n \in 1..(Horizon[w[2]] - 1) /\ t[n].text # "error"
             /\ \A k \in 1..(n - 1) : WentOn(t, k, Horizon[w[2]])
        [] OTHER -> /\ n \in 1..Horizon[w[2]] /\ WasLast(w, t)
                    /\ \A k \in 1..(n - 1) : WentOn(t, k, Horizon[w[2]])

WalksOK ==
  /\ walk \in [Walks -> WalkRow]
  /\ \A w \in Walks : WalkOK(w, walk[w])

\* The turn with which a walk is over is one at which its merge stops.
LEMMA LastStops ==
  ASSUME NEW w \in Walks, walk[w].turns \in Seq(Turn), Len(walk[w].turns) \in 1..Horizon[w[2]],
         WasLast(w, walk[w].turns)
  PROVE  MergeStops(w, Len(walk[w].turns))
  <1> DEFINE t == walk[w].turns
             k == Len(t)
  <1>1. WalkSubmitted(w, t, k) => MergeSubmitted(w, t, k)
    BY DEF WalkSubmitted, MergeSubmitted, PatchMade
  <1>2. Horizon[w[2]] \in Nat
    BY RunAssumption DEF Walks
  <1> HIDE DEF t
  <1>3. WasLast(w, t) /\ k \in 1..Horizon[w[2]]
    BY DEF t
  <1>4. MergeStops(w, k) <=> \/ t[k].text = "error" \/ Cut(t[k].text) \/ k >= Horizon[w[2]]
                             \/ t[k].obs # "ok" \/ MergeSubmitted(w, t, k)
    BY DEF MergeStops, t
  <1>5. QED
    BY <1>1, <1>2, <1>3, <1>4 DEF WasLast, t

\* Some numbers have a least one.
LEMMA LeastOfSome ==
  ASSUME NEW T, T \subseteq Nat, T # {}
  PROVE  \E x \in T : \A y \in T : x =< y
  <1>1. PICK x \in T : \A y \in T : ~(<<y, x>> \in OpToRel(<, Nat))
    BY NatLessThanWellFounded, WFMin
  <1>2. ASSUME NEW y \in T PROVE x =< y
    <2>1. x \in Nat /\ y \in Nat
      OBVIOUS
    <2>2. ~(y < x)
      BY <1>1, <2>1 DEF OpToRel
    <2>3. QED
      BY <2>1, <2>2
  <1>3. QED
    BY <1>2

\* Wherever the merge stops a walk that ended well, it makes no error of it.
LEMMA MergesAsItEnded ==
  ASSUME WalksOK, NEW w \in Walks, Finished(w), WalkClean(w)
  PROVE  MergeError(w) = "none"
  <1> DEFINE t == walk[w].turns
             n == Len(t)
             stops == {k \in 1..n : MergeStops(w, k)}
             last == Min(stops)
  <1>1. /\ t \in Seq(Turn) /\ n \in 1..Horizon[w[2]] /\ WasLast(w, t)
        /\ \A k \in 1..(n - 1) : WentOn(t, k, Horizon[w[2]])
    BY DEF WalksOK, WalkRow, WalkOK, Finished
  <1>2. n \in stops
    BY <1>1, LastStops
  <1>3. last \in stops
    <2>1. stops \subseteq Nat
      OBVIOUS
    <2> HIDE DEF stops
    <2>2. QED
      BY <1>2, <2>1, LeastOfSome DEF Min
  <1>4. t[n].text # "error" /\ t[n].obs \in {"ok", "none"}
    BY DEF WalkClean
  <1>5. MergeError(w) = CASE t[last].text = "error" -> "generation"
                          [] Cut(t[last].text) \/ last >= Horizon[w[2]] -> "none"
                          [] t[last].obs # "ok" -> t[last].obs
                          [] OTHER -> "none"
    BY <1>2 DEF MergeError
  <1> HIDE DEF t, stops, last
  <1>6. n \in Nat /\ last \in 1..n
    BY <1>1, <1>3 DEF stops
  <1>7. CASE last = n
    BY <1>4, <1>5, <1>7
  <1>8. CASE last # n
    <2>1. last \in 1..(n - 1)
      BY <1>6, <1>8
    <2>2. t[last].text # "error" /\ t[last].obs = "ok"
      BY <1>1, <2>1 DEF WentOn
    <2>3. QED
      BY <1>5, <2>2
  <1>9. QED
    BY <1>7, <1>8

----------------------------------------------------------------------------
(* Pairs: the second thread hands the pair over, and the last flush takes the rest. *)

Both(s) == \A side \in Sides : walk[<<side, s>>].pc = "ended"

BatchRow == {row \in [pairs : SUBSET Samples, state : {"asked", "scored", "raised"},
                      scored : SUBSET Samples] : row.scored \subseteq row.pairs}

PairsType == pending \subseteq Samples /\ batches \in Seq(BatchRow)

\* A pair is pending or in one batch from the moment both its walks ended.
HandedOver ==
  /\ \A s \in Samples : s \in pending \cup Batched <=> Both(s)
  /\ pending \cap Batched = {}
  /\ \A b, c \in BatchIds : b # c => batches[b].pairs \cap batches[c].pairs = {}

\* The thread that saw the other one finished is the second.
OneSecond == \A w \in Walks : walk[w].pc = "pair" => walk[Other(w)].pc = "ended"

\* The phases of the run against its walks; and what a verdict may be.
InPhase ==
  /\ verdict.state \in {"none", "succeeded", "failed"}
  /\ phase \in {"accepted", "prep"} => \A w \in Walks : walk[w].pc = "start"
  /\ phase \in {"scoring", "publishing", "succeeded"}
       => pending = {} /\ \A w \in Walks : walk[w].pc = "ended"

\* A verdict is given in the last phases; a success stands on what the batches came back with.
VerdictOK ==
  /\ verdict.state # "none" => phase \in {"publishing", "succeeded", "failed"}
  /\ verdict.state = "succeeded" => phase \in {"publishing", "succeeded"}
  /\ SuccessIsFullyJudged

PairsOK == PairsType /\ HandedOver /\ OneSecond /\ InPhase


RunOK == BridgeInv /\ WalksOK /\ PairsOK

IInv == RunOK /\ VerdictOK

LEMMA Partner ==
  ASSUME NEW w \in Walks
  PROVE  /\ w[1] \in Sides /\ w[2] \in Samples /\ Other(w) \in Walks /\ Other(w) # w
         /\ Other(w)[2] = w[2] /\ w = <<w[1], w[2]>>
         /\ \A side \in Sides : <<side, w[2]>> = w \/ <<side, w[2]>> = Other(w)
         /\ \A v \in Walks : v[2] = w[2] => v = w \/ v = Other(w)
         /\ Other(Other(w)) = w
  <1> DEFINE o == CHOOSE side \in Sides : side # w[1]
  <1>1. w[1] \in Sides /\ w[2] \in Samples /\ w = <<w[1], w[2]>>
    BY DEF Walks
  <1>2. \E side \in Sides : side # w[1]
    BY <1>1 DEF Sides
  <1>3. o \in Sides /\ o # w[1]
    BY <1>2
  <1>4. Other(w) = <<o, w[2]>>
    BY DEF Other
  <1> HIDE DEF o
  <1>5. \A side \in Sides : side = w[1] \/ side = o
    BY <1>1, <1>3 DEF Sides
  <1>6. Other(w) \in Walks /\ Other(w)[1] = o /\ Other(w)[2] = w[2]
    BY <1>1, <1>3, <1>4 DEF Walks
  <1>7. \A v \in Walks : v = <<v[1], v[2]>> /\ v[1] \in Sides
    BY DEF Walks
  <1>8. Other(Other(w)) = w
    <2> DEFINE u == CHOOSE side \in Sides : side # o
    <2>1. u = w[1]
      BY <1>1, <1>3, <1>5
    <2>2. Other(Other(w)) = <<u, w[2]>>
      BY <1>6 DEF Other
    <2>3. QED
      BY <1>1, <2>1, <2>2
  <1>9. QED
    BY <1>1, <1>3, <1>4, <1>5, <1>6, <1>7, <1>8

LEMMA InitIInv == Init => IInv
  <1> SUFFICES ASSUME Init PROVE IInv
    OBVIOUS
  <1>1. BridgeInv
    BY ConnsAssumption DEF Init, BridgeInit, BridgeInv, BridgeTypeOK, NothingWaitsOnAReplacedSocket,
       Pending, CallPcs, Legs, NoSock, Socks
  <1>2. \A w \in Walks : walk[w].pc = "start" /\ walk[w].turns = <<>>
    BY DEF Init
  <1>3. WalksOK
    <2>1. walk \in [Walks -> WalkRow]
      BY DEF Init, WalkRow, WalkPcs
    <2>2. ASSUME NEW w \in Walks PROVE WalkOK(w, walk[w])
      <3>1. Horizon[w[2]] \in Nat \ {0} /\ Len(walk[w].turns) = 0
        BY <1>2, RunAssumption DEF Walks
      <3>2. QED
        BY <1>2, <3>1 DEF WalkOK
    <2>3. QED
      BY <2>1, <2>2 DEF WalksOK
  <1>4. PairsOK
    <2>1. Batched = {} /\ pending = {} /\ BatchIds = {}
      BY DEF Init, Batched, BatchIds
    <2>2. \A s \in Samples : ~Both(s)
      BY <1>2 DEF Both, Walks, Sides
    <2>3. HandedOver
      BY <2>1, <2>2 DEF HandedOver
    <2>4. OneSecond /\ InPhase /\ PairsType
      BY <1>2 DEF Init, OneSecond, InPhase, PairsType, NoVerdict
    <2>5. QED
      BY <2>3, <2>4 DEF PairsOK
  <1>5. VerdictOK
    BY DEF Init, NoVerdict, VerdictOK, SuccessIsFullyJudged
  <1>6. QED
    BY <1>1, <1>3, <1>4, <1>5 DEF IInv, RunOK

\* The pending pairs become a batch.
LEMMA FlushPairs ==
  ASSUME batches \in Seq(BatchRow), NEW pairs \in SUBSET Samples, Flush(pairs),
         pairs \cap Batched = {},
         \A b, c \in BatchIds : b # c => batches[b].pairs \cap batches[c].pairs = {}
  PROVE  /\ pending' = {} /\ batches' \in Seq(BatchRow) /\ Batched' = Batched \cup pairs
         /\ \A b, c \in BatchIds' : b # c => batches'[b].pairs \cap batches'[c].pairs = {}
  <1>1. CASE pairs = {}
    BY <1>1 DEF Flush, Batched, BatchIds
  <1>2. CASE pairs # {}
    <2>1. PICK row \in BatchRow : batches' = Append(batches, row) /\ row.pairs = pairs
      BY <1>2 DEF Flush, BatchRow
    <2>2. /\ batches' \in Seq(BatchRow) /\ Len(batches') = Len(batches) + 1
          /\ \A b \in BatchIds : batches'[b] = batches[b]
          /\ batches'[Len(batches) + 1].pairs = pairs
          /\ BatchIds' = BatchIds \cup {Len(batches) + 1} /\ Len(batches) + 1 \notin BatchIds
      BY <2>1 DEF BatchIds
    <2>3. Batched' = Batched \cup pairs
      BY <2>2 DEF Batched
    <2>4. \A b \in BatchIds : batches[b].pairs \subseteq Batched
      BY DEF Batched
    <2>5. \A b, c \in BatchIds' : b # c => batches'[b].pairs \cap batches'[c].pairs = {}
      BY <2>2, <2>4
    <2>6. pending' = {}
      BY <1>2 DEF Flush, Remaining
    <2>7. QED
      BY <2>2, <2>3, <2>5, <2>6
  <1>3. QED
    BY <1>1, <1>2

----------------------------------------------------------------------------
(* The steps of a walk. *)

LEMMA RowReplaced ==
  ASSUME WalksOK, NEW w \in Walks, NEW row \in WalkRow, WalkOK(w, row),
         walk' = [walk EXCEPT ![w] = row]
  PROVE  WalksOK' /\ walk'[w] = row /\ \A v \in Walks \ {w} : walk'[v] = walk[v]
  <1>1. walk' \in [Walks -> WalkRow] /\ walk'[w] = row /\ \A v \in Walks \ {w} : walk'[v] = walk[v]
    BY DEF WalksOK
  <1>2. ASSUME NEW v \in Walks PROVE WalkOK(v, walk'[v])
    BY <1>1 DEF WalksOK
  <1>3. WalksOK'
    BY <1>1, <1>2 DEF WalksOK, WalkOK, WentOn, WasLast, WalkSubmitted, PatchMade
  <1>4. QED
    BY <1>1, <1>3

\* A walk that goes on is neither finished before nor after.
LEMMA GoesOn ==
  ASSUME WalksOK, PairsOK, NEW w \in Walks, walk[w].pc \in {"generate", "observe"},
         NEW row \in WalkRow, row.pc \in {"generate", "observe", "over"}, WalkOK(w, row),
         walk' = [walk EXCEPT ![w] = row], UNCHANGED <<phase, pending, batches, verdict>>
  PROVE  WalksOK' /\ PairsOK'
  <1>1. WalksOK' /\ walk'[w] = row /\ \A v \in Walks \ {w} : walk'[v] = walk[v]
    BY RowReplaced
  <1>2. \A s \in Samples : Both(s)' <=> Both(s)
    BY <1>1 DEF Both, Walks
  <1>3. HandedOver'
    BY <1>2 DEF PairsOK, HandedOver, Batched, BatchIds
  <1>4. OneSecond'
    <2>1. \A v \in Walks : Other(v) \in Walks
      BY Partner
    <2>2. QED
      BY <1>1, <2>1 DEF PairsOK, OneSecond
  <1>5. InPhase' /\ PairsType'
    BY <1>1 DEF PairsOK, InPhase, PairsType
  <1>6. QED
    BY <1>1, <1>3, <1>4, <1>5 DEF PairsOK

LEMMA AppendTurn ==
  ASSUME NEW t \in Seq(Turn), NEW turn \in Turn
  PROVE  /\ Append(t, turn) \in Seq(Turn) /\ Len(Append(t, turn)) = Len(t) + 1
         /\ Append(t, turn)[Len(t) + 1] = turn
         /\ \A k \in 1..Len(t) : Append(t, turn)[k] = t[k]
  OBVIOUS

\* The last turn of a walk gets its observation.
LEMMA AnswerTurn ==
  ASSUME NEW t \in Seq(Turn), NEW k \in 1..Len(t), NEW x \in Results \cup {"none"}
  PROVE  LET u == [t EXCEPT ![k].obs = x]
         IN  /\ u \in Seq(Turn) /\ Len(u) = Len(t)
             /\ u[k].text = t[k].text /\ u[k].obs = x
             /\ \A j \in 1..Len(t) : j # k => u[j] = t[j]
  <1> DEFINE turn == [t[k] EXCEPT !.obs = x]
  <1>1. t[k] \in Turn
    OBVIOUS
  <1>2. turn \in Turn /\ turn.text = t[k].text /\ turn.obs = x
    BY <1>1 DEF Turn
  <1>3. [t EXCEPT ![k].obs = x] = [t EXCEPT ![k] = turn]
    OBVIOUS
  <1> HIDE DEF turn
  <1>4. QED
    BY <1>2, <1>3

LEMMA GenerateInv == ASSUME RunOK, NEW w \in Walks, Generate(w) PROVE RunOK'
  <1> DEFINE t == walk[w].turns
             k == Len(t) + 1
  <1>1. /\ walk[w].pc = "generate" /\ t \in Seq(Turn) /\ Horizon[w[2]] \in Nat
        /\ Len(t) < Horizon[w[2]] /\ Len(t) \in Nat /\ \A j \in 1..Len(t) : WentOn(t, j, Horizon[w[2]])
    BY RunAssumption DEF RunOK, WalksOK, WalkRow, WalkOK, Generate, Walks
  <1>2. PICK text \in Texts[w[1]] :
          LET turns == Append(t, [text |-> text, obs |-> "none"])
              asked == [turns EXCEPT ![k].obs = "ok"]
          IN  \/ /\ LastTurn(w, k) \/ text = "error"
                 /\ walk' = [walk EXCEPT ![w] = [pc |-> "over", turns |-> turns]]
                 /\ UNCHANGED call
              \/ /\ ~LastTurn(w, k)
                 /\ Cut(text) \/ WalkSubmitted(w, turns, k)
                 /\ walk' = [walk EXCEPT ![w] = [pc |-> "over", turns |-> asked]]
                 /\ UNCHANGED call
              \/ /\ ~LastTurn(w, k)
                 /\ text # "error" /\ ~Cut(text) /\ ~WalkSubmitted(w, turns, k)
                 /\ walk' = [walk EXCEPT ![w] = [pc |-> "observe", turns |-> turns]]
                 /\ call' = Requested(ObsCall(w, k))
    BY DEF Generate
  <1> DEFINE turns == Append(t, [text |-> text, obs |-> "none"])
             asked == [turns EXCEPT ![k].obs = "ok"]
  <1>3. /\ turns \in Seq(Turn) /\ Len(turns) = k /\ turns[k] = [text |-> text, obs |-> "none"]
        /\ \A j \in 1..Len(t) : turns[j] = t[j]
    <2>1. [text |-> text, obs |-> "none"] \in Turn
      <3>1. text \in TextKinds
        BY RunAssumption, Partner
      <3>2. QED
        BY <3>1 DEF Turn
    <2>2. QED
      BY <1>1, <2>1, AppendTurn
  <1>4. \A j \in 1..(k - 1) : WentOn(turns, j, Horizon[w[2]])
    BY <1>1, <1>3 DEF WentOn
  <1>5. k \in 1..Horizon[w[2]]
    BY <1>1
  <1>6. BridgeInv'
    BY <1>2, AsksInv DEF RunOK, Generate
  <1>7. UNCHANGED <<phase, pending, batches, verdict>>
    BY DEF Generate
  <1> HIDE DEF t
  <1>8. CASE /\ LastTurn(w, k) \/ text = "error"
             /\ walk' = [walk EXCEPT ![w] = [pc |-> "over", turns |-> turns]]
    <2> DEFINE row == [pc |-> "over", turns |-> turns]
    <2>1. row \in WalkRow /\ row.pc = "over" /\ row.turns = turns
      BY <1>3 DEF WalkRow, WalkPcs
    <2>2. WasLast(w, turns)
      BY <1>3, <1>8 DEF WasLast, LastTurn
    <2> HIDE DEF row, turns
    <2>3. WalkOK(w, row)
      BY <1>3, <1>4, <1>5, <2>1, <2>2 DEF WalkOK
    <2>4. walk' = [walk EXCEPT ![w] = row]
      BY <1>8 DEF row
    <2>5. QED
      BY <1>1, <1>6, <1>7, <2>1, <2>3, <2>4, GoesOn DEF RunOK
  <1>9. CASE /\ ~LastTurn(w, k)
             /\ Cut(text) \/ WalkSubmitted(w, turns, k)
             /\ walk' = [walk EXCEPT ![w] = [pc |-> "over", turns |-> asked]]
    <2>1. /\ asked \in Seq(Turn) /\ Len(asked) = k /\ asked[k].text = text /\ asked[k].obs = "ok"
          /\ \A j \in 1..(k - 1) : asked[j] = turns[j]
      <3>1. turns[k].text = text /\ k \in 1..Len(turns) /\ "ok" \in Results \cup {"none"}
        BY <1>1, <1>3 DEF Results
      <3> HIDE DEF turns
      <3>2. QED
        BY <1>1, <1>3, <3>1, AnswerTurn
    <2>2. WalkSubmitted(w, asked, k) <=> WalkSubmitted(w, turns, k)
      BY <1>3, <2>1 DEF WalkSubmitted, PatchMade
    <2>3. WasLast(w, asked)
      BY <1>9, <2>1, <2>2 DEF WasLast
    <2> DEFINE row == [pc |-> "over", turns |-> asked]
    <2>4. row \in WalkRow /\ row.pc = "over" /\ row.turns = asked /\ walk' = [walk EXCEPT ![w] = row]
      BY <1>9, <2>1 DEF WalkRow, WalkPcs
    <2>5. \A j \in 1..(k - 1) : WentOn(asked, j, Horizon[w[2]])
      BY <1>4, <2>1 DEF WentOn
    <2> HIDE DEF row, turns, asked
    <2>6. WalkOK(w, row)
      BY <1>5, <2>1, <2>3, <2>4, <2>5 DEF WalkOK
    <2>7. QED
      BY <1>1, <1>6, <1>7, <2>4, <2>6, GoesOn DEF RunOK
  <1>10. CASE /\ ~LastTurn(w, k) /\ text # "error"
              /\ walk' = [walk EXCEPT ![w] = [pc |-> "observe", turns |-> turns]]
    <2> DEFINE row == [pc |-> "observe", turns |-> turns]
    <2>1. row \in WalkRow /\ row.pc = "observe" /\ row.turns = turns /\ walk' = [walk EXCEPT ![w] = row]
      BY <1>3, <1>10 DEF WalkRow, WalkPcs
    <2>2. k \in 1..(Horizon[w[2]] - 1) /\ turns[k].text # "error"
      BY <1>1, <1>3, <1>5, <1>10 DEF LastTurn
    <2> HIDE DEF row, turns
    <2>3. WalkOK(w, row)
      BY <1>3, <1>4, <2>1, <2>2 DEF WalkOK
    <2>4. QED
      BY <1>1, <1>6, <1>7, <2>1, <2>3, GoesOn DEF RunOK
  <1>11. QED
    BY <1>2, <1>8, <1>9, <1>10

LEMMA ObservedInv == ASSUME RunOK, NEW w \in Walks, Observed(w) PROVE RunOK'
  <1> DEFINE t == walk[w].turns
             k == Len(t)
  <1>1. /\ walk[w].pc = "observe" /\ t \in Seq(Turn) /\ Horizon[w[2]] \in Nat
        /\ k \in 1..(Horizon[w[2]] - 1) /\ t[k].text # "error"
        /\ \A j \in 1..(k - 1) : WentOn(t, j, Horizon[w[2]])
    BY RunAssumption DEF RunOK, WalksOK, WalkRow, WalkOK, Observed, Walks
  <1>2. PICK x : x = call[ObsCall(w, k)].res
    OBVIOUS
  <1>3. x \in Results \cup {"none"}
    <2>1. ObsCall(w, k) \in Calls
      BY <1>1, CallsAssumption
    <2>2. QED
      BY <1>2, <2>1 DEF RunOK, BridgeInv, BridgeTypeOK
  <1> DEFINE pc == IF x = "ok" THEN "generate" ELSE "over"
  <1>4. PICK u \in Seq(Turn) :
          /\ walk' = [walk EXCEPT ![w] = [pc |-> pc, turns |-> u]]
          /\ Len(u) = k /\ u[k].text = t[k].text /\ u[k].obs = x
          /\ \A j \in 1..(k - 1) : u[j] = t[j]
    <2>1. walk' = [walk EXCEPT ![w].turns[k].obs = x, ![w].pc = pc]
      BY <1>2 DEF Observed
    <2>2. PICK f \in [Walks -> WalkRow] : f = walk
      BY DEF RunOK, WalksOK
    <2>3. PICK tt \in Seq(Turn) : tt = t
      BY <1>1
    <2>4. PICK kk \in 1..Len(tt) : kk = k
      BY <1>1, <2>3
    <2>5. PICK p : f[w] = [pc |-> p, turns |-> tt]
      BY <2>2, <2>3 DEF WalkRow
    <2>6. walk' = [f EXCEPT ![w].turns[kk].obs = x, ![w].pc = pc]
      BY <2>1, <2>2, <2>3, <2>4
    <2> HIDE DEF pc, t
    <2>7. [f EXCEPT ![w].turns[kk].obs = x, ![w].pc = pc]
            = [f EXCEPT ![w] = [pc |-> pc, turns |-> [tt EXCEPT ![kk].obs = x]]]
      <3> DEFINE a == [tt EXCEPT ![kk].obs = x]
                 g == [f EXCEPT ![w].turns[kk].obs = x]
      <3>1. g = [f EXCEPT ![w].turns = a]
        BY <2>5
      <3>2. [f EXCEPT ![w].turns[kk].obs = x, ![w].pc = pc] = [g EXCEPT ![w].pc = pc]
        OBVIOUS
      <3> HIDE DEF a, g
      <3>3. [f[w] EXCEPT !.turns = a] = [pc |-> p, turns |-> a]
        BY <2>5
      <3>4. g = [f EXCEPT ![w] = [pc |-> p, turns |-> a]] /\ g[w] = [pc |-> p, turns |-> a]
        BY <2>2, <3>1, <3>3
      <3>5. [g[w] EXCEPT !.pc = pc] = [pc |-> pc, turns |-> a]
        BY <3>4
      <3>6. [g EXCEPT ![w].pc = pc] = [g EXCEPT ![w] = [pc |-> pc, turns |-> a]]
        BY <3>5
      <3>7. [g EXCEPT ![w].pc = pc] = [f EXCEPT ![w] = [pc |-> pc, turns |-> a]]
        BY <2>2, <3>4, <3>6
      <3>8. QED
        BY <3>2, <3>7 DEF a
    <2>8. PICK u : u = [tt EXCEPT ![kk].obs = x]
      OBVIOUS
    <2>9. /\ u \in Seq(Turn) /\ Len(u) = Len(tt)
          /\ u[kk].text = tt[kk].text /\ u[kk].obs = x
          /\ \A j \in 1..Len(tt) : j # kk => u[j] = tt[j]
      <3>1. LET v == [tt EXCEPT ![kk].obs = x]
            IN  /\ v \in Seq(Turn) /\ Len(v) = Len(tt)
                /\ v[kk].text = tt[kk].text /\ v[kk].obs = x
                /\ \A j \in 1..Len(tt) : j # kk => v[j] = tt[j]
        BY <1>3, AnswerTurn
      <3>2. QED
        BY <2>8, <3>1
    <2>10. kk = Len(tt) /\ kk \in Nat
      BY <2>3, <2>4
    <2>11. walk' = [walk EXCEPT ![w] = [pc |-> pc, turns |-> u]]
      BY <2>2, <2>6, <2>7, <2>8
    <2>12. \A j \in 1..(k - 1) : u[j] = tt[j]
      BY <2>4, <2>9, <2>10
    <2>13. Len(u) = k /\ u[k].text = t[k].text /\ u[k].obs = x /\ tt = t
      BY <2>3, <2>4, <2>9, <2>10
    <2>14. QED
      BY <2>9, <2>11, <2>12, <2>13
  <1> DEFINE row == [pc |-> pc, turns |-> u]
  <1>5. /\ u \in Seq(Turn) /\ Len(u) = k /\ u[k].text = t[k].text /\ u[k].obs = x
        /\ \A j \in 1..(k - 1) : u[j] = t[j]
        /\ walk' = [walk EXCEPT ![w] = row]
    BY <1>4
  <1>6. /\ BridgeInv' /\ UNCHANGED <<phase, pending, batches, verdict>>
    BY AsksInv DEF RunOK, Observed
  <1> HIDE DEF t
  <1>7. row \in WalkRow /\ row.pc = pc /\ row.turns = u /\ pc \in {"generate", "over"}
    BY <1>5 DEF WalkRow, WalkPcs
  <1>8. \A j \in 1..(k - 1) : WentOn(u, j, Horizon[w[2]])
    BY <1>1, <1>5 DEF WentOn
  <1>9. WalkOK(w, row)
    <2>1. CASE x = "ok"
      <3>1. WentOn(u, k, Horizon[w[2]])
        BY <1>1, <1>5, <2>1 DEF WentOn
      <3>2. \A j \in 1..k : WentOn(u, j, Horizon[w[2]])
        BY <1>1, <1>8, <3>1
      <3> HIDE DEF row
      <3>3. QED
        BY <1>1, <1>5, <1>7, <2>1, <3>2 DEF WalkOK
    <2>2. CASE x # "ok"
      <3>1. WasLast(w, u)
        BY <1>1, <1>5, <2>2 DEF WasLast
      <3> HIDE DEF row
      <3>2. QED
        BY <1>1, <1>5, <1>7, <1>8, <2>2, <3>1 DEF WalkOK
    <2>3. QED
      BY <2>1, <2>2
  <1> HIDE DEF row
  <1>10. QED
    BY <1>1, <1>5, <1>6, <1>7, <1>9, GoesOn DEF RunOK

\* Of a pair's threads the one that finds the other finished is the second.
LEMMA FinishInv == ASSUME RunOK, NEW w \in Walks, Finish(w) PROVE RunOK'
  <1> DEFINE pc == IF Second(w) THEN "pair" ELSE "ended"
             row == [walk[w] EXCEPT !.pc = pc]
             o == Other(w)
  <1>1. /\ walk[w].pc = "over" /\ walk' = [walk EXCEPT ![w] = row]
        /\ UNCHANGED <<bridgeVars, phase, pending, batches, verdict>>
    BY DEF Finish, RunOK, WalksOK
  <1>2. row \in WalkRow /\ row.pc = pc /\ row.turns = walk[w].turns /\ pc \in {"pair", "ended"}
    BY DEF RunOK, WalksOK, WalkRow, WalkPcs
  <1>3. WalkOK(w, walk[w])
    BY DEF RunOK, WalksOK
  <1> HIDE DEF row
  <1>4. WalkOK(w, row)
    BY <1>1, <1>2, <1>3 DEF WalkOK
  <1>5. WalksOK' /\ walk'[w] = row /\ \A v \in Walks \ {w} : walk'[v] = walk[v]
    BY <1>1, <1>2, <1>4, RowReplaced DEF RunOK
  <1>6. /\ o \in Walks /\ o # w /\ w = <<w[1], w[2]>> /\ w[1] \in Sides
        /\ \A side \in Sides : <<side, w[2]>> = w \/ <<side, w[2]>> = o
        /\ \A v \in Walks : Other(v) \in Walks /\ Other(Other(v)) = v /\ Other(v) # v
    BY Partner
  <1>7. pc = "pair" => walk[o].pc = "ended"
    BY <1>1, <1>6 DEF Second, Finished, RunOK, PairsOK, OneSecond
  <1>8. pc = "ended" => walk[o].pc \notin {"pair", "ended"}
    BY <1>1 DEF Second, Finished
  <1>9. \A s \in Samples : Both(s)' <=> Both(s)
    <2>1. o[2] = w[2] /\ o = <<o[1], w[2]>> /\ o[1] \in Sides
      BY Partner
    <2>2. ~Both(w[2])
      BY <1>1, <1>6 DEF Both
    <2>3. ~Both(w[2])'
      BY <1>2, <1>5, <1>6, <1>8, <2>1 DEF Both
    <2>4. ASSUME NEW s \in Samples, s # w[2] PROVE Both(s)' <=> Both(s)
      <3>1. \A side \in Sides : <<side, s>> \in Walks \ {w}
        BY <1>6, <2>4 DEF Walks
      <3>2. QED
        BY <1>5, <3>1 DEF Both
    <2>5. QED
      BY <2>2, <2>3, <2>4
  <1>10. HandedOver'
    BY <1>1, <1>9 DEF RunOK, PairsOK, HandedOver, Batched, BatchIds
  <1>11. OneSecond'
    <2>1. ASSUME NEW v \in Walks, walk'[v].pc = "pair" PROVE walk'[Other(v)].pc = "ended"
      <3>1. CASE v = w
        BY <1>2, <1>5, <1>6, <1>7, <2>1, <3>1
      <3>2. CASE v # w
        <4>1. walk[v].pc = "pair" /\ walk[Other(v)].pc = "ended"
          BY <1>5, <2>1, <3>2 DEF RunOK, PairsOK, OneSecond
        <4>2. Other(v) # w
          BY <1>1, <4>1
        <4>3. QED
          BY <1>5, <1>6, <4>1, <4>2
      <3>3. QED
        BY <3>1, <3>2
    <2>2. QED
      BY <2>1 DEF OneSecond
  <1>12. InPhase' /\ PairsType'
    BY <1>1 DEF RunOK, PairsOK, InPhase, PairsType
  <1>13. BridgeInv'
    BY <1>1 DEF RunOK, BridgeInv, bridgeVars, BridgeTypeOK, NothingWaitsOnAReplacedSocket, Pending
  <1>14. QED
    BY <1>5, <1>10, <1>11, <1>12, <1>13 DEF RunOK, PairsOK

LEMMA BridgeStands ==
  ASSUME BridgeInv, UNCHANGED bridgeVars
  PROVE  BridgeInv'
  BY DEF BridgeInv, bridgeVars, BridgeTypeOK, NothingWaitsOnAReplacedSocket, Pending

LEMMA OnPairInv == ASSUME RunOK, NEW w \in Walks, OnPair(w) PROVE RunOK'
  <1> DEFINE row == [walk[w] EXCEPT !.pc = "ended"]
             pairs == pending \cup {w[2]}
  <1>1. /\ walk[w].pc = "pair" /\ walk' = [walk EXCEPT ![w] = row]
        /\ Flush(pairs) \/ (pending' = pairs /\ UNCHANGED <<batches, call>>)
        /\ UNCHANGED <<sock, conns, client, leg, phase, verdict>>
    BY DEF OnPair, RunOK, WalksOK
  <1>2. row \in WalkRow /\ row.pc = "ended" /\ row.turns = walk[w].turns
    BY DEF RunOK, WalksOK, WalkRow, WalkPcs
  <1> HIDE DEF row
  <1>3. WalkOK(w, row)
    BY <1>1, <1>2 DEF RunOK, WalksOK, WalkOK
  <1>4. WalksOK' /\ walk'[w] = row /\ \A v \in Walks \ {w} : walk'[v] = walk[v]
    BY <1>1, <1>2, <1>3, RowReplaced DEF RunOK
  <1>5. /\ w[1] \in Sides /\ w[2] \in Samples /\ Other(w) \in Walks \ {w} /\ Other(w)[2] = w[2]
        /\ \A side \in Sides : <<side, w[2]>> = w \/ <<side, w[2]>> = Other(w)
        /\ w = <<w[1], w[2]>>
    BY Partner
  <1>6. walk[Other(w)].pc = "ended"
    BY <1>1 DEF RunOK, PairsOK, OneSecond
  <1>7. ~Both(w[2]) /\ Both(w[2])' /\ \A s \in Samples \ {w[2]} : Both(s)' <=> Both(s)
    <2>1. ~Both(w[2])
      BY <1>1, <1>5 DEF Both
    <2>2. Both(w[2])'
      BY <1>2, <1>4, <1>5, <1>6 DEF Both
    <2>3. ASSUME NEW s \in Samples \ {w[2]} PROVE Both(s)' <=> Both(s)
      <3>1. \A side \in Sides : <<side, s>> \in Walks \ {w}
        BY <1>5 DEF Walks
      <3>2. QED
        BY <1>4, <3>1 DEF Both
    <2>4. QED
      BY <2>1, <2>2, <2>3
  <1>8. /\ w[2] \notin pending \cup Batched /\ pairs \in SUBSET Samples /\ pairs \cap Batched = {}
        /\ batches \in Seq(BatchRow)
        /\ \A b, c \in BatchIds : b # c => batches[b].pairs \cap batches[c].pairs = {}
    BY <1>5, <1>7 DEF RunOK, PairsOK, PairsType, HandedOver
  <1>9. /\ pending' \cup Batched' = pairs \cup Batched /\ pending' \cap Batched' = {}
        /\ batches' \in Seq(BatchRow) /\ pending' \subseteq Samples
        /\ \A b, c \in BatchIds' : b # c => batches'[b].pairs \cap batches'[c].pairs = {}
    <2>1. CASE Flush(pairs)
      <3>1. PICK all \in SUBSET Samples : all = pairs
        BY <1>8
      <3>2. /\ pending' = {} /\ batches' \in Seq(BatchRow) /\ Batched' = Batched \cup all
            /\ \A b, c \in BatchIds' : b # c => batches'[b].pairs \cap batches'[c].pairs = {}
        BY <1>8, <2>1, <3>1, FlushPairs
      <3>3. QED
        BY <3>1, <3>2
    <2>2. CASE pending' = pairs /\ UNCHANGED <<batches, call>>
      BY <1>8, <2>2 DEF Batched, BatchIds
    <2>3. QED
      BY <1>1, <2>1, <2>2
  <1>10. HandedOver' /\ PairsType'
    <2>1. \A s \in Samples : s \in pending' \cup Batched' <=> Both(s)'
      BY <1>5, <1>7, <1>9 DEF RunOK, PairsOK, HandedOver
    <2>2. QED
      BY <1>9, <2>1 DEF HandedOver, PairsType
  <1>11. OneSecond'
    <2>1. ASSUME NEW v \in Walks, walk'[v].pc = "pair" PROVE walk'[Other(v)].pc = "ended"
      <3>1. v # w
        BY <1>2, <1>4, <2>1
      <3>2. walk[v].pc = "pair" /\ walk[Other(v)].pc = "ended" /\ Other(v) \in Walks
        BY <1>4, <2>1, <3>1, Partner DEF RunOK, PairsOK, OneSecond
      <3>3. QED
        BY <1>1, <1>4, <3>2
    <2>2. QED
      BY <2>1 DEF OneSecond
  <1>12. InPhase'
    <2>1. phase \notin {"accepted", "prep", "scoring", "publishing", "succeeded"}
      BY <1>1 DEF RunOK, PairsOK, InPhase
    <2>2. QED
      BY <1>1, <2>1 DEF RunOK, PairsOK, InPhase
  <1>13. BridgeInv'
    <2>1. call' = call \/ call' = Requested(ScoreCall(Len(batches) + 1))
      BY <1>1 DEF Flush
    <2>2. QED
      BY <1>1, <2>1, AsksInv DEF RunOK
  <1>14. QED
    BY <1>4, <1>10, <1>11, <1>12, <1>13 DEF RunOK, PairsOK

----------------------------------------------------------------------------
(* The steps of the run. *)

\* What is said of the walks needs the walks only.
LEMMA WalksStand ==
  ASSUME WalksOK, UNCHANGED walk
  PROVE  WalksOK' /\ \A s \in Samples : Both(s)' <=> Both(s)
  BY DEF WalksOK, WalkOK, WentOn, WasLast, WalkSubmitted, PatchMade, Both

LEMMA BatchReturnsInv == ASSUME RunOK, NEW b \in BatchIds, BatchReturns(b) PROVE RunOK'
  <1>1. /\ batches \in Seq(BatchRow) /\ batches[b] \in BatchRow
        /\ UNCHANGED <<sock, conns, client, leg, phase, walk, pending, verdict>>
        /\ call' = Taken(ScoreCall(b))
    BY DEF RunOK, PairsOK, PairsType, BatchReturns, BatchIds
  <1>2. PICK row \in BatchRow : batches' = [batches EXCEPT ![b] = row] /\ row.pairs = batches[b].pairs
    <2>1. CASE \E scored \in SUBSET ValidPairs(batches[b].pairs) :
                  batches' = [batches EXCEPT ![b].state = "scored", ![b].scored = scored]
      <3>1. PICK scored \in SUBSET batches[b].pairs :
                  batches' = [batches EXCEPT ![b].state = "scored", ![b].scored = scored]
        BY <1>1, <2>1 DEF ValidPairs, BatchRow
      <3> DEFINE new == [batches[b] EXCEPT !.state = "scored", !.scored = scored]
                 one == [batches EXCEPT ![b].state = "scored"]
                 row == [batches[b] EXCEPT !.state = "scored"]
      <3>2. new \in BatchRow /\ new.pairs = batches[b].pairs /\ new = [row EXCEPT !.scored = scored]
        BY <1>1 DEF BatchRow
      <3>3. batches' = [one EXCEPT ![b].scored = scored]
        BY <3>1
      <3>4. one = [batches EXCEPT ![b] = row]
        BY <1>1
      <3> HIDE DEF one, row
      <3>5. one[b] = row
        BY <1>1, <3>4 DEF BatchIds
      <3>6. [one EXCEPT ![b].scored = scored] = [batches EXCEPT ![b] = [row EXCEPT !.scored = scored]]
        BY <1>1, <3>4, <3>5
      <3>7. batches' = [batches EXCEPT ![b] = new]
        BY <3>2, <3>3, <3>6
      <3> HIDE DEF new
      <3>8. QED
        BY <3>2, <3>7
    <2>2. CASE batches' = [batches EXCEPT ![b].state = "raised"]
      <3> DEFINE new == [batches[b] EXCEPT !.state = "raised"]
      <3>1. new \in BatchRow /\ new.pairs = batches[b].pairs
        BY <1>1 DEF BatchRow
      <3>2. batches' = [batches EXCEPT ![b] = new]
        BY <1>1, <2>2
      <3> HIDE DEF new
      <3>3. QED
        BY <3>1, <3>2
    <2>3. QED
      BY <2>1, <2>2 DEF BatchReturns
  <1>3. /\ batches' \in Seq(BatchRow) /\ BatchIds' = BatchIds
        /\ \A c \in BatchIds : batches'[c].pairs = batches[c].pairs
    BY <1>1, <1>2 DEF BatchIds
  <1>4. Batched' = Batched
    BY <1>3 DEF Batched
  <1>5. BridgeInv' /\ WalksOK'
    BY <1>1, AsksInv, WalksStand DEF RunOK
  <1>6. HandedOver'
    <2>1. \A s \in Samples : Both(s)' <=> Both(s)
      BY <1>1, WalksStand DEF RunOK
    <2>2. QED
      BY <1>1, <1>3, <1>4, <2>1 DEF RunOK, PairsOK, HandedOver
  <1>7. OneSecond' /\ InPhase' /\ PairsType'
    BY <1>1, <1>3 DEF RunOK, PairsOK, OneSecond, InPhase, PairsType
  <1>8. QED
    BY <1>5, <1>6, <1>7 DEF RunOK, PairsOK

LEMMA StartGenerationInv == ASSUME RunOK, StartGeneration PROVE RunOK'
  <1>1. /\ phase = "prep" /\ phase' = "generating" /\ UNCHANGED <<pending, batches, verdict>>
        /\ walk' = [w \in Walks |-> [walk[w] EXCEPT !.pc = "generate"]]
    BY DEF StartGeneration
  <1>2. \A w \in Walks : walk[w].pc = "start"
    BY <1>1 DEF RunOK, PairsOK, InPhase
  <1>3. \A w \in Walks : /\ walk'[w] \in WalkRow /\ walk'[w].pc = "generate"
                         /\ walk'[w].turns = walk[w].turns
    BY <1>1 DEF RunOK, WalksOK, WalkRow, WalkPcs
  <1>4. WalksOK'
    <2>1. ASSUME NEW w \in Walks PROVE WalkOK(w, walk[w]) => WalkOK(w, walk'[w])
      BY <1>2, <1>3 DEF WalkOK
    <2>2. \A w \in Walks : WalkOK(w, walk'[w])
      BY <2>1 DEF RunOK, WalksOK
    <2>3. walk' \in [Walks -> WalkRow]
      BY <1>1, <1>3
    <2>4. QED
      BY <2>2, <2>3 DEF WalksOK, WalkOK, WentOn, WasLast, WalkSubmitted, PatchMade
  <1>5. \A s \in Samples : ~Both(s) /\ ~Both(s)'
    BY <1>2, <1>3 DEF Both, Walks, Sides
  <1>6. HandedOver'
    BY <1>1, <1>5 DEF RunOK, PairsOK, HandedOver, Batched, BatchIds
  <1>7. OneSecond' /\ InPhase' /\ PairsType'
    BY <1>1, <1>3 DEF RunOK, PairsOK, OneSecond, InPhase, PairsType
  <1>8. BridgeInv'
    BY AsksInv DEF RunOK, StartGeneration
  <1>9. QED
    BY <1>4, <1>6, <1>7, <1>8 DEF RunOK, PairsOK

LEMMA EndGenerationInv == ASSUME RunOK, EndGeneration PROVE RunOK'
  <1>1. /\ Flush(pending) /\ UNCHANGED <<walk, verdict>> /\ phase' = "scoring"
        /\ \A w \in Walks : walk[w].pc = "ended"
    BY DEF EndGeneration
  <1>2. PICK all \in SUBSET Samples : all = pending
    BY DEF RunOK, PairsOK, PairsType
  <1>3. /\ pending' = {} /\ batches' \in Seq(BatchRow) /\ Batched' = Batched \cup all
        /\ \A b, c \in BatchIds' : b # c => batches'[b].pairs \cap batches'[c].pairs = {}
    BY <1>1, <1>2, FlushPairs DEF RunOK, PairsOK, PairsType, HandedOver
  <1>4. WalksOK' /\ \A s \in Samples : Both(s)' <=> Both(s)
    BY <1>1, WalksStand DEF RunOK
  <1>5. HandedOver' /\ PairsType'
    BY <1>2, <1>3, <1>4 DEF RunOK, PairsOK, HandedOver, PairsType
  <1>6. OneSecond' /\ InPhase'
    BY <1>1, <1>3 DEF RunOK, PairsOK, OneSecond, InPhase
  <1>7. BridgeInv'
    <2>1. call' = call \/ call' = Requested(ScoreCall(Len(batches) + 1))
      BY <1>1 DEF Flush
    <2>2. QED
      BY <2>1, AsksInv DEF RunOK, EndGeneration
  <1>8. QED
    BY <1>4, <1>5, <1>6, <1>7 DEF RunOK, PairsOK

\* The steps that only change the phase, the verdict or the bridge.
LEMMA OtherInv ==
  ASSUME RunOK, UNCHANGED <<walk, pending, batches>>, BridgeInv', InPhase'
  PROVE  RunOK'
  <1>1. WalksOK' /\ \A s \in Samples : Both(s)' <=> Both(s)
    BY WalksStand DEF RunOK
  <1>2. QED
    BY <1>1 DEF RunOK, PairsOK, HandedOver, Batched, BatchIds, OneSecond, PairsType

LEMMA RunStepInv == ASSUME RunOK, RunStep PROVE RunOK'
  <1>1. CASE StartPrep
    <2>1. BridgeInv' /\ InPhase'
      BY <1>1, AsksInv DEF StartPrep, RunOK, PairsOK, InPhase
    <2>2. QED
      BY <1>1, <2>1, OtherInv DEF StartPrep
  <1>2. CASE RunFails \/ BuildVerdict \/ Publish
    <2>1. UNCHANGED <<bridgeVars, walk, pending, batches>>
      BY <1>2 DEF RunFails, BuildVerdict, Publish
    <2>2. ScorePairs.state \in {"succeeded", "failed"}
      BY DEF ScorePairs
    <2>3. InPhase'
      BY <1>2, <2>1, <2>2 DEF RunFails, BuildVerdict, Publish, RunOK, PairsOK, InPhase
    <2>4. QED
      BY <2>1, <2>3, BridgeStands, OtherInv DEF RunOK
  <1>3. QED
    BY <1>1, <1>2, StartGenerationInv, EndGenerationInv DEF RunStep

LEMMA NextRunOK == ASSUME RunOK, [Next]_vars PROVE RunOK'
  <1>1. CASE BridgeNext /\ UNCHANGED runVars
    <2>1. BridgeInv' /\ InPhase' /\ UNCHANGED <<walk, pending, batches>>
      BY <1>1, BridgeNextInv DEF RunOK, PairsOK, InPhase, runVars
    <2>2. QED
      BY <2>1, OtherInv
  <1>2. ASSUME NEW w \in Walks, WalkStep(w) PROVE RunOK'
    BY <1>2, GenerateInv, ObservedInv, FinishInv, OnPairInv DEF WalkStep
  <1>3. CASE UNCHANGED vars
    <2>1. BridgeInv' /\ InPhase' /\ UNCHANGED <<walk, pending, batches>>
      BY <1>3, BridgeStands DEF RunOK, PairsOK, InPhase, vars, runVars
    <2>2. QED
      BY <2>1, OtherInv
  <1>4. QED
    BY <1>1, <1>2, <1>3, BatchReturnsInv, RunStepInv DEF Next

----------------------------------------------------------------------------
(* The verdict: what the batches add up to. *)

\* g adds up F over every subset of S, as MapThenSumSet goes through a set.
AddsUp(F, g, S) ==
  g = [s \in SUBSET S |-> IF s = {} THEN 0
                          ELSE F[CHOOSE x \in s : TRUE] + g[s \ {CHOOSE x \in s : TRUE}]]

\* There is one such function: a least subset two of them differ on would have a smaller one.
LEMMA OneSum ==
  ASSUME NEW S, IsFiniteSet(S), NEW F, NEW g, NEW h, AddsUp(F, g, S), AddsUp(F, h, S)
  PROVE  g = h
  <1> DEFINE Differ == {s \in SUBSET S : g[s] # h[s]}
             sizes == {Cardinality(s) : s \in Differ}
  <1>1. g = [s \in SUBSET S |-> g[s]] /\ h = [s \in SUBSET S |-> h[s]]
    BY DEF AddsUp
  <1>2. SUFFICES ASSUME Differ # {} PROVE FALSE
    BY <1>1
  <1>3. \A s \in SUBSET S : IsFiniteSet(s) /\ Cardinality(s) \in Nat
    BY FS_Subset, FS_CardinalityType
  <1>4. sizes \subseteq Nat /\ sizes # {}
    BY <1>2, <1>3
  <1>5. PICK n \in sizes : \A m \in sizes : n =< m
    <2> HIDE DEF sizes
    <2>1. QED
      BY <1>4, LeastOfSome
  <1>6. PICK s \in Differ : \A t \in Differ : Cardinality(s) =< Cardinality(t)
    BY <1>5
  <1>7. s # {}
    BY <1>6 DEF AddsUp
  <1> DEFINE x == CHOOSE y \in s : TRUE
  <1>8. x \in s
    BY <1>7
  <1>9. g[s] = F[x] + g[s \ {x}] /\ h[s] = F[x] + h[s \ {x}]
    BY <1>7 DEF AddsUp
  <1> HIDE DEF x
  <1>10. s \ {x} \notin Differ
    <2>1. s \in SUBSET S /\ Cardinality(s) \in Nat /\ Cardinality(s \ {x}) = Cardinality(s) - 1
      BY <1>3, <1>8, FS_RemoveElement
    <2>2. QED
      BY <1>6, <2>1
  <1>11. QED
    BY <1>9, <1>10

\* Scores of disjoint pairs: their sum over the batches counts the samples scored.
LEMMA ScoresAddUp ==
  ASSUME PairsOK
  PROVE  ScoredSum = Cardinality({s \in Samples : \E b \in BatchIds : s \in batches[b].scored})
  <1> DEFINE F == [b \in BatchIds |-> Cardinality(batches[b].scored)]
             of(B) == {s \in Samples : \E b \in B : s \in batches[b].scored}
             g == [B \in SUBSET BatchIds |-> Cardinality(of(B))]
             step(B, f) == IF B = {} THEN 0
                           ELSE Cardinality(batches[CHOOSE b \in B : TRUE].scored)
                                + f[B \ {CHOOSE b \in B : TRUE}]
             iter == CHOOSE f : f = [B \in SUBSET BatchIds |-> step(B, f)]
  <1>1. \A b \in BatchIds : batches[b] \in BatchRow
    BY DEF PairsOK, PairsType, BatchIds
  <1>2. /\ \A b \in BatchIds : batches[b].scored \subseteq Samples
        /\ \A b, c \in BatchIds : b # c => batches[b].scored \cap batches[c].scored = {}
    BY <1>1 DEF BatchRow, PairsOK, HandedOver
  <1>3. IsFiniteSet(BatchIds)
    <2>1. Len(batches) \in Nat
      BY DEF PairsOK, PairsType
    <2>2. QED
      BY <2>1, FS_Interval DEF BatchIds
  <1>4. \A B \in SUBSET BatchIds : g[B] = step(B, g)
    <2> SUFFICES ASSUME NEW B \in SUBSET BatchIds PROVE g[B] = step(B, g)
      OBVIOUS
    <2>1. CASE B = {}
      <3>1. of(B) = {}
        BY <2>1
      <3>2. QED
        BY <2>1, <3>1, FS_EmptySet
    <2>2. CASE B # {}
      <3> DEFINE b == CHOOSE c \in B : TRUE
                 scored == batches[b].scored
                 rest == of(B \ {b})
      <3>1. b \in B
        BY <2>2
      <3>2. step(B, g) = Cardinality(scored) + Cardinality(rest)
        BY <2>2, <3>1
      <3>3. g[B] = Cardinality(of(B))
        OBVIOUS
      <3> HIDE DEF b
      <3>4. /\ of(B) = scored \cup rest /\ scored \cap rest = {}
            /\ scored \subseteq Samples /\ rest \subseteq Samples
        BY <1>2, <3>1
      <3>5. IsFiniteSet(scored) /\ IsFiniteSet(rest)
        BY <3>4, RunAssumption, FS_Subset
      <3> HIDE DEF scored, rest, of, g, step
      <3>6. Cardinality(scored \cup rest) = Cardinality(scored) + Cardinality(rest) - Cardinality({})
        BY <3>4, <3>5, FS_Union
      <3>7. Cardinality({}) = 0 /\ Cardinality(scored) \in Nat /\ Cardinality(rest) \in Nat
        BY <3>5, FS_EmptySet, FS_CardinalityType
      <3>8. QED
        BY <3>2, <3>3, <3>4, <3>6, <3>7
    <2>3. QED
      BY <2>1, <2>2
  <1>5. g = [B \in SUBSET BatchIds |-> step(B, g)]
    BY <1>4
  <1>6. iter = [B \in SUBSET BatchIds |-> step(B, iter)]
    <2> HIDE DEF g, step
    <2>1. QED
      BY <1>5
  <1>7. \A f : (f = [B \in SUBSET BatchIds |-> step(B, f)]) => AddsUp(F, f, BatchIds)
    <2> SUFFICES ASSUME NEW f, f = [B \in SUBSET BatchIds |-> step(B, f)]
                 PROVE  AddsUp(F, f, BatchIds)
      OBVIOUS
    <2>1. ASSUME NEW B \in SUBSET BatchIds
          PROVE  step(B, f) = IF B = {} THEN 0 ELSE F[CHOOSE x \in B : TRUE] + f[B \ {CHOOSE x \in B : TRUE}]
      <3>1. B # {} => (CHOOSE x \in B : TRUE) \in BatchIds
        OBVIOUS
      <3>2. QED
        BY <3>1
    <2> HIDE DEF step, F
    <2>2. QED
      BY <2>1 DEF AddsUp
  <1>8. iter = g
    <2> HIDE DEF g, iter, step, F
    <2>1. QED
      BY <1>3, <1>5, <1>6, <1>7, OneSum
  <1>9. ScoredSum = iter[BatchIds]
    BY DEF ScoredSum, MapThenSumSet, MapThenFoldSet
  <1>10. QED
    BY <1>8, <1>9

\* Of the steps, only the one that builds the verdict can make it a success; and a success
\* is disturbed by none, for the batches have all come back.
LEMMA NextVerdictOK == ASSUME IInv, [Next]_vars PROVE VerdictOK'
  <1>1. ASSUME UNCHANGED <<phase, verdict>>, verdict.state # "succeeded" PROVE VerdictOK'
    BY <1>1 DEF IInv, VerdictOK, SuccessIsFullyJudged
  <1>2. ASSUME UNCHANGED <<batches, phase, verdict>> PROVE VerdictOK'
    BY <1>2 DEF IInv, VerdictOK, SuccessIsFullyJudged, BatchIds
  <1>3. ASSUME verdict.state = "none", UNCHANGED verdict PROVE VerdictOK'
    BY <1>3 DEF VerdictOK, SuccessIsFullyJudged
  <1>4. CASE StartPrep \/ StartGeneration \/ EndGeneration
    <2>1. phase \in {"accepted", "prep", "generating"} /\ UNCHANGED verdict
      BY <1>4 DEF StartPrep, StartGeneration, EndGeneration
    <2>2. verdict.state = "none"
      BY <2>1 DEF IInv, VerdictOK
    <2>3. QED
      BY <1>3, <2>1, <2>2
  <1>5. CASE RunFails
    BY <1>5 DEF RunFails, VerdictOK, SuccessIsFullyJudged
  <1>6. CASE BuildVerdict
    <2>1. /\ phase' = "publishing" /\ verdict' = ScorePairs /\ UNCHANGED batches
          /\ \A b \in BatchIds : batches[b].state # "asked"
      BY <1>6 DEF BuildVerdict
    <2>2. ASSUME ScorePairs.state = "succeeded" PROVE Raised = {} /\ ~TooFew(ScoredSum)
      BY <2>2 DEF ScorePairs
    <2>3. ASSUME ScorePairs.state = "succeeded" PROVE SuccessIsFullyJudged'
      <3>1. \A b \in BatchIds : batches[b].state = "scored"
        <4>1. \A b \in BatchIds : batches[b] \in BatchRow
          BY DEF IInv, RunOK, PairsOK, PairsType, BatchIds
        <4>2. \A b \in BatchIds : batches[b].state \in {"asked", "scored", "raised"}
          BY <4>1 DEF BatchRow
        <4>3. QED
          BY <2>1, <2>2, <2>3, <4>2 DEF Raised
      <3>2. ScoredSum = Cardinality({s \in Samples : \E b \in BatchIds : s \in batches[b].scored})
        BY ScoresAddUp DEF IInv, RunOK
      <3>3. ScoredSum \in Nat /\ MinPct * Total \in Nat
        <4>1. IsFiniteSet({s \in Samples : \E b \in BatchIds : s \in batches[b].scored})
          BY RunAssumption, FS_Subset
        <4>2. Total \in Nat /\ MinPct \in Nat
          BY RunAssumption, FS_CardinalityType DEF Total
        <4>3. QED
          BY <3>2, <4>1, <4>2, FS_CardinalityType
      <3>4. ScoredSum * 100 >= MinPct * Total
        BY <2>2, <2>3, <3>3 DEF TooFew
      <3>5. QED
        BY <2>1, <3>1, <3>2, <3>4 DEF SuccessIsFullyJudged, BatchIds, Total
    <2>4. QED
      BY <2>1, <2>3 DEF VerdictOK, SuccessIsFullyJudged
  <1>7. CASE Publish
    <2>1. phase = "publishing" /\ phase' = verdict.state /\ UNCHANGED <<batches, verdict>>
      BY <1>7 DEF Publish
    <2>2. verdict.state \in {"none", "succeeded", "failed"}
      BY DEF IInv, RunOK, PairsOK, InPhase
    <2>3. QED
      BY <2>1, <2>2 DEF IInv, VerdictOK, SuccessIsFullyJudged, BatchIds
  <1>8. ASSUME NEW w \in Walks, OnPair(w) PROVE VerdictOK'
    <2>1. walk[w].pc = "pair" /\ UNCHANGED <<phase, verdict>>
      BY <1>8 DEF OnPair
    <2>2. verdict.state # "succeeded"
      BY <2>1 DEF IInv, RunOK, PairsOK, InPhase, VerdictOK
    <2>3. QED
      BY <1>1, <2>1, <2>2
  <1>9. ASSUME NEW b \in BatchIds, BatchReturns(b) PROVE VerdictOK'
    <2>1. batches[b].state = "asked" /\ UNCHANGED <<phase, verdict>>
      BY <1>9 DEF BatchReturns
    <2>2. verdict.state # "succeeded"
      BY <2>1 DEF IInv, VerdictOK, SuccessIsFullyJudged
    <2>3. QED
      BY <1>1, <2>1, <2>2
  <1>10. ASSUME NEW w \in Walks, Generate(w) \/ Observed(w) \/ Finish(w) PROVE VerdictOK'
    BY <1>2, <1>10 DEF Generate, Observed, Finish
  <1>11. CASE UNCHANGED runVars \/ UNCHANGED vars
    BY <1>2, <1>11 DEF runVars, vars
  <1>12. QED
    BY <1>4, <1>5, <1>6, <1>7, <1>8, <1>9, <1>10, <1>11 DEF Next, WalkStep, RunStep

----------------------------------------------------------------------------
(* The results. *)

LEMMA SpecIInv == Spec => []IInv
  <1>1. IInv /\ [Next]_vars => IInv'
    BY NextRunOK, NextVerdictOK DEF IInv
  <1>2. QED
    BY <1>1, InitIInv, PTL DEF Spec

\* A request waits under the socket of the hub: those of a replaced one were returned
\* (hub.connect, hub.disconnect), whatever the connections do.
THEOREM SpecNothingWaitsOnAReplacedSocket == Spec => []NothingWaitsOnAReplacedSocket
  <1>1. IInv => NothingWaitsOnAReplacedSocket
    BY DEF IInv, RunOK, BridgeInv
  <1>2. QED
    BY <1>1, SpecIInv, PTL

\* A walk that ended well is merged without an error, for any horizon and any outputs
\* (_next_turn_samples, _merge_trajectory_results).
THEOREM SpecWalksMergeAsTheyEnded == Spec => []WalksMergeAsTheyEnded
  <1>1. IInv => WalksMergeAsTheyEnded
    BY MergesAsItEnded DEF IInv, RunOK, WalksMergeAsTheyEnded
  <1>2. QED
    BY <1>1, SpecIInv, PTL

\* What the invariant says of the pairs, as the property puts it.
LEMMA JudgedOnce == IInv => EveryPairJudgedOnce
  <1> SUFFICES ASSUME IInv PROVE EveryPairJudgedOnce
    OBVIOUS
  <1>1. \A b \in BatchIds : batches[b].pairs \subseteq Samples
    <2>1. \A b \in BatchIds : batches[b] \in BatchRow
      BY DEF IInv, RunOK, PairsOK, PairsType, BatchIds
    <2>2. QED
      BY <2>1 DEF BatchRow
  <1>2. Batched \subseteq Samples
    BY <1>1 DEF Batched
  <1>3. ASSUME NEW s \in Batched \cup pending PROVE \A side \in Sides : Finished(<<side, s>>)
    BY <1>2 DEF IInv, RunOK, PairsOK, PairsType, HandedOver, Both, Finished
  <1>4. ASSUME phase \in {"scoring", "publishing", "succeeded"} PROVE Batched = Samples
    <2>1. \A s \in Samples : Both(s)
      BY <1>4 DEF IInv, RunOK, PairsOK, InPhase, Both, Walks
    <2>2. QED
      BY <1>2, <1>4, <2>1 DEF IInv, RunOK, PairsOK, HandedOver, InPhase
  <1>5. QED
    BY <1>3, <1>4 DEF EveryPairJudgedOnce, IInv, RunOK, PairsOK, HandedOver

\* Every pair is judged in one batch, once both its walks ended, none is left out of the
\* verdict, and a run succeeds only on batches that all came back with scores for enough of
\* its samples, for any number of samples and any batch size (trajectory, on_pair, flush,
\* aggregate_scores, _build_verdict).
THEOREM SpecVerdictIsOfEveryPair == Spec => []VerdictIsOfEveryPair
  <1>1. IInv => VerdictIsOfEveryPair
    BY JudgedOnce DEF IInv, VerdictOK, VerdictIsOfEveryPair
  <1>2. QED
    BY <1>1, SpecIInv, PTL
=============================================================================
