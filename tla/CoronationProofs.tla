-------------------------- MODULE CoronationProofs --------------------------
(***************************************************************************)
(* SettledForGood, OnlyARacedRefreshGoesBack, ReignsSucceed and            *)
(* OneShareEach of Coronation, proved for any number of winners, seats,    *)
(* uids, epochs, blocks and faults; and WinIsEarned of Marks, the duel a   *)
(* winner comes from, for any judges, questions, judgings and samples.     *)
(***************************************************************************)
EXTENDS Coronation, Marks, FiniteSetTheorems, SequenceTheorems, WellFoundedInduction,
        TLAPS

----------------------------------------------------------------------------
(* The inductive invariant. *)

Used(e)    == epochs[e].state # "NONE"
Crowns(e)  == Used(e) /\ epochs[e].window = NoWindow   \* a coronation's or the genesis epoch
Renews(e)  == Used(e) /\ epochs[e].window # NoWindow   \* a refresh of a window
Open(e)    == epochs[e].state \in {"PENDING", "FAILED_RETRYABLE"}

Elements(s) == {s[i] : i \in DOMAIN s}

\* The fields the steps write.
Shape ==
  /\ epochs \in [Rows -> [state : EpochStates, reign : Nat, window : Nat \cup {NoWindow}, cool : BOOLEAN]]
  /\ reigns \in Seq(Elements(reigns))
  /\ promo \in Rows \cup {NoRow}
  /\ block \in Nat /\ marker \in Int
  /\ setter = [pc |-> setter.pc, row |-> setter.row, trigger |-> setter.trigger,
               block |-> setter.block, seen |-> setter.seen, answer |-> setter.answer]
  /\ chain = [set |-> chain.set, reign |-> chain.reign, weights |-> chain.weights]

\* An epoch is of a reign that has been, and of a window that has begun; each reign of a
\* king has a coronation epoch.
RowsOfReigns ==
  /\ \A e \in Rows : Used(e) => epochs[e].reign <= Active /\ epochs[e].window * Rate <= block
  /\ \A e \in Rows : Crowns(e) => epochs[e].reign >= 1
  /\ \A v \in 1..Active : \E e \in Rows : Crowns(e) /\ epochs[e].reign = v
  /\ chain.set => chain.reign \in Nat /\ chain.reign <= Active

\* The row of an open promotion is free, and later than every earlier coronation's.
PromoHolds ==
  promo # NoRow => /\ Active # NoReign /\ ~Used(promo)
                   /\ \A e \in Rows : Crowns(e) => e < promo

\* Rows after a refresh are of later reigns, or refreshes of later windows of its own.
RefreshesInOrder ==
  \A d, e \in Rows :
    Renews(d) /\ Used(e) /\ d < e =>
      \/ epochs[d].reign < epochs[e].reign
      \/ /\ epochs[d].reign = epochs[e].reign
         /\ Renews(e) /\ epochs[d].window < epochs[e].window

CrownsInOrder ==
  \A d, e \in Rows :
    Crowns(d) /\ Crowns(e) /\ d < e => epochs[d].reign < epochs[e].reign

\* The epoch the setter works on runs, and its window had begun when it was claimed.
SetterHolds ==
  setter.pc # "idle" =>
    /\ setter.row \in Rows /\ epochs[setter.row].state = "RUNNING" /\ setter.block \in Nat
    /\ epochs[setter.row].window * Rate <= setter.block
    /\ \A e \in Rows : Crowns(e) /\ epochs[e].reign = epochs[setter.row].reign =>
                         epochs[e].state # "PENDING"

\* Once a coronation's epoch has been claimed or superseded, nothing before it is open or can
\* be opened again.
NothingOpenBefore ==
  \A e \in Rows : Crowns(e) /\ epochs[e].state # "PENDING" =>
    /\ \A d \in Rows : d < e => ~Open(d)
    /\ setter.pc # "idle" => setter.row >= e

\* What succeeded is of a window before the next the rate allows; what was superseded is of
\* an older reign or window.
SettledIsPast ==
  /\ \A e \in Rows : epochs[e].state = "SUCCESS" => epochs[e].window * Rate <= marker
  /\ \A e \in Rows : epochs[e].state = "FAILED_TERMINAL" /\ Renews(e) =>
       epochs[e].reign < Active \/ (epochs[e].window + 1) * Rate <= block

\* The coronation of the reign on the chain has been claimed or superseded.
ChainHolds ==
  chain.set => \A e \in Rows : Crowns(e) /\ epochs[e].reign = chain.reign => epochs[e].state # "PENDING"

KingBeforeWinner == (\E s \in Winners : subs[s] = "EVAL_WIN") => Active # NoReign

IInv ==
  /\ Shape /\ RowsOfReigns /\ PromoHolds /\ RefreshesInOrder /\ CrownsInOrder
  /\ SetterHolds /\ NothingOpenBefore /\ SettledIsPast /\ ChainHolds /\ KingBeforeWinner


----------------------------------------------------------------------------
(* Windows. *)

LEMMA WindowOf ==
  ASSUME NEW b \in Nat
  PROVE  /\ b \div Rate \in Nat
         /\ (b \div Rate) * Rate <= b /\ b < ((b \div Rate) + 1) * Rate
  <1>1. Rate \in Nat /\ Rate > 0
    BY CountsAssumption
  <1>2. b \div Rate \in Int /\ b % Rate \in 0..(Rate - 1) /\ b = Rate * (b \div Rate) + (b % Rate)
    BY <1>1, SMT
  <1>3. b \div Rate >= 0
    BY <1>1, <1>2, SMT
  <1>4. QED
    BY <1>1, <1>2, <1>3, SMT

LEMMA LaterWindow ==
  ASSUME NEW v \in Int, NEW w \in Int, v < w
  PROVE  (v + 1) * Rate <= w * Rate
  <1>1. Rate \in Nat
    BY CountsAssumption
  <1>2. QED
    BY <1>1, SMT

LEMMA NextWindow ==
  ASSUME NEW w \in Int
  PROVE  (w + 1) * Rate = w * Rate + Rate /\ w * Rate \in Int
  <1>1. Rate \in Nat
    BY CountsAssumption
  <1>2. QED
    BY <1>1, SMT

LEMMA EpochType ==
  ASSUME Shape, NEW e \in Rows
  PROVE  /\ epochs[e].state \in EpochStates /\ epochs[e].reign \in Nat
         /\ epochs[e].window \in Int /\ epochs[e].window >= NoWindow
         /\ epochs[e].window * Rate \in Int
  <1>1. epochs[e].window \in Nat \cup {NoWindow}
    BY DEF Shape
  <1>2. epochs[e].window \in Int
    BY <1>1 DEF NoWindow
  <1>3. QED
    BY <1>1, <1>2, NextWindow DEF Shape, NoWindow

LEMMA ActiveType == Shape => Active \in Nat
  BY DEF Shape, Active

\* A reign more.
LEMMA ReignAppended ==
  ASSUME Shape, NEW r, reigns' = Append(reigns, r)
  PROVE  reigns' \in Seq(Elements(reigns)') /\ Active' = Active + 1
  <1> DEFINE S == Elements(reigns) \cup {r}
  <1>1. reigns \in Seq(S) /\ r \in S
    BY SeqMonotonic DEF Shape
  <1>2. /\ reigns' \in Seq(S) /\ Len(reigns') = Len(reigns) + 1
        /\ \A i \in 1..Len(reigns') : reigns'[i] \in S
    BY <1>1, AppendProperties
  <1>3. reigns' \in Seq(Elements(reigns)')
    <2>1. \A i \in 1..Len(reigns') : reigns'[i] \in Elements(reigns)'
      BY <1>2 DEF Elements
    <2>2. QED
      BY <1>2, <2>1, IsASeq, LenProperties
  <1>4. QED
    BY <1>2, <1>3 DEF Active

----------------------------------------------------------------------------
LEMMA InitIInv == Init => IInv
  <1> SUFFICES ASSUME Init PROVE IInv
    OBVIOUS
  <1>0. MaxEpochs \in Nat /\ Rate \in Nat
    BY CountsAssumption
  <1>1. \A e \in Rows : ~Used(e) /\ epochs[e].state = "NONE"
    BY DEF Init, NoEpoch, Used
  <1>2. Active = 0 /\ setter.pc = "idle" /\ promo = NoRow /\ ~chain.set
    BY DEF Init, Active, Idle
  <1>3. Shape
    BY <1>0 DEF Init, Shape, Idle, NoEpoch, EpochStates, NoReign, NoRow, Elements
  <1>4. KingBeforeWinner
    BY DEF Init, KingBeforeWinner, Kings, Winners
  <1>5. QED
    BY <1>1, <1>2, <1>3, <1>4 DEF IInv, RowsOfReigns, PromoHolds, RefreshesInOrder, CrownsInOrder,
       SetterHolds, NothingOpenBefore, SettledIsPast, ChainHolds, Crowns, Renews, Used, NoReign

----------------------------------------------------------------------------
(* The world: time passes, and a model wins. *)

LEMMA WorldInv ==
  ASSUME IInv, UNCHANGED <<reigns, epochs, promo, setter, marker, chain>>,
         block' \in Nat, block' >= block,
         KingBeforeWinner'
  PROVE  IInv'
  <1>1. /\ Shape' /\ Active' = Active
        /\ \A e \in Rows : epochs[e].window * Rate \in Int /\ (epochs[e].window + 1) * Rate \in Int
    BY EpochType, NextWindow DEF IInv, Shape, Active, Elements
  <1>2. RowsOfReigns'
    BY <1>1 DEF IInv, Shape, RowsOfReigns, Used, Crowns
  <1>3. SettledIsPast'
    BY <1>1 DEF IInv, Shape, SettledIsPast, Renews, Used
  <1>4. /\ PromoHolds' /\ RefreshesInOrder' /\ CrownsInOrder' /\ SetterHolds'
        /\ NothingOpenBefore' /\ ChainHolds'
    BY <1>1 DEF IInv, PromoHolds, RefreshesInOrder, CrownsInOrder, SetterHolds, NothingOpenBefore,
       ChainHolds, Used, Crowns, Renews, Open
  <1>5. QED
    BY <1>1, <1>2, <1>3, <1>4 DEF IInv

LEMMA AdvanceBlockInv == ASSUME IInv, AdvanceBlock PROVE IInv'
  BY WorldInv DEF AdvanceBlock, IInv, Shape, KingBeforeWinner, Active

LEMMA TakeUidInv == ASSUME IInv, NEW u, NEW h, TakeUid(u, h) PROVE IInv'
  BY WorldInv DEF TakeUid, IInv, Shape, KingBeforeWinner, Active

LEMMA WinEvalInv == ASSUME IInv, NEW s \in Winners, WinEval(s) PROVE IInv'
  BY WorldInv DEF WinEval, IInv, Shape, KingBeforeWinner, Active

\* An epoch's retry becomes due: no state changes.
LEMMA CoolDownInv == ASSUME IInv, NEW e \in Rows, CoolDown(e) PROVE IInv'
  <1>1. /\ epochs' = [epochs EXCEPT ![e].cool = TRUE] /\ UNCHANGED <<subs, reigns, promo, setter, marker, block, chain>>
    BY DEF CoolDown
  <1>2. /\ Shape' /\ Active' = Active
        /\ \A d \in Rows : /\ epochs'[d].state = epochs[d].state /\ epochs'[d].reign = epochs[d].reign
                           /\ epochs'[d].window = epochs[d].window
    BY <1>1 DEF IInv, Shape, Active, Elements
  <1>3. \A d \in Rows : /\ Used(d)' = Used(d) /\ Crowns(d)' = Crowns(d) /\ Renews(d)' = Renews(d)
                        /\ Open(d)' = Open(d)
    BY <1>2 DEF Used, Crowns, Renews, Open
  <1>4. RowsOfReigns' /\ PromoHolds' /\ RefreshesInOrder' /\ CrownsInOrder'
    BY <1>1, <1>2, <1>3 DEF IInv, Shape, RowsOfReigns, PromoHolds, RefreshesInOrder, CrownsInOrder
  <1>5. SetterHolds' /\ NothingOpenBefore' /\ SettledIsPast' /\ ChainHolds'
    BY <1>1, <1>2, <1>3 DEF IInv, Shape, SetterHolds, NothingOpenBefore, SettledIsPast, ChainHolds
  <1>6. KingBeforeWinner'
    BY <1>1, <1>2 DEF IInv, KingBeforeWinner
  <1>7. QED
    BY <1>2, <1>4, <1>5, <1>6 DEF IInv

----------------------------------------------------------------------------
(* A new reign, with its epoch. *)

LEMMA CrownAdded ==
  ASSUME IInv, NEW e \in Rows, ~Used(e), \A d \in Rows : Crowns(d) => d < e,
         epochs' = [epochs EXCEPT ![e] = Pending(Active + 1, NoWindow)],
         reigns' \in Seq(Elements(reigns)'), Active' = Active + 1, promo' = NoRow,
         UNCHANGED <<setter, marker, block, chain>>
  PROVE  IInv'
  <1>0. Active \in Nat
    BY ActiveType DEF IInv
  <1>1. /\ epochs'[e].state = "PENDING" /\ epochs'[e].reign = Active + 1 /\ epochs'[e].window = NoWindow
        /\ \A d \in Rows : d # e => epochs'[d] = epochs[d]
    <2> DEFINE row == Pending(Active + 1, NoWindow)
    <2>1. row.state = "PENDING" /\ row.reign = Active + 1 /\ row.window = NoWindow
      BY DEF Pending
    <2> HIDE DEF row
    <2>2. epochs' = [epochs EXCEPT ![e] = row]
      BY DEF row
    <2>3. QED
      BY <2>1, <2>2 DEF IInv, Shape
  <1>2. Shape'
    <2>1. Pending(Active + 1, NoWindow) \in
            [state : EpochStates, reign : Nat, window : Nat \cup {NoWindow}, cool : BOOLEAN]
      BY <1>0 DEF Pending, EpochStates
    <2>2. QED
      BY <2>1 DEF IInv, Shape
  <1>3. /\ Used(e)' /\ Crowns(e)' /\ ~Renews(e)' /\ Open(e)'
        /\ \A d \in Rows : d # e => /\ Used(d)' = Used(d) /\ Crowns(d)' = Crowns(d)
                                    /\ Renews(d)' = Renews(d) /\ Open(d)' = Open(d)
    BY <1>1 DEF Used, Crowns, Renews, Open
  <1>4. RowsOfReigns'
    <2>1. \A v \in 1..Active' : v \in 1..Active \/ v = Active + 1
      BY <1>0
    <2>2. \A d \in Rows : Used(d)' => epochs'[d].reign <= Active' /\ epochs'[d].window * Rate <= block'
      <3>1. epochs'[e].window * Rate <= block
        BY <1>1, CountsAssumption DEF NoWindow, IInv, Shape
      <3>2. QED
        BY <1>0, <1>1, <1>3, <3>1, EpochType DEF IInv, RowsOfReigns
    <2>3. \A d \in Rows : Crowns(d)' => epochs'[d].reign >= 1
      BY <1>0, <1>1, <1>3 DEF IInv, RowsOfReigns
    <2>4. \A v \in 1..Active' : \E d \in Rows : Crowns(d)' /\ epochs'[d].reign = v
      <3>1. ASSUME NEW v \in 1..Active PROVE \E d \in Rows : Crowns(d)' /\ epochs'[d].reign = v
        <4>1. PICK d \in Rows : Crowns(d) /\ epochs[d].reign = v
          BY DEF IInv, RowsOfReigns
        <4>2. d # e
          BY <4>1 DEF Crowns
        <4>3. QED
          BY <1>1, <1>3, <4>1, <4>2
      <3>2. QED
        BY <1>1, <1>3, <2>1, <3>1
    <2>5. chain'.set => chain'.reign \in Nat /\ chain'.reign <= Active'
      BY <1>0 DEF IInv, RowsOfReigns
    <2>6. QED
      BY <2>2, <2>3, <2>4, <2>5 DEF RowsOfReigns
  <1>5. PromoHolds'
    BY DEF PromoHolds
  <1>6. RefreshesInOrder'
    BY <1>0, <1>1, <1>3, EpochType DEF IInv, RefreshesInOrder, RowsOfReigns, Renews
  <1>7. CrownsInOrder'
    BY <1>0, <1>1, <1>3, EpochType DEF IInv, CrownsInOrder, RowsOfReigns, Crowns, Rows
  <1>8. SetterHolds'
    BY <1>0, <1>1, <1>3, EpochType DEF IInv, SetterHolds, RowsOfReigns, Used
  <1>9. NothingOpenBefore'
    <2>1. ASSUME NEW f \in Rows, Crowns(f)', epochs'[f].state # "PENDING"
          PROVE  /\ f # e /\ Crowns(f) /\ f < e /\ epochs[f].state # "PENDING"
      BY <1>1, <1>3, <2>1
    <2>2. QED
      BY <1>1, <1>3, <2>1 DEF IInv, NothingOpenBefore, Rows
  <1>10. SettledIsPast'
    BY <1>0, <1>1, <1>3, EpochType DEF IInv, SettledIsPast
  <1>11. ChainHolds'
    BY <1>0, <1>1, <1>3 DEF IInv, ChainHolds, RowsOfReigns
  <1>12. KingBeforeWinner'
    BY <1>0 DEF KingBeforeWinner, NoReign
  <1>13. QED
    BY <1>2, <1>4, <1>5, <1>6, <1>7, <1>8, <1>9, <1>10, <1>11, <1>12 DEF IInv

LEMMA BootstrapGenesisInv == ASSUME IInv, BootstrapGenesis PROVE IInv'
  <1>1. CASE Active # NoReign
    <2>1. UNCHANGED <<reigns, epochs, promo, setter, marker, block, chain>> /\ Active' = Active
      BY <1>1 DEF BootstrapGenesis, GenesisReign, Active
    <2>2. KingBeforeWinner'
      BY <1>1, <2>1 DEF KingBeforeWinner
    <2>3. QED
      BY <2>1, <2>2, WorldInv DEF IInv, Shape
  <1>2. CASE Active = NoReign
    <2>1. PICK e \in Rows : NextRow(e) /\ epochs' = [epochs EXCEPT ![e] = Pending(1, NoWindow)]
      BY <1>2 DEF BootstrapGenesis, GenesisReign
    <2>2. /\ reigns' = <<[members |-> <<0>>, trigger |-> 0]>> /\ UNCHANGED <<promo, setter, marker, block, chain>>
      BY <1>2 DEF BootstrapGenesis, GenesisReign
    <2>3. ~Used(e) /\ \A d \in Rows : Crowns(d) => d < e
      BY <2>1 DEF NextRow, Used, Crowns, Rows
    <2>4. reigns' \in Seq(Elements(reigns)') /\ Active' = Active + 1
      BY <1>2, <2>2 DEF Elements, Active, NoReign
    <2>5. promo' = NoRow
      BY <1>2, <2>2 DEF IInv, PromoHolds
    <2>6. epochs' = [epochs EXCEPT ![e] = Pending(Active + 1, NoWindow)]
      BY <1>2, <2>1 DEF NoReign
    <2>7. QED
      BY <2>2, <2>3, <2>4, <2>5, <2>6, CrownAdded
  <1>3. QED
    BY <1>1, <1>2

LEMMA PromotionCommitsInv == ASSUME IInv, NEW s \in Winners, PromotionCommits(s) PROVE IInv'
  <1>1. /\ promo \in Rows /\ ~Used(promo) /\ \A d \in Rows : Crowns(d) => d < promo
    BY DEF PromotionCommits, IInv, PromoHolds, Shape
  <1>2. reigns' \in Seq(Elements(reigns)') /\ Active' = Active + 1
    BY ReignAppended DEF PromotionCommits, NewReign, IInv
  <1>3. QED
    BY <1>1, <1>2, CrownAdded DEF PromotionCommits, NewReign

\* A promotion that begins or aborts changes only the row it will insert.
LEMMA PromoMoves ==
  ASSUME IInv, UNCHANGED <<reigns, epochs, setter, marker, block, chain, subs>>,
         promo' \in Rows \cup {NoRow}, PromoHolds'
  PROVE  IInv'
  <1>1. Shape' /\ Active' = Active
    BY DEF IInv, Shape, Elements, Active
  <1>2. /\ RowsOfReigns' /\ RefreshesInOrder' /\ CrownsInOrder' /\ SetterHolds' /\ NothingOpenBefore'
        /\ SettledIsPast' /\ ChainHolds' /\ KingBeforeWinner'
    BY <1>1 DEF IInv, RowsOfReigns, RefreshesInOrder, CrownsInOrder, SetterHolds, NothingOpenBefore,
       SettledIsPast, ChainHolds, KingBeforeWinner, Used, Crowns, Renews, Open
  <1>3. QED
    BY <1>1, <1>2 DEF IInv

LEMMA PromotionBeginsInv == ASSUME IInv, PromotionBegins PROVE IInv'
  <1>1. PICK e \in Rows : NextRow(e) /\ promo' = e
    BY DEF PromotionBegins
  <1>2. Active # NoReign /\ Active' = Active
    BY DEF PromotionBegins, IInv, KingBeforeWinner, Active
  <1>3. ~Used(e)' /\ \A d \in Rows : Crowns(d)' => d < e
    BY <1>1 DEF PromotionBegins, NextRow, Used, Crowns, Rows
  <1>4. QED
    BY <1>1, <1>2, <1>3, PromoMoves DEF PromotionBegins, PromoHolds

LEMMA PromotionAbortsInv == ASSUME IInv, PromotionAborts PROVE IInv'
  BY PromoMoves DEF PromotionAborts, PromoHolds

----------------------------------------------------------------------------
(* The weight setter. *)

\* The newest due epoch is claimed, and supersedes the open ones before it.
LEMMA ClaimNewestInv == ASSUME IInv, NEW e \in Rows, ClaimNewest(e) PROVE IInv'
  <1>0. Active \in Nat /\ MaxEpochs \in Nat
    BY ActiveType, CountsAssumption DEF IInv
  <1>1. /\ setter.pc = "idle" /\ UNCHANGED <<reigns, promo, marker, block, chain>>
        /\ setter' = Claimed(e, TriggerOf(e)) /\ Due(e) /\ Active' = Active
    BY DEF ClaimNewest, Active
  <1>2. ASSUME NEW d \in Rows
        PROVE  /\ epochs'[d].reign = epochs[d].reign /\ epochs'[d].window = epochs[d].window
               /\ epochs'[d].state = IF d = e THEN "RUNNING"
                                     ELSE IF d < e /\ Open(d) THEN "FAILED_TERMINAL"
                                     ELSE epochs[d].state
    BY DEF ClaimNewest, Superseded, Open, IInv, Shape
  <1>3. /\ setter'.pc = "claimed" /\ setter'.row = e /\ setter'.block = block
    BY <1>1 DEF Claimed, Idle
  <1>4. Shape'
    <2>1. epochs' \in [Rows -> [state : EpochStates, reign : Nat, window : Nat \cup {NoWindow}, cool : BOOLEAN]]
      BY DEF ClaimNewest, Superseded, IInv, Shape, EpochStates
    <2>2. QED
      BY <1>1, <2>1 DEF IInv, Shape, Elements, Claimed, Idle
  <1>5. Open(e)
    BY <1>1 DEF Due, Open
  <1>6. ASSUME NEW d \in Rows
        PROVE  /\ Used(d)' = Used(d) /\ Crowns(d)' = Crowns(d) /\ Renews(d)' = Renews(d)
               /\ Open(d)' => Open(d) /\ d > e
    BY <1>2, <1>5 DEF Used, Crowns, Renews, Open, Rows
  <1>7. /\ RowsOfReigns' /\ PromoHolds' /\ RefreshesInOrder' /\ CrownsInOrder' /\ ChainHolds'
    <2>1. RowsOfReigns'
      <3>1. \A v \in 1..Active : \E d \in Rows : Crowns(d)' /\ epochs'[d].reign = v
        <4>1. TAKE v \in 1..Active
        <4>2. PICK d \in Rows : Crowns(d) /\ epochs[d].reign = v
          BY DEF IInv, RowsOfReigns
        <4>3. QED
          BY <1>2, <1>6, <4>2
      <3>2. QED
        BY <1>1, <1>2, <1>6, <3>1 DEF IInv, RowsOfReigns
    <2>2. PromoHolds'
      BY <1>1, <1>6 DEF IInv, PromoHolds, Shape
    <2>3. RefreshesInOrder'
      BY <1>2, <1>6 DEF IInv, RefreshesInOrder
    <2>4. CrownsInOrder'
      BY <1>2, <1>6 DEF IInv, CrownsInOrder
    <2>5. ChainHolds'
      <3>1. ASSUME NEW d \in Rows, epochs'[d].state = "PENDING" PROVE epochs[d].state = "PENDING"
        BY <1>2, <3>1
      <3>2. QED
        BY <1>1, <1>2, <1>6, <3>1 DEF IInv, ChainHolds
    <2>6. QED
      BY <2>1, <2>2, <2>3, <2>4, <2>5
  <1>8. SetterHolds'
    <2>1. epochs[e].window * Rate <= block
      BY <1>5 DEF IInv, RowsOfReigns, Used, Open
    <2>2. ASSUME NEW f \in Rows, Crowns(f), epochs[f].reign = epochs[e].reign
          PROVE  epochs'[f].state # "PENDING"
      <3>1. ~(Renews(e) /\ e < f)
        BY <1>5, <2>2, EpochType DEF IInv, RefreshesInOrder, Crowns, Renews
      <3>2. CASE Renews(e)
        BY <1>2, <3>1, <3>2 DEF Open, Rows
      <3>3. CASE Crowns(e)
        <4>1. f = e
          BY <2>2, <3>3, EpochType DEF IInv, CrownsInOrder, Rows
        <4>2. QED
          BY <1>2, <4>1
      <3>4. QED
        BY <1>5, <3>2, <3>3 DEF Used, Open, Renews, Crowns
    <2>3. QED
      BY <1>2, <1>3, <1>6, <2>1, <2>2 DEF SetterHolds, IInv, Shape
  <1>9. NothingOpenBefore'
    <2>1. ASSUME NEW f \in Rows, Crowns(f), epochs'[f].state # "PENDING"
          PROVE  f <= e /\ \A d \in Rows : d < f => ~Open(d)'
      <3>1. CASE epochs[f].state # "PENDING"
        BY <1>5, <1>6, <2>1, <3>1 DEF IInv, NothingOpenBefore, Rows
      <3>2. CASE epochs[f].state = "PENDING"
        BY <1>2, <1>6, <2>1, <3>2 DEF Rows, Open
      <3>3. QED
        BY <3>1, <3>2
    <2>2. QED
      BY <1>3, <1>6, <2>1 DEF NothingOpenBefore
  <1>10. SettledIsPast'
    <2>1. ASSUME NEW d \in Rows, epochs'[d].state = "SUCCESS" PROVE epochs[d].state = "SUCCESS"
      BY <1>2, <2>1
    <2>2. ASSUME NEW d \in Rows, epochs'[d].state = "FAILED_TERMINAL", Renews(d)
          PROVE  epochs[d].reign < Active \/ (epochs[d].window + 1) * Rate <= block
      <3>1. CASE epochs[d].state = "FAILED_TERMINAL"
        BY <2>2, <3>1 DEF IInv, SettledIsPast
      <3>2. CASE d < e
        <4>1. /\ epochs[d].reign \in Nat /\ epochs[e].reign \in Nat /\ epochs[e].reign <= Active
              /\ epochs[d].window \in Int /\ epochs[e].window \in Int
              /\ epochs[e].window * Rate \in Int /\ epochs[e].window * Rate <= block
          BY <1>5, EpochType DEF IInv, RowsOfReigns, Used, Open
        <4>2. CASE epochs[d].reign < epochs[e].reign
          BY <1>0, <4>1, <4>2
        <4>3. CASE epochs[d].window < epochs[e].window
          <5>1. (epochs[d].window + 1) * Rate <= epochs[e].window * Rate
            BY <4>1, <4>3, LaterWindow
          <5>2. (epochs[d].window + 1) * Rate \in Int
            BY <4>1, NextWindow
          <5>3. QED
            BY <4>1, <5>1, <5>2 DEF IInv, Shape
        <4>4. QED
          BY <1>5, <2>2, <3>2, <4>2, <4>3 DEF IInv, RefreshesInOrder, Used, Open
      <3>3. QED
        BY <1>2, <2>2, <3>1, <3>2
    <2>3. QED
      BY <1>1, <1>2, <1>6, <2>1, <2>2 DEF SettledIsPast, IInv
  <1>11. KingBeforeWinner'
    <2>1. \A k \in Winners : subs'[k] = "EVAL_WIN" => subs[k] = "EVAL_WIN"
      <3>1. \A k \in Winners : k \in Kings
        BY CountsAssumption DEF Kings, Winners
      <3>2. QED
        BY <3>1 DEF ClaimNewest
    <2>2. QED
      BY <1>1, <2>1 DEF IInv, KingBeforeWinner
  <1>12. QED
    BY <1>4, <1>7, <1>8, <1>9, <1>10, <1>11 DEF IInv

\* The window a claim refreshes is beyond every window that succeeded.
LEMMA ClaimedWindow ==
  ASSUME Shape, RateAllows, NEW w \in Int, w * Rate <= marker
  PROVE  w < Window
  <1>0. Rate \in Nat /\ marker \in Int /\ block \in Nat /\ block - marker >= Rate
    BY CountsAssumption DEF RateAllows, Shape
  <1>1. (w + 1) * Rate = w * Rate + Rate /\ w * Rate \in Int /\ (w + 1) * Rate \in Int
    BY NextWindow
  <1>2. Window \in Nat /\ block < (Window + 1) * Rate /\ (Window + 1) * Rate \in Int
    BY WindowOf, NextWindow DEF Shape, Window
  <1>3. (w + 1) * Rate < (Window + 1) * Rate
    <2>1. ASSUME NEW x \in Int, NEW y \in Int, NEW z \in Int, x <= marker, y = x + Rate, block < z
          PROVE  y < z
      BY <1>0, <2>1
    <2>2. QED
      BY <1>1, <1>2, <2>1
  <1>4. SUFFICES ASSUME Window <= w PROVE FALSE
    BY <1>2
  <1>5. CASE Window = w
    BY <1>2, <1>3, <1>5
  <1>6. CASE Window < w
    <2>1. (Window + 1) * Rate <= w * Rate
      BY <1>2, <1>6, LaterWindow
    <2>2. ASSUME NEW x \in Int, NEW y \in Int, NEW z \in Int, y = x + Rate, y < z, z <= x
          PROVE  FALSE
      BY <1>0, <2>2
    <2>3. QED
      BY <1>1, <1>2, <1>3, <2>1, <2>2
  <1>7. QED
    BY <1>2, <1>4, <1>5, <1>6

\* What was superseded of the reign is of a window that is over.
LEMMA BegunWindow ==
  ASSUME Shape, NEW w \in Int, (w + 1) * Rate <= block
  PROVE  w < Window
  <1>1. Window \in Nat /\ block < (Window + 1) * Rate
    BY WindowOf DEF Shape, Window
  <1>2. SUFFICES ASSUME Window <= w PROVE FALSE
    BY <1>1
  <1>3. CASE Window = w
    BY <1>1, <1>3, NextWindow DEF Shape
  <1>4. CASE Window < w
    <2>1. (Window + 1) * Rate <= w * Rate
      BY <1>1, <1>4, LaterWindow
    <2>2. (w + 1) * Rate = w * Rate + Rate /\ w * Rate \in Int /\ (Window + 1) * Rate \in Int /\ Rate \in Nat
      BY <1>1, NextWindow, CountsAssumption
    <2>3. QED
      BY <1>1, <2>1, <2>2 DEF Shape
  <1>5. QED
    BY <1>1, <1>2, <1>3, <1>4

\* A window that has begun is not beyond the current one.
LEMMA NoLaterWindow ==
  ASSUME Shape, NEW w \in Int, w * Rate <= block
  PROVE  w <= Window
  <1>1. Window \in Nat /\ block < (Window + 1) * Rate
    BY WindowOf DEF Shape, Window
  <1>2. SUFFICES ASSUME Window < w PROVE FALSE
    BY <1>1
  <1>3. (Window + 1) * Rate <= w * Rate
    BY <1>1, <1>2, LaterWindow
  <1>4. QED
    BY <1>1, <1>3, NextWindow DEF Shape

\* What a refresh does to the rows: one runs, of the ACTIVE reign and the current window,
\* which if it was there already was of that reign and window.
LEMMA RefreshedRow ==
  ASSUME IInv, NEW e \in Rows, ClaimRefresh(e)
  PROVE  /\ epochs'[e].state = "RUNNING" /\ epochs'[e].reign = Active /\ epochs'[e].window = Window
         /\ \A d \in Rows : d # e => epochs'[d] = epochs[d]
         /\ Used(e) => epochs[e].reign = Active /\ epochs[e].window = Window
         /\ ~Used(e) => NextRow(e) /\ \A d \in Rows : ~Refreshes(d)
         /\ e # promo /\ Window \in Nat /\ Window * Rate <= block
  <1>1. Window \in Nat /\ Window * Rate <= block
    BY WindowOf DEF IInv, Shape, Window
  <1>2. /\ epochs'[e].state = "RUNNING" /\ epochs'[e].reign = Active /\ epochs'[e].window = Window
        /\ \A d \in Rows : d # e => epochs'[d] = epochs[d]
    <2> DEFINE row == [Pending(Active, Window) EXCEPT !.state = "RUNNING"]
    <2>1. row.state = "RUNNING" /\ row.reign = Active /\ row.window = Window
      BY DEF Pending
    <2> HIDE DEF row
    <2>2. epochs' = [epochs EXCEPT ![e] = row]
      BY DEF row, ClaimRefresh
    <2>3. QED
      BY <2>1, <2>2 DEF IInv, Shape
  <1>3. Refreshes(e) \/ (NextRow(e) /\ \A d \in Rows : ~Refreshes(d))
    BY DEF ClaimRefresh
  <1>4. NextRow(e) => ~Used(e) /\ e # promo
    BY DEF NextRow, Used, Rows, IInv, Shape, NoRow
  <1>5. Refreshes(e) => Used(e) /\ e # promo
    BY DEF Refreshes, Used, IInv, PromoHolds, Rows, NoRow
  <1>6. QED
    BY <1>1, <1>2, <1>3, <1>4, <1>5 DEF Refreshes

LEMMA ClaimRefreshInv == ASSUME IInv, NEW e \in Rows, ClaimRefresh(e) PROVE IInv'
  <1>0. Active \in Nat /\ MaxEpochs \in Nat /\ Active' = Active
    BY ActiveType, CountsAssumption DEF IInv, ClaimRefresh, Active
  <1>1. /\ setter.pc = "idle" /\ UNCHANGED <<subs, reigns, promo, marker, block, chain>>
        /\ \A d \in Rows : epochs[d].state # "PENDING"
    BY DEF ClaimRefresh, NothingDue, Due
  <1>2. /\ epochs'[e].state = "RUNNING" /\ epochs'[e].reign = Active /\ epochs'[e].window = Window
        /\ \A d \in Rows : d # e => epochs'[d] = epochs[d]
        /\ Used(e) => epochs[e].reign = Active /\ epochs[e].window = Window
        /\ ~Used(e) => NextRow(e) /\ \A d \in Rows : ~Refreshes(d)
        /\ e # promo /\ Window \in Nat /\ Window * Rate <= block
    BY RefreshedRow
  <1>3. /\ setter'.pc = "claimed" /\ setter'.row = e /\ setter'.block = block
    BY DEF ClaimRefresh, Claimed, Idle
  <1>4. Shape'
    <2>1. [Pending(Active, Window) EXCEPT !.state = "RUNNING"] \in
            [state : EpochStates, reign : Nat, window : Nat \cup {NoWindow}, cool : BOOLEAN]
      BY <1>0, <1>2 DEF Pending, EpochStates
    <2> DEFINE row == [Pending(Active, Window) EXCEPT !.state = "RUNNING"]
    <2>2. epochs' = [epochs EXCEPT ![e] = row]
      BY DEF ClaimRefresh
    <2> HIDE DEF row
    <2>3. epochs' \in [Rows -> [state : EpochStates, reign : Nat, window : Nat \cup {NoWindow}, cool : BOOLEAN]]
      BY <2>1, <2>2 DEF row, IInv, Shape
    <2>4. setter' = [pc |-> "claimed", row |-> e, trigger |-> NoKing, block |-> block,
                     seen |-> FirstMetagraph, answer |-> "none"]
      BY DEF ClaimRefresh, Claimed, Idle
    <2>5. setter' = [pc |-> setter'.pc, row |-> setter'.row, trigger |-> setter'.trigger,
                     block |-> setter'.block, seen |-> setter'.seen, answer |-> setter'.answer]
      BY <2>4
    <2>6. QED
      BY <1>1, <2>3, <2>5 DEF IInv, Shape, Elements
  <1>5. /\ Used(e)' /\ Renews(e)' /\ ~Crowns(e)' /\ ~Crowns(e) /\ ~Open(e)'
        /\ \A d \in Rows : d # e => /\ Used(d)' = Used(d) /\ Crowns(d)' = Crowns(d)
                                    /\ Renews(d)' = Renews(d) /\ Open(d)' = Open(d)
    BY <1>2 DEF Used, Crowns, Renews, Open, NoWindow
  <1>6. ~Used(e) => \A d \in Rows : Used(d) => d < e
    BY <1>2 DEF NextRow, Used, Rows
  <1>7. RowsOfReigns'
    <2>1. \A v \in 1..Active : \E d \in Rows : Crowns(d)' /\ epochs'[d].reign = v
      <3>1. TAKE v \in 1..Active
      <3>2. PICK d \in Rows : Crowns(d) /\ epochs[d].reign = v
        BY DEF IInv, RowsOfReigns
      <3>3. QED
        BY <1>2, <1>5, <3>2
    <2>2. \A d \in Rows : Used(d)' => epochs'[d].reign <= Active /\ epochs'[d].window * Rate <= block
      BY <1>0, <1>2, <1>5 DEF IInv, RowsOfReigns
    <2>3. \A d \in Rows : Crowns(d)' => epochs'[d].reign >= 1
      BY <1>2, <1>5 DEF IInv, RowsOfReigns
    <2>4. QED
      BY <1>0, <1>1, <2>1, <2>2, <2>3 DEF IInv, RowsOfReigns
  <1>8. PromoHolds'
    BY <1>0, <1>1, <1>2, <1>5 DEF IInv, PromoHolds, Shape
  <1>9. RefreshesInOrder'
    <2>1. SUFFICES ASSUME NEW d \in Rows, NEW f \in Rows, Renews(d)', Used(f)', d < f
                   PROVE  \/ epochs'[d].reign < epochs'[f].reign
                          \/ /\ epochs'[d].reign = epochs'[f].reign
                             /\ Renews(f)' /\ epochs'[d].window < epochs'[f].window
      BY DEF RefreshesInOrder
    <2>2. CASE Used(e)
      <3>1. /\ epochs'[d].reign = epochs[d].reign /\ epochs'[d].window = epochs[d].window
            /\ epochs'[f].reign = epochs[f].reign /\ epochs'[f].window = epochs[f].window
        BY <1>2, <2>2
      <3>2. Renews(d) /\ Used(f) /\ Renews(f)' = Renews(f)
        BY <1>2, <1>5, <2>1, <2>2 DEF Renews, NoWindow
      <3>3. QED
        BY <2>1, <3>1, <3>2 DEF IInv, RefreshesInOrder
    <2>3. CASE ~Used(e) /\ f = e
      <3>1. d # e /\ Renews(d) /\ Used(d) /\ epochs'[d] = epochs[d]
        BY <1>2, <1>5, <2>1, <2>3 DEF Renews, Rows
      <3>2. epochs[d].reign <= Active /\ epochs[d].window * Rate <= block /\ ~Refreshes(d)
        BY <1>2, <2>3, <3>1 DEF IInv, RowsOfReigns
      <3>3. epochs[d].reign \in Nat /\ epochs[d].window \in Int /\ epochs[d].window <= Window
        BY <3>2, EpochType, NoLaterWindow DEF IInv
      <3>4. epochs[d].reign = Active => epochs[d].window # Window
        BY <3>1, <3>2 DEF Refreshes, Used
      <3>5. QED
        BY <1>0, <1>2, <1>5, <2>3, <3>1, <3>2, <3>3, <3>4
    <2>4. CASE ~Used(e) /\ f # e
      <3>1. Used(f) /\ f < e /\ d # e
        BY <1>5, <1>6, <2>1, <2>4 DEF Rows
      <3>2. QED
        BY <1>2, <1>5, <2>1, <2>4, <3>1 DEF IInv, RefreshesInOrder
    <2>5. QED
      BY <2>2, <2>3, <2>4
  <1>10. CrownsInOrder'
    BY <1>2, <1>5 DEF IInv, CrownsInOrder
  <1>11. SetterHolds'
    BY <1>1, <1>2, <1>3, <1>5 DEF IInv, Shape, SetterHolds
  <1>12. NothingOpenBefore'
    <2>1. SUFFICES ASSUME NEW f \in Rows, Crowns(f), f # e, epochs[f].state # "PENDING"
                   PROVE  f <= e /\ \A d \in Rows : d < f => ~Open(d)'
      BY <1>2, <1>3, <1>5 DEF NothingOpenBefore, Rows
    <2>2. CASE Used(e)
      <3>1. ~(e < f)
        <4>1. Renews(e) /\ epochs[e].reign = Active /\ epochs[f].reign \in Nat /\ epochs[f].reign <= Active
          BY <1>2, <2>1, <2>2, EpochType DEF IInv, RowsOfReigns, Crowns, Renews, NoWindow
        <4>2. QED
          BY <1>0, <2>1, <4>1 DEF IInv, RefreshesInOrder, Crowns, Renews
      <3>2. QED
        BY <1>5, <2>1, <3>1 DEF IInv, NothingOpenBefore, Rows
    <2>3. CASE ~Used(e)
      BY <1>5, <1>6, <2>1, <2>3 DEF IInv, NothingOpenBefore, Rows, Crowns
    <2>4. QED
      BY <2>2, <2>3
  <1>13. SettledIsPast'
    BY <1>0, <1>1, <1>2, <1>5 DEF IInv, SettledIsPast
  <1>14. ChainHolds'
    BY <1>1, <1>2, <1>5 DEF IInv, ChainHolds
  <1>15. KingBeforeWinner'
    BY <1>0, <1>1 DEF IInv, KingBeforeWinner
  <1>16. QED
    BY <1>4, <1>7, <1>8, <1>9, <1>10, <1>11, <1>12, <1>13, <1>14, <1>15 DEF IInv

\* The setter goes on with the row it claimed, or loses it; the chain may take the weights.
LEMMA SetterMoves ==
  ASSUME IInv, UNCHANGED <<subs, reigns, epochs, promo, marker, block>>,
         setter' = [pc |-> setter'.pc, row |-> setter'.row, trigger |-> setter'.trigger,
                    block |-> setter'.block, seen |-> setter'.seen, answer |-> setter'.answer],
         setter'.pc # "idle" => /\ setter.pc # "idle" /\ setter'.row = setter.row
                                /\ setter'.block = setter.block,
         chain' = chain \/ (chain' = Applied /\ setter.pc # "idle")
  PROVE  IInv'
  <1>1. /\ Active' = Active
        /\ \A d \in Rows : /\ Used(d)' = Used(d) /\ Crowns(d)' = Crowns(d) /\ Renews(d)' = Renews(d)
                           /\ Open(d)' = Open(d)
    BY DEF Used, Crowns, Renews, Open, Active
  <1>2. chain' # chain => /\ chain'.set /\ chain'.reign = epochs[setter.row].reign
                          /\ chain' = [set |-> chain'.set, reign |-> chain'.reign, weights |-> chain'.weights]
                          /\ setter.row \in Rows /\ setter.pc # "idle" /\ Used(setter.row)
    BY DEF Applied, IInv, SetterHolds, Used
  <1>3. Shape'
    BY <1>2 DEF IInv, Shape, Elements
  <1>4. RowsOfReigns'
    <2>1. chain'.set => chain'.reign \in Nat /\ chain'.reign <= Active
      BY <1>2, EpochType DEF IInv, RowsOfReigns
    <2>2. QED
      BY <1>1, <2>1 DEF IInv, RowsOfReigns
  <1>5. ChainHolds'
    BY <1>1, <1>2 DEF IInv, ChainHolds, SetterHolds
  <1>6. PromoHolds' /\ RefreshesInOrder' /\ CrownsInOrder'
    BY <1>1 DEF IInv, PromoHolds, RefreshesInOrder, CrownsInOrder, Shape
  <1>7. SetterHolds' /\ NothingOpenBefore'
    BY <1>1 DEF IInv, SetterHolds, NothingOpenBefore
  <1>8. SettledIsPast' /\ KingBeforeWinner'
    BY <1>1 DEF IInv, SettledIsPast, KingBeforeWinner
  <1>9. QED
    BY <1>3, <1>4, <1>5, <1>6, <1>7, <1>8 DEF IInv

LEMMA ReadMetagraphInv == ASSUME IInv, ReadMetagraph PROVE IInv'
  <1>1. setter' = [setter EXCEPT !.pc = "ready", !.seen = metagraph] /\ setter.pc = "claimed"
    BY DEF ReadMetagraph
  <1>2. /\ setter' = [pc |-> setter'.pc, row |-> setter'.row, trigger |-> setter'.trigger,
                      block |-> setter'.block, seen |-> setter'.seen, answer |-> setter'.answer]
        /\ setter'.row = setter.row /\ setter'.block = setter.block
    BY <1>1 DEF IInv, Shape
  <1>3. QED
    BY <1>1, <1>2, SetterMoves DEF ReadMetagraph

LEMMA SetWeightsInv == ASSUME IInv, SetWeights PROVE IInv'
  <1>1. PICK a \in Answers : setter' = [setter EXCEPT !.pc = "answered", !.answer = a]
    BY DEF SetWeights, Answers
  <1>2. /\ setter' = [pc |-> setter'.pc, row |-> setter'.row, trigger |-> setter'.trigger,
                      block |-> setter'.block, seen |-> setter'.seen, answer |-> setter'.answer]
        /\ setter'.row = setter.row /\ setter'.block = setter.block
    BY <1>1 DEF IInv, Shape
  <1>3. setter.pc = "ready" /\ (chain' = chain \/ chain' = Applied)
    BY DEF SetWeights
  <1>4. QED
    BY <1>2, <1>3, SetterMoves DEF SetWeights

LEMMA SetterCrashInv == ASSUME IInv, SetterCrash PROVE IInv'
  <1>1. /\ setter'.pc = "idle"
        /\ setter' = [pc |-> setter'.pc, row |-> setter'.row, trigger |-> setter'.trigger,
                      block |-> setter'.block, seen |-> setter'.seen, answer |-> setter'.answer]
    BY DEF SetterCrash, Idle
  <1>2. QED
    BY <1>1, SetterMoves DEF SetterCrash

\* The row the setter works on gets its outcome.
LEMMA SettleInv ==
  ASSUME IInv, NEW state \in {"SUCCESS", "FAILED_RETRYABLE"}, NEW sub, sub # "EVAL_WIN",
         NEW counts \in BOOLEAN, state = "SUCCESS" => counts,
         setter.pc = "answered", Settle(state, sub, counts)
  PROVE  IInv'
  <1>1. /\ setter.row \in Rows /\ epochs[setter.row].state = "RUNNING" /\ setter.block \in Nat
        /\ epochs[setter.row].window * Rate <= setter.block
        /\ epochs[setter.row].window * Rate \in Int
    BY EpochType DEF IInv, SetterHolds
  <1>2. /\ epochs' = [epochs EXCEPT ![setter.row].state = state, ![setter.row].cool = FALSE]
        /\ setter' = Idle /\ setter'.pc = "idle" /\ UNCHANGED <<reigns, promo, block, chain>>
        /\ Active' = Active
    BY DEF Settle, Idle, Active
  <1>3. \A d \in Rows : /\ epochs'[d].reign = epochs[d].reign /\ epochs'[d].window = epochs[d].window
                        /\ epochs'[d].state = IF d = setter.row THEN state ELSE epochs[d].state
    BY <1>1, <1>2 DEF IInv, Shape
  <1>4. \A d \in Rows : /\ Used(d)' = Used(d) /\ Crowns(d)' = Crowns(d) /\ Renews(d)' = Renews(d)
                        /\ d # setter.row => Open(d)' = Open(d)
    BY <1>1, <1>3 DEF Used, Crowns, Renews, Open
  <1>5. marker' \in Int /\ marker' >= marker /\ (counts => marker' >= setter.block)
    <2>1. marker \in Int /\ marker' = IF counts THEN Max({marker, setter.block}) ELSE marker
      BY DEF Settle, IInv, Shape
    <2>2. PICK m \in {marker, setter.block} : m >= marker /\ m >= setter.block
      BY <1>1, <2>1
    <2>3. Max({marker, setter.block}) \in {marker, setter.block}
          /\ \A y \in {marker, setter.block} : Max({marker, setter.block}) >= y
      BY <2>2 DEF Max
    <2>4. QED
      BY <1>1, <2>1, <2>3
  <1>6. Shape'
    <2> DEFINE row == [[epochs[setter.row] EXCEPT !.state = state] EXCEPT !.cool = FALSE]
    <2>1. epochs' = [epochs EXCEPT ![setter.row] = row]
      BY <1>1, <1>2 DEF IInv, Shape
    <2>2. row \in [state : EpochStates, reign : Nat, window : Nat \cup {NoWindow}, cool : BOOLEAN]
      BY <1>1 DEF IInv, Shape, EpochStates
    <2> HIDE DEF row
    <2>3. epochs' \in [Rows -> [state : EpochStates, reign : Nat, window : Nat \cup {NoWindow}, cool : BOOLEAN]]
      BY <2>1, <2>2 DEF IInv, Shape
    <2>4. setter' = [pc |-> setter'.pc, row |-> setter'.row, trigger |-> setter'.trigger,
                     block |-> setter'.block, seen |-> setter'.seen, answer |-> setter'.answer]
      BY <1>2 DEF Idle
    <2>5. QED
      BY <1>2, <1>5, <2>3, <2>4 DEF IInv, Shape, Elements
  <1>7. RowsOfReigns'
    <2>1. \A v \in 1..Active : \E d \in Rows : Crowns(d)' /\ epochs'[d].reign = v
      <3>1. TAKE v \in 1..Active
      <3>2. PICK d \in Rows : Crowns(d) /\ epochs[d].reign = v
        BY DEF IInv, RowsOfReigns
      <3>3. QED
        BY <1>3, <1>4, <3>2
    <2>2. QED
      BY <1>2, <1>3, <1>4, <2>1 DEF IInv, RowsOfReigns
  <1>8. PromoHolds'
    BY <1>2, <1>4 DEF IInv, PromoHolds, Shape
  <1>9. RefreshesInOrder' /\ CrownsInOrder'
    BY <1>3, <1>4 DEF IInv, RefreshesInOrder, CrownsInOrder
  <1>10. SetterHolds'
    BY <1>2 DEF SetterHolds
  <1>11. NothingOpenBefore'
    <2>1. SUFFICES ASSUME NEW f \in Rows, Crowns(f), epochs'[f].state # "PENDING"
                   PROVE  \A d \in Rows : d < f => ~Open(d)'
      BY <1>2, <1>4 DEF NothingOpenBefore
    <2>2. epochs[f].state # "PENDING"
      BY <1>1, <1>3, <2>1
    <2>3. setter.row >= f /\ \A d \in Rows : d < f => ~Open(d)
      BY <2>1, <2>2 DEF IInv, NothingOpenBefore
    <2>4. QED
      BY <1>1, <1>4, <2>3 DEF Rows
  <1>12. SettledIsPast'
    <2>1. ASSUME NEW d \in Rows, epochs'[d].state = "SUCCESS" PROVE epochs[d].window * Rate <= marker'
      <3>1. CASE d = setter.row
        BY <1>1, <1>3, <1>5, <2>1, <3>1
      <3>2. CASE d # setter.row
        BY <1>3, <1>5, <2>1, <3>2, EpochType DEF IInv, SettledIsPast, Shape
      <3>3. QED
        BY <3>1, <3>2
    <2>2. \A d \in Rows : epochs'[d].state = "FAILED_TERMINAL" => epochs[d].state = "FAILED_TERMINAL"
      BY <1>3
    <2>3. QED
      BY <1>2, <1>3, <1>4, <2>1, <2>2 DEF IInv, SettledIsPast
  <1>13. ChainHolds'
    <2>1. \A d \in Rows : epochs'[d].state = "PENDING" => epochs[d].state = "PENDING"
      BY <1>3
    <2>2. QED
      BY <1>2, <1>3, <1>4, <2>1 DEF IInv, ChainHolds
  <1>14. KingBeforeWinner'
    <2>1. \A k \in Winners : subs'[k] = "EVAL_WIN" => subs[k] = "EVAL_WIN"
      <3>1. \A k \in Winners : k \in Kings
        BY CountsAssumption DEF Kings, Winners
      <3>2. QED
        BY <3>1 DEF Settle
    <2>2. QED
      BY <1>2, <2>1 DEF IInv, KingBeforeWinner
  <1>15. QED
    BY <1>6, <1>7, <1>8, <1>9, <1>10, <1>11, <1>12, <1>13, <1>14 DEF IInv

LEMMA MarkSuccessInv == ASSUME IInv, MarkSuccess PROVE IInv'
  BY SettleInv DEF MarkSuccess

LEMMA MarkFailedInv == ASSUME IInv, MarkFailed PROVE IInv'
  <1>1. (setter.answer = "rate_limited") \in BOOLEAN
    OBVIOUS
  <1>2. QED
    BY <1>1, SettleInv DEF MarkFailed

----------------------------------------------------------------------------
LEMMA StepIInv == IInv /\ [Next]_vars => IInv'
  <1> SUFFICES ASSUME IInv, [Next]_vars PROVE IInv'
    OBVIOUS
  <1>1. CASE SetReign
    BY <1>1, PromotionBeginsInv, PromotionCommitsInv, PromotionAbortsInv DEF SetReign
  <1>2. CASE WeightSetter
    BY <1>2, ClaimNewestInv, ClaimRefreshInv, ReadMetagraphInv, SetWeightsInv, MarkSuccessInv,
       MarkFailedInv, SetterCrashInv DEF WeightSetter
  <1>3. CASE Environment
    BY <1>3, AdvanceBlockInv, CoolDownInv, TakeUidInv, WinEvalInv, BootstrapGenesisInv DEF Environment
  <1>4. CASE UNCHANGED vars
    BY <1>4, WorldInv DEF vars, IInv, Shape, KingBeforeWinner, Active
  <1>5. QED
    BY <1>1, <1>2, <1>3, <1>4 DEF Next

\* The inductive invariant holds throughout.
LEMMA SpecIInv == Spec => []IInv
  BY InitIInv, StepIInv, PTL DEF Spec

----------------------------------------------------------------------------
(* The properties. *)

Settled(e) == epochs[e].state \in {"SUCCESS", "FAILED_TERMINAL"}

\* A refresh finds only rows of the current window, and what settled is of an earlier one.
LEMMA NoSettledRefreshed ==
  ASSUME IInv, NEW e \in Rows, ClaimRefresh(e), Settled(e) PROVE FALSE
  <1>1. /\ epochs[e].reign = Active /\ epochs[e].window = Window /\ Window \in Nat /\ Renews(e)
    BY RefreshedRow DEF Settled, Used, Renews, NoWindow
  <1>2. RateAllows /\ Shape /\ Active \in Nat
    BY ActiveType DEF ClaimRefresh, IInv
  <1>3. CASE epochs[e].state = "SUCCESS"
    <2>1. Window * Rate <= marker
      BY <1>1, <1>3 DEF IInv, SettledIsPast
    <2>2. QED
      BY <1>1, <1>2, <2>1, ClaimedWindow
  <1>4. CASE epochs[e].state = "FAILED_TERMINAL"
    <2>1. (Window + 1) * Rate <= block
      BY <1>1, <1>2, <1>4 DEF IInv, SettledIsPast
    <2>2. QED
      BY <1>1, <1>2, <2>1, BegunWindow
  <1>5. QED
    BY <1>3, <1>4 DEF Settled

LEMMA StepSettled ==
  ASSUME IInv, Next, NEW e \in Rows, Settled(e)
  PROVE  epochs'[e].state = epochs[e].state
  <1>1. CASE UNCHANGED epochs
    BY <1>1
  <1>2. ASSUME NEW s \in Winners, PromotionCommits(s) PROVE epochs'[e].state = epochs[e].state
    BY <1>2 DEF PromotionCommits, NewReign, IInv, PromoHolds, Used, Settled, Shape
  <1>3. ASSUME NEW d \in Rows, ClaimNewest(d) PROVE epochs'[e].state = epochs[e].state
    BY <1>3 DEF ClaimNewest, Superseded, Due, Settled
  <1>4. ASSUME NEW d \in Rows, ClaimRefresh(d) PROVE epochs'[e].state = epochs[e].state
    BY <1>4, RefreshedRow, NoSettledRefreshed
  <1>6. ASSUME NEW d \in Rows, CoolDown(d) PROVE epochs'[e].state = epochs[e].state
    BY <1>6 DEF CoolDown, IInv, Shape
  <1>7. CASE BootstrapGenesis
    <2>1. ASSUME NEW d \in Rows, NextRow(d), epochs' = [epochs EXCEPT ![d] = Pending(1, NoWindow)]
          PROVE  epochs'[e].state = epochs[e].state
      BY <2>1 DEF NextRow, Settled, Rows
    <2>2. QED
      BY <1>1, <1>7, <2>1 DEF BootstrapGenesis, GenesisReign
  <1>8. CASE MarkSuccess \/ MarkFailed
    <2>1. PICK st : epochs' = [epochs EXCEPT ![setter.row].state = st, ![setter.row].cool = FALSE]
      BY <1>8 DEF MarkSuccess, MarkFailed, Settle
    <2>2. setter.row # e
      BY <1>8 DEF MarkSuccess, MarkFailed, IInv, SetterHolds, Settled
    <2>3. QED
      BY <2>1, <2>2 DEF IInv, Shape
  <1>9. CASE SetReign
    BY <1>1, <1>2, <1>9 DEF SetReign, PromotionBegins, PromotionAborts
  <1>10. CASE WeightSetter
    BY <1>1, <1>3, <1>4, <1>8, <1>10 DEF WeightSetter, ReadMetagraph, SetWeights, SetterCrash
  <1>11. CASE Environment
    BY <1>1, <1>6, <1>7, <1>11 DEF Environment, AdvanceBlock, TakeUid, WinEval
  <1>12. QED
    BY <1>9, <1>10, <1>11 DEF Next

\* No epoch that succeeded or was superseded is run again: the rate limit puts the claim
\* after a success into a later window, so a refresh cannot find the row.
THEOREM SpecSettledForGood == Spec => SettledForGood
  <1>1. IInv /\ [Next]_vars => [\A e \in Rows : epochs[e].state \in {"SUCCESS", "FAILED_TERMINAL"} =>
                                  epochs'[e].state = epochs[e].state]_vars
    BY StepSettled DEF Settled
  <1>2. QED
    BY <1>1, SpecIInv, PTL DEF Spec, SettledForGood

\* A step that takes the chain back applies a refresh that is newer than the coronation's row.
LEMMA StepBack ==
  ASSUME IInv, Next, chain.set, chain'.reign < chain.reign
  PROVE  /\ epochs[setter.row].window # NoWindow
         /\ \E e \in Rows : /\ e < setter.row
                            /\ epochs[e].reign = chain.reign /\ epochs[e].window = NoWindow
  <1>1. Active \in Nat /\ chain.reign \in Nat /\ chain.reign <= Active
    BY ActiveType DEF IInv, RowsOfReigns
  <1>2. chain' # chain
    BY <1>1
  <1>3. SetWeights
    BY <1>2 DEF Next, SetReign, WeightSetter, Environment, PromotionBegins, PromotionCommits,
       PromotionAborts, ClaimNewest, ClaimRefresh, ReadMetagraph, MarkSuccess, MarkFailed, Settle,
       SetterCrash, AdvanceBlock, CoolDown, TakeUid, WinEval, BootstrapGenesis
  <1>4. /\ setter.pc = "ready" /\ chain'.reign = epochs[setter.row].reign
        /\ setter.row \in Rows /\ epochs[setter.row].state = "RUNNING"
    BY <1>2, <1>3 DEF SetWeights, Applied, IInv, SetterHolds
  <1>5. epochs[setter.row].reign \in Nat /\ chain.reign \in 1..Active
    BY <1>1, <1>4, EpochType DEF IInv
  <1>6. PICK e \in Rows : Crowns(e) /\ epochs[e].reign = chain.reign
    BY <1>5 DEF IInv, RowsOfReigns
  <1>7. setter.row >= e
    BY <1>4, <1>6 DEF IInv, NothingOpenBefore, ChainHolds
  <1>8. e < setter.row
    BY <1>4, <1>6, <1>7, <1>1 DEF Rows
  <1>9. epochs[setter.row].window # NoWindow
    BY <1>1, <1>4, <1>5, <1>6, <1>8 DEF IInv, CrownsInOrder, Crowns, Used
  <1>10. QED
    BY <1>6, <1>8, <1>9 DEF Crowns

\* The chain goes back only where a refresh of the old reign was claimed while the promotion
\* was in flight, so that it is the newer row.
THEOREM SpecOnlyARacedRefreshGoesBack == Spec => OnlyARacedRefreshGoesBack
  <1>1. IInv /\ [Next]_vars =>
          [chain.set /\ chain'.reign < chain.reign =>
             /\ epochs[setter.row].window # NoWindow
             /\ \E e \in Rows : /\ e < setter.row
                                /\ epochs[e].reign = chain.reign /\ epochs[e].window = NoWindow]_vars
    BY StepBack
  <1>2. QED
    BY <1>1, SpecIInv, PTL DEF Spec, OnlyARacedRefreshGoesBack

----------------------------------------------------------------------------
(* The reigns themselves, and what is paid for them. *)

Reign == [members : Seq(Kings), trigger : Kings]

\* A reign has a slot for each of its hotkeys.
Seated(members) ==
  /\ Len(members) \in 1..MaxSlots
  /\ \A i, j \in DOMAIN members : HotkeyOf[members[i]] = HotkeyOf[members[j]] => i = j

\* Who sits in a reign has won, and does not win again.
KingsHaveWon ==
  \A v \in 1..Active : \A i \in DOMAIN reigns[v].members :
    subs[reigns[v].members[i]] \notin {"EVAL", "EVAL_WIN"}

ReignsHold ==
  /\ reigns \in Seq(Reign) /\ subs \in [Kings -> SubStates]
  /\ \A v \in 1..Active : Seated(reigns[v].members)
  /\ KingsHaveWon /\ ReignsSucceed

\* Some numbers have a least one.
LEMMA LeastOfSome ==
  ASSUME NEW T, T \subseteq Nat, T # {}
  PROVE  \E x \in T : \A y \in T : x =< y
  <1>1. PICK x \in T : \A y \in T : ~(<<y, x>> \in OpToRel(<, Nat))
    BY NatLessThanWellFounded, WFMin
  <1>2. ASSUME NEW y \in T PROVE x =< y
    <2>1. x \in Nat /\ y \in Nat
      OBVIOUS
    <2>2. ~(y < x)
      BY <1>1, <2>1 DEF OpToRel
    <2>3. QED
      BY <2>1, <2>2
  <1>3. QED
    BY <1>2

\* What Others computes over the first n members: a value for each prefix.
Prefixes(f, members, c, n) ==
  f = [k \in 0..n |-> IF k = 0 THEN <<>>
                      ELSE IF SameKing(members[k], c) THEN f[k - 1]
                      ELSE Append(f[k - 1], members[k])]

\* The recursion defines a function, prefix by prefix.
LEMMA PrefixesExist ==
  ASSUME NEW members, NEW c, NEW n \in Nat
  PROVE  \E f : Prefixes(f, members, c, n)
  <1> DEFINE Not == {k \in Nat : ~\E f : Prefixes(f, members, c, k)}
  <1>1. SUFFICES ASSUME Not # {} PROVE FALSE
    OBVIOUS
  <1>2. PICK k \in Not : \A m \in Not : k =< m
    <2>1. Not \subseteq Nat
      OBVIOUS
    <2> HIDE DEF Not
    <2>2. QED
      BY <1>1, <2>1, LeastOfSome
  <1>3. k # 0
    <2> DEFINE f == [j \in 0..0 |-> <<>>]
    <2>1. \A j \in 0..0 : j = 0
      OBVIOUS
    <2>2. Prefixes(f, members, c, 0)
      BY <2>1 DEF Prefixes
    <2>3. QED
      BY <1>2, <2>2
  <1>4. k - 1 \in Nat /\ k - 1 \notin Not
    BY <1>2, <1>3
  <1>5. PICK f : Prefixes(f, members, c, k - 1)
    BY <1>4
  <1> DEFINE new == IF SameKing(members[k], c) THEN f[k - 1] ELSE Append(f[k - 1], members[k])
             h == [j \in 0..k |-> IF j = k THEN new ELSE f[j]]
  <1>6. k \in Nat \ {0}
    BY <1>2, <1>3
  <1>7. \A j \in 0..(k - 1) : f[j] = IF j = 0 THEN <<>>
                                     ELSE IF SameKing(members[j], c) THEN f[j - 1]
                                     ELSE Append(f[j - 1], members[j])
    BY <1>5 DEF Prefixes
  <1>8. \A j \in 0..k : h[j] = IF j = 0 THEN <<>>
                               ELSE IF SameKing(members[j], c) THEN h[j - 1]
                               ELSE Append(h[j - 1], members[j])
    BY <1>6, <1>7
  <1>9. Prefixes(h, members, c, k)
    <2>1. h = [j \in 0..k |-> h[j]]
      OBVIOUS
    <2> HIDE DEF h
    <2>2. QED
      BY <1>8, <2>1 DEF Prefixes
  <1>10. QED
    BY <1>2, <1>9

\* t lists, in order, the members of s that are not c: p says where each stood.
Picks(t, s, n, c, p) ==
  /\ t \in Seq(Kings) /\ p \in [1..Len(t) -> 1..n]
  /\ \A i \in 1..Len(t) : t[i] = s[p[i]] /\ ~SameKing(t[i], c) /\ i <= p[i]
  /\ \A i, j \in 1..Len(t) : i < j => p[i] < p[j]
  /\ \A k \in 1..n : ~SameKing(s[k], c) => \E i \in 1..Len(t) : p[i] = k

\* The others are picked from the sequence in its order, and all of them are.
LEMMA OthersAre ==
  ASSUME NEW s \in Seq(Kings), NEW c
  PROVE  \E p : Picks(Others(s, c), s, Len(s), c, p)
  <1>1. PICK f : /\ Prefixes(f, s, c, Len(s))
                 /\ Others(s, c) = f[Len(s)]
    <2> DEFINE f == CHOOSE g : g = [k \in 0..Len(s) |-> IF k = 0 THEN <<>>
                                                       ELSE IF SameKing(s[k], c) THEN g[k - 1]
                                                       ELSE Append(g[k - 1], s[k])]
    <2>1. \E g : g = [k \in 0..Len(s) |-> IF k = 0 THEN <<>>
                                          ELSE IF SameKing(s[k], c) THEN g[k - 1]
                                          ELSE Append(g[k - 1], s[k])]
      <3>1. Len(s) \in Nat
        OBVIOUS
      <3>2. PICK g : Prefixes(g, s, c, Len(s))
        BY <3>1, PrefixesExist
      <3>3. QED
        BY <3>2 DEF Prefixes
    <2>2. Prefixes(f, s, c, Len(s))
      BY <2>1 DEF Prefixes
    <2>3. Others(s, c) = f[Len(s)]
      BY DEF Others
    <2>4. QED
      BY <2>2, <2>3
  <1>2. \A k \in 0..Len(s) : f[k] = IF k = 0 THEN <<>>
                                    ELSE IF SameKing(s[k], c) THEN f[k - 1]
                                    ELSE Append(f[k - 1], s[k])
    BY <1>1 DEF Prefixes
  <1> DEFINE Not == {k \in 0..Len(s) : ~\E p : Picks(f[k], s, k, c, p)}
  <1>3. SUFFICES ASSUME Not # {} PROVE FALSE
    BY <1>1
  <1>4. PICK k \in Not : \A m \in Not : k =< m
    <2>1. Not \subseteq Nat
      OBVIOUS
    <2> HIDE DEF Not
    <2>2. QED
      BY <1>3, <2>1, LeastOfSome
  <1>5. k # 0
    <2>1. f[0] = <<>>
      BY <1>2
    <2>2. Picks(<<>>, s, 0, c, <<>>)
      BY DEF Picks
    <2>3. QED
      BY <1>4, <2>1, <2>2
  <1>6. k \in 1..Len(s) /\ k - 1 \in 0..Len(s) /\ k - 1 \notin Not
    BY <1>4, <1>5
  <1>7. PICK p : Picks(f[k - 1], s, k - 1, c, p)
    BY <1>6
  <1>8. CASE SameKing(s[k], c)
    <2>1. f[k] = f[k - 1]
      BY <1>2, <1>6, <1>8
    <2>2. \A j \in 1..k : j \in 1..(k - 1) \/ j = k
      BY <1>6
    <2>3. 1..(k - 1) \subseteq 1..k
      BY <1>6
    <2>4. Picks(f[k], s, k, c, p)
      BY <1>7, <1>8, <2>1, <2>2, <2>3 DEF Picks
    <2>5. QED
      BY <1>4, <2>4
  <1>9. CASE ~SameKing(s[k], c)
    <2> DEFINE t == f[k - 1]
               q == [i \in 1..(Len(t) + 1) |-> IF i = Len(t) + 1 THEN k ELSE p[i]]
    <2>1. f[k] = Append(t, s[k])
      <3>1. k \in 0..Len(s)
        BY <1>4
      <3>2. QED
        BY <1>2, <1>5, <1>9, <3>1, Zenon
    <2>2. t \in Seq(Kings) /\ s[k] \in Kings
      BY <1>6, <1>7 DEF Picks
    <2>3. /\ f[k] \in Seq(Kings) /\ Len(f[k]) = Len(t) + 1 /\ f[k][Len(t) + 1] = s[k]
          /\ \A i \in 1..Len(t) : f[k][i] = t[i]
      BY <2>1, <2>2
    <2>4. Len(t) < k
      <3>1. Len(t) # 0 => Len(t) <= p[Len(t)] /\ p[Len(t)] \in 1..(k - 1)
        BY <1>7, <2>2 DEF Picks
      <3>2. QED
        BY <1>6, <2>2, <3>1
    <2> HIDE DEF t
    <2>5. /\ p \in [1..Len(t) -> 1..(k - 1)] /\ Len(t) \in Nat
          /\ \A i \in 1..Len(t) : t[i] = s[p[i]] /\ ~SameKing(t[i], c) /\ i <= p[i]
          /\ \A i, j \in 1..Len(t) : i < j => p[i] < p[j]
          /\ \A j \in 1..(k - 1) : ~SameKing(s[j], c) => \E i \in 1..Len(t) : p[i] = j
      BY <1>7, <2>2 DEF Picks, t
    <2>6. \A i \in 1..(Len(t) + 1) : i \in 1..Len(t) \/ i = Len(t) + 1
      BY <2>5
    <2>7. /\ q[Len(t) + 1] = k
          /\ \A i \in 1..Len(t) : q[i] = p[i] /\ p[i] \in 1..(k - 1) /\ i # Len(t) + 1
      BY <2>5
    <2>8. q \in [1..Len(f[k]) -> 1..k]
      BY <1>6, <2>3, <2>5
    <2> HIDE DEF q
    <2>9. \A i \in 1..Len(f[k]) : f[k][i] = s[q[i]] /\ ~SameKing(f[k][i], c) /\ i <= q[i]
      BY <1>6, <1>9, <2>3, <2>4, <2>5, <2>6, <2>7
    <2>10. \A i, j \in 1..Len(f[k]) : i < j => q[i] < q[j]
      <3>1. TAKE i, j \in 1..Len(f[k])
      <3>2. HAVE i < j
      <3>3. i \in 1..(Len(t) + 1) /\ j \in 1..(Len(t) + 1)
        BY <1>6, <2>3
      <3>4. i \in 1..Len(t)
        BY <2>5, <3>2, <3>3
      <3>5. CASE j \in 1..Len(t)
        BY <2>5, <2>7, <3>2, <3>4, <3>5
      <3>6. CASE j = Len(t) + 1
        <4>1. q[i] = p[i] /\ p[i] \in 1..(k - 1) /\ q[j] = k
          BY <2>7, <3>4, <3>6
        <4>2. QED
          BY <4>1
      <3>7. QED
        BY <2>6, <3>3, <3>5, <3>6
    <2>11. \A j \in 1..k : ~SameKing(s[j], c) => \E i \in 1..Len(f[k]) : q[i] = j
      <3>1. ASSUME NEW j \in 1..(k - 1), ~SameKing(s[j], c) PROVE \E i \in 1..Len(f[k]) : q[i] = j
        <4>1. PICK i \in 1..Len(t) : p[i] = j
          BY <2>5, <3>1
        <4>2. i \in 1..Len(f[k]) /\ q[i] = j
          BY <2>3, <2>5, <2>7, <4>1
        <4>3. QED
          BY <4>2
      <3>2. Len(t) + 1 \in 1..Len(f[k])
        BY <2>3, <2>5
      <3>3. \A j \in 1..k : j \in 1..(k - 1) \/ j = k
        BY <1>6
      <3>4. QED
        BY <2>7, <3>1, <3>2, <3>3
    <2>12. Picks(f[k], s, k, c, q)
      BY <2>3, <2>8, <2>9, <2>10, <2>11 DEF Picks
    <2>13. QED
      BY <1>4, <2>12
  <1>10. QED
    BY <1>8, <1>9

\* The plan seats a challenger above the others of the reign, and follows from it.
LEMMA PlanSucceeds ==
  ASSUME NEW old \in Seq(Kings), Seated(old), NEW c \in Kings, \A i \in DOMAIN old : old[i] # c
  PROVE  /\ ReignPlan(old, c) \in Seq(Kings) /\ Seated(ReignPlan(old, c))
         /\ Succeeds(old, ReignPlan(old, c), c)
         /\ \A i \in DOMAIN ReignPlan(old, c) :
              ReignPlan(old, c)[i] = c \/ \E j \in DOMAIN old : ReignPlan(old, c)[i] = old[j]
  <1> DEFINE t == Others(old, c)
             m == Min({Len(t), MaxSlots - 1})
             new == ReignPlan(old, c)
  <1>1. PICK p : Picks(t, old, Len(old), c, p)
    BY OthersAre
  <1>2. new = <<c>> \o SubSeq(t, 1, m)
    BY DEF ReignPlan
  <1> HIDE DEF t, new
  <1>3. /\ t \in Seq(Kings) /\ Len(t) \in Nat /\ p \in [1..Len(t) -> 1..Len(old)]
        /\ \A i \in 1..Len(t) : t[i] = old[p[i]] /\ ~SameKing(t[i], c) /\ i <= p[i]
        /\ \A i, j \in 1..Len(t) : i < j => p[i] < p[j]
        /\ \A k \in 1..Len(old) : ~SameKing(old[k], c) => \E i \in 1..Len(t) : p[i] = k
    BY <1>1 DEF Picks
  <1>4. MaxSlots \in Nat \ {0} /\ Len(old) \in 1..MaxSlots /\ DOMAIN old = 1..Len(old)
    BY CountsAssumption DEF Seated
  <1>5. m \in 0..Len(t) /\ m <= MaxSlots - 1 /\ (m = Len(t) \/ m = MaxSlots - 1)
    <2> DEFINE T == {Len(t), MaxSlots - 1}
    <2>1. PICK x \in T : \A y \in T : x =< y
      <3>1. T \subseteq Nat /\ T # {}
        BY <1>3, <1>4
      <3> HIDE DEF T
      <3>2. QED
        BY <3>1, LeastOfSome
    <2>2. m \in T /\ \A y \in T : m =< y
      BY <2>1 DEF Min
    <2> HIDE DEF m
    <2>3. QED
      BY <1>3, <1>4, <2>2
  <1> HIDE DEF m
  <1>6. /\ new \in Seq(Kings) /\ Len(new) = m + 1 /\ new[1] = c
        /\ \A i \in 1..m : new[i + 1] = t[i]
    <2>1. /\ SubSeq(t, 1, m) \in Seq(Kings) /\ Len(SubSeq(t, 1, m)) = m
          /\ \A i \in 1..m : SubSeq(t, 1, m)[i] = t[i]
      BY <1>3, <1>5, SubSeqProperties
    <2>2. <<c>> \in Seq(Kings) /\ Len(<<c>>) = 1 /\ <<c>>[1] = c
      OBVIOUS
    <2>3. QED
      BY <1>2, <1>5, <2>1, <2>2, ConcatProperties
  <1>7. /\ DOMAIN new = 1..(m + 1) /\ 1 \in DOMAIN new
        /\ \A i \in DOMAIN new \ {1} : /\ i - 1 \in 1..Len(t) /\ new[i] = t[i - 1]
                                       /\ p[i - 1] \in DOMAIN old /\ new[i] = old[p[i - 1]]
                                       /\ ~SameKing(new[i], c)
    <2>1. DOMAIN new = 1..(m + 1)
      BY <1>5, <1>6
    <2>2. ASSUME NEW i \in DOMAIN new \ {1} PROVE i - 1 \in 1..m /\ (i - 1) + 1 = i
      BY <1>5, <2>1, <2>2
    <2>3. QED
      BY <1>3, <1>4, <1>5, <1>6, <2>1, <2>2
  <1>8. \A i, j \in DOMAIN old : old[i] = old[j] => i = j
    BY DEF Seated
  <1>9. ASSUME NEW i \in DOMAIN new, NEW j \in DOMAIN new, HotkeyOf[new[i]] = HotkeyOf[new[j]]
        PROVE  i = j
    <2>1. CASE i = 1 \/ j = 1
      BY <1>6, <1>7, <1>9, <2>1 DEF SameKing
    <2>2. CASE i # 1 /\ j # 1
      <3>1. p[i - 1] = p[j - 1]
        BY <1>7, <1>9, <2>2 DEF Seated
      <3>2. i \in DOMAIN new \ {1} /\ j \in DOMAIN new \ {1}
        BY <2>2
      <3>3. i - 1 \in 1..Len(t) /\ j - 1 \in 1..Len(t)
        BY <1>7, <3>2, Zenon
      <3>4. i - 1 = j - 1
        BY <1>3, <1>4, <3>1, <3>3
      <3>5. QED
        BY <1>5, <1>7, <3>4
    <2>3. QED
      BY <2>1, <2>2
  <1>10. Len(new) \in 1..MaxSlots
    BY <1>4, <1>5, <1>6
  <1> DEFINE at(x) == CHOOSE i \in DOMAIN new : new[i] = x
             kept == {i \in DOMAIN old : \E j \in DOMAIN new : new[j] = old[i]}
  <1>11. ASSUME NEW i \in kept
         PROVE  /\ at(old[i]) \in DOMAIN new \ {1} /\ p[at(old[i]) - 1] = i
                /\ at(old[i]) - 1 \in 1..Len(t)
    <2>1. at(old[i]) \in DOMAIN new /\ new[at(old[i])] = old[i]
      OBVIOUS
    <2> HIDE DEF at
    <2>2. at(old[i]) # 1
      BY <1>6, <2>1
    <2>3. QED
      BY <1>7, <1>8, <2>1, <2>2
  <1>12. ASSUME NEW i \in kept, NEW j \in kept, i < j PROVE at(old[i]) < at(old[j])
    <2> HIDE DEF kept, at
    <2>1. /\ at(old[i]) - 1 \in 1..Len(t) /\ p[at(old[i]) - 1] = i
          /\ at(old[j]) - 1 \in 1..Len(t) /\ p[at(old[j]) - 1] = j
          /\ at(old[i]) \in Int /\ at(old[j]) \in Int
      BY <1>5, <1>7, <1>11
    <2>2. i \in 1..Len(old) /\ j \in 1..Len(old)
      BY <1>4 DEF kept
    <2>3. QED
      BY <1>3, <1>4, <1>12, <2>1, <2>2
  <1>13. ASSUME NEW i \in DOMAIN old \ kept
         PROVE  HotkeyOf[old[i]] = HotkeyOf[c] \/ (i = Len(old) /\ Len(new) = MaxSlots)
    <2>1. CASE SameKing(old[i], c)
      BY <2>1 DEF SameKing
    <2>2. CASE ~SameKing(old[i], c)
      <3>1. PICK k \in 1..Len(t) : p[k] = i
        BY <1>3, <1>4, <2>2
      <3>2. ~(k \in 1..m)
        <4>1. SUFFICES ASSUME k \in 1..m PROVE FALSE
          OBVIOUS
        <4>2. k + 1 \in DOMAIN new /\ new[k + 1] = old[i]
          BY <1>3, <1>5, <1>6, <1>7, <3>1, <4>1
        <4>3. QED
          BY <4>2
      <3>3. m = MaxSlots - 1 /\ k >= MaxSlots /\ k <= p[k]
        BY <1>3, <1>4, <1>5, <3>1, <3>2
      <3>4. i \in 1..Len(old)
        BY <1>4
      <3>5. QED
        BY <1>4, <1>6, <3>1, <3>3, <3>4
    <2>3. QED
      BY <2>1, <2>2
  <1>14. Seated(new)
    BY <1>9, <1>10 DEF Seated
  <1>15. Succeeds(old, new, c)
    <2>1. Len(new) <= MaxSlots
      BY <1>4, <1>10
    <2>2. QED
      BY <1>6, <1>9, <1>12, <1>13, <2>1 DEF Succeeds
  <1>16. \A i \in DOMAIN new : new[i] = c \/ \E j \in DOMAIN old : new[i] = old[j]
    BY <1>6, <1>7
  <1>17. QED
    BY <1>6, <1>14, <1>15, <1>16 DEF new

\* No step puts a model that has won back among those that may.
LEMMA SubsStep ==
  ASSUME ReignsHold, [Next]_vars
  PROVE  /\ subs' \in [Kings -> SubStates]
         /\ \A k \in Kings : subs'[k] \in {"EVAL", "EVAL_WIN"} => subs[k] \in {"EVAL", "EVAL_WIN"}
  <1> DEFINE Goal == /\ subs' \in [Kings -> SubStates]
                     /\ \A k \in Kings : subs'[k] \in {"EVAL", "EVAL_WIN"}
                                           => subs[k] \in {"EVAL", "EVAL_WIN"}
  <1>1. subs \in [Kings -> SubStates]
    BY DEF ReignsHold
  <1>2. CASE UNCHANGED subs
    BY <1>1, <1>2
  <1>3. ASSUME NEW s \in Winners, WinEval(s) \/ PromotionCommits(s) PROVE Goal
    <2>1. /\ subs[s] \in {"EVAL", "EVAL_WIN"}
          /\ \/ subs' = [subs EXCEPT ![s] = "EVAL_WIN"]
             \/ subs' = [subs EXCEPT ![s] = "REIGN_SET"]
      BY <1>3 DEF WinEval, PromotionCommits
    <2>2. QED
      BY <1>1, <2>1 DEF SubStates
  <1>4. CASE BootstrapGenesis
    BY <1>1, <1>4 DEF BootstrapGenesis, SubStates
  <1>5. ASSUME NEW e \in Rows, ClaimNewest(e) PROVE Goal
    BY <1>1, <1>5 DEF ClaimNewest, SubStates
  <1>6. CASE MarkSuccess \/ MarkFailed
    BY <1>1, <1>6 DEF MarkSuccess, MarkFailed, Settle, SubStates
  <1>7. CASE UNCHANGED vars
    BY <1>2, <1>7 DEF vars
  <1>8. CASE SetReign
    BY <1>2, <1>3, <1>8 DEF SetReign, PromotionBegins, PromotionAborts
  <1>9. CASE WeightSetter
    BY <1>2, <1>5, <1>6, <1>9 DEF WeightSetter, ClaimRefresh, ReadMetagraph, SetWeights, SetterCrash
  <1>10. CASE Environment
    BY <1>2, <1>3, <1>4, <1>10 DEF Environment, AdvanceBlock, CoolDown, TakeUid
  <1>11. QED
    BY <1>7, <1>8, <1>9, <1>10 DEF Next

\* A reign more, of a model that sits in none.
LEMMA ReignMore ==
  ASSUME ReignsHold, [Next]_vars,
         NEW m \in Seq(Kings), NEW c \in Kings, Seated(m), subs'[c] \notin {"EVAL", "EVAL_WIN"},
         reigns' = Append(reigns, [members |-> m, trigger |-> c]),
         Active # NoReign => Succeeds(reigns[Active].members, m, c),
         \A i \in DOMAIN m : m[i] = c \/ \E j \in DOMAIN reigns[Active].members :
                                           Active # NoReign /\ m[i] = reigns[Active].members[j]
  PROVE  ReignsHold'
  <1> DEFINE r == [members |-> m, trigger |-> c]
  <1>1. r \in Reign /\ r.members = m /\ r.trigger = c
    BY DEF Reign
  <1> HIDE DEF r
  <1>2. /\ reigns' \in Seq(Reign) /\ Active \in Nat /\ Active' = Active + 1 /\ reigns'[Active + 1] = r
        /\ \A v \in 1..Active : reigns'[v] = reigns[v] /\ reigns[v] \in Reign
    <2>1. reigns' = Append(reigns, r) /\ reigns \in Seq(Reign)
      BY DEF ReignsHold, r
    <2>2. QED
      BY <1>1, <2>1, AppendProperties, ElementOfSeq, LenProperties DEF Active
  <1>3. \A v \in 1..(Active + 1) : v \in 1..Active \/ v = Active + 1
    BY <1>2
  <1>4. \A v \in 1..Active' : Seated(reigns'[v].members)
    BY <1>1, <1>2, <1>3 DEF ReignsHold
  <1>5. /\ subs' \in [Kings -> SubStates]
        /\ \A k \in Kings : subs'[k] \in {"EVAL", "EVAL_WIN"} => subs[k] \in {"EVAL", "EVAL_WIN"}
    BY SubsStep
  <1>6. KingsHaveWon'
    <2>1. ASSUME NEW v \in 1..Active, NEW i \in DOMAIN reigns[v].members
          PROVE  subs'[reigns[v].members[i]] \notin {"EVAL", "EVAL_WIN"}
      <3>1. reigns[v].members \in Seq(Kings)
        BY <1>2 DEF Reign
      <3>2. reigns[v].members[i] \in Kings
        BY <3>1
      <3>3. subs[reigns[v].members[i]] \notin {"EVAL", "EVAL_WIN"}
        BY DEF ReignsHold, KingsHaveWon
      <3>4. QED
        BY <1>5, <3>2, <3>3
    <2>2. ASSUME NEW i \in DOMAIN m PROVE subs'[m[i]] \notin {"EVAL", "EVAL_WIN"}
      <3>1. CASE m[i] = c
        BY <3>1
      <3>2. CASE m[i] # c
        <4>1. PICK j \in DOMAIN reigns[Active].members :
                     Active # NoReign /\ m[i] = reigns[Active].members[j]
          BY <3>2
        <4>2. Active \in 1..Active
          BY <1>2, <4>1 DEF NoReign
        <4>3. QED
          BY <2>1, <4>1, <4>2
      <3>3. QED
        BY <3>1, <3>2
    <2>3. ASSUME NEW v \in 1..Active', NEW i \in DOMAIN reigns'[v].members
          PROVE  subs'[reigns'[v].members[i]] \notin {"EVAL", "EVAL_WIN"}
      <3>1. CASE v \in 1..Active
        BY <1>2, <2>1, <3>1
      <3>2. CASE v = Active + 1
        BY <1>1, <1>2, <2>2, <3>2
      <3>3. QED
        BY <1>2, <1>3, <3>1, <3>2
    <2>4. QED
      BY <2>3 DEF KingsHaveWon
  <1>7. ReignsSucceed'
    <2>1. ASSUME NEW v \in 1..(Active' - 1)
          PROVE  Succeeds(reigns'[v].members, reigns'[v + 1].members, reigns'[v + 1].trigger)
      <3>1. CASE v = Active
        <4>1. v \in 1..Active /\ Active # NoReign
          BY <1>2, <2>1, <3>1 DEF NoReign
        <4>2. reigns'[v] = reigns[v] /\ reigns'[v + 1] = r
          BY <1>2, <3>1, <4>1
        <4>3. QED
          BY <1>1, <3>1, <4>1, <4>2
      <3>2. CASE v # Active
        <4>1. v \in 1..(Active - 1) /\ v \in 1..Active /\ v + 1 \in 1..Active
          BY <1>2, <2>1, <3>2
        <4>2. QED
          BY <1>2, <4>1 DEF ReignsHold, ReignsSucceed
      <3>3. QED
        BY <3>1, <3>2
    <2>2. QED
      BY <2>1 DEF ReignsSucceed
  <1>8. QED
    BY <1>2, <1>4, <1>5, <1>6, <1>7 DEF ReignsHold

\* A promotion adds a reign that follows from the active one; no other step touches them.
LEMMA StepReigns == ASSUME IInv, ReignsHold, [Next]_vars PROVE ReignsHold'
  <1>1. /\ subs' \in [Kings -> SubStates]
        /\ \A k \in Kings : subs'[k] \in {"EVAL", "EVAL_WIN"} => subs[k] \in {"EVAL", "EVAL_WIN"}
    BY SubsStep
  <1>2. ASSUME UNCHANGED reigns PROVE ReignsHold'
    <2>1. Active' = Active
      BY <1>2 DEF Active
    <2>2. KingsHaveWon'
      <3>1. ASSUME NEW v \in 1..Active, NEW i \in DOMAIN reigns[v].members
            PROVE  subs'[reigns[v].members[i]] \notin {"EVAL", "EVAL_WIN"}
        <4>1. reigns[v] \in Reign
          BY DEF ReignsHold, Active
        <4>2. reigns[v].members \in Seq(Kings)
          BY <4>1 DEF Reign
        <4>3. reigns[v].members[i] \in Kings
          BY <4>2
        <4>4. QED
          BY <1>1, <4>3 DEF ReignsHold, KingsHaveWon
      <3>2. QED
        BY <1>2, <2>1, <3>1 DEF KingsHaveWon
    <2>3. QED
      BY <1>1, <1>2, <2>1, <2>2 DEF ReignsHold, ReignsSucceed
  <1>3. ASSUME NEW s \in Winners, PromotionCommits(s) PROVE ReignsHold'
    <2>1. Active # NoReign /\ Active \in 1..Active
      BY <1>3, ActiveType DEF PromotionCommits, IInv, PromoHolds, NoReign
    <2> DEFINE old == reigns[Active].members
               new == ReignPlan(old, s)
    <2>2. s \in Kings /\ subs[s] = "EVAL_WIN"
      BY <1>3, CountsAssumption DEF PromotionCommits, Winners, Kings
    <2>3. reigns[Active] \in Reign
      BY <2>1 DEF ReignsHold, Active
    <2>4. old \in Seq(Kings) /\ Seated(old) /\ \A i \in DOMAIN old : old[i] # s
      BY <2>1, <2>2, <2>3 DEF ReignsHold, KingsHaveWon, Reign
    <2>5. reigns' = Append(reigns, [members |-> new, trigger |-> s]) /\ subs'[s] = "REIGN_SET"
      BY <1>3, <2>2 DEF PromotionCommits, NewReign, ReignsHold
    <2> HIDE DEF old, new
    <2>6. new \in Seq(Kings) /\ Seated(new) /\ Succeeds(old, new, s)
      BY <2>2, <2>4, PlanSucceeds DEF new
    <2>7. ASSUME NEW i \in DOMAIN new
          PROVE  new[i] = s \/ \E j \in DOMAIN old : new[i] = old[j]
      BY <2>2, <2>4, PlanSucceeds DEF new
    <2>8. QED
      BY <2>1, <2>2, <2>5, <2>6, <2>7, ReignMore DEF old
  <1>4. CASE BootstrapGenesis /\ Active = NoReign
    <2>1. /\ reigns' = <<[members |-> <<0>>, trigger |-> 0]>> /\ subs'[0] = "COMPLETE_CORONATED"
          /\ 0 \in Kings
      BY <1>4, CountsAssumption DEF BootstrapGenesis, GenesisReign, ReignsHold, Kings
    <2>2. reigns = <<>>
      BY <1>4, EmptySeq DEF ReignsHold, Active, NoReign
    <2>3. reigns' = Append(reigns, [members |-> <<0>>, trigger |-> 0])
      BY <2>1, <2>2
    <2>4. <<0>> \in Seq(Kings) /\ Seated(<<0>>) /\ \A i \in DOMAIN <<0>> : <<0>>[i] = 0
      BY <2>1, CountsAssumption DEF Seated
    <2>5. QED
      BY <1>4, <2>1, <2>3, <2>4, ReignMore
  <1>5. CASE BootstrapGenesis /\ Active # NoReign
    BY <1>2, <1>5 DEF BootstrapGenesis, GenesisReign
  <1>6. CASE UNCHANGED vars
    BY <1>2, <1>6 DEF vars
  <1>7. CASE SetReign
    BY <1>2, <1>3, <1>7 DEF SetReign, PromotionBegins, PromotionAborts
  <1>8. CASE WeightSetter
    BY <1>2, <1>8 DEF WeightSetter, ClaimNewest, ClaimRefresh, ReadMetagraph, SetWeights, MarkSuccess,
       MarkFailed, Settle, SetterCrash
  <1>9. CASE Environment
    BY <1>2, <1>4, <1>5, <1>9 DEF Environment, AdvanceBlock, CoolDown, TakeUid, WinEval
  <1>10. QED
    BY <1>6, <1>7, <1>8, <1>9 DEF Next

\* There is no reign at first.
LEMMA InitReigns == Init => ReignsHold
  <1> SUFFICES ASSUME Init PROVE ReignsHold
    OBVIOUS
  <1>1. reigns = <<>> /\ Active = 0 /\ subs \in [Kings -> SubStates]
    BY DEF Init, Active, SubStates
  <1>2. QED
    BY <1>1 DEF ReignsHold, KingsHaveWon, ReignsSucceed

----------------------------------------------------------------------------
(* What is paid. *)

\* g adds up F over every subset of S, as MapThenSumSet goes through a set.
AddsUp(F, g, S) ==
  g = [s \in SUBSET S |-> IF s = {} THEN 0
                          ELSE F[CHOOSE x \in s : TRUE] + g[s \ {CHOOSE x \in s : TRUE}]]

\* There is one such function: a least subset two of them differ on would have a smaller one.
LEMMA OneSum ==
  ASSUME NEW S, IsFiniteSet(S), NEW F, NEW g, NEW h, AddsUp(F, g, S), AddsUp(F, h, S)
  PROVE  g = h
  <1> DEFINE Differ == {s \in SUBSET S : g[s] # h[s]}
             sizes == {Cardinality(s) : s \in Differ}
  <1>1. g = [s \in SUBSET S |-> g[s]] /\ h = [s \in SUBSET S |-> h[s]]
    BY DEF AddsUp
  <1>2. SUFFICES ASSUME Differ # {} PROVE FALSE
    BY <1>1
  <1>3. \A s \in SUBSET S : IsFiniteSet(s) /\ Cardinality(s) \in Nat
    BY FS_Subset, FS_CardinalityType
  <1>4. sizes \subseteq Nat /\ sizes # {}
    BY <1>2, <1>3
  <1>5. PICK n \in sizes : \A m \in sizes : n =< m
    <2> HIDE DEF sizes
    <2>1. QED
      BY <1>4, LeastOfSome
  <1>6. PICK s \in Differ : \A t \in Differ : Cardinality(s) =< Cardinality(t)
    BY <1>5
  <1>7. s # {}
    BY <1>6 DEF AddsUp
  <1> DEFINE x == CHOOSE y \in s : TRUE
  <1>8. x \in s
    BY <1>7
  <1>9. g[s] = F[x] + g[s \ {x}] /\ h[s] = F[x] + h[s \ {x}]
    BY <1>7 DEF AddsUp
  <1> HIDE DEF x
  <1>10. s \ {x} \notin Differ
    <2>1. s \in SUBSET S /\ Cardinality(s) \in Nat /\ Cardinality(s \ {x}) = Cardinality(s) - 1
      BY <1>3, <1>8, FS_RemoveElement
    <2>2. QED
      BY <1>6, <2>1
  <1>11. QED
    BY <1>9, <1>10


\* What the slots I of a reign of n draw together.
Draws(n, I) == Cardinality(I) * (Whole \div n) + Cardinality(I \cap (1..(Whole % n)))

\* The weight is so many points for each slot, and one more for as many as are left over.
LEMMA Division ==
  ASSUME NEW n \in Nat \ {0}
  PROVE  /\ Whole \div n \in Nat /\ Whole % n \in 0..(n - 1) /\ Whole % n \in Nat
         /\ n * (Whole \div n) + (Whole % n) = Whole
  <1>1. Whole \div n \in Int /\ Whole % n \in 0..(n - 1) /\ Whole = n * (Whole \div n) + (Whole % n)
    BY SMT DEF Whole
  <1>2. Whole \div n >= 0
    BY <1>1, SMT DEF Whole
  <1>3. QED
    BY <1>1, <1>2, SMT

\* The sizes of disjoint sets add up.
LEMMA DisjointUnion ==
  ASSUME NEW A, NEW B, IsFiniteSet(A), IsFiniteSet(B), A \cap B = {}
  PROVE  Cardinality(A \cup B) = Cardinality(A) + Cardinality(B)
  <1>1. Cardinality(A \cup B) = Cardinality(A) + Cardinality(B) - Cardinality({})
    BY FS_Union
  <1>2. Cardinality({}) = 0 /\ Cardinality(A) \in Nat /\ Cardinality(B) \in Nat
    BY FS_EmptySet, FS_CardinalityType
  <1>3. QED
    BY <1>1, <1>2

\* Disjoint slots draw what they draw apart.
LEMMA DrawsAdd ==
  ASSUME NEW n \in Nat \ {0}, NEW A \in SUBSET (1..n), NEW B \in SUBSET (1..n), A \cap B = {}
  PROVE  Draws(n, A \cup B) = Draws(n, A) + Draws(n, B) /\ Draws(n, A) \in Nat
  <1> DEFINE L == 1..(Whole % n)
             q == Whole \div n
  <1>1. IsFiniteSet(A) /\ IsFiniteSet(B) /\ IsFiniteSet(A \cap L) /\ IsFiniteSet(B \cap L)
    <2>1. IsFiniteSet(1..n)
      BY FS_Interval
    <2> HIDE DEF L
    <2>2. A \cap L \in SUBSET (1..n) /\ B \cap L \in SUBSET (1..n)
      OBVIOUS
    <2>3. \A S \in SUBSET (1..n) : IsFiniteSet(S)
      BY <2>1, FS_Subset
    <2>4. QED
      BY <2>2, <2>3
  <1>2. q \in Nat
    BY Division, Zenon
  <1> HIDE DEF L, q
  <1>3. /\ Cardinality(A) \in Nat /\ Cardinality(B) \in Nat
        /\ Cardinality(A \cap L) \in Nat /\ Cardinality(B \cap L) \in Nat
    BY <1>1, FS_CardinalityType
  <1>4. Cardinality(A \cup B) = Cardinality(A) + Cardinality(B)
    BY <1>1, DisjointUnion
  <1>5. Cardinality((A \cup B) \cap L) = Cardinality(A \cap L) + Cardinality(B \cap L)
    <2>1. (A \cup B) \cap L = (A \cap L) \cup (B \cap L) /\ (A \cap L) \cap (B \cap L) = {}
      OBVIOUS
    <2>2. QED
      BY <1>1, <2>1, DisjointUnion
  <1>6. /\ Draws(n, A) = Cardinality(A) * q + Cardinality(A \cap L)
        /\ Draws(n, B) = Cardinality(B) * q + Cardinality(B \cap L)
        /\ Draws(n, A \cup B) = Cardinality(A \cup B) * q + Cardinality((A \cup B) \cap L)
    BY Zenon DEF Draws, L, q
  <1>7. Draws(n, A \cup B) = (Cardinality(A) + Cardinality(B)) * q
                              + (Cardinality(A \cap L) + Cardinality(B \cap L))
    BY <1>4, <1>5, <1>6, Zenon
  <1>8. QED
    <2>1. PICK a \in Nat, b \in Nat, c \in Nat, d \in Nat :
            /\ a = Cardinality(A) /\ b = Cardinality(B)
            /\ c = Cardinality(A \cap L) /\ d = Cardinality(B \cap L)
      BY <1>3
    <2>2. Draws(n, A) = a * q + c /\ Draws(n, B) = b * q + d /\ Draws(n, A \cup B) = (a + b) * q + (c + d)
      BY <1>6, <1>7, <2>1, Zenon
    <2>3. (a + b) * q + (c + d) = (a * q + c) + (b * q + d) /\ a * q + c \in Nat
      BY <1>2
    <2>4. QED
      BY <2>2, <2>3, Zenon

\* One slot draws its weight.
LEMMA DrawsOne ==
  ASSUME NEW n \in Nat \ {0}, NEW i \in 1..n
  PROVE  Draws(n, {i}) = WeightBps(n, i)
  <1> DEFINE L == 1..(Whole % n)
  <1>1. Whole \div n \in Nat /\ Whole % n \in Nat
    BY Division
  <1>2. Cardinality({i}) = 1 /\ Cardinality({}) = 0
    BY FS_Singleton, FS_EmptySet
  <1>3. {i} \cap L = IF i <= Whole % n THEN {i} ELSE {}
    BY <1>1
  <1> HIDE DEF L
  <1>4. Cardinality({i} \cap L) = IF i <= Whole % n THEN 1 ELSE 0
    BY <1>2, <1>3
  <1>5. QED
    BY <1>1, <1>2, <1>4 DEF Draws, WeightBps, L

\* All the slots draw the whole weight.
LEMMA DrawsAll ==
  ASSUME NEW n \in Nat \ {0}
  PROVE  Draws(n, 1..n) = Whole
  <1>1. Whole \div n \in Nat /\ Whole % n \in 0..(n - 1) /\ n * (Whole \div n) + (Whole % n) = Whole
    BY Division, Zenon
  <1>2. PICK r \in 0..(n - 1) : r = Whole % n
    BY <1>1, Zenon
  <1>3. PICK q \in Nat : q = Whole \div n
    BY <1>1, Zenon
  <1>4. (1..n) \cap (1..r) = 1..r /\ r \in Nat
    BY <1>2
  <1>5. Cardinality(1..n) = n /\ Cardinality(1..r) = r
    BY <1>4, FS_Interval
  <1>6. n * q + r = Whole
    BY <1>1, <1>2, <1>3, Zenon
  <1>7. Draws(n, 1..n) = Cardinality(1..n) * q + Cardinality((1..n) \cap (1..r))
    BY <1>2, <1>3, Zenon DEF Draws
  <1>8. QED
    BY <1>4, <1>5, <1>6, <1>7, Zenon

\* The slots that are paid to u.
Share(members, seen, u) == {i \in DOMAIN members : PaidUid(members[i], seen) = u}

\* A uid is paid what its slots draw together.
LEMMA PaidTo ==
  ASSUME NEW members \in Seq(Kings), members # <<>>, NEW seen, NEW u \in Uids
  PROVE  Payload(members, seen)[u] = Draws(Len(members), Share(members, seen, u))
  <1> DEFINE n == Len(members)
             I == Share(members, seen, u)
             F == [i \in 1..n |-> WeightBps(n, i)]
             g == [s \in SUBSET I |-> Draws(n, s)]
             step(s, f) == IF s = {} THEN 0 ELSE WeightBps(n, CHOOSE x \in s : TRUE)
                                                 + f[s \ {CHOOSE x \in s : TRUE}]
             iter == CHOOSE f : f = [s \in SUBSET I |-> step(s, f)]
  <1>1. n \in Nat \ {0} /\ DOMAIN members = 1..n
    BY EmptySeq
  <1>2. I \in SUBSET (1..n) /\ IsFiniteSet(I)
    <2>1. I \in SUBSET (1..n)
      BY <1>1 DEF Share
    <2>2. IsFiniteSet(1..n)
      BY <1>1, FS_Interval
    <2>3. QED
      BY <2>1, <2>2, FS_Subset
  <1>3. Payload(members, seen)[u] = iter[I]
    BY DEF Payload, Share, MapThenSumSet, MapThenFoldSet
  <1> HIDE DEF I
  <1>4. ASSUME NEW s \in SUBSET I PROVE g[s] = step(s, g)
    <2>1. CASE s = {}
      <3>1. Draws(n, {}) = 0
        <4>1. {} \cap (1..(Whole % n)) = {} /\ Cardinality({}) = 0 /\ Whole \div n \in Nat
          BY <1>1, Division, FS_EmptySet
        <4>2. QED
          BY <4>1 DEF Draws
      <3>2. QED
        BY <2>1, <3>1
    <2>2. CASE s # {}
      <3> DEFINE x == CHOOSE y \in s : TRUE
      <3>1. x \in s
        BY <2>2
      <3>2. step(s, g) = WeightBps(n, x) + Draws(n, s \ {x}) /\ g[s] = Draws(n, s)
        BY <2>2, <3>1
      <3> HIDE DEF x, step, g
      <3>3. {x} \in SUBSET (1..n) /\ s \ {x} \in SUBSET (1..n) /\ {x} \cap (s \ {x}) = {}
            /\ s = {x} \cup (s \ {x}) /\ x \in 1..n
        BY <1>2, <3>1
      <3>4. Draws(n, {x} \cup (s \ {x})) = Draws(n, {x}) + Draws(n, s \ {x})
        BY <1>1, <3>3, DrawsAdd
      <3>5. Draws(n, {x}) = WeightBps(n, x)
        BY <1>1, <3>3, DrawsOne
      <3>6. QED
        BY <3>2, <3>3, <3>4, <3>5
    <2>3. QED
      BY <2>1, <2>2
  <1>5. g = [s \in SUBSET I |-> step(s, g)]
    BY <1>4
  <1>6. iter = [s \in SUBSET I |-> step(s, iter)]
    <2> HIDE DEF g, step
    <2>1. QED
      BY <1>5
  <1>7. \A f : (f = [s \in SUBSET I |-> step(s, f)]) => AddsUp(F, f, I)
    <2> SUFFICES ASSUME NEW f, f = [s \in SUBSET I |-> step(s, f)] PROVE AddsUp(F, f, I)
      OBVIOUS
    <2>1. ASSUME NEW s \in SUBSET I
          PROVE  step(s, f) = IF s = {} THEN 0 ELSE F[CHOOSE x \in s : TRUE] + f[s \ {CHOOSE x \in s : TRUE}]
      <3>1. s # {} => (CHOOSE x \in s : TRUE) \in 1..n
        BY <1>2
      <3>2. QED
        BY <3>1
    <2> HIDE DEF step, F
    <2>2. QED
      BY <2>1 DEF AddsUp
  <1>8. iter = g
    <2> HIDE DEF g, iter, step, F
    <2>1. QED
      BY <1>2, <1>5, <1>6, <1>7, OneSum
  <1>9. g[I] = Draws(n, I)
    OBVIOUS
  <1>10. QED
    BY <1>3, <1>8, <1>9 DEF I

\* What is paid adds up to the whole, whoever holds the uids.
LEMMA PaidInFull ==
  ASSUME NEW members \in Seq(Kings), NEW seen, NEW W, W = Payload(members, seen)
  PROVE  \E g : AddsUp(W, g, Uids) /\ g[Uids] = Whole
  <1>1. CASE members = <<>>
    <2> DEFINE g == [s \in SUBSET Uids |-> IF BurnUid \in s THEN Whole ELSE 0]
    <2>1. \A u \in Uids : W[u] = IF u = BurnUid THEN Whole ELSE 0
      BY <1>1 DEF Payload
    <2>2. ASSUME NEW s \in SUBSET Uids
          PROVE  g[s] = IF s = {} THEN 0 ELSE W[CHOOSE x \in s : TRUE] + g[s \ {CHOOSE x \in s : TRUE}]
      <3>1. CASE s = {}
        BY <3>1
      <3>2. CASE s # {}
        <4> DEFINE x == CHOOSE y \in s : TRUE
        <4>1. x \in s /\ x \in Uids
          BY <3>2
        <4> HIDE DEF x
        <4>2. W[x] = IF x = BurnUid THEN Whole ELSE 0
          BY <2>1, <4>1
        <4>3. /\ g[s] = IF BurnUid \in s THEN Whole ELSE 0
              /\ g[s \ {x}] = IF BurnUid \in s /\ BurnUid # x THEN Whole ELSE 0
          BY <4>1
        <4> HIDE DEF g
        <4>4. g[s] = W[x] + g[s \ {x}]
          BY <4>1, <4>2, <4>3 DEF Whole
        <4>5. QED
          BY <3>2, <4>4 DEF x
      <3>3. QED
        BY <3>1, <3>2
    <2>3. AddsUp(W, g, Uids)
      <3>1. g = [s \in SUBSET Uids |-> g[s]]
        OBVIOUS
      <3> HIDE DEF g
      <3>2. QED
        BY <2>2, <3>1 DEF AddsUp
    <2>4. g[Uids] = Whole
      BY ModelAssumption
    <2>5. QED
      BY <2>3, <2>4
  <1>2. CASE members # <<>>
    <2> DEFINE n == Len(members)
               of(s) == {i \in DOMAIN members : PaidUid(members[i], seen) \in s}
               g == [s \in SUBSET Uids |-> Draws(n, of(s))]
    <2>1. n \in Nat \ {0} /\ DOMAIN members = 1..n
      BY <1>2, EmptySeq
    <2>2. \A u \in Uids : W[u] = Draws(n, Share(members, seen, u))
      BY <1>2, PaidTo
    <2>3. ASSUME NEW s \in SUBSET Uids
          PROVE  g[s] = IF s = {} THEN 0 ELSE W[CHOOSE x \in s : TRUE] + g[s \ {CHOOSE x \in s : TRUE}]
      <3>1. CASE s = {}
        <4>1. of(s) = {} /\ {} \cap (1..(Whole % n)) = {} /\ Cardinality({}) = 0 /\ Whole \div n \in Nat
          BY <2>1, <3>1, Division, FS_EmptySet
        <4>2. Draws(n, {}) = 0
          BY <4>1 DEF Draws
        <4>3. g[s] = Draws(n, of(s))
          OBVIOUS
        <4> HIDE DEF g, of
        <4>4. QED
          BY <3>1, <4>1, <4>2, <4>3
      <3>2. CASE s # {}
        <4> DEFINE x == CHOOSE y \in s : TRUE
                   share == Share(members, seen, x)
                   rest == of(s \ {x})
        <4>1. x \in s /\ x \in Uids
          BY <3>2
        <4> HIDE DEF x
        <4>2. /\ of(s) = share \cup rest /\ share \cap rest = {}
              /\ share \in SUBSET (1..n) /\ rest \in SUBSET (1..n)
          BY <2>1, <4>1 DEF Share
        <4>3. W[x] = Draws(n, share) /\ g[s] = Draws(n, of(s)) /\ g[s \ {x}] = Draws(n, rest)
          BY <2>2, <4>1
        <4> HIDE DEF share, rest, g, of
        <4>4. g[s] = W[x] + g[s \ {x}]
          <5>1. Draws(n, share \cup rest) = Draws(n, share) + Draws(n, rest)
            BY <2>1, <4>2, DrawsAdd, Zenon
          <5>2. QED
            BY <4>2, <4>3, <5>1, Zenon
        <4>5. QED
          BY <3>2, <4>4 DEF x
      <3>3. QED
        BY <3>1, <3>2
    <2>4. AddsUp(W, g, Uids)
      <3>1. g = [s \in SUBSET Uids |-> g[s]]
        OBVIOUS
      <3> HIDE DEF g
      <3>2. QED
        BY <2>3, <3>1 DEF AddsUp
    <2>5. g[Uids] = Whole
      <3>1. \A i \in 1..n : PaidUid(members[i], seen) \in Uids
        BY <2>1, ModelAssumption DEF PaidUid
      <3>2. of(Uids) = 1..n
        BY <2>1, <3>1
      <3> HIDE DEF of
      <3>3. QED
        BY <2>1, <3>2, DrawsAll
    <2>6. QED
      BY <2>4, <2>5
  <1>3. QED
    BY <1>1, <1>2

\* A uid that is not the burn uid is paid for one slot at most: two would be of one hotkey.
LEMMA PaidOnce ==
  ASSUME NEW members \in Seq(Kings), NEW seen, NEW u \in Uids \ {BurnUid},
         \A i, j \in DOMAIN members : HotkeyOf[members[i]] = HotkeyOf[members[j]] => i = j
  PROVE  Payload(members, seen)[u] <= WeightBps(Max({1, Len(members)}), 1)
  <1> DEFINE n == Len(members)
             I == Share(members, seen, u)
             most == Max({1, n})
  <1>1. n \in Nat /\ DOMAIN members = 1..n
    OBVIOUS
  <1>2. most = IF n = 0 THEN 1 ELSE n
    BY <1>1 DEF Max
  <1>3. CASE members = <<>>
    <2>1. Payload(members, seen)[u] = 0 /\ n = 0
      BY <1>3 DEF Payload
    <2>2. WeightBps(1, 1) \in Nat
      <3>1. Whole \div 1 \in Nat
        BY Division
      <3>2. QED
        BY <3>1 DEF WeightBps
    <2>3. QED
      BY <1>2, <2>1, <2>2
  <1>4. CASE members # <<>>
    <2>1. n \in Nat \ {0}
      BY <1>4, EmptySeq
    <2>2. Payload(members, seen)[u] = Draws(n, I)
      BY <1>4, PaidTo
    <2>3. \A i, j \in I : i = j
      BY DEF Share, PaidUid
    <2>4. I \subseteq 1..n
      BY <1>1 DEF Share
    <2>5. Whole \div n \in Nat /\ Whole % n \in Nat
      BY <2>1, Division
    <2> HIDE DEF I
    <2>6. CASE I = {}
      <3>1. {} \cap (1..(Whole % n)) = {} /\ Cardinality({}) = 0
        BY FS_EmptySet
      <3>2. Draws(n, {}) = 0
        BY <2>5, <3>1 DEF Draws
      <3>3. QED
        BY <1>2, <2>1, <2>2, <2>5, <2>6, <3>2 DEF WeightBps
    <2>7. CASE I # {}
      <3>1. PICK i \in 1..n : I = {i}
        <4>1. PICK i : i \in I
          BY <2>7, Zenon
        <4>2. I = {i}
          BY <2>3, <4>1, Zenon
        <4>3. i \in 1..n
          BY <2>4, <4>1, Zenon
        <4>4. QED
          BY <4>2, <4>3, Zenon
      <3>2. Payload(members, seen)[u] = WeightBps(n, i)
        BY <2>1, <2>2, <3>1, DrawsOne, Zenon
      <3>3. WeightBps(n, i) <= WeightBps(n, 1)
        <4>1. PICK q \in Nat, left \in Nat : q = Whole \div n /\ left = Whole % n
          BY <2>5, Zenon
        <4>2. /\ WeightBps(n, i) = q + (IF i <= left THEN 1 ELSE 0)
              /\ WeightBps(n, 1) = q + (IF 1 <= left THEN 1 ELSE 0)
          BY <4>1, Zenon DEF WeightBps
        <4>3. i \in Nat \ {0}
          BY <1>1, <3>1
        <4>4. QED
          BY <4>2, <4>3
      <3>4. most = n
        BY <1>2, <2>1
      <3> HIDE DEF most, n
      <3>5. QED
        BY <3>2, <3>3, <3>4, Zenon DEF most, n
    <2>8. QED
      BY <2>6, <2>7
  <1>5. QED
    BY <1>3, <1>4, Zenon

\* So the sum over the uids, as the model states it, is the whole.
LEMMA PaidWhole ==
  ASSUME NEW members \in Seq(Kings), NEW seen, NEW W, W = Payload(members, seen)
  PROVE  Paid(W) = Whole
  <1> DEFINE step(s, f) == IF s = {} THEN 0
                           ELSE W[CHOOSE x \in s : TRUE] + f[s \ {CHOOSE x \in s : TRUE}]
             iter == CHOOSE f : f = [s \in SUBSET Uids |-> step(s, f)]
  <1>1. PICK g : AddsUp(W, g, Uids) /\ g[Uids] = Whole
    BY PaidInFull
  <1>2. g = [s \in SUBSET Uids |-> step(s, g)]
    BY <1>1 DEF AddsUp
  <1>3. iter = [s \in SUBSET Uids |-> step(s, iter)]
    <2> HIDE DEF step
    <2>1. QED
      BY <1>2
  <1>4. AddsUp(W, iter, Uids)
    <2> HIDE DEF iter
    <2>1. QED
      BY <1>3 DEF AddsUp
  <1>5. Paid(W) = iter[Uids]
    BY DEF Paid, MapThenSumSet, MapThenFoldSet
  <1> HIDE DEF iter
  <1>6. iter = g
    BY <1>1, <1>4, ModelAssumption, OneSum
  <1>7. QED
    BY <1>1, <1>5, <1>6

\* The members of a reign that has been are those of a king's reign, or nobody, for good.
LEMMA MembersStand ==
  ASSUME IInv, ReignsHold, [Next]_vars, NEW v \in 0..Active
  PROVE  /\ MembersOf(v) \in Seq(Kings) /\ MembersOf(v)' = MembersOf(v)
         /\ \A i, j \in DOMAIN MembersOf(v) :
              HotkeyOf[MembersOf(v)[i]] = HotkeyOf[MembersOf(v)[j]] => i = j
  <1>1. CASE v = NoReign
    BY <1>1 DEF MembersOf
  <1>2. CASE v # NoReign
    <2>1. v \in 1..Active /\ reigns \in Seq(Reign) /\ Active = Len(reigns) /\ Active \in Nat
      BY <1>2 DEF NoReign, ReignsHold, Active
    <2>2. reigns[v] \in Reign /\ MembersOf(v) = reigns[v].members /\ MembersOf(v)' = reigns'[v].members
      BY <1>2, <2>1 DEF MembersOf
    <2>3. reigns[v].members \in Seq(Kings) /\ Seated(reigns[v].members)
      BY <2>1, <2>2 DEF Reign, ReignsHold
    <2>4. reigns' = reigns \/ \E r : reigns' = Append(reigns, r)
      <3>1. ASSUME NEW s \in Winners, PromotionCommits(s) PROVE \E r : reigns' = Append(reigns, r)
        BY <3>1 DEF PromotionCommits, NewReign
      <3>2. CASE BootstrapGenesis
        <4>1. Active # NoReign
          BY <2>1 DEF NoReign
        <4>2. QED
          BY <3>2, <4>1 DEF BootstrapGenesis, GenesisReign
      <3>3. CASE SetReign
        BY <3>1, <3>3 DEF SetReign, PromotionBegins, PromotionAborts
      <3>4. CASE WeightSetter
        BY <3>4 DEF WeightSetter, ClaimNewest, ClaimRefresh, ReadMetagraph, SetWeights, MarkSuccess,
           MarkFailed, Settle, SetterCrash
      <3>5. CASE Environment
        BY <3>2, <3>5 DEF Environment, AdvanceBlock, CoolDown, TakeUid, WinEval
      <3>6. QED
        BY <3>3, <3>4, <3>5 DEF Next, vars
    <2>5. reigns'[v] = reigns[v]
      BY <2>1, <2>4, AppendProperties
    <2>6. QED
      BY <2>2, <2>3, <2>5 DEF Seated
  <1>3. QED
    BY <1>1, <1>2

\* What is set is a payload of a reign that stands, and the reign is not rewritten after.
LEMMA StepPaid == ASSUME IInv, ReignsHold, OneShareEach, [Next]_vars PROVE OneShareEach'
  <1>1. CASE UNCHANGED chain
    <2>1. chain.set => chain.reign \in 0..Active
      BY ActiveType DEF IInv, RowsOfReigns
    <2>2. chain.set => MembersOf(chain.reign)' = MembersOf(chain.reign)
      BY <1>1, <2>1, MembersStand
    <2>3. QED
      BY <1>1, <2>2 DEF OneShareEach
  <1>2. CASE SetWeights /\ chain' = Applied
    <2> DEFINE v == epochs[setter.row].reign
               members == MembersOf(v)
               W == Payload(members, setter.seen)
    <2>1. setter.row \in Rows /\ v \in 0..Active
      <3>1. setter.row \in Rows /\ Used(setter.row)
        BY <1>2 DEF SetWeights, IInv, SetterHolds, Used
      <3>2. QED
        BY <3>1, EpochType, ActiveType DEF IInv, RowsOfReigns
    <2>2. chain' = [set |-> TRUE, reign |-> v, weights |-> W]
      BY <1>2 DEF Applied
    <2>3. UNCHANGED reigns
      BY <1>2 DEF SetWeights
    <2> HIDE DEF v
    <2>4. /\ members \in Seq(Kings)
          /\ \A i, j \in DOMAIN members : HotkeyOf[members[i]] = HotkeyOf[members[j]] => i = j
      BY <2>1, MembersStand
    <2>5. chain'.weights = W /\ chain'.reign = v /\ MembersOf(chain.reign)' = members
      BY <2>2, <2>3 DEF MembersOf
    <2> HIDE DEF members
    <2>6. Paid(W) = Whole
      BY <2>4, PaidWhole
    <2>7. \A u \in Uids \ {BurnUid} : W[u] <= WeightBps(Max({1, Len(members)}), 1)
      BY <2>4, PaidOnce
    <2> HIDE DEF W
    <2>8. Paid(chain'.weights) = Whole
      BY <2>5, <2>6
    <2>9. QED
      BY <2>5, <2>7, <2>8 DEF OneShareEach
  <1>3. CASE Next
    BY <1>1, <1>2, <1>3 DEF Next, SetReign, WeightSetter, Environment, PromotionBegins, PromotionCommits,
       PromotionAborts, ClaimNewest, ClaimRefresh, ReadMetagraph, SetWeights, MarkSuccess, MarkFailed,
       Settle, SetterCrash, AdvanceBlock, CoolDown, TakeUid, WinEval, BootstrapGenesis
  <1>4. CASE UNCHANGED vars
    BY <1>1, <1>4 DEF vars
  <1>5. QED
    BY <1>3, <1>4

\* The reigns follow one another and are paid in full.
LEMMA SpecReigns == Spec => [](ReignsHold /\ OneShareEach)
  <1>1. Init => ReignsHold /\ OneShareEach
    BY InitReigns DEF Init, OneShareEach
  <1>2. IInv /\ ReignsHold /\ OneShareEach /\ [Next]_vars => (ReignsHold /\ OneShareEach)'
    BY StepReigns, StepPaid
  <1>3. QED
    BY <1>1, <1>2, SpecIInv, PTL DEF Spec

\* Each reign follows from the one before: its challenger first, the others in their order,
\* one slot for a hotkey, and only the last of a full reign drops out (build_reign_plan).
THEOREM SpecReignsSucceed == Spec => []ReignsSucceed
  <1>1. ReignsHold => ReignsSucceed
    BY DEF ReignsHold
  <1>2. QED
    BY <1>1, SpecReigns, PTL

\* What is set on the chain is the whole of the weight, and no uid but the burn uid has more
\* than one slot of it, whoever registered at the uids meanwhile (build_weight_payload).
THEOREM SpecOneShareEach == Spec => []OneShareEach
  BY SpecReigns, PTL

----------------------------------------------------------------------------
(* Marks: what a duel is won by.  Sums first: as MapThenSumSet goes through a set. *)

\* As many pairs for each element k of S as F counts for it.
Units(F, S) == UNION {{k} \X (1..F[k]) : k \in S}

\* They are finitely many.
LEMMA UnitsFinite ==
  ASSUME NEW S, IsFiniteSet(S), NEW F, \A k \in S : F[k] \in Nat
  PROVE  IsFiniteSet(Units(F, S)) /\ Cardinality(Units(F, S)) \in Nat
  <1> DEFINE of == [k \in S |-> {k} \X (1..F[k])]
             parts == {{k} \X (1..F[k]) : k \in S}
  <1>1. of \in Surjection(S, parts)
    BY DEF Surjection
  <1>2. IsFiniteSet(parts)
    <2> HIDE DEF of, parts
    <2>1. QED
      BY <1>1, FS_Surjection
  <1>3. ASSUME NEW k \in S PROVE IsFiniteSet({k} \X (1..F[k]))
    <2>1. 1 \in Int /\ F[k] \in Int
      OBVIOUS
    <2>2. IsFiniteSet({k}) /\ IsFiniteSet(1..F[k])
      BY <2>1, FS_Singleton, FS_Interval, Zenon
    <2>3. QED
      BY <2>2, FS_Product
  <1>4. \A p \in parts : IsFiniteSet(p)
    BY <1>3
  <1>5. IsFiniteSet(UNION parts)
    <2> HIDE DEF parts
    <2>1. QED
      BY <1>2, <1>4, FS_UNION
  <1>6. QED
    BY <1>5, FS_CardinalityType DEF Units

\* Those of an element, and those of the rest.
LEMMA UnitsSplit ==
  ASSUME NEW S, IsFiniteSet(S), NEW F, \A k \in S : F[k] \in Nat, NEW x \in S
  PROVE  Cardinality(Units(F, S)) = F[x] + Cardinality(Units(F, S \ {x}))
  <1> DEFINE A == {x} \X (1..F[x])
             B == Units(F, S \ {x})
  <1>1. Units(F, S) = A \cup B /\ A \cap B = {}
    BY DEF Units
  <1>2. IsFiniteSet(A) /\ Cardinality(A) = F[x]
    <2>1. F[x] \in Nat /\ F[x] \in Int /\ 1 \in Int
      OBVIOUS
    <2>2. IsFiniteSet({x}) /\ Cardinality({x}) = 1 /\ IsFiniteSet(1..F[x])
      BY <2>1, FS_Singleton, FS_Interval, Zenon
    <2>3. Cardinality(1..F[x]) = F[x]
      BY <2>1, FS_Interval
    <2>4. IsFiniteSet(A) /\ Cardinality(A) = Cardinality({x}) * Cardinality(1..F[x])
      BY <2>2, FS_Product
    <2> HIDE DEF A
    <2>5. QED
      BY <2>1, <2>2, <2>3, <2>4
  <1>3. IsFiniteSet(B) /\ Cardinality(B) \in Nat
    <2>1. IsFiniteSet(S \ {x})
      BY FS_RemoveElement
    <2>2. QED
      BY <2>1, UnitsFinite
  <1> HIDE DEF A, B
  <1>4. Cardinality(A \cup B) = Cardinality(A) + Cardinality(B)
    BY <1>1, <1>2, <1>3, DisjointUnion
  <1>5. QED
    BY <1>1, <1>2, <1>4 DEF B

\* What MapThenSumSet adds up is how many they are, and it does so element by element.
SumOf(F) == MapThenSumSet(LAMBDA x : F[x], DOMAIN F)

LEMMA SumAddsUp ==
  ASSUME NEW S, IsFiniteSet(S), NEW F \in [S -> Nat]
  PROVE  /\ SumOf(F) = Cardinality(Units(F, S))
         /\ AddsUp(F, [s \in SUBSET S |-> Cardinality(Units(F, s))], S)
  <1> DEFINE g == [s \in SUBSET S |-> Cardinality(Units(F, s))]
             step(s, f) == IF s = {} THEN 0
                           ELSE F[CHOOSE x \in s : TRUE] + f[s \ {CHOOSE x \in s : TRUE}]
             iter == CHOOSE f : f = [s \in SUBSET S |-> step(s, f)]
  <1>1. ASSUME NEW s \in SUBSET S PROVE g[s] = step(s, g)
    <2>1. CASE s = {}
      <3>1. Units(F, {}) = {}
        BY DEF Units
      <3>2. QED
        BY <2>1, <3>1, FS_EmptySet
    <2>2. CASE s # {}
      <3> DEFINE x == CHOOSE y \in s : TRUE
      <3>1. x \in s /\ IsFiniteSet(s) /\ \A k \in s : F[k] \in Nat
        BY <2>2, FS_Subset
      <3>2. g[s] = Cardinality(Units(F, s)) /\ g[s \ {x}] = Cardinality(Units(F, s \ {x}))
        OBVIOUS
      <3>3. step(s, g) = F[x] + g[s \ {x}]
        BY <2>2
      <3> HIDE DEF x, g, step
      <3>4. QED
        BY <3>1, <3>2, <3>3, UnitsSplit
    <2>3. QED
      BY <2>1, <2>2
  <1>2. g = [s \in SUBSET S |-> step(s, g)]
    <2>1. g = [s \in SUBSET S |-> g[s]]
      OBVIOUS
    <2> HIDE DEF g, step
    <2>2. QED
      BY <1>1, <2>1
  <1>3. iter = [s \in SUBSET S |-> step(s, iter)]
    <2> HIDE DEF step, g
    <2>1. QED
      BY <1>2
  <1>4. AddsUp(F, iter, S) /\ AddsUp(F, g, S)
    <2> HIDE DEF iter, g
    <2>1. QED
      BY <1>2, <1>3 DEF AddsUp
  <1>5. SumOf(F) = iter[S]
    BY DEF SumOf, MapThenSumSet, MapThenFoldSet
  <1>6. g[S] = Cardinality(Units(F, S))
    OBVIOUS
  <1> HIDE DEF iter, g
  <1>7. iter = g
    BY <1>4, OneSum
  <1>8. QED
    BY <1>4, <1>5, <1>6, <1>7 DEF g

LEMMA Product ==
  ASSUME NEW c \in Nat, NEW k \in Nat
  PROVE  c * k \in Nat /\ c * (k - 1) = c * k - c
  BY SMT

\* A function that is larger by c everywhere has a larger sum.
LEMMA SumsOrdered ==
  ASSUME NEW S, IsFiniteSet(S), NEW F \in [S -> Nat], NEW G \in [S -> Nat], NEW c \in Nat,
         \A x \in S : F[x] >= G[x] + c
  PROVE  SumOf(F) >= SumOf(G) + c * Cardinality(S)
  <1> DEFINE f(s) == Cardinality(Units(F, s))
             g(s) == Cardinality(Units(G, s))
             Low == {s \in SUBSET S : ~(f(s) >= g(s) + c * Cardinality(s))}
             sizes == {Cardinality(s) : s \in Low}
  <1>1. \A s \in SUBSET S : /\ IsFiniteSet(s) /\ Cardinality(s) \in Nat
                            /\ f(s) \in Nat /\ g(s) \in Nat
    BY FS_Subset, FS_CardinalityType, UnitsFinite
  <1>2. SUFFICES ASSUME Low # {} PROVE FALSE
    <2>1. S \notin Low
      BY <1>2
    <2>2. SumOf(F) = f(S) /\ SumOf(G) = g(S)
      BY SumAddsUp
    <2> HIDE DEF f, g
    <2>3. QED
      BY <2>1, <2>2
  <1>3. sizes \subseteq Nat /\ sizes # {}
    BY <1>1, <1>2
  <1>4. PICK n \in sizes : \A m \in sizes : n =< m
    <2> HIDE DEF sizes
    <2>1. QED
      BY <1>3, LeastOfSome
  <1>5. PICK s \in Low : \A t \in Low : Cardinality(s) =< Cardinality(t)
    BY <1>4
  <1>6. s \in SUBSET S /\ ~(f(s) >= g(s) + c * Cardinality(s))
    BY <1>5
  <1>7. s # {}
    <2>1. Units(F, {}) = {} /\ Units(G, {}) = {}
      BY DEF Units
    <2>2. Cardinality({}) = 0
      BY FS_EmptySet
    <2>3. c * 0 = 0
      OBVIOUS
    <2>4. f({}) = 0 /\ g({}) = 0
      BY <2>1, <2>2
    <2> HIDE DEF f, g, Low
    <2>5. s = {} => FALSE
      BY <1>6, <2>2, <2>3, <2>4
    <2>6. QED
      BY <2>5
  <1>8. PICK x \in s : TRUE
    BY <1>7
  <1>9. f(s) = F[x] + f(s \ {x}) /\ g(s) = G[x] + g(s \ {x})
    <2>1. IsFiniteSet(s) /\ (\A k \in s : F[k] \in Nat) /\ (\A k \in s : G[k] \in Nat)
      BY <1>1, <1>6
    <2>2. QED
      BY <2>1, UnitsSplit
  <1>10. s \ {x} \in SUBSET S /\ Cardinality(s \ {x}) = Cardinality(s) - 1 /\ Cardinality(s) \in Nat
    BY <1>1, <1>6, FS_RemoveElement
  <1>11. s \ {x} \notin Low
    <2> HIDE DEF Low
    <2>1. QED
      BY <1>5, <1>10
  <1>12. f(s \ {x}) >= g(s \ {x}) + c * (Cardinality(s) - 1)
    BY <1>10, <1>11
  <1>13. F[x] \in Nat /\ G[x] \in Nat /\ F[x] >= G[x] + c
    BY <1>6
  <1>14. f(s \ {x}) \in Nat /\ g(s \ {x}) \in Nat
    BY <1>1, <1>10
  <1> HIDE DEF f, g, Low
  <1>15. PICK k \in Nat : k = Cardinality(s)
    BY <1>10
  <1>16. c * (k - 1) = c * k - c /\ c * k \in Nat
    BY Product
  <1>17. QED
    BY <1>6, <1>9, <1>12, <1>13, <1>14, <1>15, <1>16

----------------------------------------------------------------------------
(* Means. *)

LEMMA QuotientsOrdered ==
  ASSUME NEW a \in Nat, NEW b \in Nat, NEW c \in Nat, NEW d \in Nat \ {0}, a >= b + c * d
  PROVE  /\ a \div d \in Nat /\ b \div d \in Nat
         /\ a \div d >= (b \div d) + c
  <1>1. \A n \in Nat : /\ n \div d \in Int /\ n % d \in 0..(d - 1)
                       /\ n = d * (n \div d) + (n % d)
    BY SMT
  <1>2. \A n \in Nat : n \div d \in Nat
    <2> SUFFICES ASSUME NEW n \in Nat PROVE n \div d \in Nat
      OBVIOUS
    <2>1. PICK q \in Int, r \in 0..(d - 1) : q = n \div d /\ n = d * q + r
      BY <1>1
    <2>2. q >= 0
      BY <2>1, SMT
    <2>3. QED
      BY <2>1, <2>2
  <1>3. PICK q \in Nat, r \in 0..(d - 1) : q = a \div d /\ a = d * q + r
    BY <1>1, <1>2
  <1>4. PICK p \in Nat, t \in 0..(d - 1) : p = b \div d /\ b = d * p + t
    BY <1>1, <1>2
  <1>5. q >= p + c
    <2> SUFFICES ASSUME q < p + c PROVE FALSE
      OBVIOUS
    <2>1. PICK k \in Nat \ {0} : k = p + c - q
      OBVIOUS
    <2>2. d * k >= d
      BY SMT
    <2>3. d * (p + c) = d * q + d * k
      BY <2>1, SMT
    <2>4. d * (p + c) = d * p + c * d
      BY SMT
    <2>5. d * q + r >= d * p + t + c * d
      BY <1>3, <1>4
    <2>6. d * q \in Int /\ d * p \in Int /\ c * d \in Int /\ d * k \in Int
      BY SMT
    <2>7. QED
      BY <2>2, <2>3, <2>4, <2>5, <2>6
  <1>6. QED
    BY <1>2, <1>3, <1>4, <1>5

\* Scores over something, where there is something: then they have a mean.
Marking(F) == IsFiniteSet(DOMAIN F) /\ DOMAIN F # {} /\ F \in [DOMAIN F -> Nat]

LEMMA MeanIs ==
  ASSUME NEW F, Marking(F)
  PROVE  /\ SumOf(F) \in Nat /\ Cardinality(DOMAIN F) \in Nat \ {0}
         /\ MeanOf(F) = (2 * SumOf(F) + Cardinality(DOMAIN F)) \div (2 * Cardinality(DOMAIN F))
  <1>1. Cardinality(DOMAIN F) \in Nat \ {0}
    BY FS_CardinalityType, FS_EmptySet DEF Marking
  <1>2. SumOf(F) \in Nat
    <2>1. Cardinality(Units(F, DOMAIN F)) \in Nat
      BY UnitsFinite DEF Marking
    <2>2. QED
      BY <2>1, SumAddsUp DEF Marking
  <1>3. QED
    BY <1>1, <1>2 DEF MeanOf, SumOf

\* A quotient is rounded, but it keeps a lead of so many for each.
LEMMA SumsLead ==
  ASSUME NEW v \in Nat, NEW w \in Nat, NEW n \in Nat \ {0}, NEW c \in Nat, v >= w + c * n
  PROVE  /\ (2 * v + n) \div (2 * n) \in Nat /\ (2 * w + n) \div (2 * n) \in Nat
         /\ (2 * v + n) \div (2 * n) >= (2 * w + n) \div (2 * n) + c
  <1>1. PICK a \in Nat, b \in Nat, d \in Nat \ {0} : a = 2 * v + n /\ b = 2 * w + n /\ d = 2 * n
    OBVIOUS
  <1>2. a >= b + c * d
    <2>1. c * n \in Nat
      BY Product
    <2>2. c * (2 * n) = 2 * (c * n)
      BY SMT
    <2>3. QED
      BY <1>1, <2>1, <2>2
  <1>3. a \div d \in Nat /\ b \div d \in Nat /\ a \div d >= (b \div d) + c
    BY <1>2, QuotientsOrdered
  <1>4. QED
    BY <1>1, <1>3, Zenon

\* A mean is rounded, but a lead of so many millionths everywhere is one of as many in the mean.
LEMMA MeansOrdered ==
  ASSUME NEW F, NEW G, Marking(F), Marking(G), DOMAIN F = DOMAIN G, NEW c \in Nat,
         \A x \in DOMAIN F : F[x] >= G[x] + c
  PROVE  MeanOf(F) \in Nat /\ MeanOf(G) \in Nat /\ MeanOf(F) >= MeanOf(G) + c
  <1>1. PICK n \in Nat \ {0} : n = Cardinality(DOMAIN F)
    BY MeanIs
  <1>2. PICK v \in Nat, w \in Nat : v = SumOf(F) /\ w = SumOf(G)
    BY MeanIs
  <1>3. v >= w + c * n
    BY <1>1, <1>2, SumsOrdered DEF Marking
  <1>4. MeanOf(F) = (2 * v + n) \div (2 * n) /\ MeanOf(G) = (2 * w + n) \div (2 * n)
    <2>1. MeanOf(F) = (2 * SumOf(F) + Cardinality(DOMAIN F)) \div (2 * Cardinality(DOMAIN F))
      BY MeanIs
    <2>2. MeanOf(G) = (2 * SumOf(G) + Cardinality(DOMAIN G)) \div (2 * Cardinality(DOMAIN G))
      BY MeanIs
    <2>3. QED
      BY <1>1, <1>2, <2>1, <2>2, Zenon
  <1>5. QED
    BY <1>3, <1>4, SumsLead

\* The mean of a score everywhere the same is that score.
LEMMA MeanOfSame ==
  ASSUME NEW S, IsFiniteSet(S), S # {}, NEW k \in Nat
  PROVE  Marking([x \in S |-> k]) /\ MeanOf([x \in S |-> k]) = k
  <1> DEFINE F == [x \in S |-> k]
             Z == [x \in S |-> 0]
  <1>1. Marking(F) /\ Marking(Z) /\ DOMAIN F = S /\ DOMAIN Z = S
    BY DEF Marking
  <1>2. \A x \in S : F[x] >= Z[x] + k
    OBVIOUS
  <1>3. SumOf(Z) = 0
    <2>1. Units(Z, S) = {} /\ Z \in [S -> Nat]
      BY DEF Units
    <2> HIDE DEF Z
    <2>2. SumOf(Z) = Cardinality({})
      BY <2>1, SumAddsUp
    <2>3. QED
      BY <2>2, FS_EmptySet
  <1> HIDE DEF F, Z
  <1>4. PICK n \in Nat \ {0} : n = Cardinality(S)
    BY <1>1, MeanIs
  <1>5. SumOf(F) = k * n
    <2>1. Cardinality(Units(F, S)) = k * Cardinality(S)
      <3>1. Units(F, S) = S \X (1..k)
        BY DEF Units, F
      <3>2. IsFiniteSet(1..k) /\ Cardinality(1..k) = k
        <4>1. 1 \in Int /\ k \in Int
          OBVIOUS
        <4>2. QED
          BY <4>1, FS_Interval
      <3>3. Cardinality(S \X (1..k)) = Cardinality(S) * Cardinality(1..k)
        BY <3>2, FS_Product, Zenon
      <3>4. n * k = k * n
        BY SMT
      <3>5. QED
        BY <1>4, <3>1, <3>2, <3>3, <3>4
    <2>2. QED
      BY <1>1, <1>4, <2>1, SumAddsUp DEF Marking
  <1>6. MeanOf(F) = (2 * (k * n) + n) \div (2 * n)
    BY <1>1, <1>4, <1>5, MeanIs
  <1>7. (2 * (k * n) + n) \div (2 * n) = k
    <2>1. 2 * (k * n) + n = (2 * n) * k + n
      BY SMT
    <2>2. ((2 * n) * k + n) \div (2 * n) = k
      BY SMT
    <2>3. QED
      BY <2>1, <2>2
  <1>8. QED
    BY <1>1, <1>6, <1>7 DEF F

\* A mean is between the least and the most it is of.
LEMMA MeanBetween ==
  ASSUME NEW F, Marking(F), NEW k \in Nat
  PROVE  /\ MeanOf(F) \in Nat
         /\ (\A x \in DOMAIN F : F[x] >= k) => MeanOf(F) >= k
         /\ (\A x \in DOMAIN F : F[x] <= k) => MeanOf(F) <= k
  <1> DEFINE K == [x \in DOMAIN F |-> k]
  <1>1. Marking(K) /\ MeanOf(K) = k /\ DOMAIN K = DOMAIN F /\ \A x \in DOMAIN F : K[x] = k
    BY MeanOfSame DEF Marking
  <1>2. \A x \in DOMAIN F : F[x] \in Nat
    BY DEF Marking
  <1> HIDE DEF K
  <1>3. MeanOf(F) \in Nat
    BY <1>2, MeansOrdered
  <1>4. ASSUME \A x \in DOMAIN F : F[x] >= k PROVE MeanOf(F) >= k
    BY <1>1, <1>2, <1>3, <1>4, MeansOrdered
  <1>5. ASSUME \A x \in DOMAIN F : F[x] <= k PROVE MeanOf(F) <= k
    BY <1>1, <1>2, <1>3, <1>5, MeansOrdered
  <1>6. QED
    BY <1>3, <1>4, <1>5

----------------------------------------------------------------------------
(* What the judges said of a side. *)

Readings == [Questions -> Nat] \cup {Unread}
SideRow  == [Judges -> [1..Repeats -> Readings]]

\* The marks of a question in the judgings that could be read.
MarksOf(judging, q) == [n \in Held(judging) |-> judging[n][q]]
Gave(judging, q)    == {judging[n][q] : n \in Held(judging)}

LEMMA ReadingIs ==
  ASSUME MarksAssumption, NEW judging \in [1..Repeats -> Readings], Held(judging) # {},
         NEW q \in Questions
  PROVE  /\ Marking(MarksOf(judging, q)) /\ DOMAIN MarksOf(judging, q) = Held(judging)
         /\ \A n \in Held(judging) : /\ MarksOf(judging, q)[n] \in Gave(judging, q)
                                     /\ judging[n][q] \in Nat
         /\ \A p \in Gave(judging, q) : p \in Nat
         /\ Gave(judging, q) # {}
  <1>1. Held(judging) \subseteq 1..Repeats
    BY DEF Held
  <1>2. IsFiniteSet(Held(judging))
    <2>1. 1 \in Int /\ Repeats \in Int
      BY DEF MarksAssumption
    <2>2. QED
      BY <1>1, <2>1, FS_Interval, FS_Subset
  <1>3. \A n \in Held(judging) : judging[n] \in [Questions -> Nat]
    BY <1>1 DEF Held, Readings
  <1>4. QED
    BY <1>2, <1>3 DEF Marking, MarksOf, Gave

\* One judge who gives a side, for every question, more than another side gets there by c.
LEMMA RatesOrdered ==
  ASSUME MarksAssumption, NEW high \in [1..Repeats -> Readings], NEW low \in [1..Repeats -> Readings],
         Held(high) # {}, Held(low) # {}, NEW c \in Nat,
         \A q \in Questions : \A p \in Gave(high, q), r \in Gave(low, q) : p >= r + c
  PROVE  JudgeRate(high) \in Nat /\ JudgeRate(low) \in Nat /\ JudgeRate(high) >= JudgeRate(low) + c
  <1> DEFINE H == [q \in Questions |-> MeanOf(MarksOf(high, q))]
             L == [q \in Questions |-> MeanOf(MarksOf(low, q))]
  <1>1. ASSUME NEW q \in Questions
        PROVE  /\ MeanOf(MarksOf(high, q)) \in Nat /\ MeanOf(MarksOf(low, q)) \in Nat
               /\ MeanOf(MarksOf(high, q)) >= MeanOf(MarksOf(low, q)) + c
    <2> DEFINE h == MarksOf(high, q)
               l == MarksOf(low, q)
    <2>1. /\ Marking(h) /\ Marking(l)
          /\ \A n \in DOMAIN h : h[n] \in Gave(high, q) /\ h[n] \in Nat
          /\ \A n \in DOMAIN l : l[n] \in Gave(low, q) /\ l[n] \in Nat
      BY ReadingIs DEF MarksOf
    <2> HIDE DEF h, l
    <2>2. MeanOf(l) \in Nat
      BY <2>1, MeanBetween
    <2>3. ASSUME NEW n \in DOMAIN h PROVE h[n] >= MeanOf(l) + c
      <3>1. \A m \in DOMAIN l : h[n] >= l[m] + c
        BY <2>1
      <3>2. DOMAIN l # {}
        BY <2>1 DEF Marking
      <3>3. PICK k \in Nat : h[n] = k + c
        BY <2>1, <3>1, <3>2
      <3>4. \A m \in DOMAIN l : l[m] <= k
        BY <2>1, <3>1, <3>3
      <3>5. MeanOf(l) <= k
        BY <2>1, <3>4, MeanBetween
      <3>6. QED
        BY <2>2, <3>3, <3>5
    <2>4. MeanOf(l) + c \in Nat
      BY <2>2
    <2>5. MeanOf(h) \in Nat /\ MeanOf(h) >= MeanOf(l) + c
      BY <2>1, <2>3, <2>4, MeanBetween
    <2>6. QED
      BY <2>2, <2>5 DEF h, l
  <1>2. DOMAIN H = Questions /\ DOMAIN L = Questions /\ H \in [Questions -> Nat] /\ L \in [Questions -> Nat]
        /\ \A q \in Questions : H[q] >= L[q] + c
    BY <1>1
  <1>3. JudgeRate(high) = MeanOf(H) /\ JudgeRate(low) = MeanOf(L)
    BY DEF JudgeRate, MarksOf
  <1> HIDE DEF H, L
  <1>4. Marking(H) /\ Marking(L)
    BY <1>2 DEF Marking, MarksAssumption
  <1>5. QED
    BY <1>2, <1>3, <1>4, MeansOrdered

\* A side whose judges could all be read comes to the mean of their rates.
Rates(side) == [j \in Judges |-> JudgeRate(side[j])]
Plain(side) == MeanOf(Rates(side))

LEMMA RateIs ==
  ASSUME MarksAssumption, NEW side \in SideRow, Answered(side)
  PROVE  Marking(Rates(side)) /\ DOMAIN Rates(side) = Judges /\ Plain(side) \in Nat
  <1>1. ASSUME NEW j \in Judges PROVE JudgeRate(side[j]) \in Nat
    <2>1. side[j] \in [1..Repeats -> Readings] /\ Held(side[j]) # {}
      BY DEF SideRow, Answered
    <2>2. \A q \in Questions : MeanOf(MarksOf(side[j], q)) \in Nat
      BY <2>1, ReadingIs, MeanBetween
    <2> DEFINE H == [q \in Questions |-> MeanOf(MarksOf(side[j], q))]
    <2>3. JudgeRate(side[j]) = MeanOf(H)
      BY DEF JudgeRate, MarksOf
    <2>4. H \in [Questions -> Nat] /\ DOMAIN H = Questions
      BY <2>2
    <2> HIDE DEF H
    <2>5. Marking(H)
      BY <2>4 DEF Marking, MarksAssumption
    <2>6. QED
      BY <2>3, <2>5, MeanBetween
  <1>2. Marking(Rates(side)) /\ DOMAIN Rates(side) = Judges
    BY <1>1 DEF Rates, Marking, MarksAssumption
  <1>3. QED
    BY <1>2, MeanBetween DEF Plain

LEMMA PlainOrdered ==
  ASSUME MarksAssumption, NEW high \in SideRow, NEW low \in SideRow, Answered(high), Answered(low),
         NEW c \in Nat,
         \A j \in Judges, q \in Questions :
           \A p \in Extremes(high)[j][q], r \in Extremes(low)[j][q] : p >= r + c
  PROVE  Plain(high) >= Plain(low) + c
  <1>1. ASSUME NEW j \in Judges PROVE JudgeRate(high[j]) >= JudgeRate(low[j]) + c
    <2>1. /\ high[j] \in [1..Repeats -> Readings] /\ Held(high[j]) # {}
          /\ low[j] \in [1..Repeats -> Readings] /\ Held(low[j]) # {}
      BY DEF SideRow, Answered
    <2>2. \A q \in Questions : \A p \in Gave(high[j], q), r \in Gave(low[j], q) : p >= r + c
      BY DEF Extremes, Gave
    <2>3. QED
      BY <2>1, <2>2, RatesOrdered
  <1>2. \A j \in Judges : Rates(high)[j] >= Rates(low)[j] + c
    BY <1>1 DEF Rates
  <1>3. QED
    BY <1>2, RateIs, MeansOrdered DEF Plain

\* Its score is that mean, or for its form what is left of it.
LEMMA ScoreIs ==
  ASSUME MarksAssumption, NEW side \in SideRow, Answered(side), NEW kind
  PROVE  /\ Score(side, kind) \in Nat /\ Score(side, kind) <= Plain(side)
         /\ kind # "amputated" => Score(side, kind) = Plain(side)
  <1> DEFINE heard == {j \in Judges : Held(side[j]) # {}}
             score == MeanOf([j \in heard |-> JudgeRate(side[j])])
             F == <<score, 0>>
  <1>1. heard = Judges
    BY DEF Answered
  <1>2. score = Plain(side)
    BY <1>1 DEF Plain, Rates
  <1>3. Score(side, kind) = IF kind = "amputated" THEN MeanOf(F) ELSE score
    BY DEF Score
  <1>4. Plain(side) \in Nat
    BY RateIs
  <1>5. DOMAIN F = 1..2 /\ F = [x \in 1..2 |-> F[x]] /\ F[1] = score /\ F[2] = 0
    OBVIOUS
  <1>6. IsFiniteSet(1..2)
    <2>1. 1 \in Int /\ 2 \in Int
      OBVIOUS
    <2>2. QED
      BY <2>1, FS_Interval
  <1> HIDE DEF F, score
  <1>7. Marking(F)
    BY <1>2, <1>4, <1>5, <1>6 DEF Marking
  <1>8. MeanOf(F) \in Nat /\ MeanOf(F) <= score
    BY <1>2, <1>4, <1>5, <1>7, MeanBetween
  <1>9. QED
    BY <1>2, <1>3, <1>4, <1>8

----------------------------------------------------------------------------
(* The duel. *)

\* What a side comes to that all judges could read.
SideIs(s, side) ==
  /\ side \in SideRow /\ Answered(side) /\ s.gave = Extremes(side)
  /\ s.score \in Nat /\ s.score <= Plain(side)
  /\ s.kind # "amputated" => s.score = Plain(side)

LEMMA SidesAre ==
  ASSUME MarksAssumption, NEW s \in Sides, s.ok
  PROVE  \E side \in SideRow : SideIs(s, side)
  <1>1. PICK kind \in Kinds, side \in SideRow : s = Comes(kind, side)
    <2>1. CASE s \in Judged
      <3>1. Judgings \subseteq Readings
        BY DEF Judgings, Readings, MarksAssumption
      <3>2. PICK kind \in {"whole", "amputated"}, side \in [Judges -> [1..Repeats -> Judgings]] :
              s = Comes(kind, side)
        BY <2>1 DEF Judged
      <3>3. side \in SideRow
        BY <3>1 DEF SideRow
      <3>4. QED
        BY <3>2, <3>3 DEF Kinds
    <2>2. CASE s = Void
      <3>1. [j \in Judges |-> [n \in 1..Repeats |-> [q \in Questions |-> 0]]] \in SideRow
        BY DEF SideRow, Readings
      <3>2. QED
        BY <2>2, <3>1 DEF Void, Kinds
    <2>3. QED
      BY <2>1, <2>2 DEF Sides
  <1>2. Answered(side) /\ s.gave = Extremes(side) /\ s.kind = kind
    BY <1>1 DEF Comes
  <1>3. s.score = Score(side, kind)
    BY <1>1, <1>2 DEF Comes, Answered, MarksAssumption
  <1>4. QED
    BY <1>2, <1>3, ScoreIs DEF SideIs

OutcomeRow ==
  [scored : {0, 1}, king : Nat, challenger : Nat, better : BOOLEAN, ahead : BOOLEAN]

\* Who was given no more has no more, and who was given clearly more is clearly ahead.
Honest(o) ==
  /\ ~o.better => o.challenger <= o.king
  /\ o.ahead => o.challenger >= o.king + Margin * o.scored

LEMMA OutcomesAre ==
  ASSUME MarksAssumption, NEW o \in Outcomes
  PROVE  o \in OutcomeRow /\ Honest(o)
  <1>1. PICK king \in Sides, challenger \in Sides : o = Compared(king, challenger)
    BY DEF Outcomes
  <1>2. CASE ~(king.ok /\ challenger.ok)
    BY <1>1, <1>2 DEF Compared, Unscored, OutcomeRow, Honest, Margin
  <1>3. CASE king.ok /\ challenger.ok
    <2>1. PICK K \in SideRow : SideIs(king, K)
      BY <1>3, SidesAre
    <2>2. PICK C \in SideRow : SideIs(challenger, C)
      BY <1>3, SidesAre
    <2>3. Plain(K) \in Nat /\ Plain(C) \in Nat
      BY <2>1, <2>2, RateIs DEF SideIs
    <2>4. ASSUME ~Better(king, challenger) PROVE challenger.score <= king.score
      <3>1. king.kind = "whole"
        BY <2>4 DEF Better
      <3>2. \A j \in Judges, q \in Questions :
              \A p \in Extremes(K)[j][q], r \in Extremes(C)[j][q] : p >= r + 0
        <4> SUFFICES ASSUME NEW j \in Judges, NEW q \in Questions,
                            NEW p \in Extremes(K)[j][q], NEW r \in Extremes(C)[j][q]
                     PROVE  p >= r + 0
          OBVIOUS
        <4>1. ~(r > p)
          BY <2>1, <2>2, <2>4 DEF Better, SideIs
        <4>2. p \in Nat /\ r \in Nat
          <5>1. K[j] \in [1..Repeats -> Readings] /\ Held(K[j]) # {} /\ p \in Gave(K[j], q)
            BY <2>1 DEF SideIs, SideRow, Answered, Extremes, Gave
          <5>2. C[j] \in [1..Repeats -> Readings] /\ Held(C[j]) # {} /\ r \in Gave(C[j], q)
            BY <2>2 DEF SideIs, SideRow, Answered, Extremes, Gave
          <5>3. QED
            BY <5>1, <5>2, ReadingIs
        <4>3. QED
          BY <4>1, <4>2
      <3>3. Plain(K) >= Plain(C) + 0
        BY <2>1, <2>2, <3>2, PlainOrdered DEF SideIs
      <3>4. QED
        BY <2>1, <2>2, <2>3, <3>1, <3>3 DEF SideIs
    <2>5. ASSUME ClearlyBetter(king, challenger) PROVE challenger.score >= king.score + Margin
      <3>1. challenger.kind = "whole"
        BY <2>5 DEF ClearlyBetter
      <3>2. \A j \in Judges, q \in Questions :
              \A p \in Extremes(C)[j][q], r \in Extremes(K)[j][q] : p >= r + Margin
        BY <2>1, <2>2, <2>5 DEF ClearlyBetter, SideIs
      <3>3. Plain(C) >= Plain(K) + Margin
        <4>1. Margin \in Nat
          BY DEF Margin
        <4>2. QED
          BY <2>1, <2>2, <3>2, <4>1, PlainOrdered DEF SideIs
      <3>4. QED
        BY <2>1, <2>2, <2>3, <3>1, <3>3 DEF SideIs, Margin
    <2>6. o = [scored |-> 1, king |-> king.score, challenger |-> challenger.score,
               better |-> Better(king, challenger), ahead |-> ClearlyBetter(king, challenger)]
      BY <1>1, <1>3 DEF Compared
    <2>7. king.score \in Nat /\ challenger.score \in Nat
      BY <2>1, <2>2 DEF SideIs
    <2>8. Better(king, challenger) \in BOOLEAN /\ ClearlyBetter(king, challenger) \in BOOLEAN
      BY DEF Better, ClearlyBetter
    <2>9. QED
      BY <2>4, <2>5, <2>6, <2>7, <2>8 DEF OutcomeRow, Honest, Margin
  <1>4. QED
    BY <1>2, <1>3

TallyRow ==
  [seen : Nat, scored : Nat, king : Nat, challenger : Nat, better : BOOLEAN, ahead : BOOLEAN]

\* The sums of a running duel are honest as the scores of each sample are.
DuelInv == tally \in TallyRow /\ Honest(tally) /\ WinIsEarned

LEMMA DuelInvInit == MarksInit => DuelInv
  BY DEF MarksInit, DuelInv, TallyRow, Honest, WinIsEarned, Margin

LEMMA DuelInvNext == ASSUME MarksAssumption, DuelInv, [MarksNext]_marksVars PROVE DuelInv'
  <1>1. ASSUME NEW o \in Outcomes, JudgeSample(o) PROVE DuelInv'
    <2>1. o \in OutcomeRow /\ Honest(o)
      BY OutcomesAre
    <2>2. tally' = [seen |-> tally.seen + 1, scored |-> tally.scored + o.scored,
                    king |-> tally.king + o.king, challenger |-> tally.challenger + o.challenger,
                    better |-> tally.better \/ o.better, ahead |-> tally.ahead /\ o.ahead]
          /\ duel' = "running"
      BY <1>1 DEF JudgeSample
    <2>3. tally' \in TallyRow
      BY <2>1, <2>2 DEF DuelInv, TallyRow, OutcomeRow
    <2>4. Honest(tally)'
      BY <2>1, <2>2 DEF DuelInv, TallyRow, OutcomeRow, Honest, Margin
    <2>5. QED
      BY <2>2, <2>3, <2>4 DEF DuelInv, WinIsEarned
  <1>2. CASE SampleFails
    <2>1. tally' = [tally EXCEPT !.seen = @ + 1] /\ duel' = "running"
      BY <1>2 DEF SampleFails
    <2>2. tally' \in TallyRow /\ Honest(tally)'
      BY <2>1 DEF DuelInv, TallyRow, Honest
    <2>3. QED
      BY <2>1, <2>2 DEF DuelInv, WinIsEarned
  <1>3. CASE Aggregate
    <2> DEFINE n == tally.scored
               Mean(sum) == (2 * sum + n) \div (2 * n)
    <2>1. /\ duel' = IF n * 100 < MinValid * Samples THEN "failed"
                     ELSE IF Beats(Mean(tally.challenger), Mean(tally.king)) THEN "won" ELSE "lost"
          /\ UNCHANGED tally
      BY <1>3 DEF Aggregate
    <2>2. /\ n \in Nat /\ tally.king \in Nat /\ tally.challenger \in Nat /\ Honest(tally)
          /\ tally.better \in BOOLEAN /\ tally.ahead \in BOOLEAN
      BY DEF DuelInv, TallyRow
    <2>3. CASE n * 100 < MinValid * Samples
      BY <2>1, <2>3 DEF DuelInv, Honest, WinIsEarned
    <2>4. CASE ~(n * 100 < MinValid * Samples)
      <3>1. n \in Nat \ {0}
        BY <2>2, <2>4, SMT DEF MarksAssumption
      <3>2. ASSUME ~tally.better PROVE ~Beats(Mean(tally.challenger), Mean(tally.king))
        <4>1. tally.king >= tally.challenger
          BY <2>2, <3>2 DEF Honest
        <4>2. tally.king >= tally.challenger + 0 * n
          BY <2>2, <3>1, <4>1
        <4>3. /\ Mean(tally.king) \in Nat /\ Mean(tally.challenger) \in Nat
              /\ Mean(tally.king) >= Mean(tally.challenger) + 0
          BY <2>2, <3>1, <4>2, SumsLead
        <4> HIDE DEF Mean
        <4>4. QED
          BY <4>3 DEF Beats, Margin
      <3>3. ASSUME tally.ahead PROVE Beats(Mean(tally.challenger), Mean(tally.king))
        <4>1. tally.challenger >= tally.king + Margin * n
          BY <2>2, <3>3 DEF Honest
        <4>2. Margin \in Nat
          BY DEF Margin
        <4>3. /\ Mean(tally.king) \in Nat /\ Mean(tally.challenger) \in Nat
              /\ Mean(tally.challenger) >= Mean(tally.king) + Margin
          BY <2>2, <3>1, <4>1, <4>2, SumsLead
        <4> HIDE DEF Mean
        <4>4. QED
          BY <4>2, <4>3 DEF Beats
      <3>4. n * 100 >= MinValid * Samples
        BY <2>2, <2>4, SMT DEF MarksAssumption
      <3>5. duel' = IF Beats(Mean(tally.challenger), Mean(tally.king)) THEN "won" ELSE "lost"
        BY <2>1, <2>4
      <3> HIDE DEF Mean
      <3>6. WinIsEarned'
        BY <2>1, <3>2, <3>3, <3>4, <3>5 DEF WinIsEarned
      <3>7. QED
        BY <2>1, <3>6 DEF DuelInv, Honest
    <2>5. QED
      BY <2>3, <2>4
  <1>4. CASE UNCHANGED marksVars
    BY <1>4 DEF marksVars, DuelInv, Honest, WinIsEarned
  <1>5. QED
    BY <1>1, <1>2, <1>3, <1>4 DEF MarksNext

\* aggregate_scores, response_score: whatever the judges of whatever samples said or failed to
\* say, a duel is won only if one of them gave the challenger more than the king, is not lost
\* if all clearly did, and is decided only by as many samples as it takes.
THEOREM SpecWinIsEarned == MarksInit /\ [][MarksNext]_marksVars => []WinIsEarned
  <1>1. DuelInv => WinIsEarned
    BY DEF DuelInv
  <1>2. DuelInv /\ [MarksNext]_marksVars => DuelInv'
    BY DuelInvNext, MarksAssumption
  <1>3. QED
    BY <1>1, <1>2, DuelInvInit, PTL
=============================================================================
