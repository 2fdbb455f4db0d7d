--------------------------- MODULE KingOfTheHill ---------------------------
(***************************************************************************)
(* What the eval stage promises, whatever crashes, retries and races its   *)
(* processes go through: submissions wait, duel the king one at a time,    *)
(* and either leave for good or collect wins; the crown changes hands only *)
(* to a submission that won two duels.                                     *)
(***************************************************************************)
CONSTANTS Subs, Runs, NoKing

VARIABLES
  stage,   \* where each submission stands
  wins,    \* the duels it won
  king     \* who reigns

vars == <<stage, wins, king>>

Stages == {"outside", "waiting", "dueling", "winner", "crowned", "out"}

Init ==
  /\ stage = [s \in Subs |-> "outside"]
  /\ wins = [s \in Subs |-> {}]
  /\ king \notin Subs

Move(S, to) == stage' = [s \in Subs |-> IF s \in S THEN to ELSE stage[s]]

Enter(s) ==
  /\ stage[s] = "outside"
  /\ Move({s}, "waiting")
  /\ UNCHANGED <<wins, king>>

\* Waiting submissions may be turned away: retries spent, hotkey already judged.
Reject(S) ==
  /\ \A s \in S : stage[s] = "waiting"
  /\ Move(S, "out")
  /\ UNCHANGED <<wins, king>>

\* Those found ineligible on the way to s are turned away with the same step.
Duel(s, S) ==
  /\ \A t \in Subs : stage[t] # "dueling"
  /\ king # NoKing
  /\ stage[s] = "waiting" /\ s \notin S
  /\ \A t \in S : stage[t] = "waiting"
  /\ stage' = [t \in Subs |-> IF t = s THEN "dueling"
                              ELSE IF t \in S THEN "out" ELSE stage[t]]
  /\ UNCHANGED <<wins, king>>

\* A duel not won: lost, or without a verdict and perhaps to be repeated.
NotWon(s) ==
  /\ stage[s] = "dueling"
  /\ \E to \in {"waiting", "out"} : Move({s}, to)
  /\ UNCHANGED <<wins, king>>

\* The first win only earns a rematch, and the second is the last duel.
Win(s, r) ==
  /\ stage[s] = "dueling"
  /\ \A t \in Subs : r \notin wins[t]
  /\ wins' = [wins EXCEPT ![s] = @ \cup {r}]
  /\ \/ wins[s] = {} /\ Move({s}, "waiting")
     \/ wins[s] # {} /\ Move({s}, "winner")
  /\ UNCHANGED king

Crown(s) ==
  /\ stage[s] = "winner"
  /\ king # NoKing
  /\ \E q, r \in wins[s] : q # r
  /\ Move({s}, "crowned")
  /\ king' = s
  /\ UNCHANGED wins

Genesis ==
  /\ king = NoKing
  /\ king' \notin Subs
  /\ UNCHANGED <<stage, wins>>

Next ==
  \/ \E s \in Subs : Enter(s) \/ NotWon(s) \/ Crown(s)
  \/ \E S \in SUBSET Subs : Reject(S)
  \/ \E s \in Subs, S \in SUBSET Subs : Duel(s, S)
  \/ \E s \in Subs, r \in Runs : Win(s, r)
  \/ Genesis

Spec == Init /\ [][Next]_vars
=============================================================================
