------------------------------- MODULE Dedup -------------------------------
(* The dedup gate of the validation worker (model_validation/dedup): a model is  *)
(* compared with the bank of the models accepted before it, and joins the bank    *)
(* or is kept beside it for audit.  The worker judges one model at a time, in     *)
(* the order of their commits as far as their miners' coldkeys are known, and may *)
(* die after the bank has the model and before the database has the verdict.      *)
EXTENDS Integers, FiniteSets, FiniteSetsExt

CONSTANTS
  Models,       \* submitted models, by the block of their commit
  Miner,        \* the hotkey and coldkey of each
  Weights,      \* the fingerprint of each: the line it belongs to, and its exact bytes
  MaxTries,     \* ModelValidationSettings.MAX_ATTEMPTS
  MaxUnlucky    \* bound: crashes and failed calls of the bank

Genesis == 0    \* the root document, banked before the worker starts; it has no block

ASSUME DedupAssumption ==
  /\ Models \subseteq Nat \ {0} /\ IsFiniteSet(Models)
  /\ DOMAIN Miner = Models /\ DOMAIN Weights = Models \cup {Genesis}
  /\ MaxTries \in Nat \ {0} /\ MaxUnlucky \in Nat

VARIABLES
  model,     \* the submissions: state, attempts, whether the coldkey is known
  bank,      \* the bank's documents: their status, and the coldkey they were stored with
  judged,    \* the model in the worker's hands and what the gate came to, or NoModel
  unlucky,
  behind     \* for every model, those accepted when the gate last judged it

dedupVars == <<model, bank, judged, unlucky, behind>>

ModelStates == {"absent", "queued", "accepted", "shadowed", "duplicate", "duplicate_own", "infra"}
NoModel == [of |-> Genesis, reason |-> "none"]
NoDoc   == [status |-> "none", keyed |-> FALSE]
-----------------------------------------------------------------------------
InBank == {b \in DOMAIN bank : bank[b].status = "bank"}

\* _own: the miner's documents, by hotkey, or by coldkey where both know it.
Owned(b, m) ==
  b # Genesis /\ \/ Miner[b].hotkey = Miner[m].hotkey
                 \/ model[m].keyed /\ bank[b].keyed /\ Miner[b].coldkey = Miner[m].coldkey

\* _before: not committed at the same block or later.
Before(b, m) == b = Genesis \/ b < m

SameBytes(b, m) == Weights[b] = Weights[m]
SameSketch(b, m) == Weights[b].line = Weights[m].line

\* find_exact, nearest: the banked models of others, committed before.
Others(m) == {b \in InBank : ~Owned(b, m) /\ Before(b, m)}

\* find_exact_own, nearest_own: the banked models of the same coldkey.  Nothing tells the
\* model itself, banked by an earlier try, from the others.
OwnCopies(m) ==
  {b \in InBank \ {Genesis} : /\ model[m].keyed /\ bank[b].keyed
                              /\ Miner[b].coldkey = Miner[m].coldkey
                              /\ SameSketch(b, m)}

\* decide, on a model that is no copy: its distances to the nearest one and to the root say
\* trained, or one of the reasons for which it was not.
Heuristics == {"PASS", "TRIVIAL-EDIT"}

\* run: identical weights of another miner, then the miner's own, then a sketch of another's
\* that is the same.
Reasons(m) ==
  IF \E b \in Others(m) : SameBytes(b, m)     THEN {"COPY"}
  ELSE IF OwnCopies(m) # {}                   THEN {"OWN-COPY"}
  ELSE IF \E b \in Others(m) : SameSketch(b, m) THEN {"COPY"}
  ELSE Heuristics

\* put_doc: the document is indexed under the model's uri, over the one it may have.
Indexed(m, reason) ==
  [bank EXCEPT ![m] = [status |-> IF reason = "PASS" THEN "bank" ELSE "audit",
                       keyed  |-> model[m].keyed]]

\* enforces: without a coldkey a reject is logged and the model is let through.
Faults(m, reason) == reason # "PASS" /\ model[m].keyed
FaultCode(reason) == IF reason = "OWN-COPY" THEN "duplicate_own" ELSE "duplicate"

\* hotkey_duplicate_block_reason: a duplicate blocks the hotkey for good.
Blocked(m) == \E n \in Models : Miner[n].hotkey = Miner[m].hotkey /\ model[n].state = "duplicate"

Unlucky == unlucky < MaxUnlucky /\ unlucky' = unlucky + 1
-----------------------------------------------------------------------------
DedupInit ==
  /\ model = [m \in Models |-> [state |-> "absent", tries |-> 0, keyed |-> FALSE]]
  /\ bank = [b \in Models \cup {Genesis} |->
               IF b = Genesis THEN [status |-> "bank", keyed |-> FALSE] ELSE NoDoc]
  /\ judged = NoModel
  /\ unlucky = 0
  /\ behind = [m \in Models |-> {}]

\* A commit is read from the chain, in order.
Committed(m) ==
  /\ model[m].state = "absent"
  /\ \A n \in Models : n < m => model[n].state # "absent"
  /\ model' = [model EXCEPT ![m].state = "queued"]
  /\ UNCHANGED <<bank, judged, unlucky, behind>>

\* The miner's coldkey is looked up.
KeyLearned(m) ==
  /\ model[m].state = "queued" /\ ~model[m].keyed /\ judged.of # m
  /\ model' = [model EXCEPT ![m].keyed = TRUE]
  /\ UNCHANGED <<bank, judged, unlucky, behind>>

\* claim_next: the first whose coldkey is known, or one whose five minutes are over.
Judge(m) ==
  /\ judged = NoModel
  /\ model[m].state = "queued" /\ ~Blocked(m)
  /\ \A n \in Models : (n < m /\ model[n].state = "queued") => ~model[n].keyed
  /\ \E reason \in Reasons(m) :
       /\ judged' = [of |-> m, reason |-> reason]
       /\ bank' = Indexed(m, reason)
  /\ model' = [model EXCEPT ![m].tries = @ + 1]
  /\ behind' = [behind EXCEPT ![m] = {n \in Models : model[n].state = "accepted"}]
  /\ UNCHANGED unlucky

\* The hotkey's earlier duplicate refuses it unread.
Refuse(m) ==
  /\ judged = NoModel
  /\ model[m].state = "queued" /\ Blocked(m)
  /\ model' = [model EXCEPT ![m].state = "duplicate"]
  /\ UNCHANGED <<bank, judged, unlucky, behind>>

\* Mutant: a model whose document could not be stored is let through.
RetriedMutant(m) == [model[m] EXCEPT !.tries = @ + 1, !.state = "accepted"]

\* mark_retry: infrastructure, up to the last attempt.
Retried(m) == [model[m] EXCEPT !.tries = @ + 1,
                 !.state = IF model[m].tries + 1 >= MaxTries THEN "infra" ELSE "queued"]

\* The bank does not answer, or not in time to say that it stored the document.
BankFails(m) ==
  /\ judged = NoModel
  /\ model[m].state = "queued" /\ ~Blocked(m)
  /\ Unlucky
  /\ model' = [model EXCEPT ![m] = Retried(m)]
  /\ \/ UNCHANGED bank
     \/ \E reason \in Reasons(m) : bank' = Indexed(m, reason)
  /\ behind' = [behind EXCEPT ![m] = {n \in Models : model[n].state = "accepted"}]
  /\ UNCHANGED judged

Conclude ==
  LET m == judged.of IN
  /\ judged # NoModel
  /\ model' = [model EXCEPT ![m].state =
                 IF Faults(m, judged.reason) THEN FaultCode(judged.reason)
                 ELSE IF judged.reason = "PASS" THEN "accepted" ELSE "shadowed"]
  /\ judged' = NoModel
  /\ UNCHANGED <<bank, unlucky, behind>>

\* The worker dies, the sweep puts the submission back.
Dies ==
  /\ judged # NoModel
  /\ Unlucky
  /\ judged' = NoModel
  /\ UNCHANGED <<model, bank, behind>>

DedupNext ==
  \/ \E m \in Models : Committed(m) \/ KeyLearned(m) \/ Judge(m) \/ Refuse(m) \/ BankFails(m)
  \/ Conclude
  \/ Dies
-----------------------------------------------------------------------------
Apart(m, n) == Miner[m].hotkey # Miner[n].hotkey /\ Miner[m].coldkey # Miner[n].coldkey

\* gate.run, enforces: whatever dies or fails between bank and database, a model that was
\* accepted is in the bank, and no later copy of it by another miner is accepted once it was.
AcceptedIsGuarded ==
  /\ \A m \in Models : model[m].state = "accepted" => bank[m].status = "bank"
  /\ \A m \in Models : \A n \in behind[m] :
       (n < m /\ Apart(m, n) /\ SameSketch(n, m)) => model[m].state # "accepted"

-----------------------------------------------------------------------------
(* What the docs say of the program and the code does not keep: see README.     *)

\* docs/MINING.md: "OWN-COPY | identical to a model you already had accepted".
OwnCopyIsOfAnother ==
  \A m \in Models : model[m].state = "duplicate_own" =>
    \E n \in Models \ {m} : Miner[n].coldkey = Miner[m].coldkey /\ bank[n].status = "bank"
=============================================================================
