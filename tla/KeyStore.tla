------------------------------ MODULE KeyStore ------------------------------
(* The key store of the public king API (chat_to_king/agent/db): accounts, keys   *)
(* and what they have spent, behind one connection and one lock, so that a method *)
(* is a step.  A connection that breaks between two statements of a method is      *)
(* replaced inside execute(), and the method goes on in a new transaction: what it *)
(* had written before is gone, what it writes after is committed.                  *)
EXTENDS Integers, FiniteSets, Functions

CONSTANTS Accounts,    \* account rows
          Keys,        \* ids of key rows, in the order of their insertion
          Names,       \* names of keys
          MaxLosses    \* bound: connections that break in the middle of a method

ASSUME KeyStoreAssumption ==
  /\ \A S \in {Accounts, Keys, Names} : IsFiniteSet(S) /\ S # {}
  /\ Keys \subseteq Nat
  /\ MaxLosses \in Nat

VARIABLES
  accounts,   \* "none", "live" or "deleted": one person's, one after the other
  keys,       \* api_keys
  created,    \* issue and rotate events of the day, per account
  losses

storeVars == <<accounts, keys, created, losses>>

NoKey == [st |-> "none", acc |-> CHOOSE a \in Accounts : TRUE, name |-> CHOOSE n \in Names : TRUE, spent |-> 0]

StoreTypeOK ==
  /\ accounts \in [Accounts -> {"none", "live", "deleted"}]
  /\ \A k \in Keys : /\ keys[k].st \in {"none", "live", "revoked"}
                     /\ keys[k].acc \in Accounts /\ keys[k].name \in Names /\ keys[k].spent \in Nat
  /\ created \in [Accounts -> Nat]
  /\ losses \in 0..MaxLosses

StoreInit ==
  /\ accounts = [a \in Accounts |-> "none"]
  /\ keys = [k \in Keys |-> NoKey]
  /\ created = [a \in Accounts |-> 0]
  /\ losses = 0
-----------------------------------------------------------------------------
Lose == losses < MaxLosses /\ losses' = losses + 1

KeysOf(a) == {k \in Keys : keys[k].st # "none" /\ keys[k].acc = a}
LiveKeys(a) == {k \in KeysOf(a) : keys[k].st = "live"}

\* ApiKey.active: neither revoked nor of a disabled account.
Active(k) == keys[k].st = "live" /\ accounts[keys[k].acc] = "live"

\* Mutant: the spending of the keys that are left.
SpentByLive(a) == LiveKeys(a)

\* completion_tokens_since: the keys whose use counts for the account.
Counted(a) == KeysOf(a)

Total(K, S) == FoldFunction(+, 0, [k \in S |-> K[k].spent])
Spent(S)    == Total(keys, S)

\* api_keys_portal_name_ci: one live key of a name per account.
NameTaken(a, n) == \E k \in LiveKeys(a) : keys[k].name = n

AddAccount(a) ==
  /\ accounts[a] = "none"
  /\ accounts' = [accounts EXCEPT ![a] = "live"]
  /\ UNCHANGED <<keys, created, losses>>

\* revoke: one UPDATE, then the event.
Revoke(k) ==
  /\ \/ /\ keys' = [keys EXCEPT ![k].st = IF @ = "live" THEN "revoked" ELSE @]
        /\ UNCHANGED losses
     \/ Lose /\ UNCHANGED keys
  /\ UNCHANGED <<accounts, created>>

\* delete_account: the keys, then the account, then the events.
Revoked(a) == [k \in Keys |-> IF k \in LiveKeys(a) THEN [keys[k] EXCEPT !.st = "revoked"] ELSE keys[k]]
DeleteAccount(a) ==
  /\ \/ /\ keys' = Revoked(a)
        /\ UNCHANGED losses
        /\ accounts' = [accounts EXCEPT ![a] = "deleted"]
     \/ /\ Lose
        /\ UNCHANGED keys
        /\ \/ accounts' = [accounts EXCEPT ![a] = "deleted"]
           \/ UNCHANGED accounts
  /\ UNCHANGED created

\* The id of the next row.
NextKey(k) == keys[k].st = "none" /\ \A j \in Keys : keys[j].st = "none" => k <= j

\* issue: the row, the event, and the row read back once both are committed.
Insert(k, a, n) ==
  /\ keys' = [keys EXCEPT ![k] = [st |-> "live", acc |-> a, name |-> n, spent |-> 0]]
  /\ created' = [created EXCEPT ![a] = @ + 1]
  /\ UNCHANGED <<accounts, losses>>
LoseInsert(a) ==
  /\ Lose
  /\ created' = [created EXCEPT ![a] = @ + 1]
  /\ UNCHANGED <<accounts, keys>>
=============================================================================
