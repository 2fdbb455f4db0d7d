------------------------------- MODULE Portal -------------------------------
(* The self-service portal (chat_to_king/agent/api/portal.py): a person signs in   *)
(* from several browsers and creates, rotates, revokes keys, or deletes the        *)
(* account.  A handler is a coroutine that calls the store in a thread, one call    *)
(* after another: between two of its calls the others run.                         *)
EXTENDS KeyStore

CONSTANTS Browsers, NoAccount,
          MaxKeys,           \* max_keys of the portal's tier
          CreationsPerDay    \* portal_creations_per_day

ASSUME PortalAssumption ==
  /\ IsFiniteSet(Browsers) /\ Browsers # {} /\ NoAccount \notin Accounts
  /\ MaxKeys \in Nat /\ CreationsPerDay \in Nat

VARIABLES
  session,   \* the account of each browser's cookie
  form,      \* the request each browser has under way
  shown      \* keys whose secret was handed out

portalVars == <<session, form, shown>>

Ops == {"signin", "create", "rotate", "revoke", "delete"}
\* The store call the handler makes next.
FormPcs == {"idle", "forgotten", "add", "list", "owned", "allowance", "revoke", "recheck",
            "issue", "delete"}

NoForm == [pc |-> "idle", op |-> "signin", acc |-> NoAccount, key |-> CHOOSE k \in Keys : TRUE,
           name |-> CHOOSE n \in Names : TRUE]

PortalTypeOK ==
  /\ session \in [Browsers -> Accounts \cup {NoAccount}]
  /\ \A b \in Browsers : /\ form[b].pc \in FormPcs /\ form[b].op \in Ops
                         /\ form[b].acc \in Accounts \cup {NoAccount}
                         /\ form[b].key \in Keys /\ form[b].name \in Names
  /\ shown \subseteq Keys

PortalInit ==
  /\ session = [b \in Browsers |-> NoAccount]
  /\ form = [b \in Browsers |-> NoForm]
  /\ shown = {}
-----------------------------------------------------------------------------
Goto(b, pc) == form' = [form EXCEPT ![b].pc = pc]
Done(b)     == form' = [form EXCEPT ![b] = NoForm]

\* /callback, from find_account on.
FindAccount(b) ==
  /\ form[b].pc = "idle" /\ session[b] = NoAccount
  /\ \/ \E a \in Accounts : /\ accounts[a] = "live"
                            /\ session' = [session EXCEPT ![b] = a]
                            /\ UNCHANGED form
     \/ /\ \A a \in Accounts : accounts[a] # "live"
        /\ Goto(b, "forgotten")
        /\ UNCHANGED session
  /\ UNCHANGED <<storeVars, shown>>

\* Refused while the last deletion is within the cooldown.
LastDeleted(b) ==
  /\ form[b].pc = "forgotten"
  /\ \/ Goto(b, "add")
     \/ (\E a \in Accounts : accounts[a] = "deleted") /\ Done(b)
  /\ UNCHANGED <<storeVars, session, shown>>

SignUp(b) ==
  /\ form[b].pc = "add"
  /\ \E a \in Accounts : AddAccount(a) /\ session' = [session EXCEPT ![b] = a]
  /\ Done(b)
  /\ UNCHANGED shown

\* _guard: the session's account, unless it was deleted meanwhile.
Guard(b, op, pc, k, n) ==
  /\ form[b].pc = "idle" /\ session[b] # NoAccount
  /\ IF accounts[session[b]] = "live"
     THEN /\ form' = [form EXCEPT ![b] = [pc |-> pc, op |-> op, acc |-> session[b], key |-> k, name |-> n]]
          /\ UNCHANGED session
     ELSE session' = [session EXCEPT ![b] = NoAccount] /\ UNCHANGED form
  /\ UNCHANGED <<storeVars, shown>>

Request(b) ==
  \/ \E n \in Names : Guard(b, "create", "list", NoForm.key, n)
  \/ \E op \in {"rotate", "revoke"} : \E k \in shown : Guard(b, op, "owned", k, NoForm.name)
  \/ Guard(b, "delete", "delete", NoForm.key, NoForm.name)

\* Mutant: the cap is not looked at.
NoCap(a) == TRUE

\* _create: the active keys of the account against its tier's cap.
BelowCap(a) == Cardinality({k \in KeysOf(a) : Active(k)}) < MaxKeys

ListKeys(b) ==
  /\ form[b].pc = "list"
  /\ IF BelowCap(form[b].acc) THEN Goto(b, "recheck") ELSE Done(b)
  /\ UNCHANGED <<storeVars, session, shown>>

\* _owned_key: the key is the account's and active.
OwnedKey(b) ==
  /\ form[b].pc = "owned"
  /\ IF form[b].key \in KeysOf(form[b].acc) /\ Active(form[b].key)
     THEN form' = [form EXCEPT ![b].pc = IF form[b].op = "rotate" THEN "allowance" ELSE "revoke",
                               ![b].name = keys[form[b].key].name]
     ELSE Done(b)
  /\ UNCHANGED <<storeVars, session, shown>>

\* _limits_json: creations of the day, in _rotate before the old key goes and in _issue.
Allowance(b) ==
  /\ form[b].pc \in {"allowance", "recheck"}
  /\ IF created[form[b].acc] < CreationsPerDay
     THEN Goto(b, IF form[b].pc = "allowance" THEN "revoke" ELSE "issue")
     ELSE Done(b)
  /\ UNCHANGED <<storeVars, session, shown>>

RevokeKey(b) ==
  /\ form[b].pc = "revoke"
  /\ Revoke(form[b].key)
  /\ IF form[b].op = "rotate" THEN Goto(b, "recheck") ELSE Done(b)
  /\ UNCHANGED <<session, shown>>

\* The secret is handed out with the row read back, or not at all.
ReadBack(k) == IF keys'[k].st = "live" THEN {k} ELSE {}

\* issue(): a name that is taken is refused by the index and rolled back.
IssueKey(b) ==
  /\ form[b].pc = "issue"
  /\ \/ /\ NameTaken(form[b].acc, form[b].name)
        /\ UNCHANGED <<storeVars, shown>>
     \/ /\ ~NameTaken(form[b].acc, form[b].name)
        /\ \E k \in Keys :
             /\ NextKey(k)
             /\ Insert(k, form[b].acc, form[b].name) \/ LoseInsert(form[b].acc)
             /\ shown' = shown \cup ReadBack(k)
  /\ Done(b)
  /\ UNCHANGED session

\* /account/delete: the answer takes the cookie of this browser.
DeleteMine(b) ==
  /\ form[b].pc = "delete"
  /\ DeleteAccount(form[b].acc)
  /\ session' = [session EXCEPT ![b] = NoAccount]
  /\ Done(b)
  /\ UNCHANGED shown

Logout(b) ==
  /\ form[b].pc = "idle" /\ session[b] # NoAccount
  /\ session' = [session EXCEPT ![b] = NoAccount]
  /\ UNCHANGED <<storeVars, form, shown>>

BrowserStep(b) ==
  \/ FindAccount(b) \/ LastDeleted(b) \/ SignUp(b)
  \/ Request(b) \/ ListKeys(b) \/ OwnedKey(b) \/ Allowance(b) \/ RevokeKey(b) \/ IssueKey(b)
  \/ DeleteMine(b) \/ Logout(b)
=============================================================================
