------------------------------ MODULE KingApi ------------------------------
(* The public API of the reigning king (chat_to_king/agent/api): a request shows a *)
(* key, is held against the account's spending and the limiter, is put to the       *)
(* engine directly or by the agent's step, and gives its slot back with the record  *)
(* of what it used.  The portal of the same process changes the keys meanwhile.     *)
EXTENDS Portal

CONSTANTS Clients,
          Quota,       \* daily_completion_tokens, in replies
          Rpm, Parallel,   \* of the tier
          GlobalMax    \* global_parallel, 0 for no limit

ASSUME KingApiAssumption ==
  /\ IsFiniteSet(Clients)
  /\ \A n \in {Quota, Rpm, Parallel} : n \in Nat \ {0}
  /\ GlobalMax \in Nat

VARIABLES
  req,      \* the request of each client
  minute,   \* limiter._windows: admissions of the last minute, per account
  slots,    \* limiter._parallel, per account
  total     \* limiter._global

apiVars == <<req, minute, slots, total>>
vars == <<storeVars, portalVars, apiVars>>

ReqPcs == {"idle", "quota", "acquire", "engine", "upstream"}

NoReq == [pc |-> "idle", key |-> CHOOSE k \in Keys : TRUE, asked |-> 0]

TypeOK ==
  /\ StoreTypeOK /\ PortalTypeOK
  /\ \A c \in Clients : /\ req[c].pc \in ReqPcs /\ req[c].key \in Keys
                        /\ req[c].asked \in 0..1
  /\ minute \in [Accounts -> 0..Rpm]
  /\ slots \in [Accounts -> 0..Parallel]
  /\ total \in Nat /\ (GlobalMax # 0 => total <= GlobalMax)

Init ==
  /\ StoreInit /\ PortalInit
  /\ req = [c \in Clients |-> NoReq]
  /\ minute = [a \in Accounts |-> 0]
  /\ slots = [a \in Accounts |-> 0]
  /\ total = 0
-----------------------------------------------------------------------------
AccountOf(c) == keys[req[c].key].acc

Move(c, pc) == req' = [req EXCEPT ![c].pc = pc]
Answer(c)   == req' = [req EXCEPT ![c] = NoReq]

\* _authorize: a request with a secret that was handed out; its row is looked up in a thread.
Authorize(c) ==
  /\ req[c].pc = "idle"
  /\ \E k \in shown : /\ Active(k)
                      /\ req' = [req EXCEPT ![c] = [NoReq EXCEPT !.pc = "quota", !.key = k]]
  /\ UNCHANGED <<storeVars, portalVars, minute, slots, total>>

\* A body or a prompt that is too large or malformed, and a client's probe, are answered
\* before anything is counted.
TurnedDown(c) ==
  /\ req[c].pc = "quota" /\ Answer(c)
  /\ UNCHANGED <<storeVars, portalVars, minute, slots, total>>

\* completion_tokens_since, in a thread too.
ReadQuota(c) ==
  /\ req[c].pc = "quota"
  /\ IF Spent(Counted(AccountOf(c))) < Quota THEN Move(c, "acquire") ELSE Answer(c)
  /\ UNCHANGED <<storeVars, portalVars, minute, slots, total>>

\* Limiter.acquire: the minute, the account's slots, everybody's.
HasRoom(a) ==
  /\ minute[a] < Rpm /\ slots[a] < Parallel
  /\ GlobalMax # 0 => total < GlobalMax

Acquire(c) ==
  /\ req[c].pc = "acquire"
  /\ IF HasRoom(AccountOf(c))
     THEN /\ Move(c, "engine")
          /\ minute' = [minute EXCEPT ![AccountOf(c)] = @ + 1]
          /\ slots' = [slots EXCEPT ![AccountOf(c)] = @ + 1]
          /\ total' = total + 1
     ELSE Answer(c) /\ UNCHANGED <<minute, slots, total>>
  /\ UNCHANGED <<storeVars, portalVars>>

\* _record: the slot comes back, the usage is written.
Record(c, used) ==
  /\ slots' = [slots EXCEPT ![AccountOf(c)] = IF @ > 0 THEN @ - 1 ELSE 0]
  /\ total' = IF total > 0 THEN total - 1 ELSE 0
  /\ keys' = [keys EXCEPT ![req[c].key].spent = @ + used]
  /\ UNCHANGED <<accounts, created, losses, portalVars, minute>>

\* An exception after the limiter let the request in.
Unrecorded(c) == Answer(c) /\ UNCHANGED <<storeVars, portalVars, minute, slots, total>>

\* The engine's state, at most two seconds old: a notice when it does not serve.
AskEngine(c) ==
  /\ req[c].pc = "engine"
  /\ \/ Record(c, 0) /\ Answer(c)
     \/ Move(c, "upstream") /\ UNCHANGED <<storeVars, portalVars, minute, slots, total>>

\* A request that is passed on: the engine cannot be reached; it answers, or streams to the
\* end or until the client goes, and the tail says what it used; its answer breaks off while
\* it is read, or the client goes before the stream began and its generator never runs.
PassOn(c) ==
  /\ req[c].pc = "upstream" /\ req[c].asked = 0
  /\ \/ \E used \in 0..1 : Record(c, used) /\ Answer(c)
     \/ Unrecorded(c)

\* agent_step: a reply without a command (it used one) is followed by a second exchange; what
\* both used is recorded, also when the second fails.
AgentStep(c) ==
  /\ req[c].pc = "upstream"
  /\ \/ /\ req[c].asked = 0
        /\ req' = [req EXCEPT ![c].asked = 1]
        /\ UNCHANGED <<storeVars, portalVars, minute, slots, total>>
     \/ /\ req[c].asked = 1
        /\ \E used \in 0..1 : Record(c, 1 + used) /\ Answer(c)
     \/ /\ req[c].asked = 1
        /\ Unrecorded(c)

\* An admission is a minute old.
Slide(a) ==
  /\ minute[a] > 0
  /\ minute' = [minute EXCEPT ![a] = @ - 1]
  /\ UNCHANGED <<storeVars, portalVars, req, slots, total>>

ClientStep(c) ==
  \/ Authorize(c) \/ TurnedDown(c) \/ ReadQuota(c) \/ Acquire(c)
  \/ AskEngine(c) \/ PassOn(c) \/ AgentStep(c)
-----------------------------------------------------------------------------
Next ==
  \/ \E b \in Browsers : BrowserStep(b) /\ UNCHANGED apiVars
  \/ \E c \in Clients : ClientStep(c)
  \/ \E a \in Accounts : Slide(a)

Spec == Init /\ [][Next]_vars
-----------------------------------------------------------------------------
(* Properties.                                                                *)

\* "Your tier allows N active keys" (portal.py): the count and the insert are two calls, so
\* requests that run at once may each pass the cap, and nothing else may.
KeyCapHolds == \A a \in Accounts :
  Cardinality({k \in KeysOf(a) : Active(k)}) <= MaxKeys + Cardinality(Browsers) - 1

\* limiter.py: "keyed by account, not by key: rotating or re-issuing a key must not reset
\* the limits": a day's spending passes the quota by no more than what the requests that had
\* read it before could still spend, however many keys were rotated.
QuotaHolds == \A a \in Accounts : Spent(KeysOf(a)) <= Quota - 1 + 2 * Cardinality(Clients)
=============================================================================
