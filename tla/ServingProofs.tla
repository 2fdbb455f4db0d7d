---------------------------- MODULE ServingProofs ----------------------------
(****************************************************************************)
(* What the services around a model keep, proved of two specifications:     *)
(* KeyCapHolds and QuotaHolds of KingApi, for any accounts, keys, names,    *)
(* browsers, clients, caps, quotas and lost connections, and ModelsAreWhole *)
(* of ModelHosts, for any models, files, threads, stalls, crashes and       *)
(* cut-off deletions.                                                       *)
(****************************************************************************)
EXTENDS KingApi, ModelHosts, FiniteSetTheorems, WellFoundedInduction, TLAPS

----------------------------------------------------------------------------
(* The king's API.  The count and the insert of a key are two calls; between them *)
(* stands the name the request has claimed.                                        *)

KeyRow  == [st : {"none", "live", "revoked"}, acc : Accounts, name : Names, spent : Nat]
FormRow == [pc : FormPcs, op : Ops, acc : Accounts \cup {NoAccount}, key : Keys, name : Names]

Typed ==
  /\ accounts \in [Accounts -> {"none", "live", "deleted"}]
  /\ keys \in [Keys -> KeyRow]
  /\ session \in [Browsers -> Accounts \cup {NoAccount}]
  /\ form \in [Browsers -> FormRow]
  /\ shown \subseteq Keys

\* A form past the idle ones is an account's.
Asks(row) == row.pc \notin {"idle", "forgotten", "add"} => row.acc \in Accounts

\* Keys, cookies and forms are of accounts that signed up.
Known ==
  /\ \A k \in Keys : keys[k].st # "none" => accounts[keys[k].acc] # "none"
  /\ \A b \in Browsers : /\ session[b] \in Accounts => accounts[session[b]] # "none"
                         /\ form[b].acc \in Accounts => accounts[form[b].acc] # "none"
                         /\ Asks(form[b])

\* The index on (account, name) of the live keys.
NamesDiffer ==
  \A j, k \in Keys :
    (/\ keys[j].st = "live" /\ keys[k].st = "live"
     /\ keys[j].acc = keys[k].acc /\ keys[j].name = keys[k].name) => j = k

\* A creation past its look at the cap, a rotation past its look at the old key.
Past(row, a) == /\ row.acc = a
                /\ \/ row.pc \in {"allowance", "recheck", "issue"}
                   \/ row.pc = "revoke" /\ row.op = "rotate"

FormNames(a) == {form[b].name : b \in {x \in Browsers : Past(form[x], a)}}
KeyNames(a)  == {keys[k].name : k \in LiveKeys(a)}

\* The names of its live keys, and those that requests under way may still give one.
Claimed(a) == FormNames(a) \cup KeyNames(a)

NamesInBounds ==
  \A a \in Accounts : accounts[a] = "live" =>
    Cardinality(Claimed(a)) <= MaxKeys + Cardinality(Browsers) - 1

IInv == Typed /\ Known /\ NamesDiffer /\ NamesInBounds

----------------------------------------------------------------------------
(* Counting keys and names. *)

LEMMA FiniteNames ==
  ASSUME Typed, NEW a \in Accounts
  PROVE  /\ IsFiniteSet(Claimed(a)) /\ Cardinality(Claimed(a)) \in Nat
         /\ IsFiniteSet(FormNames(a)) /\ IsFiniteSet(KeyNames(a))
         /\ IsFiniteSet(LiveKeys(a)) /\ Cardinality(LiveKeys(a)) \in Nat
  <1>1. FormNames(a) \subseteq Names /\ KeyNames(a) \subseteq Names /\ LiveKeys(a) \subseteq Keys
    BY DEF Typed, FormNames, KeyNames, LiveKeys, KeysOf, FormRow, KeyRow
  <1>2. IsFiniteSet(Names) /\ IsFiniteSet(Keys)
    BY KeyStoreAssumption
  <1>3. IsFiniteSet(FormNames(a)) /\ IsFiniteSet(KeyNames(a)) /\ IsFiniteSet(LiveKeys(a))
    BY <1>1, <1>2, FS_Subset
  <1>4. IsFiniteSet(Claimed(a))
    BY <1>1, <1>2, FS_Subset DEF Claimed
  <1>5. QED
    BY <1>3, <1>4, FS_CardinalityType

\* Its live keys are as many as their names, so no more than the names claimed.
LEMMA KeysWithinNames ==
  ASSUME Typed, NamesDiffer, NEW a \in Accounts
  PROVE  Cardinality(LiveKeys(a)) <= Cardinality(Claimed(a))
  <1> DEFINE S == LiveKeys(a)
             f == [k \in S |-> keys[k].name]
  <1>1. f \in [S -> Claimed(a)]
    BY DEF Claimed, KeyNames
  <1>2. \A j, k \in S : f[j] = f[k] => j = k
    BY DEF NamesDiffer, LiveKeys, KeysOf
  <1>3. f \in Injection(S, Claimed(a))
    BY <1>1, <1>2 DEF Injection, IsInjective
  <1>4. QED
    BY <1>3, FiniteNames, FS_Injection

\* Each live key has one name, and each browser but this one claims at most one.
LEMMA NamesWithinKeys ==
  ASSUME Typed, NEW a \in Accounts, NEW b \in Browsers, ~Past(form[b], a)
  PROVE  Cardinality(Claimed(a)) <= Cardinality(LiveKeys(a)) + Cardinality(Browsers) - 1
  <1> DEFINE P == {x \in Browsers : Past(form[x], a)}
             S == LiveKeys(a)
             f == [x \in P |-> form[x].name]
             g == [k \in S |-> keys[k].name]
  <1>1. f \in Surjection(P, FormNames(a)) /\ g \in Surjection(S, KeyNames(a))
    BY DEF Surjection, FormNames, KeyNames
  <1>2. /\ IsFiniteSet(P) /\ Cardinality(P) <= Cardinality(Browsers) - 1
        /\ Cardinality(P) \in Nat /\ Cardinality(Browsers) \in Nat
    <2>1. IsFiniteSet(Browsers) /\ P \subseteq Browsers \ {b}
      BY PortalAssumption
    <2>2. IsFiniteSet(Browsers \ {b}) /\ Cardinality(Browsers \ {b}) = Cardinality(Browsers) - 1
      BY <2>1, FS_RemoveElement
    <2> HIDE DEF P
    <2>3. QED
      BY <2>1, <2>2, FS_Subset, FS_CardinalityType
  <1> HIDE DEF P, S, f, g
  <1>3. Cardinality(FormNames(a)) <= Cardinality(P)
    BY <1>1, <1>2, FS_Surjection
  <1>4. Cardinality(KeyNames(a)) <= Cardinality(S)
    BY <1>1, FiniteNames, FS_Surjection DEF S
  <1>5. /\ Cardinality(Claimed(a))
             = Cardinality(FormNames(a)) + Cardinality(KeyNames(a))
               - Cardinality(FormNames(a) \cap KeyNames(a))
    BY FiniteNames, FS_Union DEF Claimed
  <1>6. /\ Cardinality(FormNames(a) \cap KeyNames(a)) \in Nat
        /\ Cardinality(FormNames(a)) \in Nat /\ Cardinality(KeyNames(a)) \in Nat
    <2>1. IsFiniteSet(FormNames(a) \cap KeyNames(a))
      BY FiniteNames, FS_Intersection
    <2>2. QED
      BY <2>1, FiniteNames, FS_CardinalityType
  <1>7. QED
    BY <1>2, <1>3, <1>4, <1>5, <1>6, FiniteNames DEF S

LEMMA ClaimsItsName ==
  ASSUME NEW a, NEW b \in Browsers, Past(form[b], a)
  PROVE  form[b].name \in Claimed(a)
  BY DEF Claimed, FormNames

LEMMA InitIInv == Init => IInv
  <1> SUFFICES ASSUME Init PROVE IInv
    OBVIOUS
  <1>1. NoKey \in KeyRow /\ NoKey.st = "none"
    BY KeyStoreAssumption DEF NoKey, KeyRow
  <1>2. NoForm \in FormRow /\ NoForm.pc = "idle" /\ NoForm.acc = NoAccount
    BY KeyStoreAssumption DEF NoForm, FormRow, FormPcs, Ops
  <1> USE PortalAssumption
  <1>3. Typed
    BY <1>1, <1>2 DEF Init, StoreInit, PortalInit, Typed
  <1>4. Known
    BY <1>1, <1>2 DEF Init, StoreInit, PortalInit, Known, Asks
  <1>5. NamesDiffer /\ NamesInBounds
    BY <1>1 DEF Init, StoreInit, NamesDiffer, NamesInBounds
  <1>6. QED
    BY <1>3, <1>4, <1>5 DEF IInv

----------------------------------------------------------------------------
(* A step: one form moves on, and the store may change. *)

LEMMA Moves ==
  ASSUME IInv, NEW b \in Browsers, NEW row \in FormRow, form' = [form EXCEPT ![b] = row],
         Asks(row), row.acc \in Accounts => accounts[row.acc] # "none",
         accounts' \in [Accounts -> {"none", "live", "deleted"}],
         \A a \in Accounts : /\ accounts[a] # "none" => accounts'[a] # "none"
                             /\ accounts'[a] = "live" => accounts[a] \in {"none", "live"},
         keys' \in [Keys -> KeyRow], NamesDiffer',
         \A k \in Keys : keys'[k].st # "none" => accounts[keys'[k].acc] # "none",
         \A k \in Keys : keys'[k].st = "live" => keys'[k].name \in Claimed(keys'[k].acc),
         session' \in [Browsers -> Accounts \cup {NoAccount}],
         \A x \in Browsers : session'[x] \in Accounts => accounts'[session'[x]] # "none",
         shown' \subseteq Keys,
         \A a \in Accounts : accounts'[a] = "live" /\ Past(row, a) =>
           row.name \in Claimed(a) \/ (~Past(form[b], a) /\ Cardinality(LiveKeys(a)) < MaxKeys)
  PROVE  IInv'
  <1>1. /\ form' \in [Browsers -> FormRow] /\ form'[b] = row
        /\ \A x \in Browsers \ {b} : form'[x] = form[x]
    BY DEF IInv, Typed
  <1>2. Typed'
    BY <1>1 DEF Typed
  <1>3. \A x \in Browsers : /\ form'[x].acc \in Accounts => accounts[form'[x].acc] # "none"
                            /\ Asks(form'[x])
    BY <1>1 DEF IInv, Known
  <1>4. Known'
    <2>1. \A k \in Keys : keys'[k].st # "none" => accounts'[keys'[k].acc] # "none"
      BY <1>2 DEF Typed, KeyRow
    <2>2. \A x \in Browsers : form'[x].acc \in Accounts => accounts'[form'[x].acc] # "none"
      BY <1>3
    <2>3. QED
      BY <1>3, <2>1, <2>2 DEF Known, Asks
  <1>5. ASSUME NEW a \in Accounts, accounts'[a] = "live"
        PROVE  Cardinality(Claimed(a)') <= MaxKeys + Cardinality(Browsers) - 1
    <2>1. KeyNames(a)' \subseteq Claimed(a)
      BY DEF KeyNames, LiveKeys, KeysOf
    <2>2. FormNames(a)' \subseteq Claimed(a) \cup (IF Past(row, a) THEN {row.name} ELSE {})
      <3>1. ASSUME NEW x \in Browsers, Past(form'[x], a)
            PROVE  form'[x].name \in Claimed(a) \cup (IF Past(row, a) THEN {row.name} ELSE {})
        BY <1>1, <3>1, ClaimsItsName
      <3>2. QED
        BY <3>1 DEF FormNames, Past
    <2>3. Cardinality(Browsers) \in Nat /\ Cardinality(Browsers) >= 1 /\ MaxKeys \in Nat
      BY PortalAssumption, FS_CardinalityType, FS_EmptySet
    <2>4. /\ IsFiniteSet(Claimed(a)) /\ Cardinality(Claimed(a)) \in Nat
          /\ Cardinality(LiveKeys(a)) \in Nat
      BY FiniteNames DEF IInv
    <2>5. CASE accounts[a] = "none"
      <3>1. \A k \in Keys : keys'[k].acc = a => keys'[k].st = "none"
        BY <2>5
      <3>2. \A x \in Browsers : form'[x].acc # a
        BY <1>3, <2>5
      <3>3. Claimed(a)' = {}
        BY <3>1, <3>2 DEF Claimed, KeyNames, LiveKeys, KeysOf, FormNames, Past
      <3>4. QED
        BY <2>3, <3>3, FS_EmptySet
    <2>6. CASE accounts[a] = "live" /\ (Past(row, a) => row.name \in Claimed(a))
      <3>1. Claimed(a)' \subseteq Claimed(a)
        BY <2>1, <2>2, <2>6 DEF Claimed
      <3>2. PICK new \in SUBSET Claimed(a) : new = Claimed(a)'
        BY <3>1
      <3>3. Cardinality(new) <= Cardinality(Claimed(a)) /\ Cardinality(new) \in Nat
        BY <2>4, FS_Subset, FS_CardinalityType
      <3>4. Cardinality(Claimed(a)) <= MaxKeys + Cardinality(Browsers) - 1
        BY <2>6 DEF IInv, NamesInBounds
      <3>5. QED
        BY <2>3, <2>4, <3>2, <3>3, <3>4
    <2>7. CASE Past(row, a) /\ ~Past(form[b], a) /\ Cardinality(LiveKeys(a)) < MaxKeys
      <3> DEFINE all == Claimed(a) \cup {row.name}
      <3>1. IsFiniteSet(all) /\ Cardinality(all) <= Cardinality(Claimed(a)) + 1
        <4>1. PICK C : C = Claimed(a)
          OBVIOUS
        <4>2. PICK n : n = row.name
          OBVIOUS
        <4>3. /\ IsFiniteSet(C \cup {n})
              /\ Cardinality(C \cup {n}) = IF n \in C THEN Cardinality(C) ELSE Cardinality(C) + 1
          BY <2>4, <4>1, FS_AddElement
        <4>4. QED
          BY <2>4, <4>1, <4>2, <4>3
      <3>2. Claimed(a)' \subseteq all
        BY <2>1, <2>2, <2>7 DEF Claimed
      <3> HIDE DEF all
      <3>3. PICK new \in SUBSET all : new = Claimed(a)'
        BY <3>2
      <3>4. Cardinality(new) <= Cardinality(all) /\ Cardinality(new) \in Nat /\ Cardinality(all) \in Nat
        BY <3>1, FS_Subset, FS_CardinalityType
      <3>5. Cardinality(Claimed(a)) <= Cardinality(LiveKeys(a)) + Cardinality(Browsers) - 1
        BY <2>7, NamesWithinKeys DEF IInv
      <3>6. QED
        BY <2>3, <2>4, <2>7, <3>1, <3>3, <3>4, <3>5
    <2>8. QED
      BY <1>5, <2>5, <2>6, <2>7
  <1>6. QED
    BY <1>2, <1>4, <1>5 DEF IInv, NamesInBounds

\* A step that leaves accounts and keys alone.
LEMMA FormMoves ==
  ASSUME IInv, NEW b \in Browsers, NEW row \in FormRow, form' = [form EXCEPT ![b] = row],
         Asks(row), row.acc \in Accounts => accounts[row.acc] # "none",
         UNCHANGED <<accounts, keys>>,
         session' \in [Browsers -> Accounts \cup {NoAccount}],
         \A x \in Browsers : session'[x] \in Accounts => accounts[session'[x]] # "none",
         shown' \subseteq Keys,
         \A a \in Accounts : accounts[a] = "live" /\ Past(row, a) =>
           row.name \in Claimed(a) \/ (~Past(form[b], a) /\ Cardinality(LiveKeys(a)) < MaxKeys)
  PROVE  IInv'
  <1>1. /\ accounts' \in [Accounts -> {"none", "live", "deleted"}]
        /\ \A a \in Accounts : /\ accounts[a] # "none" => accounts'[a] # "none"
                               /\ accounts'[a] = "live" => accounts[a] \in {"none", "live"}
    BY DEF IInv, Typed
  <1>2. /\ keys' \in [Keys -> KeyRow] /\ NamesDiffer'
        /\ \A k \in Keys : keys'[k].st # "none" => accounts[keys'[k].acc] # "none"
    BY DEF IInv, Typed, Known, NamesDiffer
  <1>3. \A k \in Keys : keys'[k].st = "live" => keys'[k].name \in Claimed(keys'[k].acc)
    BY DEF Claimed, KeyNames, LiveKeys, KeysOf
  <1>4. QED
    BY <1>1, <1>2, <1>3, Moves

\* A form that is over, and one that goes on as it is.
LEMMA OverRow ==
  /\ NoForm \in FormRow /\ Asks(NoForm) /\ NoForm.acc \notin Accounts
  /\ \A a \in Accounts : ~Past(NoForm, a)
  BY KeyStoreAssumption, PortalAssumption DEF NoForm, FormRow, FormPcs, Ops, Asks, Past

LEMMA RowOf ==
  ASSUME IInv, NEW b \in Browsers
  PROVE  /\ form[b] \in FormRow /\ Asks(form[b]) /\ form = [form EXCEPT ![b] = form[b]]
         /\ form[b].acc \in Accounts => accounts[form[b].acc] # "none"
         /\ \A a \in Accounts : Past(form[b], a) => form[b].name \in Claimed(a)
         /\ session \in [Browsers -> Accounts \cup {NoAccount}]
         /\ \A x \in Browsers : session[x] \in Accounts => accounts[session[x]] # "none"
         /\ shown \subseteq Keys
  BY ClaimsItsName DEF IInv, Typed, Known

LEMMA GotoRow ==
  ASSUME IInv, NEW b \in Browsers, NEW pc \in FormPcs
  PROVE  LET row == [form[b] EXCEPT !.pc = pc]
         IN  /\ row \in FormRow /\ row.pc = pc /\ row.op = form[b].op /\ row.acc = form[b].acc
             /\ row.key = form[b].key /\ row.name = form[b].name
             /\ Goto(b, pc) => form' = [form EXCEPT ![b] = row]
  <1>1. form[b] \in FormRow
    BY RowOf
  <1>2. Goto(b, pc) => form' = [form EXCEPT ![b] = [form[b] EXCEPT !.pc = pc]]
    BY DEF Goto, IInv, Typed
  <1>3. QED
    BY <1>1, <1>2 DEF FormRow

\* A handler calls the store next, or is done.
LEMMA GotoInv ==
  ASSUME IInv, NEW b \in Browsers, NEW pc \in FormPcs, Goto(b, pc),
         pc \notin {"idle", "forgotten", "add"} => form[b].acc \in Accounts,
         UNCHANGED <<storeVars, session, shown>>,
         \A a \in Accounts : Past([form[b] EXCEPT !.pc = pc], a) =>
           \/ Past(form[b], a)
           \/ accounts[a] = "live" => Cardinality(LiveKeys(a)) < MaxKeys
  PROVE  IInv'
  <1>1. PICK row : row = [form[b] EXCEPT !.pc = pc]
    OBVIOUS
  <1>2. /\ row \in FormRow /\ row.pc = pc /\ row.acc = form[b].acc /\ row.name = form[b].name
        /\ form' = [form EXCEPT ![b] = row]
    BY <1>1, GotoRow
  <1>3. Asks(row) /\ (row.acc \in Accounts => accounts[row.acc] # "none")
    BY <1>2, RowOf DEF Asks
  <1>4. \A a \in Accounts : accounts[a] = "live" /\ Past(row, a) =>
          row.name \in Claimed(a) \/ (~Past(form[b], a) /\ Cardinality(LiveKeys(a)) < MaxKeys)
    BY <1>1, <1>2, RowOf
  <1>5. /\ UNCHANGED <<accounts, keys>> /\ session' \in [Browsers -> Accounts \cup {NoAccount}]
        /\ \A x \in Browsers : session'[x] \in Accounts => accounts[session'[x]] # "none"
        /\ shown' \subseteq Keys
    BY RowOf DEF storeVars
  <1>6. QED
    BY <1>2, <1>3, <1>4, <1>5, FormMoves

LEMMA DoneInv ==
  ASSUME IInv, NEW b \in Browsers, Done(b), UNCHANGED <<storeVars, session, shown>>
  PROVE  IInv'
  <1>1. PICK row : row = NoForm
    OBVIOUS
  <1>2. /\ row \in FormRow /\ Asks(row) /\ row.acc \notin Accounts /\ \A a \in Accounts : ~Past(row, a)
        /\ form' = [form EXCEPT ![b] = row]
    BY <1>1, OverRow DEF Done
  <1>3. /\ UNCHANGED <<accounts, keys>> /\ session' \in [Browsers -> Accounts \cup {NoAccount}]
        /\ \A x \in Browsers : session'[x] \in Accounts => accounts[session'[x]] # "none"
        /\ shown' \subseteq Keys
    BY RowOf DEF storeVars
  <1>4. QED
    BY <1>2, <1>3, FormMoves

\* A cookie is set to an account that is there, or taken.
LEMMA CookieInv ==
  ASSUME IInv, NEW b \in Browsers, NEW a \in Accounts \cup {NoAccount},
         session' = [session EXCEPT ![b] = a], a \in Accounts => accounts[a] # "none",
         UNCHANGED <<storeVars, form, shown>>
  PROVE  IInv'
  <1>1. PICK row : row = form[b]
    OBVIOUS
  <1>2. /\ row \in FormRow /\ Asks(row) /\ form' = [form EXCEPT ![b] = row]
        /\ row.acc \in Accounts => accounts[row.acc] # "none"
        /\ \A x \in Accounts : Past(row, x) => row.name \in Claimed(x)
    BY <1>1, RowOf
  <1>3. /\ UNCHANGED <<accounts, keys>> /\ session' \in [Browsers -> Accounts \cup {NoAccount}]
        /\ \A x \in Browsers : session'[x] \in Accounts => accounts[session'[x]] # "none"
        /\ shown' \subseteq Keys
    BY RowOf DEF storeVars
  <1>4. QED
    BY <1>2, <1>3, FormMoves

----------------------------------------------------------------------------
(* The portal's steps. *)

LEMMA FindAccountInv == ASSUME IInv, NEW b \in Browsers, FindAccount(b) PROVE IInv'
  <1>1. CASE \E a \in Accounts : /\ accounts[a] = "live"
                                 /\ session' = [session EXCEPT ![b] = a]
                                 /\ UNCHANGED form
    BY <1>1, CookieInv DEF FindAccount
  <1>2. CASE Goto(b, "forgotten") /\ UNCHANGED session
    <2>1. "forgotten" \in FormPcs /\ \A a : ~Past([form[b] EXCEPT !.pc = "forgotten"], a)
      BY RowOf DEF FormPcs, Past, FormRow
    <2>2. QED
      BY <1>2, <2>1, GotoInv DEF FindAccount
  <1>3. QED
    BY <1>1, <1>2 DEF FindAccount

LEMMA LastDeletedInv == ASSUME IInv, NEW b \in Browsers, LastDeleted(b) PROVE IInv'
  <1>1. "add" \in FormPcs /\ \A a : ~Past([form[b] EXCEPT !.pc = "add"], a)
    BY RowOf DEF FormPcs, Past, FormRow
  <1>2. QED
    BY <1>1, GotoInv, DoneInv DEF LastDeleted

\* A name is claimed once the account was seen below its cap.
LEMMA ListKeysInv == ASSUME IInv, NEW b \in Browsers, ListKeys(b) PROVE IInv'
  <1>1. CASE BelowCap(form[b].acc) /\ Goto(b, "recheck")
    <2>1. "recheck" \in FormPcs /\ form[b].acc \in Accounts
      BY RowOf DEF FormPcs, ListKeys, Asks
    <2>2. ASSUME NEW a \in Accounts, Past([form[b] EXCEPT !.pc = "recheck"], a), accounts[a] = "live"
          PROVE  Cardinality(LiveKeys(a)) < MaxKeys
      <3>1. a = form[b].acc
        BY <2>2, RowOf DEF Past, FormRow
      <3>2. {k \in KeysOf(a) : Active(k)} = LiveKeys(a)
        BY <2>2 DEF KeysOf, Active, LiveKeys
      <3>3. QED
        BY <1>1, <3>1, <3>2 DEF BelowCap
    <2>3. UNCHANGED <<storeVars, session, shown>>
      BY DEF ListKeys
    <2>4. QED
      BY <1>1, <2>1, <2>2, <2>3, GotoInv
  <1>2. CASE Done(b)
    BY <1>2, DoneInv DEF ListKeys
  <1>3. QED
    BY <1>1, <1>2 DEF ListKeys

\* A rotation claims the name of a key that is live.
LEMMA OwnedKeyInv == ASSUME IInv, NEW b \in Browsers, OwnedKey(b) PROVE IInv'
  <1> DEFINE pc == IF form[b].op = "rotate" THEN "allowance" ELSE "revoke"
             name == keys[form[b].key].name
  <1>1. CASE /\ form[b].key \in KeysOf(form[b].acc) /\ Active(form[b].key)
             /\ form' = [form EXCEPT ![b].pc = pc, ![b].name = name]
    <2>1. PICK old \in FormRow : old = form[b]
      BY RowOf
    <2>2. PICK f \in [Browsers -> FormRow] : f = form
      BY DEF IInv, Typed
    <2>3. PICK n \in Names : n = name
      <3>1. keys \in [Keys -> KeyRow] /\ form[b].key \in Keys
        BY <1>1 DEF IInv, Typed, KeysOf
      <3>2. QED
        BY <3>1 DEF KeyRow
    <2>4. PICK q \in {"allowance", "revoke"} : q = pc
      OBVIOUS
    <2> DEFINE one == [old EXCEPT !.pc = q]
               row == [one EXCEPT !.name = n]
    <2>5. /\ row \in FormRow /\ row.pc = q /\ row.op = old.op /\ row.acc = old.acc /\ row.name = n
      BY DEF FormRow, FormPcs
    <2>6. form' = [f EXCEPT ![b].pc = q, ![b].name = n]
      BY <1>1, <2>2, <2>3, <2>4
    <2>7. form' = [f EXCEPT ![b] = row]
      <3> DEFINE g == [f EXCEPT ![b].pc = q]
      <3>1. form' = [g EXCEPT ![b].name = n]
        BY <2>6
      <3>2. g = [f EXCEPT ![b] = one]
        BY <2>1, <2>2
      <3> HIDE DEF g, one
      <3>3. g[b] = one
        BY <2>2, <3>2
      <3>4. QED
        BY <2>2, <3>1, <3>2, <3>3
    <2> HIDE DEF row, one
    <2>8. form[b].acc \in Accounts /\ Asks(row) /\ accounts[row.acc] # "none"
      BY <2>1, <2>5, RowOf DEF OwnedKey, Asks
    <2>9. ASSUME NEW a \in Accounts, Past(row, a) PROVE row.name \in Claimed(a)
      <3>1. a = form[b].acc
        BY <2>1, <2>5, <2>9 DEF Past
      <3>2. form[b].key \in LiveKeys(a)
        BY <1>1, <3>1 DEF LiveKeys, Active
      <3>3. QED
        BY <2>3, <2>5, <3>2 DEF Claimed, KeyNames
    <2>10. /\ UNCHANGED <<accounts, keys>> /\ session' \in [Browsers -> Accounts \cup {NoAccount}]
           /\ \A x \in Browsers : session'[x] \in Accounts => accounts[session'[x]] # "none"
           /\ shown' \subseteq Keys
      BY RowOf DEF storeVars, OwnedKey
    <2>11. PICK new \in FormRow : new = row
      BY <2>5
    <2>12. QED
      BY <2>2, <2>7, <2>8, <2>9, <2>10, <2>11, FormMoves
  <1>2. CASE Done(b)
    BY <1>2, DoneInv DEF OwnedKey
  <1>3. QED
    BY <1>1, <1>2 DEF OwnedKey

LEMMA AllowanceInv == ASSUME IInv, NEW b \in Browsers, Allowance(b) PROVE IInv'
  <1>1. CASE Goto(b, IF form[b].pc = "allowance" THEN "revoke" ELSE "issue")
    <2>1. PICK pc \in {"revoke", "issue"} : Goto(b, pc)
      BY <1>1
    <2>2. form[b].acc \in Accounts /\ pc \in FormPcs
      BY RowOf DEF Allowance, Asks, FormPcs
    <2>3. \A a \in Accounts : Past([form[b] EXCEPT !.pc = pc], a) => Past(form[b], a)
      BY RowOf DEF Allowance, Past, FormRow
    <2>4. UNCHANGED <<storeVars, session, shown>>
      BY DEF Allowance
    <2>5. QED
      BY <2>1, <2>2, <2>3, <2>4, GotoInv
  <1>2. CASE Done(b)
    BY <1>2, DoneInv DEF Allowance
  <1>3. QED
    BY <1>1, <1>2 DEF Allowance

LEMMA GuardInv ==
  ASSUME IInv, NEW b \in Browsers, NEW op \in Ops, NEW pc \in {"list", "owned", "delete"},
         NEW k \in Keys, NEW n \in Names, Guard(b, op, pc, k, n)
  PROVE  IInv'
  <1>1. CASE /\ accounts[session[b]] = "live" /\ UNCHANGED session
             /\ form' = [form EXCEPT ![b] = [pc |-> pc, op |-> op, acc |-> session[b], key |-> k, name |-> n]]
    <2>1. session[b] \in Accounts
      BY RowOf DEF Guard
    <2>2. PICK row : row = [pc |-> pc, op |-> op, acc |-> session[b], key |-> k, name |-> n]
      OBVIOUS
    <2>3. /\ row \in FormRow /\ Asks(row) /\ row.acc = session[b]
          /\ \A a \in Accounts : ~Past(row, a)
      BY <2>1, <2>2 DEF FormRow, FormPcs, Asks, Past
    <2>4. /\ UNCHANGED <<accounts, keys>> /\ session' \in [Browsers -> Accounts \cup {NoAccount}]
          /\ \A x \in Browsers : session'[x] \in Accounts => accounts[session'[x]] # "none"
          /\ shown' \subseteq Keys
      BY <1>1, RowOf DEF storeVars, Guard
    <2>5. form' = [form EXCEPT ![b] = row] /\ accounts[row.acc] # "none"
      BY <1>1, <2>2, <2>3
    <2>6. QED
      BY <2>3, <2>4, <2>5, FormMoves
  <1>2. CASE session' = [session EXCEPT ![b] = NoAccount] /\ UNCHANGED form
    BY <1>2, PortalAssumption, CookieInv DEF Guard
  <1>3. QED
    BY <1>1, <1>2 DEF Guard

LEMMA RequestInv == ASSUME IInv, NEW b \in Browsers, Request(b) PROVE IInv'
  <1>1. NoForm.key \in Keys /\ NoForm.name \in Names /\ shown \subseteq Keys
    BY OverRow, RowOf DEF FormRow
  <1>2. {"create", "rotate", "revoke", "delete"} \subseteq Ops
    BY DEF Ops
  <1>3. QED
    BY <1>1, <1>2, GuardInv DEF Request

\* Keys that are revoked or spent from, and none that is added.
NoKeyAdded ==
  /\ keys' \in [Keys -> KeyRow]
  /\ \A k \in Keys : /\ keys'[k].acc = keys[k].acc /\ keys'[k].name = keys[k].name
                     /\ keys'[k].st # keys[k].st => keys[k].st = "live" /\ keys'[k].st = "revoked"

\* Accounts that are deleted, and none that signs up.
NoneSignsUp ==
  /\ accounts' \in [Accounts -> {"none", "live", "deleted"}]
  /\ \A a \in Accounts : accounts'[a] # accounts[a] => accounts[a] = "live" /\ accounts'[a] = "deleted"
  /\ session' \in [Browsers -> Accounts \cup {NoAccount}]
  /\ \A x \in Browsers : session'[x] \in Accounts => session'[x] = session[x]

LEMMA FewerKeys ==
  ASSUME IInv, NoKeyAdded
  PROVE  /\ NamesDiffer'
         /\ \A k \in Keys : keys'[k].st # "none" => accounts[keys'[k].acc] # "none"
         /\ \A k \in Keys : keys'[k].st = "live" => keys'[k].name \in Claimed(keys'[k].acc)
  <1>1. \A k \in Keys : keys'[k].st = "live" => keys[k].st = "live"
    BY DEF NoKeyAdded
  <1>2. NamesDiffer'
    BY <1>1 DEF IInv, NamesDiffer, NoKeyAdded
  <1>3. \A k \in Keys : keys[k].st = "live" => keys[k].name \in Claimed(keys[k].acc)
    BY DEF Claimed, KeyNames, LiveKeys, KeysOf
  <1>4. QED
    BY <1>1, <1>2, <1>3 DEF IInv, Known, NoKeyAdded

\* A handler that changed the store is done, or goes on to its creation.
LEMMA StoreMoves ==
  ASSUME IInv, NEW b \in Browsers, NEW row \in FormRow, form' = [form EXCEPT ![b] = row],
         Asks(row), row.acc \in Accounts => accounts[row.acc] # "none",
         \A a \in Accounts : Past(row, a) => row.name \in Claimed(a),
         NoneSignsUp, NoKeyAdded, UNCHANGED shown
  PROVE  IInv'
  <1>1. /\ NamesDiffer'
        /\ \A k \in Keys : keys'[k].st # "none" => accounts[keys'[k].acc] # "none"
        /\ \A k \in Keys : keys'[k].st = "live" => keys'[k].name \in Claimed(keys'[k].acc)
    BY FewerKeys
  <1>2. /\ accounts' \in [Accounts -> {"none", "live", "deleted"}]
        /\ \A a \in Accounts : /\ accounts[a] # "none" => accounts'[a] # "none"
                               /\ accounts'[a] = "live" => accounts[a] \in {"none", "live"}
    BY DEF NoneSignsUp
  <1>3. /\ session' \in [Browsers -> Accounts \cup {NoAccount}] /\ keys' \in [Keys -> KeyRow]
        /\ \A x \in Browsers : session'[x] \in Accounts => session'[x] = session[x]
    BY DEF NoneSignsUp, NoKeyAdded
  <1>4. \A x \in Browsers : session'[x] \in Accounts => accounts'[session'[x]] # "none"
    BY <1>2, <1>3, RowOf
  <1>5. shown' \subseteq Keys
    BY RowOf
  <1>6. \A a \in Accounts : accounts'[a] = "live" /\ Past(row, a) =>
           row.name \in Claimed(a) \/ (~Past(form[b], a) /\ Cardinality(LiveKeys(a)) < MaxKeys)
    OBVIOUS
  <1>7. QED
    BY <1>1, <1>2, <1>3, <1>4, <1>5, <1>6, Moves

LEMMA RevokeKeyInv == ASSUME IInv, NEW b \in Browsers, RevokeKey(b) PROVE IInv'
  <1>1. /\ form[b] \in FormRow /\ form[b].acc \in Accounts /\ form[b].key \in Keys
    BY RowOf DEF RevokeKey, Asks, FormRow
  <1>2. PICK row \in FormRow :
          /\ form' = [form EXCEPT ![b] = row] /\ Asks(row)
          /\ row.acc \in Accounts => accounts[row.acc] # "none"
          /\ \A a \in Accounts : Past(row, a) => row.name \in Claimed(a)
    <2>1. CASE form[b].op = "rotate" /\ Goto(b, "recheck")
      <3>1. PICK row : row = [form[b] EXCEPT !.pc = "recheck"]
        OBVIOUS
      <3>2. "recheck" \in FormPcs
        BY DEF FormPcs
      <3>3. /\ row \in FormRow /\ row.pc = "recheck" /\ row.acc = form[b].acc /\ row.name = form[b].name
            /\ form' = [form EXCEPT ![b] = row]
        BY <2>1, <3>1, <3>2, GotoRow
      <3>4. \A a \in Accounts : Past(row, a) => Past(form[b], a)
        BY <2>1, <3>3 DEF Past, RevokeKey
      <3>5. QED
        BY <1>1, <3>3, <3>4, RowOf DEF Asks
    <2>2. CASE Done(b)
      BY <2>2, OverRow DEF Done
    <2>3. QED
      BY <2>1, <2>2 DEF RevokeKey
  <1>3. /\ keys' \in [Keys -> KeyRow]
        /\ \A k \in Keys : /\ keys'[k].acc = keys[k].acc /\ keys'[k].name = keys[k].name
                           /\ keys'[k].st # keys[k].st => keys[k].st = "live" /\ keys'[k].st = "revoked"
    <2>1. keys \in [Keys -> KeyRow]
      BY DEF IInv, Typed
    <2>2. CASE keys' = [keys EXCEPT ![form[b].key].st = IF @ = "live" THEN "revoked" ELSE @]
      BY <1>1, <2>1, <2>2 DEF KeyRow
    <2>3. QED
      BY <2>1, <2>2 DEF RevokeKey, Revoke
  <1>4. NoneSignsUp /\ UNCHANGED shown
    BY RowOf DEF RevokeKey, Revoke, IInv, Typed, NoneSignsUp
  <1>5. NoKeyAdded
    BY <1>3 DEF NoKeyAdded
  <1>6. QED
    BY <1>2, <1>4, <1>5, StoreMoves

LEMMA DeleteMineInv == ASSUME IInv, NEW b \in Browsers, DeleteMine(b) PROVE IInv'
  <1> DEFINE a == form[b].acc
  <1>1. a \in Accounts /\ accounts[a] # "none" /\ UNCHANGED shown
    BY RowOf DEF DeleteMine, Asks
  <1>2. keys \in [Keys -> KeyRow] /\ accounts \in [Accounts -> {"none", "live", "deleted"}]
    BY DEF IInv, Typed
  <1>3. PICK row \in FormRow :
          /\ form' = [form EXCEPT ![b] = row] /\ Asks(row)
          /\ row.acc \in Accounts => accounts[row.acc] # "none"
          /\ \A x \in Accounts : Past(row, x) => row.name \in Claimed(x)
    BY OverRow DEF DeleteMine, Done
  <1>4. /\ keys' \in [Keys -> KeyRow]
        /\ \A k \in Keys : /\ keys'[k].acc = keys[k].acc /\ keys'[k].name = keys[k].name
                           /\ keys'[k].st # keys[k].st => keys[k].st = "live" /\ keys'[k].st = "revoked"
    <2>1. CASE keys' = Revoked(a)
      BY <1>2, <2>1 DEF Revoked, LiveKeys, KeysOf, KeyRow
    <2>2. QED
      BY <1>2, <2>1 DEF DeleteMine, DeleteAccount
  <1>5. session' = [session EXCEPT ![b] = NoAccount]
    BY DEF DeleteMine
  <1>6. accounts' \in {accounts, [accounts EXCEPT ![a] = "deleted"]}
    BY DEF DeleteMine, DeleteAccount
  <1> HIDE DEF a
  <1>7. NoneSignsUp
    BY <1>1, <1>2, <1>5, <1>6, RowOf, PortalAssumption DEF NoneSignsUp
  <1>8. NoKeyAdded
    BY <1>4 DEF NoKeyAdded
  <1>9. QED
    BY <1>1, <1>3, <1>7, <1>8, StoreMoves

\* Nothing was claimed of an account that is only now signed up.
LEMMA SignUpInv == ASSUME IInv, NEW b \in Browsers, SignUp(b) PROVE IInv'
  <1>1. PICK a \in Accounts : AddAccount(a) /\ session' = [session EXCEPT ![b] = a]
    BY DEF SignUp
  <1>2. /\ accounts' \in [Accounts -> {"none", "live", "deleted"}] /\ accounts'[a] = "live"
        /\ \A x \in Accounts : /\ accounts[x] # "none" => accounts'[x] # "none"
                               /\ accounts'[x] = "live" => accounts[x] \in {"none", "live"}
    BY <1>1 DEF AddAccount, IInv, Typed
  <1>3. PICK row : row = NoForm
    OBVIOUS
  <1>4. /\ row \in FormRow /\ Asks(row) /\ row.acc \notin Accounts /\ \A x \in Accounts : ~Past(row, x)
        /\ form' = [form EXCEPT ![b] = row]
    BY <1>3, OverRow DEF Done, SignUp
  <1>5. keys' = keys
    BY <1>1 DEF AddAccount
  <1>6. NoKeyAdded
    BY <1>5 DEF NoKeyAdded, IInv, Typed
  <1>7. session' \in [Browsers -> Accounts \cup {NoAccount}] /\ shown' \subseteq Keys
    BY <1>1, RowOf DEF SignUp
  <1>8. \A x \in Browsers : session'[x] \in Accounts => accounts'[session'[x]] # "none"
    BY <1>1, <1>2, RowOf
  <1>9. keys' \in [Keys -> KeyRow]
    BY <1>6 DEF NoKeyAdded
  <1>10. QED
    BY <1>2, <1>4, <1>6, <1>7, <1>8, <1>9, FewerKeys, Moves

\* The index refuses a name that is taken; one that is free was claimed.
LEMMA IssueKeyInv == ASSUME IInv, NEW b \in Browsers, IssueKey(b) PROVE IInv'
  <1> DEFINE a == form[b].acc
             n == form[b].name
  <1>1. /\ a \in Accounts /\ n \in Names /\ accounts[a] # "none" /\ n \in Claimed(a)
        /\ Past(form[b], a) /\ form[b].pc = "issue"
    BY RowOf DEF IssueKey, Asks, Past, FormRow
  <1>2. Done(b) /\ UNCHANGED session
    BY DEF IssueKey
  <1>3. CASE UNCHANGED <<storeVars, shown>>
    BY <1>2, <1>3, DoneInv
  <1>4. ASSUME NEW k \in Keys, NextKey(k), ~NameTaken(a, n), shown' = shown \cup ReadBack(k),
               Insert(k, a, n) \/ LoseInsert(a)
        PROVE  IInv'
    <2>1. PICK row : row = NoForm
      OBVIOUS
    <2>2. /\ row \in FormRow /\ Asks(row) /\ row.acc \notin Accounts /\ \A x \in Accounts : ~Past(row, x)
          /\ form' = [form EXCEPT ![b] = row]
      BY <1>2, <2>1, OverRow DEF Done
    <2>3. /\ accounts' = accounts /\ accounts \in [Accounts -> {"none", "live", "deleted"}]
          /\ keys \in [Keys -> KeyRow]
      BY <1>4 DEF Insert, LoseInsert, IInv, Typed
    <2>4. shown' \subseteq Keys
      BY <1>4, RowOf DEF ReadBack
    <2>5. /\ session' \in [Browsers -> Accounts \cup {NoAccount}]
          /\ \A x \in Browsers : session'[x] \in Accounts => accounts'[session'[x]] # "none"
      BY <1>2, <2>3, RowOf
    <2>6. \A j \in Keys : keys[j].st = "live" => keys[j].name \in Claimed(keys[j].acc)
      BY DEF Claimed, KeyNames, LiveKeys, KeysOf
    <2>7. /\ keys' \in [Keys -> KeyRow] /\ NamesDiffer'
          /\ \A j \in Keys : keys'[j].st # "none" => accounts[keys'[j].acc] # "none"
          /\ \A j \in Keys : keys'[j].st = "live" => keys'[j].name \in Claimed(keys'[j].acc)
      <3>1. CASE LoseInsert(a)
        <4>1. keys' = keys
          BY <3>1 DEF LoseInsert
        <4>2. NamesDiffer'
          BY <4>1 DEF IInv, NamesDiffer
        <4>3. QED
          BY <2>3, <2>6, <4>1, <4>2 DEF IInv, Known
      <3>2. CASE Insert(k, a, n)
        <4>1. PICK new : new = [st |-> "live", acc |-> a, name |-> n, spent |-> 0]
          OBVIOUS
        <4>2. /\ new \in KeyRow /\ new.st = "live" /\ new.acc = a /\ new.name = n
              /\ keys' = [keys EXCEPT ![k] = new]
          BY <1>1, <3>2, <4>1 DEF KeyRow, Insert
        <4>3. \A j \in Keys : keys[j].st = "live" /\ keys[j].acc = a => keys[j].name # n
          BY <1>4 DEF NameTaken, LiveKeys, KeysOf
        <4> HIDE DEF a, n
        <4>4. /\ keys' \in [Keys -> KeyRow] /\ keys'[k] = new /\ \A j \in Keys \ {k} : keys'[j] = keys[j]
          BY <2>3, <4>2
        <4>5. NamesDiffer'
          BY <4>2, <4>3, <4>4 DEF IInv, NamesDiffer
        <4>6. QED
          BY <1>1, <2>6, <4>2, <4>4, <4>5 DEF IInv, Known
      <3>3. QED
        BY <1>4, <3>1, <3>2
    <2>8. \A x \in Accounts : /\ accounts[x] # "none" => accounts'[x] # "none"
                              /\ accounts'[x] = "live" => accounts[x] \in {"none", "live"}
      BY <2>3
    <2>9. QED
      BY <2>2, <2>3, <2>4, <2>5, <2>7, <2>8, Moves
  <1>5. QED
    BY <1>3, <1>4 DEF IssueKey

LEMMA BrowserStepInv == ASSUME IInv, NEW b \in Browsers, BrowserStep(b) PROVE IInv'
  <1>1. CASE Logout(b)
    BY <1>1, PortalAssumption, CookieInv DEF Logout
  <1>2. QED
    BY <1>1, FindAccountInv, LastDeletedInv, SignUpInv, RequestInv, ListKeysInv, OwnedKeyInv,
       AllowanceInv, RevokeKeyInv, IssueKeyInv, DeleteMineInv DEF BrowserStep

----------------------------------------------------------------------------
(* The API's steps: no more than what a key has spent. *)

LEMMA ApiInv ==
  ASSUME IInv, UNCHANGED <<accounts, portalVars>>, NoKeyAdded
  PROVE  IInv'
  <1>1. PICK b \in Browsers : TRUE
    BY PortalAssumption
  <1>2. PICK row : row = form[b]
    OBVIOUS
  <1>3. /\ row \in FormRow /\ Asks(row) /\ form' = [form EXCEPT ![b] = row]
        /\ row.acc \in Accounts => accounts[row.acc] # "none"
        /\ \A a \in Accounts : Past(row, a) => row.name \in Claimed(a)
    BY <1>2, RowOf DEF portalVars
  <1>4. NoneSignsUp /\ UNCHANGED shown
    BY <1>1, RowOf DEF portalVars, IInv, Typed, NoneSignsUp
  <1>5. QED
    BY <1>3, <1>4, StoreMoves

LEMMA RecordAddsNoKey ==
  ASSUME IInv, NEW c, NEW used \in Nat, Record(c, used)
  PROVE  NoKeyAdded /\ UNCHANGED <<accounts, portalVars>>
  <1>1. keys \in [Keys -> KeyRow]
    BY DEF IInv, Typed
  <1>2. keys' = [keys EXCEPT ![req[c].key].spent = @ + used] /\ UNCHANGED <<accounts, portalVars>>
    BY DEF Record
  <1>3. PICK q : q = req[c].key
    OBVIOUS
  <1>4. ASSUME NEW k \in Keys
        PROVE  /\ keys'[k] \in KeyRow /\ keys'[k].acc = keys[k].acc /\ keys'[k].name = keys[k].name
               /\ keys'[k].st = keys[k].st
    <2>1. keys[k] \in KeyRow
      BY <1>1
    <2>2. CASE k = q
      <3> DEFINE row == [keys[k] EXCEPT !.spent = keys[k].spent + used]
      <3>1. keys'[k] = row
        BY <1>1, <1>2, <1>3, <2>2
      <3>2. keys[k].spent + used \in Nat
        BY <2>1 DEF KeyRow
      <3>3. row \in KeyRow /\ row.acc = keys[k].acc /\ row.name = keys[k].name /\ row.st = keys[k].st
        BY <2>1, <3>2 DEF KeyRow
      <3>4. QED
        BY <3>1, <3>3
    <2>3. CASE k # q
      BY <1>1, <1>2, <1>3, <2>1, <2>3
    <2>4. QED
      BY <2>2, <2>3
  <1>5. keys' \in [Keys -> KeyRow]
    <2>1. keys' = [k \in Keys |-> keys'[k]]
      BY <1>1, <1>2
    <2>2. QED
      BY <1>4, <2>1
  <1>6. QED
    BY <1>2, <1>4, <1>5 DEF NoKeyAdded

LEMMA NextIInv == IInv /\ [Next]_vars => IInv'
  <1> SUFFICES ASSUME IInv, [Next]_vars PROVE IInv'
    OBVIOUS
  <1>1. CASE UNCHANGED <<storeVars, portalVars>>
    <2>1. NoKeyAdded
      BY <1>1 DEF storeVars, IInv, Typed, NoKeyAdded
    <2>2. QED
      BY <1>1, <2>1, ApiInv DEF storeVars
  <1>2. ASSUME NEW c \in Clients, ClientStep(c) PROVE IInv'
    <2>1. CASE \E used \in Nat : Record(c, used)
      BY <2>1, RecordAddsNoKey, ApiInv
    <2>2. CASE UNCHANGED <<storeVars, portalVars>>
      BY <1>1, <2>2
    <2>3. 0 \in Nat /\ \A used \in 0..1 : used \in Nat /\ 1 + used \in Nat
      OBVIOUS
    <2>4. QED
      BY <1>2, <2>1, <2>2, <2>3 DEF ClientStep, Authorize, TurnedDown, ReadQuota, Acquire,
         AskEngine, PassOn, AgentStep, Unrecorded
  <1>3. CASE \E a \in Accounts : Slide(a)
    BY <1>1, <1>3 DEF Slide
  <1>4. CASE UNCHANGED vars
    BY <1>1, <1>4 DEF vars
  <1>5. QED
    BY <1>2, <1>3, <1>4, BrowserStepInv DEF Next

----------------------------------------------------------------------------
(* The result. *)

LEMMA SpecIInv == Spec => []IInv
  BY InitIInv, NextIInv, PTL DEF Spec

\* However creations, rotations, revocations and deletions from any number of browsers
\* interleave, and whichever connections break, an account's active keys pass its tier's cap
\* by no more than the requests that counted them at once (_create, _rotate, _issue).
THEOREM SpecKeyCapHolds == Spec => []KeyCapHolds
  <1>1. IInv => KeyCapHolds
    <2> SUFFICES ASSUME IInv, NEW a \in Accounts
                 PROVE  Cardinality({k \in KeysOf(a) : Active(k)}) <= MaxKeys + Cardinality(Browsers) - 1
      BY DEF KeyCapHolds
    <2>1. Cardinality(Browsers) \in Nat /\ Cardinality(Browsers) >= 1 /\ MaxKeys \in Nat
      BY PortalAssumption, FS_CardinalityType, FS_EmptySet
    <2>2. CASE accounts[a] = "live"
      <3>1. {k \in KeysOf(a) : Active(k)} = LiveKeys(a)
        BY <2>2 DEF KeysOf, Active, LiveKeys
      <3>2. Cardinality(LiveKeys(a)) <= Cardinality(Claimed(a))
        BY KeysWithinNames DEF IInv
      <3>3. Cardinality(Claimed(a)) <= MaxKeys + Cardinality(Browsers) - 1
        BY <2>2 DEF IInv, NamesInBounds
      <3>4. Cardinality(LiveKeys(a)) \in Nat /\ Cardinality(Claimed(a)) \in Nat
        BY FiniteNames DEF IInv
      <3>5. QED
        BY <2>1, <3>1, <3>2, <3>3, <3>4
    <2>3. CASE accounts[a] # "live"
      <3>1. {k \in KeysOf(a) : Active(k)} = {}
        BY <2>3 DEF KeysOf, Active
      <3>2. Cardinality({k \in KeysOf(a) : Active(k)}) = 0
        BY <3>1, FS_EmptySet
      <3>3. QED
        BY <2>1, <3>2
    <2>4. QED
      BY <2>2, <2>3
  <1>2. QED
    BY <1>1, SpecIInv, PTL

----------------------------------------------------------------------------
(* The quota: sums over the keys of an account. *)

\* Some numbers have a least one.
LEMMA LeastOfSome ==
  ASSUME NEW T, T \subseteq Nat, T # {}
  PROVE  \E x \in T : \A y \in T : x =< y
  <1>1. PICK x \in T : \A y \in T : ~(<<y, x>> \in OpToRel(<, Nat))
    BY NatLessThanWellFounded, WFMin
  <1>2. ASSUME NEW y \in T PROVE x =< y
    <2>1. x \in Nat /\ y \in Nat
      OBVIOUS
    <2>2. ~(y < x)
      BY <1>1, <2>1 DEF OpToRel
    <2>3. QED
      BY <2>1, <2>2
  <1>3. QED
    BY <1>2

\* g adds up F over every subset of S, as FoldFunction goes through a set.
AddsUp(F, g, S) ==
  g = [s \in SUBSET S |-> IF s = {} THEN 0
                          ELSE F[CHOOSE x \in s : TRUE] + g[s \ {CHOOSE x \in s : TRUE}]]

\* There is one such function: a least subset two of them differ on would have a smaller one.
LEMMA OneSum ==
  ASSUME NEW S, IsFiniteSet(S), NEW F, NEW g, NEW h, AddsUp(F, g, S), AddsUp(F, h, S)
  PROVE  g = h
  <1> DEFINE Differ == {s \in SUBSET S : g[s] # h[s]}
             sizes == {Cardinality(s) : s \in Differ}
  <1>1. g = [s \in SUBSET S |-> g[s]] /\ h = [s \in SUBSET S |-> h[s]]
    BY DEF AddsUp
  <1>2. SUFFICES ASSUME Differ # {} PROVE FALSE
    BY <1>1
  <1>3. \A s \in SUBSET S : IsFiniteSet(s) /\ Cardinality(s) \in Nat
    BY FS_Subset, FS_CardinalityType
  <1>4. sizes \subseteq Nat /\ sizes # {}
    BY <1>2, <1>3
  <1>5. PICK n \in sizes : \A m \in sizes : n =< m
    <2> HIDE DEF sizes
    <2>1. QED
      BY <1>4, LeastOfSome
  <1>6. PICK s \in Differ : \A t \in Differ : Cardinality(s) =< Cardinality(t)
    BY <1>5
  <1>7. s # {}
    BY <1>6 DEF AddsUp
  <1> DEFINE x == CHOOSE y \in s : TRUE
  <1>8. x \in s
    BY <1>7
  <1>9. g[s] = F[x] + g[s \ {x}] /\ h[s] = F[x] + h[s \ {x}]
    BY <1>7 DEF AddsUp
  <1> HIDE DEF x
  <1>10. s \ {x} \notin Differ
    <2>1. s \in SUBSET S /\ Cardinality(s) \in Nat /\ Cardinality(s \ {x}) = Cardinality(s) - 1
      BY <1>3, <1>8, FS_RemoveElement
    <2>2. QED
      BY <1>6, <2>1
  <1>11. QED
    BY <1>9, <1>10

\* As many pairs for each element k of S as F counts for it.
Units(F, S) == UNION {{k} \X (1..F[k]) : k \in S}

\* They are finitely many.
LEMMA UnitsFinite ==
  ASSUME NEW S, IsFiniteSet(S), NEW F, \A k \in S : F[k] \in Nat
  PROVE  IsFiniteSet(Units(F, S)) /\ Cardinality(Units(F, S)) \in Nat
  <1> DEFINE of == [k \in S |-> {k} \X (1..F[k])]
             parts == {{k} \X (1..F[k]) : k \in S}
  <1>1. of \in Surjection(S, parts)
    BY DEF Surjection
  <1>2. IsFiniteSet(parts)
    <2> HIDE DEF of, parts
    <2>1. QED
      BY <1>1, FS_Surjection
  <1>3. ASSUME NEW k \in S PROVE IsFiniteSet({k} \X (1..F[k]))
    <2>1. 1 \in Int /\ F[k] \in Int
      OBVIOUS
    <2>2. IsFiniteSet({k}) /\ IsFiniteSet(1..F[k])
      BY <2>1, FS_Singleton, FS_Interval, Zenon
    <2>3. QED
      BY <2>2, FS_Product
  <1>4. \A p \in parts : IsFiniteSet(p)
    BY <1>3
  <1>5. IsFiniteSet(UNION parts)
    <2> HIDE DEF parts
    <2>1. QED
      BY <1>2, <1>4, FS_UNION
  <1>6. QED
    BY <1>5, FS_CardinalityType DEF Units

\* Those of an element, and those of the rest.
LEMMA UnitsSplit ==
  ASSUME NEW S, IsFiniteSet(S), NEW F, \A k \in S : F[k] \in Nat, NEW x \in S
  PROVE  Cardinality(Units(F, S)) = F[x] + Cardinality(Units(F, S \ {x}))
  <1> DEFINE A == {x} \X (1..F[x])
             B == Units(F, S \ {x})
  <1>1. Units(F, S) = A \cup B /\ A \cap B = {}
    BY DEF Units
  <1>2. IsFiniteSet(A) /\ Cardinality(A) = F[x]
    <2>1. F[x] \in Nat /\ F[x] \in Int /\ 1 \in Int
      OBVIOUS
    <2>2. IsFiniteSet({x}) /\ Cardinality({x}) = 1 /\ IsFiniteSet(1..F[x])
      BY <2>1, FS_Singleton, FS_Interval, Zenon
    <2>3. Cardinality(1..F[x]) = F[x]
      BY <2>1, FS_Interval
    <2>4. IsFiniteSet(A) /\ Cardinality(A) = Cardinality({x}) * Cardinality(1..F[x])
      BY <2>2, FS_Product
    <2> HIDE DEF A
    <2>5. QED
      BY <2>1, <2>2, <2>3, <2>4
  <1>3. IsFiniteSet(B) /\ Cardinality(B) \in Nat
    <2>1. IsFiniteSet(S \ {x})
      BY FS_RemoveElement
    <2>2. QED
      BY <2>1, UnitsFinite
  <1>0. Cardinality({}) = 0
    BY FS_EmptySet
  <1> HIDE DEF A, B
  <1>4. Cardinality(A \cup B) = Cardinality(A) + Cardinality(B) - Cardinality({})
    BY <1>1, <1>2, <1>3, FS_Union
  <1>5. F[x] \in Nat
    OBVIOUS
  <1>6. QED
    BY <1>0, <1>1, <1>2, <1>3, <1>4, <1>5 DEF B

\* What a fold adds up is how many they are.
LEMMA FoldCounts ==
  ASSUME NEW S, IsFiniteSet(S), NEW F \in [S -> Nat]
  PROVE  FoldFunction(+, 0, F) = Cardinality(Units(F, S))
  <1> DEFINE g == [s \in SUBSET S |-> Cardinality(Units(F, s))]
             step(s, f) == IF s = {} THEN 0
                           ELSE F[CHOOSE x \in s : TRUE] + f[s \ {CHOOSE x \in s : TRUE}]
             iter == CHOOSE f : f = [s \in SUBSET S |-> step(s, f)]
  <1>1. ASSUME NEW s \in SUBSET S PROVE g[s] = step(s, g)
    <2>1. CASE s = {}
      <3>1. Units(F, {}) = {}
        BY DEF Units
      <3>2. QED
        BY <2>1, <3>1, FS_EmptySet
    <2>2. CASE s # {}
      <3> DEFINE x == CHOOSE y \in s : TRUE
      <3>1. x \in s /\ IsFiniteSet(s) /\ \A k \in s : F[k] \in Nat
        BY <2>2, FS_Subset
      <3>2. g[s] = Cardinality(Units(F, s)) /\ g[s \ {x}] = Cardinality(Units(F, s \ {x}))
        OBVIOUS
      <3>3. step(s, g) = F[x] + g[s \ {x}]
        BY <2>2
      <3> HIDE DEF x, g, step
      <3>4. QED
        BY <3>1, <3>2, <3>3, UnitsSplit
    <2>3. QED
      BY <2>1, <2>2
  <1>2. g = [s \in SUBSET S |-> step(s, g)]
    <2>1. g = [s \in SUBSET S |-> g[s]]
      OBVIOUS
    <2> HIDE DEF g, step
    <2>2. QED
      BY <1>1, <2>1
  <1>3. iter = [s \in SUBSET S |-> step(s, iter)]
    <2> HIDE DEF step, g
    <2>1. QED
      BY <1>2
  <1>4. AddsUp(F, iter, S) /\ AddsUp(F, g, S)
    <2> HIDE DEF iter, g
    <2>1. QED
      BY <1>2, <1>3 DEF AddsUp
  <1>5. FoldFunction(+, 0, F) = iter[S]
    BY DEF FoldFunction, FoldFunctionOnSet, MapThenFoldSet
  <1>6. g[S] = Cardinality(Units(F, S))
    OBVIOUS
  <1> HIDE DEF iter, g
  <1>7. iter = g
    BY <1>4, OneSum
  <1>8. QED
    BY <1>5, <1>6, <1>7

----------------------------------------------------------------------------
(* The requests of an account past their look at the quota. *)

ReqRow == [pc : ReqPcs, key : Keys, asked : 0..1]

Busy(a) == {c \in Clients : req[c].pc \in {"acquire", "engine", "upstream"} /\ AccountOf(c) = a}

\* A request under way shows a key that was made.
KeysShown == \A c \in Clients : req[c].pc # "idle" => keys[req[c].key].st # "none"

\* What is spent, and two replies for each request that may still spend them.
InQuota ==
  \A a \in Accounts :
    Spent(KeysOf(a)) + 2 * Cardinality(Busy(a)) <= Quota - 1 + 2 * Cardinality(Clients)

QuotaInv == req \in [Clients -> ReqRow] /\ KeysShown /\ InQuota

\* What the keys S of the table K have spent, as pairs.
Replies(K, S) == Units([k \in S |-> K[k].spent], S)

\* The fold over keys is how many those pairs are.
LEMMA SpentIs ==
  ASSUME NEW K \in [Keys -> KeyRow], NEW S \in SUBSET Keys
  PROVE  /\ Total(K, S) = Cardinality(Replies(K, S))
         /\ Cardinality(Replies(K, S)) \in Nat
  <1> DEFINE F == [k \in S |-> K[k].spent]
  <1>1. F \in [S -> Nat]
    BY DEF KeyRow
  <1>2. IsFiniteSet(S)
    BY KeyStoreAssumption, FS_Subset
  <1>4. Replies(K, S) = Units(F, S)
    BY DEF Replies
  <1>5. FoldFunction(+, 0, F) = Cardinality(Units(F, S)) /\ Cardinality(Units(F, S)) \in Nat
    <2> HIDE DEF F
    <2>1. QED
      BY <1>1, <1>2, FoldCounts, UnitsFinite
  <1>6. Total(K, S) = FoldFunction(+, 0, F)
    BY DEF Total
  <1> HIDE DEF F
  <1>7. QED
    BY <1>4, <1>5, <1>6

\* Now and after a step.
LEMMA SpentCounts ==
  ASSUME Typed, Typed', NEW S \in SUBSET Keys
  PROVE  /\ Spent(S) = Cardinality(Replies(keys, S)) /\ Spent(S) \in Nat
         /\ Spent(S)' = Cardinality(Replies(keys', S)) /\ Spent(S)' \in Nat
  <1>1. keys \in [Keys -> KeyRow] /\ keys' \in [Keys -> KeyRow]
    BY DEF Typed
  <1>2. /\ Total(keys, S) = Cardinality(Replies(keys, S))
        /\ Total(keys', S) = Cardinality(Replies(keys', S))
        /\ Cardinality(Replies(keys, S)) \in Nat /\ Cardinality(Replies(keys', S)) \in Nat
    BY <1>1, SpentIs
  <1>3. Spent(S) = Total(keys, S) /\ Spent(S)' = Total(keys', S)
    BY DEF Spent
  <1>4. QED
    BY <1>2, <1>3, Zenon

\* Keys that have spent nothing count for nothing.
LEMMA SpentStands ==
  ASSUME Typed, Typed', NEW S \in SUBSET Keys, NEW T \in SUBSET Keys, S \subseteq T,
         \A k \in S : keys'[k].spent = keys[k].spent,
         \A k \in T \ S : keys'[k].spent = 0
  PROVE  Spent(T)' = Spent(S)
  <1> DEFINE F == [k \in S |-> keys[k].spent]
             G == [k \in T |-> keys'[k].spent]
  <1>1. \A k \in S : G[k] = F[k]
    OBVIOUS
  <1>2. \A k \in T \ S : 1..G[k] = {}
    OBVIOUS
  <1>3. Units(G, T) = Units(F, S)
    <2> HIDE DEF F, G
    <2>1. QED
      BY <1>1, <1>2 DEF Units
  <1>4. Replies(keys', T) = Replies(keys, S)
    BY <1>3 DEF Replies
  <1>5. QED
    BY <1>4, SpentCounts

\* A key's spending counts once for its account.
LEMMA SpentGrows ==
  ASSUME Typed, Typed', NEW S \in SUBSET Keys, NEW q \in S, NEW used \in Nat,
         \A k \in S : keys'[k].spent = keys[k].spent + (IF k = q THEN used ELSE 0)
  PROVE  Spent(S)' = Spent(S) + used
  <1> DEFINE F == [k \in S |-> keys[k].spent]
             G == [k \in S |-> keys'[k].spent]
  <1>1. keys \in [Keys -> KeyRow] /\ keys' \in [Keys -> KeyRow]
    BY Zenon DEF Typed
  <1>2. \A k \in S : F[k] \in Nat /\ G[k] \in Nat
    BY <1>1 DEF KeyRow
  <1>3. G[q] = F[q] + used /\ \A k \in S \ {q} : G[k] = F[k]
    <2>1. \A k \in S : keys[k].spent \in Nat
      BY <1>1 DEF KeyRow
    <2>2. QED
      BY <2>1
  <1>4. IsFiniteSet(S) /\ IsFiniteSet(S \ {q})
    BY KeyStoreAssumption, FS_Subset, FS_RemoveElement
  <1>5. Replies(keys, S) = Units(F, S) /\ Replies(keys', S) = Units(G, S)
    BY DEF Replies
  <1> HIDE DEF F, G
  <1>6. Units(G, S \ {q}) = Units(F, S \ {q})
    BY <1>3 DEF Units
  <1>7. /\ Cardinality(Units(F, S)) = F[q] + Cardinality(Units(F, S \ {q}))
        /\ Cardinality(Units(G, S)) = G[q] + Cardinality(Units(G, S \ {q}))
    BY <1>2, <1>4, UnitsSplit
  <1>8. Cardinality(Units(F, S \ {q})) \in Nat
    BY <1>2, <1>4, UnitsFinite
  <1>9. QED
    BY <1>2, <1>3, <1>5, <1>6, <1>7, <1>8, SpentCounts

\* Nobody has spent anything at first.
LEMMA InitQuota == Init => QuotaInv
  <1> SUFFICES ASSUME Init PROVE QuotaInv
    OBVIOUS
  <1>1. /\ req = [c \in Clients |-> NoReq] /\ NoReq \in ReqRow /\ NoReq.pc = "idle"
        /\ \A k \in Keys : keys[k].st = "none"
    <2>1. (CHOOSE k \in Keys : TRUE) \in Keys
      BY KeyStoreAssumption
    <2>2. keys = [k \in Keys |-> NoKey] /\ req = [c \in Clients |-> NoReq]
      BY DEF Init, StoreInit
    <2>3. NoKey.st = "none"
      BY DEF NoKey
    <2>4. NoReq \in ReqRow /\ NoReq.pc = "idle"
      BY <2>1, SMT DEF NoReq, ReqRow, ReqPcs
    <2>5. QED
      BY <2>2, <2>3, <2>4
  <1>2. \A a \in Accounts : KeysOf(a) = {} /\ Busy(a) = {}
    BY <1>1 DEF KeysOf, Busy
  <1>3. Spent({}) = 0
    <2>1. Replies(keys, {}) = {}
      BY DEF Replies, Units
    <2>2. Typed
      BY InitIInv DEF IInv
    <2>3. Total(keys, {}) = Cardinality(Replies(keys, {}))
      BY <2>2, SpentIs DEF Typed
    <2>4. QED
      BY <2>1, <2>3, FS_EmptySet DEF Spent
  <1>4. Cardinality(Clients) \in Nat /\ Quota \in Nat \ {0} /\ Cardinality({}) = 0
    BY KingApiAssumption, FS_CardinalityType, FS_EmptySet
  <1>5. ASSUME NEW a \in Accounts
        PROVE  Spent(KeysOf(a)) + 2 * Cardinality(Busy(a)) <= Quota - 1 + 2 * Cardinality(Clients)
    <2>1. Spent(KeysOf(a)) = 0 /\ Cardinality(Busy(a)) = 0
      BY <1>2, <1>3, <1>4, Zenon
    <2>2. QED
      BY <1>4, <2>1
  <1>6. QED
    BY <1>1, <1>5 DEF InQuota, QuotaInv, KeysShown

\* A key that was made stays its account's and has spent what it had; a new one has spent nothing.
KeysStand ==
  \A k \in Keys :
    IF keys[k].st # "none"
    THEN keys'[k].st # "none" /\ keys'[k].acc = keys[k].acc /\ keys'[k].spent = keys[k].spent
    ELSE keys'[k].st = "none" \/ keys'[k].spent = 0

\* The portal spends nothing.
LEMMA PortalSpendsNothing ==
  ASSUME Typed, NEW b \in Browsers, BrowserStep(b)
  PROVE  KeysStand
  <1>1. keys \in [Keys -> KeyRow]
    BY DEF Typed
  <1>2. CASE UNCHANGED keys
    <2>1. \A k \in Keys : keys'[k] = keys[k]
      BY <1>2
    <2>2. QED
      BY <2>1, Zenon DEF KeysStand
  <1>3. ASSUME NEW k, Revoke(k) PROVE KeysStand
    <2>1. CASE keys' = [keys EXCEPT ![k].st = IF @ = "live" THEN "revoked" ELSE @]
      BY <1>1, <2>1 DEF KeysStand, KeyRow
    <2>2. QED
      BY <1>2, <1>3, <2>1 DEF Revoke
  <1>4. ASSUME NEW a, DeleteAccount(a) PROVE KeysStand
    <2>1. CASE keys' = Revoked(a)
      BY <1>1, <2>1 DEF KeysStand, KeyRow, Revoked, LiveKeys, KeysOf
    <2>2. QED
      BY <1>2, <1>4, <2>1 DEF DeleteAccount
  <1>5. ASSUME NEW k \in Keys, NEW a, NEW n, NextKey(k), Insert(k, a, n) PROVE KeysStand
    <2>1. keys[k].st = "none"
      BY <1>5 DEF NextKey
    <2>2. keys' = [keys EXCEPT ![k] = [st |-> "live", acc |-> a, name |-> n, spent |-> 0]]
      BY <1>5 DEF Insert
    <2>3. QED
      BY <1>1, <2>1, <2>2 DEF KeysStand
  <1>6. CASE IssueKey(b)
    BY <1>2, <1>5, <1>6 DEF IssueKey, LoseInsert, storeVars
  <1>7. CASE RevokeKey(b)
    BY <1>3, <1>7 DEF RevokeKey
  <1>8. CASE DeleteMine(b)
    BY <1>4, <1>8 DEF DeleteMine
  <1>9. CASE SignUp(b)
    BY <1>2, <1>9 DEF SignUp, AddAccount
  <1>10. CASE Request(b)
    BY <1>2, <1>10 DEF Request, Guard, storeVars
  <1>11. QED
    BY <1>2, <1>6, <1>7, <1>8, <1>9, <1>10 DEF BrowserStep, FindAccount, LastDeleted, ListKeys,
       OwnedKey, Allowance, Logout, storeVars

\* Where only the keys of others move, a request stays within the quota.
LEMMA QuotaStands ==
  ASSUME IInv, IInv', QuotaInv, KeysStand, req' \in [Clients -> ReqRow],
         \A c \in Clients : req'[c].pc # "idle" => keys[req'[c].key].st # "none",
         \A c \in Clients : req'[c].pc \in {"acquire", "engine", "upstream"} =>
           /\ req[c].pc \in {"acquire", "engine", "upstream"} /\ req'[c].key = req[c].key
  PROVE  QuotaInv'
  <1>1. Typed /\ Typed' /\ IsFiniteSet(Clients)
    BY KingApiAssumption DEF IInv
  <1>2. \A c \in Clients : req[c] \in ReqRow /\ req'[c] \in ReqRow
    BY DEF QuotaInv
  <1>3. KeysShown'
    BY <1>2 DEF KeysShown, KeysStand, ReqRow
  <1>4. ASSUME NEW a \in Accounts
        PROVE  (Spent(KeysOf(a)) + 2 * Cardinality(Busy(a)) <= Quota - 1 + 2 * Cardinality(Clients))'
    <2>1. PICK S \in SUBSET Keys, T \in SUBSET Keys : S = KeysOf(a) /\ T = KeysOf(a)'
      BY DEF KeysOf
    <2>2. /\ S \subseteq T /\ \A k \in S : keys'[k].spent = keys[k].spent
          /\ \A k \in T \ S : keys'[k].spent = 0
      BY <2>1 DEF KeysOf, KeysStand
    <2>3. Spent(T)' = Spent(S) /\ Spent(S) \in Nat
      BY <1>1, <2>2, SpentStands, SpentCounts, Zenon
    <2>4. Busy(a)' \subseteq Busy(a)
      BY <1>2 DEF Busy, AccountOf, QuotaInv, KeysShown, KeysStand, ReqRow
    <2>5. /\ Cardinality(Busy(a)') <= Cardinality(Busy(a))
          /\ Cardinality(Busy(a)') \in Nat /\ Cardinality(Busy(a)) \in Nat
      <3>1. Busy(a) \subseteq Clients
        BY DEF Busy
      <3>2. IsFiniteSet(Busy(a)) /\ IsFiniteSet(Busy(a)')
        BY <1>1, <2>4, <3>1, FS_Subset
      <3>3. QED
        BY <2>4, <3>2, FS_Subset, FS_CardinalityType
    <2>6. Spent(S) + 2 * Cardinality(Busy(a)) <= Quota - 1 + 2 * Cardinality(Clients)
      BY <2>1 DEF QuotaInv, InQuota
    <2>7. Cardinality(Clients) \in Nat /\ Quota \in Nat
      BY <1>1, KingApiAssumption, FS_CardinalityType
    <2>8. Spent(T)' + 2 * Cardinality(Busy(a)') <= Quota - 1 + 2 * Cardinality(Clients)
      BY <2>3, <2>5, <2>6, <2>7
    <2>9. Spent(KeysOf(a))' = Spent(T)'
      BY <2>1, Zenon DEF Spent
    <2>10. QED
      BY <2>8, <2>9
  <1>5. QED
    BY <1>3, <1>4 DEF QuotaInv, InQuota

\* A request's step that the keys do not see.
LEMMA OneRequest ==
  ASSUME IInv, IInv', QuotaInv, UNCHANGED keys, NEW c \in Clients, NEW row \in ReqRow,
         req' = [req EXCEPT ![c] = row],
         row.pc # "idle" => keys[row.key].st # "none",
         row.pc \in {"acquire", "engine", "upstream"} =>
           req[c].pc \in {"acquire", "engine", "upstream"} /\ row.key = req[c].key
  PROVE  QuotaInv'
  <1>1. req \in [Clients -> ReqRow] /\ req' \in [Clients -> ReqRow]
    BY DEF QuotaInv
  <1>2. ASSUME NEW d \in Clients
        PROVE  /\ req'[d].pc # "idle" => keys[req'[d].key].st # "none"
               /\ req'[d].pc \in {"acquire", "engine", "upstream"} =>
                    req[d].pc \in {"acquire", "engine", "upstream"} /\ req'[d].key = req[d].key
    <2>1. CASE d = c
      BY <1>1, <2>1
    <2>2. CASE d # c
      BY <1>1, <2>2 DEF QuotaInv, KeysShown
    <2>3. QED
      BY <2>1, <2>2
  <1>3. KeysStand
    <2>1. \A k \in Keys : keys'[k] = keys[k]
      OBVIOUS
    <2>2. QED
      BY <2>1, Zenon DEF KeysStand
  <1>4. QED
    BY <1>1, <1>2, <1>3, QuotaStands, Zenon

\* The rows of requests, and the row of one that moves.
LEMMA ReqRows ==
  ASSUME QuotaInv, NEW c \in Clients
  PROVE  /\ req \in [Clients -> ReqRow] /\ req[c] \in ReqRow /\ NoReq \in ReqRow /\ NoReq.pc = "idle"
         /\ \A pc \in ReqPcs : Move(c, pc) =>
              \E row \in ReqRow : /\ req' = [req EXCEPT ![c] = row] /\ row.pc = pc
                                  /\ row.key = req[c].key /\ row.asked = req[c].asked
  <1>1. req \in [Clients -> ReqRow] /\ req[c] \in ReqRow
    BY DEF QuotaInv
  <1>2. NoReq \in ReqRow /\ NoReq.pc = "idle"
    <2>1. (CHOOSE k \in Keys : TRUE) \in Keys
      BY KeyStoreAssumption
    <2>2. QED
      BY <2>1, SMT DEF NoReq, ReqRow, ReqPcs
  <1>3. ASSUME NEW pc \in ReqPcs, Move(c, pc)
        PROVE  \E row \in ReqRow : /\ req' = [req EXCEPT ![c] = row] /\ row.pc = pc
                                   /\ row.key = req[c].key /\ row.asked = req[c].asked
    <2> DEFINE row == [req[c] EXCEPT !.pc = pc]
    <2>1. row \in ReqRow /\ row.pc = pc /\ row.key = req[c].key /\ row.asked = req[c].asked
      BY <1>1 DEF ReqRow
    <2>2. req' = [req EXCEPT ![c] = row]
      BY <1>1, <1>3 DEF Move
    <2>3. QED
      BY <2>1, <2>2
  <1>4. QED
    BY <1>1, <1>2, <1>3

\* A request that begins shows a live key.
LEMMA AuthorizeQuota ==
  ASSUME IInv, IInv', QuotaInv, NEW c \in Clients, Authorize(c)
  PROVE  QuotaInv'
  <1>1. PICK k \in shown : Active(k) /\ req' = [req EXCEPT ![c] = [NoReq EXCEPT !.pc = "quota", !.key = k]]
    BY DEF Authorize
  <1>2. k \in Keys
    BY DEF IInv, Typed
  <1> DEFINE row == [NoReq EXCEPT !.pc = "quota", !.key = k]
  <1>3. row \in ReqRow /\ row.pc = "quota" /\ row.key = k
    BY <1>2, ReqRows DEF ReqRow, ReqPcs
  <1>4. keys[k].st # "none" /\ UNCHANGED keys
    BY <1>1 DEF Active, Authorize, storeVars
  <1>5. req' = [req EXCEPT ![c] = row]
    BY <1>1
  <1> HIDE DEF row
  <1>6. QED
    BY <1>3, <1>4, <1>5, OneRequest

\* A request that is answered may spend no more.
LEMMA AnswerQuota ==
  ASSUME IInv, IInv', QuotaInv, NEW c \in Clients, Answer(c), UNCHANGED keys
  PROVE  QuotaInv'
  BY ReqRows, OneRequest DEF Answer

\* Past the quota a request moves on.
LEMMA MoveQuota ==
  ASSUME IInv, IInv', QuotaInv, NEW c \in Clients, NEW pc \in {"engine", "upstream"},
         req[c].pc \in {"acquire", "engine", "upstream"}, Move(c, pc), UNCHANGED keys
  PROVE  QuotaInv'
  <1>1. PICK row \in ReqRow : /\ req' = [req EXCEPT ![c] = row] /\ row.pc = pc /\ row.key = req[c].key
    BY ReqRows DEF ReqPcs
  <1>2. keys[row.key].st # "none"
    BY <1>1 DEF QuotaInv, KeysShown
  <1>3. QED
    BY <1>1, <1>2, OneRequest

\* A request that finds something left of the quota may spend two replies more: there is
\* one that had not been counted.
LEMMA ReadQuotaQuota ==
  ASSUME IInv, IInv', QuotaInv, NEW c \in Clients, ReadQuota(c)
  PROVE  QuotaInv'
  <1>1. UNCHANGED keys /\ req[c].pc = "quota"
    BY DEF ReadQuota, storeVars
  <1>2. CASE ~(Spent(Counted(AccountOf(c))) < Quota)
    BY <1>1, <1>2, AnswerQuota DEF ReadQuota
  <1>3. CASE Spent(Counted(AccountOf(c))) < Quota
    <2>1. PICK row \in ReqRow : /\ req' = [req EXCEPT ![c] = row] /\ row.pc = "acquire"
                                /\ row.key = req[c].key
      BY <1>3, ReqRows DEF ReadQuota, ReqPcs
    <2>2. req \in [Clients -> ReqRow] /\ req' \in [Clients -> ReqRow]
      BY <2>1 DEF QuotaInv
    <2>3. \A d \in Clients : req'[d].key = req[d].key /\ (d # c => req'[d] = req[d])
      BY <2>1, <2>2
    <2>4. KeysShown'
      BY <1>1, <2>2, <2>3 DEF QuotaInv, KeysShown
    <2>5. ASSUME NEW a \in Accounts
          PROVE  (Spent(KeysOf(a)) + 2 * Cardinality(Busy(a)) <= Quota - 1 + 2 * Cardinality(Clients))'
      <3>1. /\ KeysOf(a) \in SUBSET Keys /\ KeysOf(a)' = KeysOf(a)
            /\ Spent(KeysOf(a))' = Spent(KeysOf(a))
        BY <1>1 DEF KeysOf, Spent
      <3>2. Spent(KeysOf(a)) \in Nat
        BY <3>1, SpentCounts, Zenon DEF IInv
      <3>3. /\ IsFiniteSet(Clients) /\ Cardinality(Clients) \in Nat /\ Quota \in Nat
        BY KingApiAssumption, FS_CardinalityType
      <3>4. Busy(a) \subseteq Clients \ {c} /\ Busy(a)' \subseteq Clients
        BY <1>1, <2>2 DEF Busy
      <3>5. /\ Cardinality(Busy(a)) \in Nat /\ Cardinality(Busy(a)') \in Nat
            /\ IsFiniteSet(Busy(a))
            /\ Cardinality(Busy(a)') <= Cardinality(Clients)
        BY <3>3, <3>4, FS_Subset, FS_CardinalityType
      <3>6. CASE AccountOf(c) = a
        <4>1. Spent(KeysOf(a)) <= Quota - 1
          BY <1>3, <3>2, <3>3, <3>6 DEF Counted
        <4>2. QED
          BY <3>1, <3>2, <3>3, <3>5, <4>1
      <3>7. CASE AccountOf(c) # a
        <4>1. Busy(a)' = Busy(a)
          BY <1>1, <2>2, <2>3, <3>7 DEF Busy, AccountOf
        <4>2. QED
          BY <3>1, <4>1 DEF QuotaInv, InQuota
      <3>8. QED
        BY <3>6, <3>7
    <2>6. QED
      BY <2>2, <2>4, <2>5 DEF QuotaInv, InQuota
  <1>4. QED
    BY <1>2, <1>3

\* What is recorded was held for the request.
LEMMA RecordQuota ==
  ASSUME IInv, IInv', QuotaInv, NEW c \in Clients, NEW used \in 0..2,
         req[c].pc \in {"engine", "upstream"}, Record(c, used), Answer(c)
  PROVE  QuotaInv'
  <1>1. /\ req \in [Clients -> ReqRow] /\ req' = [req EXCEPT ![c] = NoReq]
        /\ NoReq \in ReqRow /\ NoReq.pc = "idle"
    BY ReqRows DEF Answer
  <1>2. /\ req' \in [Clients -> ReqRow] /\ req'[c].pc = "idle"
        /\ \A d \in Clients : d # c => req'[d] = req[d]
    BY <1>1
  <1>3. PICK q \in Keys : q = req[c].key /\ keys[q].st # "none"
    BY <1>1 DEF ReqRow, QuotaInv, KeysShown
  <1>4. keys \in [Keys -> KeyRow] /\ keys' = [keys EXCEPT ![q].spent = @ + used]
    BY <1>3 DEF Record, IInv, Typed
  <1>5. ASSUME NEW k \in Keys
        PROVE  /\ keys'[k].st = keys[k].st /\ keys'[k].acc = keys[k].acc
               /\ keys'[k].spent = keys[k].spent + (IF k = q THEN used ELSE 0)
    <2>1. keys[k].spent \in Nat
      BY <1>4 DEF KeyRow
    <2>2. CASE k = q
      BY <1>4, <2>2 DEF KeyRow
    <2>3. CASE k # q
      BY <1>4, <2>1, <2>3
    <2>4. QED
      BY <2>2, <2>3
  <1>6. KeysShown'
    BY <1>2, <1>5 DEF QuotaInv, KeysShown, ReqRow
  <1>7. ASSUME NEW a \in Accounts
        PROVE  (Spent(KeysOf(a)) + 2 * Cardinality(Busy(a)) <= Quota - 1 + 2 * Cardinality(Clients))'
    <2>1. PICK S \in SUBSET Keys : S = KeysOf(a) /\ S = KeysOf(a)'
      BY <1>5 DEF KeysOf
    <2>2. Spent(S) + 2 * Cardinality(Busy(a)) <= Quota - 1 + 2 * Cardinality(Clients)
      BY <2>1 DEF QuotaInv, InQuota
    <2>3. Spent(KeysOf(a))' = Spent(S)'
      BY <2>1, Zenon DEF Spent
    <2>4. Typed /\ Typed' /\ Spent(S) \in Nat
      BY SpentCounts, Zenon DEF IInv
    <2>5. /\ IsFiniteSet(Clients) /\ Cardinality(Clients) \in Nat /\ Quota \in Nat
      BY KingApiAssumption, FS_CardinalityType
    <2>6. /\ Busy(a) \subseteq Clients
          /\ \A d \in Clients \ {c} : d \in Busy(a)' <=> d \in Busy(a)
          /\ c \notin Busy(a)'
          /\ c \in Busy(a) <=> keys[q].acc = a
      BY <1>1, <1>2, <1>3, <1>5 DEF Busy, AccountOf, ReqRow
    <2>7. Busy(a)' = Busy(a) \ {c}
      <3>1. Busy(a)' \subseteq Clients
        BY DEF Busy
      <3>2. QED
        BY <2>6, <3>1
    <2>8. IsFiniteSet(Busy(a)) /\ Cardinality(Busy(a)) \in Nat
      BY <2>5, <2>6, FS_Subset, FS_CardinalityType
    <2>9. CASE keys[q].acc = a
      <3>1. q \in S
        BY <1>3, <2>1, <2>9 DEF KeysOf
      <3>2. used \in Nat /\ used <= 2
        OBVIOUS
      <3>3. \A k \in S : keys'[k].spent = keys[k].spent + (IF k = q THEN used ELSE 0)
        BY <1>5
      <3>4. Spent(S)' = Spent(S) + used
        BY <2>4, <3>1, <3>2, <3>3, SpentGrows
      <3>5. Cardinality(Busy(a)') = Cardinality(Busy(a)) - 1
        <4>1. c \in Busy(a)
          BY <2>6, <2>9, Zenon
        <4>2. PICK B : B = Busy(a)
          OBVIOUS
        <4>3. IsFiniteSet(B) /\ c \in B
          BY <2>8, <4>1, <4>2
        <4>4. Cardinality(B \ {c}) = Cardinality(B) - 1
          BY <4>3, FS_RemoveElement, Zenon
        <4>5. QED
          BY <2>7, <4>2, <4>4, Zenon
      <3>6. Spent(S)' + 2 * Cardinality(Busy(a)') <= Quota - 1 + 2 * Cardinality(Clients)
        BY <2>2, <2>4, <2>5, <2>8, <3>2, <3>4, <3>5
      <3>7. QED
        BY <2>3, <3>6
    <2>10. CASE keys[q].acc # a
      <3>1. q \notin S
        BY <2>1, <2>10 DEF KeysOf
      <3>2. \A k \in S : keys'[k].spent = keys[k].spent
        <4>1. \A k \in S : keys[k].spent \in Nat
          BY <1>4 DEF KeyRow
        <4>2. QED
          BY <1>5, <3>1, <4>1
      <3>3. Spent(S)' = Spent(S)
        BY <2>4, <3>2, SpentStands
      <3>4. Busy(a)' = Busy(a)
        BY <2>6, <2>7, <2>10
      <3>5. QED
        BY <2>2, <2>3, <3>3, <3>4
    <2>11. QED
      BY <2>9, <2>10
  <1>8. QED
    BY <1>2, <1>6, <1>7 DEF QuotaInv, InQuota

\* A request of the API, whichever step it takes.
LEMMA ClientQuota ==
  ASSUME IInv, IInv', QuotaInv, NEW c \in Clients, ClientStep(c)
  PROVE  QuotaInv'
  <1>1. ASSUME Answer(c), UNCHANGED keys PROVE QuotaInv'
    BY <1>1, AnswerQuota
  <1>2. ASSUME NEW used \in 0..1, Record(c, used), Answer(c), req[c].pc \in {"engine", "upstream"}
        PROVE  QuotaInv'
    <2>1. used \in 0..2
      OBVIOUS
    <2>2. QED
      BY <1>2, <2>1, RecordQuota
  <1>3. CASE TurnedDown(c)
    BY <1>1, <1>3 DEF TurnedDown, storeVars
  <1>4. CASE Acquire(c)
    BY <1>1, <1>4, MoveQuota DEF Acquire, storeVars
  <1>5. CASE AskEngine(c)
    <2>1. 0 \in 0..1
      OBVIOUS
    <2>2. QED
      BY <1>2, <1>5, <2>1, MoveQuota DEF AskEngine, storeVars
  <1>6. CASE PassOn(c)
    BY <1>1, <1>2, <1>6 DEF PassOn, Unrecorded, storeVars
  <1>7. CASE AgentStep(c)
    <2>1. CASE req' = [req EXCEPT ![c].asked = 1] /\ UNCHANGED keys
      <3> DEFINE row == [req[c] EXCEPT !.asked = 1]
      <3>1. req \in [Clients -> ReqRow] /\ req[c] \in ReqRow /\ req[c].pc = "upstream"
        BY <1>7, ReqRows DEF AgentStep
      <3>2. row \in ReqRow /\ row.pc = req[c].pc /\ row.key = req[c].key
        BY <3>1 DEF ReqRow
      <3>3. req' = [req EXCEPT ![c] = row]
        BY <2>1, <3>1
      <3>4. keys[req[c].key].st # "none"
        BY <3>1 DEF QuotaInv, KeysShown
      <3> HIDE DEF row
      <3>5. QED
        BY <2>1, <3>1, <3>2, <3>3, <3>4, OneRequest
    <2>2. ASSUME NEW used \in 0..1, Record(c, 1 + used), Answer(c) PROVE QuotaInv'
      <3>1. 1 + used \in 0..2
        OBVIOUS
      <3>2. QED
        BY <1>7, <2>2, <3>1, RecordQuota DEF AgentStep
    <2>3. QED
      BY <1>1, <1>7, <2>1, <2>2 DEF AgentStep, Unrecorded, storeVars
  <1>8. QED
    BY <1>3, <1>4, <1>5, <1>6, <1>7, AuthorizeQuota, ReadQuotaQuota DEF ClientStep

\* No step of any actor takes an account past it.
LEMMA NextQuota == IInv /\ IInv' /\ QuotaInv /\ [Next]_vars => QuotaInv'
  <1> SUFFICES ASSUME IInv, IInv', QuotaInv, [Next]_vars PROVE QuotaInv'
    OBVIOUS
  <1>1. ASSUME KeysStand, UNCHANGED req PROVE QuotaInv'
    BY <1>1, QuotaStands, Zenon DEF QuotaInv, KeysShown
  <1>2. ASSUME UNCHANGED <<keys, req>> PROVE QuotaInv'
    <2>1. \A k \in Keys : keys'[k] = keys[k]
      BY <1>2
    <2>2. KeysStand
      BY <2>1, Zenon DEF KeysStand
    <2>3. QED
      BY <1>1, <1>2, <2>2
  <1>3. ASSUME NEW b \in Browsers, BrowserStep(b), UNCHANGED apiVars PROVE QuotaInv'
    BY <1>1, <1>3, PortalSpendsNothing DEF apiVars, IInv
  <1>4. ASSUME NEW a \in Accounts, Slide(a) PROVE QuotaInv'
    BY <1>2, <1>4 DEF Slide, storeVars
  <1>5. CASE UNCHANGED vars
    BY <1>2, <1>5 DEF vars, storeVars, apiVars
  <1>6. QED
    BY <1>3, <1>4, <1>5, ClientQuota DEF Next

\* A day's spending of an account passes the quota by no more than what the requests that
\* had read it before may still spend, however many keys were made, rotated and revoked
\* meanwhile (completion_tokens_since, _complete).
THEOREM SpecQuotaHolds == Spec => []QuotaHolds
  <1>1. IInv /\ QuotaInv => QuotaHolds
    <2> SUFFICES ASSUME IInv, QuotaInv, NEW a \in Accounts
                 PROVE  Spent(KeysOf(a)) <= Quota - 1 + 2 * Cardinality(Clients)
      BY DEF QuotaHolds
    <2>1. Spent(KeysOf(a)) \in Nat
      <3>1. KeysOf(a) \in SUBSET Keys /\ keys \in [Keys -> KeyRow]
        BY DEF KeysOf, IInv, Typed
      <3>2. QED
        BY <3>1, SpentIs, Zenon DEF Spent
    <2>2. /\ Busy(a) \subseteq Clients /\ IsFiniteSet(Clients)
          /\ Cardinality(Clients) \in Nat /\ Quota \in Nat
      BY KingApiAssumption, FS_CardinalityType DEF Busy
    <2>3. Cardinality(Busy(a)) \in Nat
      BY <2>2, FS_Subset, FS_CardinalityType
    <2>4. QED
      BY <2>1, <2>2, <2>3 DEF QuotaInv, InQuota
  <1>2. Init => QuotaInv
    BY InitQuota
  <1>3. QED
    BY <1>1, <1>2, NextQuota, SpecIInv, PTL DEF Spec

----------------------------------------------------------------------------
(* The model cache.  What carries the theorem is that a download has yet to visit what *)
(* is not there, so that the done marker is set beside every file, and that only the   *)
(* cleaner takes a file away afterwards, of a model that no thread is at unless it is  *)
(* counted as raced.                                                                   *)

ThreadRow  == [pc : Pcs, ref : Refs \cup {NoRef}, todo : SUBSET Files, wrote : BOOLEAN,
               progressed : BOOLEAN, fruitless : 0..StallRetries]
DirRow     == [files : SUBSET Files, marker : BOOLEAN]
CleanerRow == [pc : {"sleep", "scan", "delete"}, kept : SUBSET Refs, victim : Refs \cup {NoRef},
               place : {"dir", "partial"}, left : DirRow]

CacheTyped ==
  /\ kind \in [Refs -> Kinds]
  /\ dir \in [Refs -> DirRow]
  /\ partial \in [Refs -> SUBSET Files]
  /\ resolver \in [Threads -> ThreadRow]
  /\ need \in [Refs -> {"flight", "king", "done"}]
  /\ cleaner \in CleanerRow
  /\ torn \cup raced \subseteq Refs

\* A thread between its look at the directory and the end of its download.
Inside(t) == resolver[t].pc \in {"slot", "fetch", "settle"}

\* The models of which something is claimed.
Sure(r) == r \in Refs /\ r \notin torn /\ r \notin raced

\* A model that a thread works on is needed.
Wanted ==
  \A t \in Threads : resolver[t].pc # "idle" => resolver[t].ref \in Refs /\ need[resolver[t].ref] # "done"

\* The lock of the model.
OneInside ==
  \A t, u \in Threads : Inside(t) /\ Inside(u) /\ resolver[t].ref = resolver[u].ref => t = u

\* A download goes into a directory that is not marked.
NotMarkedYet == \A t \in Threads : Inside(t) => ~dir[resolver[t].ref].marker

\* What is not there yet is still to be visited, so that a download that visited all ends with
\* every file.
Awaited ==
  \A t \in Threads : Inside(t) /\ Sure(resolver[t].ref) =>
    /\ Files \ Into(resolver[t].ref) \subseteq resolver[t].todo
    /\ resolver[t].pc = "settle" => resolver[t].todo = {}

\* A deletion that nobody races meets no thread at its model, and has the marker on its list
\* for as long as the marker is there.
VictimIsAModel ==
  cleaner.pc = "delete" => cleaner.victim \in Refs /\ (cleaner.left.marker => cleaner.place = "dir")
Undisturbed ==
  \A r \in Refs : Sure(r) /\ Deleting(r) =>
    /\ \A t \in Threads : resolver[t].ref = r => ~Inside(t) /\ (cleaner.place = "dir" => resolver[t].pc # "using")
    /\ cleaner.place = "dir" /\ dir[r].marker => cleaner.left.marker

\* The marker of a model whose directory is not being deleted.
Standing(r) == Sure(r) /\ ~(Deleting(r) /\ cleaner.place = "dir")
MarkedIsWhole == \A r \in Refs : Standing(r) /\ dir[r].marker => dir[r].files = Files
UsedIsMarked ==
  \A t \in Threads : resolver[t].pc = "using" /\ Sure(resolver[t].ref) => dir[resolver[t].ref].marker

CacheInv ==
  /\ CacheTyped /\ Wanted /\ OneInside /\ NotMarkedYet /\ Awaited /\ VictimIsAModel /\ Undisturbed
  /\ MarkedIsWhole /\ UsedIsMarked

(* The inductive invariant of the king's engine. *)

EngineTyped ==
  /\ disk \in [Models -> SUBSET WholeModel]
  /\ env \in Models \cup {NoModel}
  /\ operator \in [pc : {"idle", "config", "weights", "ready", "restart"}, model : Models \cup {NoModel}]

\* The download that the operator is at is of a model, and whole when it is ready.
FetchedWhole ==
  /\ operator.pc \in {"config", "weights", "ready"} => operator.model \in Models
  /\ operator.pc = "ready" => disk[operator.model] = WholeModel

EngineInv == EngineTyped /\ FetchedWhole /\ PointedIsWhole

HostsInv == CacheInv /\ EngineInv

----------------------------------------------------------------------------
(* What a step of one thread, and one change of a directory, leave as they were. *)

OthersStay(t) == \A u \in Threads \ {t} : resolver'[u] = resolver[u]

LEMMA ThreadMoves ==
  ASSUME CacheTyped, NEW t \in Threads, NEW row \in ThreadRow,
         resolver' = [resolver EXCEPT ![t] = row]
  PROVE  resolver' \in [Threads -> ThreadRow] /\ OthersStay(t) /\ resolver'[t] = row
  BY DEF CacheTyped, OthersStay

LEMMA ToMoves ==
  ASSUME CacheTyped, NEW t \in Threads, NEW pc \in Pcs, To(t, pc)
  PROVE  /\ resolver' \in [Threads -> ThreadRow] /\ OthersStay(t)
         /\ resolver'[t].pc = pc /\ resolver'[t].ref = resolver[t].ref
         /\ resolver'[t].todo = resolver[t].todo
  <1> DEFINE row == [resolver[t] EXCEPT !.pc = pc]
  <1>1. row \in ThreadRow /\ row.pc = pc /\ row.ref = resolver[t].ref /\ row.todo = resolver[t].todo
    BY DEF CacheTyped, ThreadRow
  <1>2. resolver' = [resolver EXCEPT ![t] = row]
    BY DEF To
  <1> HIDE DEF row
  <1>3. QED
    BY <1>1, <1>2, ThreadMoves

LEMMA IdleIsARow == Idle \in ThreadRow /\ Idle.pc = "idle"
  BY CacheAssumption DEF Idle, ThreadRow, Pcs

LEMMA RaiseMoves ==
  ASSUME CacheTyped, NEW t \in Threads, Raise(t)
  PROVE  /\ resolver' \in [Threads -> ThreadRow] /\ OthersStay(t)
         /\ resolver'[t].pc = "idle"
  BY IdleIsARow, ThreadMoves DEF Raise

LEMMA DirRows ==
  ASSUME CacheTyped, NEW r \in Refs
  PROVE  /\ Empty \in DirRow /\ Empty.marker = FALSE /\ Empty.files = {}
         /\ \A f \in Files : [dir[r] EXCEPT !.files = @ \cup {f}] \in DirRow
         /\ \A f \in Files : [dir[r] EXCEPT !.files = @ \ {f}] \in DirRow
         /\ [dir[r] EXCEPT !.marker = FALSE] \in DirRow
         /\ \A S \in SUBSET Files, b \in BOOLEAN : [files |-> S, marker |-> b] \in DirRow
  BY DEF CacheTyped, DirRow, Empty

\* A thread that leaves the files alone keeps the invariant, when it is idle afterwards, or goes
\* on with the same model.
LEMMA ThreadKeeps ==
  ASSUME CacheInv, NEW t \in Threads, UNCHANGED <<kind, dir, partial, need, cleaner, torn, raced>>,
         resolver' \in [Threads -> ThreadRow], OthersStay(t),
         \/ resolver'[t].pc = "idle"
         \/ /\ resolver'[t].ref = resolver[t].ref /\ Inside(t) /\ Inside(t)'
            /\ \/ resolver'[t].todo = Files /\ resolver'[t].pc # "settle"
               \/ /\ resolver'[t].todo = resolver[t].todo
                  /\ resolver'[t].pc = "settle" => resolver[t].todo = {}
  PROVE  CacheInv'
  <1>1. CacheTyped' /\ VictimIsAModel' /\ MarkedIsWhole'
    BY DEF CacheInv, CacheTyped, VictimIsAModel, MarkedIsWhole, Standing, Sure, Deleting
  <1>2. Wanted' /\ OneInside' /\ NotMarkedYet'
    BY DEF CacheInv, Wanted, OneInside, NotMarkedYet, Inside, OthersStay
  <1>3. Awaited'
    BY DEF CacheInv, Wanted, Awaited, CacheTyped, Inside, Into, Sure, OthersStay
  <1>4. Undisturbed'
    BY DEF CacheInv, Undisturbed, Inside, Sure, Deleting, OthersStay
  <1>5. UsedIsMarked'
    BY DEF CacheInv, UsedIsMarked, Inside, Sure, OthersStay
  <1>6. QED
    BY <1>1, <1>2, <1>3, <1>4, <1>5 DEF CacheInv

----------------------------------------------------------------------------
(* The threads. *)

LEMMA ResolveKeeps ==
  ASSUME CacheInv, NEW t \in Threads, Resolve(t)
  PROVE  CacheInv'
  <1>0. PICK r \in Refs :
          /\ need[r] # "done" /\ resolver[t].pc = "idle"
          /\ resolver' = [resolver EXCEPT ![t] = [Idle EXCEPT !.pc = "lock", !.ref = r]]
    BY DEF Resolve
  <1> DEFINE row == [Idle EXCEPT !.pc = "lock", !.ref = r]
  <1>1. Idle \in ThreadRow /\ "lock" \in Pcs
    BY IdleIsARow DEF Pcs
  <1>2. row \in ThreadRow /\ row.pc = "lock" /\ row.ref = r
    BY <1>1 DEF ThreadRow
  <1> HIDE DEF row
  <1>3. /\ resolver' \in [Threads -> ThreadRow] /\ OthersStay(t)
        /\ resolver'[t].pc = "lock" /\ resolver'[t].ref = r
    BY <1>0, <1>2, ThreadMoves DEF row, CacheInv
  <1>4. CacheTyped' /\ VictimIsAModel' /\ MarkedIsWhole'
    BY <1>3 DEF CacheInv, CacheTyped, VictimIsAModel, MarkedIsWhole, Standing, Sure, Deleting, Resolve
  <1>5. Wanted' /\ OneInside' /\ NotMarkedYet' /\ Awaited' /\ UsedIsMarked'
    BY <1>0, <1>3 DEF CacheInv, Wanted, OneInside, NotMarkedYet, Awaited, UsedIsMarked,
       Inside, Into, Sure, OthersStay, Resolve
  <1>6. Undisturbed'
    BY <1>3 DEF CacheInv, Undisturbed, Inside, Sure, Deleting, OthersStay, Resolve
  <1>7. QED
    BY <1>4, <1>5, <1>6 DEF CacheInv

\* Under the lock nobody else is inside; a marker that no file goes with is of a model of which
\* nothing is claimed; and a deletion under way makes the model one.
LEMMA LookKeeps ==
  ASSUME CacheInv, NEW t \in Threads, Look(t), NEW r \in Refs, r = resolver[t].ref
  PROVE  CacheInv'
  <1>1. r \in Refs /\ need[r] # "done" /\ resolver[t].pc = "lock" /\ resolver[t] \in ThreadRow
    BY DEF Look, CacheInv, Wanted, CacheTyped
  <1>2. \A u \in Threads : Inside(u) => resolver[u].ref # r
    BY <1>1 DEF Look, LockedBy, Inside
  <1>3. /\ UNCHANGED <<kind, partial, need, cleaner, torn>>
        /\ raced' = raced \cup {x \in {r} : Deleting(x)}
    BY DEF Look
  <1>4. /\ \A x \in Refs : Sure(x)' => Sure(x)
        /\ Sure(r)' => ~Deleting(r)
    BY <1>1, <1>3 DEF Sure
  <1>5. Sure(r)' /\ dir[r].marker => dir[r].files = Files
    BY <1>1, <1>4 DEF CacheInv, MarkedIsWhole, Standing
  <1>6. CASE dir[r].marker /\ Loadable(dir[r])
    <2>1. To(t, "using") /\ UNCHANGED dir
      BY <1>6 DEF Look
    <2>2. /\ resolver' \in [Threads -> ThreadRow] /\ OthersStay(t)
          /\ resolver'[t].pc = "using" /\ resolver'[t].ref = r
      BY <2>1, ToMoves DEF CacheInv, Pcs
    <2>3. CacheTyped' /\ VictimIsAModel' /\ MarkedIsWhole'
      BY <1>1, <1>3, <1>4, <2>1, <2>2
      DEF CacheInv, CacheTyped, VictimIsAModel, MarkedIsWhole, Standing, Deleting
    <2>4. Wanted' /\ OneInside' /\ NotMarkedYet'
      BY <1>1, <1>3, <2>1, <2>2 DEF CacheInv, Wanted, OneInside, NotMarkedYet, Inside, OthersStay
    <2>5. Awaited' /\ UsedIsMarked'
      BY <1>1, <1>3, <1>4, <1>6, <2>1, <2>2
      DEF CacheInv, Wanted, Awaited, UsedIsMarked, Inside, Into, OthersStay
    <2>6. Undisturbed'
      BY <1>1, <1>3, <1>4, <2>1, <2>2 DEF CacheInv, Undisturbed, Inside, Deleting, OthersStay
    <2>7. QED
      BY <2>3, <2>4, <2>5, <2>6 DEF CacheInv
  <1>7. CASE ~(dir[r].marker /\ Loadable(dir[r]))
    <2> DEFINE todo == Pending(r)
               pc == IF todo = {} THEN "settle" ELSE "slot"
               row == [resolver[t] EXCEPT !.pc = pc, !.todo = todo]
    <2>1. /\ resolver' = [resolver EXCEPT ![t] = row]
          /\ dir' = [dir EXCEPT ![r] = IF @.marker THEN Empty ELSE @]
      BY <1>7 DEF Look
    <2>2. todo \in SUBSET Files /\ pc \in {"slot", "settle"} /\ (pc = "settle" => todo = {})
      BY DEF Pending
    <2>3. row \in ThreadRow /\ row.pc = pc /\ row.ref = r /\ row.todo = todo
      BY <1>1, <2>2 DEF ThreadRow, Pcs
    <2> HIDE DEF row, pc
    <2>4. /\ resolver' \in [Threads -> ThreadRow] /\ OthersStay(t)
          /\ resolver'[t].pc = pc /\ resolver'[t].ref = r /\ resolver'[t].todo = todo
      BY <2>1, <2>3, ThreadMoves DEF CacheInv
    <2>5. /\ dir' \in [Refs -> DirRow] /\ ~dir'[r].marker
          /\ \A x \in Refs \ {r} : dir'[x] = dir[x]
          /\ dir[r].marker \/ dir'[r] = dir[r]
      BY <1>1, <2>1, DirRows DEF CacheInv, CacheTyped
    <2>6. Files \ Into(r)' \subseteq todo
      BY <1>1, <1>3, <2>5 DEF Pending, Into, CacheInv, CacheTyped
    <2> HIDE DEF todo
    <2>7. CacheTyped' /\ VictimIsAModel' /\ MarkedIsWhole'
      BY <1>1, <1>3, <1>4, <2>4, <2>5
      DEF CacheInv, CacheTyped, VictimIsAModel, MarkedIsWhole, Standing, Deleting
    <2>8. Wanted' /\ OneInside' /\ NotMarkedYet'
      BY <1>1, <1>2, <1>3, <2>4, <2>5, <2>2
      DEF CacheInv, Wanted, OneInside, NotMarkedYet, Inside, OthersStay
    <2>9. Awaited'
      BY <1>1, <1>2, <1>3, <1>4, <2>2, <2>4, <2>5, <2>6 DEF CacheInv, Wanted, Awaited, Inside, Into, OthersStay
    <2>10. ASSUME NEW u \in Threads, resolver'[u].pc = "using",
                  NEW x \in Refs, x = resolver'[u].ref, Sure(x)'
           PROVE  dir'[x].marker
      <3>1. u # t /\ resolver'[u] = resolver[u]
        BY <2>2, <2>4, <2>10 DEF OthersStay
      <3>2. dir[x].marker
        BY <1>4, <2>10, <3>1 DEF CacheInv, UsedIsMarked, Wanted
      <3>3. x # r
        BY <1>5, <1>7, <2>10, <3>1, <3>2, CacheAssumption DEF Loadable
      <3>4. QED
        BY <2>5, <3>1, <3>2, <3>3
    <2>11. Undisturbed'
      BY <1>1, <1>3, <1>4, <2>4, <2>5 DEF CacheInv, Undisturbed, Inside, Deleting, OthersStay
    <2>12. UsedIsMarked'
      BY <2>8, <2>10 DEF Wanted, UsedIsMarked
    <2>13. QED
      BY <2>7, <2>8, <2>9, <2>11, <2>12 DEF CacheInv
  <1>8. QED
    BY <1>6, <1>7

LEMMA TakeSlotKeeps ==
  ASSUME CacheInv, NEW t \in Threads, TakeSlot(t)
  PROVE  CacheInv'
  <1>1. /\ resolver' \in [Threads -> ThreadRow] /\ OthersStay(t) /\ resolver[t].pc = "slot"
        /\ resolver'[t].pc = "fetch" /\ resolver'[t].ref = resolver[t].ref
        /\ resolver'[t].todo = resolver[t].todo
    BY ToMoves DEF TakeSlot, CacheInv, Pcs
  <1>2. QED
    BY <1>1, ThreadKeeps DEF TakeSlot, Inside

LEMMA FetchFileKeeps ==
  ASSUME CacheInv, NEW t \in Threads, FetchFile(t), NEW r \in Refs, r = resolver[t].ref
  PROVE  CacheInv'
  <1>1. r \in Refs /\ resolver[t].pc = "fetch" /\ ~dir[r].marker /\ resolver[t] \in ThreadRow
    BY DEF FetchFile, CacheInv, Wanted, NotMarkedYet, Inside, CacheTyped
  <1>2. PICK f \in resolver[t].todo :
          /\ resolver' = [resolver EXCEPT ![t].todo = @ \ {f}, ![t].wrote = @ \/ (kind[r] = "s3" \/ f \notin Into(r)),
                                          ![t].progressed = @ \/ (kind[r] = "s3" \/ f \notin Into(r))]
          /\ IF kind[r] = "s3" THEN dir' = [dir EXCEPT ![r].files = @ \cup {f}] /\ UNCHANGED partial
             ELSE partial' = [partial EXCEPT ![r] = @ \cup {f}] /\ UNCHANGED dir
    BY DEF FetchFile
  <1>3. f \in Files
    BY <1>1, <1>2 DEF ThreadRow
  <1>4. /\ resolver' \in [Threads -> ThreadRow] /\ OthersStay(t)
        /\ resolver'[t].pc = "fetch" /\ resolver'[t].ref = r /\ resolver'[t].todo = resolver[t].todo \ {f}
    <2> DEFINE new == kind[r] = "s3" \/ f \notin Into(r)
               row == [resolver[t] EXCEPT !.todo = @ \ {f}, !.wrote = @ \/ new, !.progressed = @ \/ new]
    <2>1. resolver' = [resolver EXCEPT ![t] = row]
      BY <1>2
    <2>2. new \in BOOLEAN
      OBVIOUS
    <2> HIDE DEF new
    <2>3. row \in ThreadRow /\ row.pc = "fetch" /\ row.ref = r /\ row.todo = resolver[t].todo \ {f}
      BY <1>1, <2>2 DEF ThreadRow
    <2> HIDE DEF row
    <2>4. QED
      BY <2>1, <2>3, ThreadMoves DEF CacheInv
  <1>5. /\ dir' \in [Refs -> DirRow] /\ partial' \in [Refs -> SUBSET Files]
        /\ ~dir'[r].marker
        /\ \A x \in Refs \ {r} : dir'[x] = dir[x] /\ partial'[x] = partial[x]
        /\ Into(r) \cup {f} \subseteq (IF kind[r] = "s3" THEN dir'[r].files ELSE partial'[r])
    <2>1. CASE kind[r] = "s3"
      <3>1. dir' = [dir EXCEPT ![r] = [dir[r] EXCEPT !.files = @ \cup {f}]] /\ UNCHANGED partial
        BY <1>2, <2>1
      <3>2. dir[r] \in DirRow
        BY <1>1 DEF CacheInv, CacheTyped
      <3>3. /\ [dir[r] EXCEPT !.files = @ \cup {f}] \in DirRow
            /\ [dir[r] EXCEPT !.files = @ \cup {f}].marker = dir[r].marker
            /\ [dir[r] EXCEPT !.files = @ \cup {f}].files = dir[r].files \cup {f}
        BY <1>3, <3>2 DEF DirRow
      <3>4. QED
        BY <1>1, <2>1, <3>1, <3>3 DEF CacheInv, CacheTyped, Into
    <2>2. CASE kind[r] # "s3"
      BY <1>1, <1>2, <1>3, <2>2 DEF CacheInv, CacheTyped, Into
    <2>3. QED
      BY <2>1, <2>2
  <1>6. UNCHANGED <<kind, need, cleaner, torn, raced>>
    BY DEF FetchFile
  <1>7. CacheTyped' /\ VictimIsAModel' /\ Wanted' /\ OneInside' /\ NotMarkedYet'
    BY <1>1, <1>4, <1>5, <1>6
    DEF CacheInv, CacheTyped, VictimIsAModel, Wanted, OneInside, NotMarkedYet, Inside, OthersStay
  <1>8. ASSUME NEW u \in Threads, Inside(u)', NEW x \in Refs, x = resolver'[u].ref, Sure(x)'
        PROVE  /\ Files \ Into(x)' \subseteq resolver'[u].todo
               /\ resolver'[u].pc = "settle" => resolver'[u].todo = {}
    <2>1. CASE u = t
      BY <1>1, <1>4, <1>5, <1>6, <1>8, <2>1 DEF CacheInv, Awaited, Inside, Into, Sure
    <2>2. CASE u # t
      <3>1. resolver'[u] = resolver[u] /\ Inside(u) /\ x \in Refs \ {r}
        BY <1>1, <1>4, <1>8, <2>2 DEF CacheInv, Wanted, OneInside, Inside, OthersStay
      <3>2. QED
        BY <1>5, <1>6, <1>8, <3>1 DEF CacheInv, Awaited, Into, Sure
    <2>3. QED
      BY <2>1, <2>2
  <1>9. MarkedIsWhole' /\ UsedIsMarked'
    BY <1>1, <1>4, <1>5, <1>6
    DEF CacheInv, Wanted, MarkedIsWhole, UsedIsMarked, Standing, Sure, Deleting, OthersStay
  <1>10. Undisturbed'
    BY <1>1, <1>4, <1>5, <1>6 DEF CacheInv, Undisturbed, Inside, Sure, Deleting, OthersStay
  <1>11. Awaited'
    BY <1>7, <1>8 DEF Awaited, Wanted, Inside
  <1>12. QED
    BY <1>7, <1>9, <1>10, <1>11 DEF CacheInv

LEMMA FetchEndsKeeps ==
  ASSUME CacheInv, NEW t \in Threads, FetchEnds(t)
  PROVE  CacheInv'
  <1>1. /\ resolver' \in [Threads -> ThreadRow] /\ OthersStay(t) /\ resolver[t].pc = "fetch"
        /\ resolver'[t].pc = "settle" /\ resolver'[t].ref = resolver[t].ref
        /\ resolver'[t].todo = resolver[t].todo /\ resolver[t].todo = {}
    BY ToMoves DEF FetchEnds, Fetched, CacheInv, Pcs
  <1>2. QED
    BY <1>1, ThreadKeeps DEF FetchEnds, Inside

LEMMA FetchFailsKeeps ==
  ASSUME CacheInv, NEW t \in Threads, FetchFails(t)
  PROVE  CacheInv'
  BY RaiseMoves, ThreadKeeps DEF FetchFails, CacheInv

LEMMA DigestFailsKeeps ==
  ASSUME CacheInv, NEW t \in Threads, DigestFails(t), NEW r \in Refs, r = resolver[t].ref
  PROVE  CacheInv'
  <1>1. r \in Refs /\ resolver[t].pc = "fetch" /\ ~dir[r].marker
    BY DEF DigestFails, CacheInv, Wanted, NotMarkedYet, Inside
  <1>2. resolver' \in [Threads -> ThreadRow] /\ OthersStay(t) /\ resolver'[t].pc = "idle"
    BY RaiseMoves DEF DigestFails, CacheInv
  <1>3. UNCHANGED <<kind, partial, need, cleaner, torn, raced>>
    BY DEF DigestFails
  <1>4. /\ dir' \in [Refs -> DirRow] /\ ~dir'[r].marker
        /\ \A x \in Refs \ {r} : dir'[x] = dir[x]
    BY <1>1, DirRows DEF DigestFails, CacheInv, CacheTyped
  <1>5. CacheTyped' /\ VictimIsAModel' /\ Wanted' /\ OneInside' /\ NotMarkedYet'
    BY <1>1, <1>2, <1>3, <1>4
    DEF CacheInv, CacheTyped, VictimIsAModel, Wanted, OneInside, NotMarkedYet, Inside, OthersStay
  <1>6. \A u \in Threads \ {t} : Inside(u) => resolver[u].ref \in Refs \ {r}
    BY <1>1 DEF CacheInv, Wanted, OneInside, Inside
  <1>7. Awaited'
    BY <1>2, <1>3, <1>4, <1>6 DEF CacheInv, Awaited, Inside, Into, Sure, OthersStay
  <1>8. MarkedIsWhole' /\ UsedIsMarked'
    BY <1>1, <1>2, <1>3, <1>4
    DEF CacheInv, Wanted, MarkedIsWhole, UsedIsMarked, Standing, Sure, Deleting, OthersStay
  <1>9. Undisturbed'
    BY <1>1, <1>2, <1>3, <1>4 DEF CacheInv, Undisturbed, Inside, Sure, Deleting, OthersStay
  <1>10. QED
    BY <1>5, <1>7, <1>8, <1>9 DEF CacheInv

LEMMA StallKeeps ==
  ASSUME CacheInv, NEW t \in Threads, Stall(t)
  PROVE  CacheInv'
  <1>1. /\ resolver[t].pc = "fetch" /\ resolver[t] \in ThreadRow
        /\ UNCHANGED <<kind, dir, partial, need, cleaner, torn, raced>>
    BY DEF Stall, CacheInv, CacheTyped
  <1> DEFINE n == Fruitless(resolver[t])
             row == [resolver[t] EXCEPT !.fruitless = n, !.progressed = FALSE, !.todo = Files]
  <1>2. n \in Nat /\ StallRetries \in Nat
    BY <1>1, CacheAssumption DEF Fruitless, ThreadRow
  <1>3. CASE n >= StallRetries
    BY <1>1, <1>3, RaiseMoves, ThreadKeeps DEF CacheInv, Stall
  <1>4. CASE n < StallRetries
    <2>1. n \in 0..StallRetries /\ ~(n >= StallRetries)
      BY <1>2, <1>4
    <2>2. resolver' = [resolver EXCEPT ![t] = row]
      BY <2>1 DEF Stall
    <2>3. row \in ThreadRow /\ row.pc = "fetch" /\ row.ref = resolver[t].ref /\ row.todo = Files
      BY <1>1, <2>1 DEF ThreadRow
    <2> HIDE DEF row
    <2>4. resolver' \in [Threads -> ThreadRow] /\ OthersStay(t) /\ resolver'[t] = row
      BY <2>2, <2>3, ThreadMoves DEF CacheInv
    <2>5. QED
      BY <1>1, <2>3, <2>4, ThreadKeeps DEF Inside
  <1>5. QED
    BY <1>2, <1>3, <1>4

\* Without a race every file came, the marker goes beside all of them, and the daemon is
\* elsewhere.
LEMMA SettleKeeps ==
  ASSUME CacheInv, NEW t \in Threads, Settle(t), NEW r \in Refs, r = resolver[t].ref
  PROVE  CacheInv'
  <1>1. /\ resolver[t].pc = "settle" /\ ~dir[r].marker
        /\ UNCHANGED <<kind, need, torn, raced>>
        /\ Sure(r) => Files \subseteq Into(r) /\ ~Deleting(r)
    BY DEF Settle, CacheInv, NotMarkedYet, Awaited, Undisturbed, Inside
  <1>2. CASE Raise(t) /\ UNCHANGED <<dir, partial, cleaner>>
    BY <1>1, <1>2, RaiseMoves, ThreadKeeps DEF CacheInv
  <1>3. CASE /\ To(t, "using")
             /\ dir' = [dir EXCEPT ![r] = [files |-> Into(r), marker |-> TRUE]]
             /\ partial' = [partial EXCEPT ![r] = {}]
             /\ cleaner' = IF Deleting(r) THEN [cleaner EXCEPT !.place = "dir"] ELSE cleaner
    <2>1. /\ resolver' \in [Threads -> ThreadRow] /\ OthersStay(t)
          /\ resolver'[t].pc = "using" /\ resolver'[t].ref = r
      BY <1>3, ToMoves DEF CacheInv, Pcs
    <2>2. Into(r) \in SUBSET Files
      BY DEF Into, CacheInv, CacheTyped, DirRow
    <2> DEFINE row == [files |-> Into(r), marker |-> TRUE]
    <2>3. row \in DirRow /\ row.marker /\ row.files = Into(r)
      BY <2>2 DEF DirRow
    <2> HIDE DEF row
    <2>4. /\ dir' \in [Refs -> DirRow] /\ partial' \in [Refs -> SUBSET Files] /\ dir'[r].marker
          /\ Sure(r) => dir'[r].files = Files
          /\ \A x \in Refs \ {r} : dir'[x] = dir[x] /\ partial'[x] = partial[x]
      BY <1>1, <1>3, <2>2, <2>3 DEF CacheInv, CacheTyped, row
    <2>5. /\ cleaner' \in CleanerRow /\ cleaner'.pc = cleaner.pc /\ cleaner'.victim = cleaner.victim
          /\ cleaner'.left = cleaner.left
          /\ \A x \in Refs : Sure(x) /\ Deleting(x) => cleaner' = cleaner
          /\ cleaner' = cleaner \/ cleaner'.place = "dir"
      BY <1>1, <1>3 DEF CacheInv, CacheTyped, CleanerRow, Deleting
    <2>6. CacheTyped' /\ VictimIsAModel'
      BY <1>1, <2>1, <2>4, <2>5 DEF CacheInv, CacheTyped, VictimIsAModel
    <2>7. \A u \in Threads \ {t} : Inside(u) => resolver[u].ref \in Refs \ {r}
      BY <1>1 DEF CacheInv, Wanted, OneInside, Inside
    <2>8. Wanted' /\ OneInside' /\ NotMarkedYet'
      BY <1>1, <2>1, <2>4, <2>7 DEF CacheInv, Wanted, OneInside, NotMarkedYet, Inside, OthersStay
    <2>9. Awaited'
      BY <1>1, <2>1, <2>4, <2>7 DEF CacheInv, Awaited, Inside, Into, Sure, OthersStay
    <2>10. UsedIsMarked' /\ MarkedIsWhole'
      <3>1. UsedIsMarked'
        BY <1>1, <2>1, <2>4, <2>8 DEF CacheInv, Wanted, UsedIsMarked, Sure, OthersStay
      <3>2. ASSUME NEW x \in Refs, Standing(x)', dir'[x].marker PROVE dir'[x].files = Files
        <4>1. CASE x = r
          BY <1>1, <2>4, <3>2, <4>1 DEF Standing, Sure
        <4>2. CASE x # r
          <5>1. Sure(x) /\ dir'[x] = dir[x]
            BY <1>1, <2>4, <3>2, <4>2 DEF Standing, Sure
          <5>2. Standing(x)
            BY <2>5, <3>2, <5>1 DEF Standing, Deleting
          <5>3. QED
            BY <3>2, <5>1, <5>2 DEF CacheInv, MarkedIsWhole
        <4>3. QED
          BY <4>1, <4>2
      <3>3. QED
        BY <3>1, <3>2 DEF MarkedIsWhole
    <2>11. Undisturbed'
      <3>1. ASSUME NEW x \in Refs, Sure(x)', Deleting(x)'
            PROVE  x # r /\ Sure(x) /\ Deleting(x) /\ cleaner' = cleaner /\ dir'[x] = dir[x]
        <4>1. Sure(x) /\ Deleting(x)
          BY <1>1, <2>5, <3>1 DEF Sure, Deleting
        <4>2. QED
          BY <1>1, <2>4, <2>5, <4>1
      <3>2. QED
        BY <2>1, <3>1 DEF CacheInv, Undisturbed, Inside, OthersStay
    <2>12. QED
      BY <2>6, <2>8, <2>9, <2>10, <2>11 DEF CacheInv
  <1>4. QED
    BY <1>2, <1>3 DEF Settle

LEMMA ReleaseKeeps ==
  ASSUME CacheInv, NEW t \in Threads, Release(t)
  PROVE  CacheInv'
  BY RaiseMoves, ThreadKeeps DEF Release, CacheInv

LEMMA WorkerCrashKeeps ==
  ASSUME CacheInv, WorkerCrash
  PROVE  CacheInv'
  <1>1. /\ resolver' = [t \in Threads |-> Idle]
        /\ UNCHANGED <<kind, dir, partial, need, cleaner, torn, raced>>
    BY DEF WorkerCrash
  <1>2. resolver' \in [Threads -> ThreadRow] /\ \A t \in Threads : resolver'[t].pc = "idle"
    BY <1>1, IdleIsARow
  <1>3. CacheTyped' /\ VictimIsAModel' /\ MarkedIsWhole'
    BY <1>1, <1>2 DEF CacheInv, CacheTyped, VictimIsAModel, MarkedIsWhole, Standing, Sure, Deleting
  <1>4. Wanted' /\ OneInside' /\ NotMarkedYet' /\ Awaited' /\ UsedIsMarked'
    BY <1>2 DEF Wanted, OneInside, NotMarkedYet, Awaited, UsedIsMarked, Inside
  <1>5. Undisturbed'
    BY <1>1, <1>2 DEF CacheInv, Undisturbed, Inside, Sure, Deleting
  <1>6. QED
    BY <1>3, <1>4, <1>5 DEF CacheInv

----------------------------------------------------------------------------
(* The cleaner and the database. *)

\* A step of the cleaner that takes no file keeps the invariant: it has no directory at hand
\* afterwards, and forgot none that it left marked in part; or it turns to one.
LEMMA CleanerKeeps ==
  ASSUME CacheInv, UNCHANGED <<kind, dir, partial, resolver, need>>, cleaner' \in CleanerRow,
         torn' \cup raced' \subseteq Refs, torn \subseteq torn', raced \subseteq raced',
         VictimIsAModel', Undisturbed',
         \A r \in Refs : Sure(r)' /\ Deleting(r) /\ cleaner.place = "dir" => ~dir[r].marker
  PROVE  CacheInv'
  <1>1. \A r \in Refs : Sure(r)' => Sure(r)
    BY DEF Sure
  <1>2. CacheTyped' /\ Wanted' /\ OneInside' /\ NotMarkedYet'
    BY DEF CacheInv, CacheTyped, Wanted, OneInside, NotMarkedYet, Inside
  <1>3. Awaited' /\ UsedIsMarked'
    BY <1>1 DEF CacheInv, Wanted, Awaited, UsedIsMarked, Inside, Into
  <1>4. MarkedIsWhole'
    BY <1>1 DEF CacheInv, MarkedIsWhole, Standing
  <1>5. QED
    BY <1>2, <1>3, <1>4 DEF CacheInv

LEMMA SnapshotKeeps ==
  ASSUME CacheInv, Snapshot
  PROVE  CacheInv'
  <1>1. cleaner' = [Resting EXCEPT !.pc = "scan", !.kept = Kept]
    BY DEF Snapshot
  <1>2. cleaner' \in CleanerRow /\ cleaner'.pc = "scan"
    BY <1>1, CacheAssumption DEF CleanerRow, Resting, Kept, Empty, DirRow
  <1>3. UNCHANGED <<kind, dir, partial, resolver, need, torn, raced>> /\ cleaner.pc = "sleep"
    BY DEF Snapshot
  <1>4. VictimIsAModel' /\ Undisturbed'
    BY <1>2 DEF VictimIsAModel, Undisturbed, Deleting
  <1>5. QED
    BY <1>2, <1>3, <1>4, CleanerKeeps DEF CacheInv, CacheTyped, Deleting

LEMMA RestingIsARow == Resting \in CleanerRow /\ Resting.pc = "sleep"
  BY DEF Resting, CleanerRow, Empty, DirRow

LEMMA DeletesARow ==
  ASSUME CacheInv, NEW r \in Refs, NEW place \in {"dir", "partial"}, NEW listing \in DirRow,
         Deletes(r, place, listing)
  PROVE  /\ cleaner' \in CleanerRow /\ cleaner'.pc = "delete" /\ cleaner'.victim = r
         /\ cleaner'.place = place /\ cleaner'.left = listing
  BY DEF Deletes, CacheInv, CacheTyped, CleanerRow

\* What nobody needed at the snapshot, and nobody needs now, no thread is at.
LEMMA DecideKeeps ==
  ASSUME CacheInv, Decide
  PROVE  CacheInv'
  <1>1. UNCHANGED <<kind, dir, partial, resolver, need, torn>> /\ cleaner.pc = "scan"
    BY DEF Decide
  <1>2. CASE cleaner' = Resting /\ UNCHANGED raced
    <2>1. cleaner' \in CleanerRow /\ cleaner'.pc = "sleep"
      BY <1>2, RestingIsARow
    <2>2. VictimIsAModel' /\ Undisturbed'
      BY <2>1 DEF VictimIsAModel, Undisturbed, Deleting
    <2>3. QED
      BY <1>1, <1>2, <2>1, <2>2, CleanerKeeps DEF CacheInv, CacheTyped, Deleting
  <1>3. ASSUME NEW r \in Refs, Deletes(r, "dir", dir[r]), raced' = raced \cup ({r} \cap Kept)
        PROVE  CacheInv'
    <2>1. dir[r] \in DirRow
      BY DEF CacheInv, CacheTyped
    <2>2. /\ cleaner' \in CleanerRow /\ cleaner'.pc = "delete" /\ cleaner'.victim = r
          /\ cleaner'.place = "dir" /\ cleaner'.left = dir[r]
      BY <1>3, <2>1, DeletesARow
    <2>3. Sure(r)' => \A t \in Threads : resolver[t].ref = r => resolver[t].pc = "idle"
      BY <1>3 DEF CacheInv, Wanted, Sure, Kept
    <2>4. VictimIsAModel' /\ Undisturbed'
      BY <1>1, <2>2, <2>3 DEF VictimIsAModel, Undisturbed, Deleting, Inside
    <2>5. QED
      BY <1>1, <1>3, <2>2, <2>4, CleanerKeeps DEF CacheInv, CacheTyped, Deleting
  <1>4. QED
    BY <1>2, <1>3 DEF Decide

LEMMA AbandonKeeps ==
  ASSUME CacheInv, NEW r \in Refs, Abandon(r)
  PROVE  CacheInv'
  <1>1. /\ UNCHANGED <<kind, dir, partial, resolver, need, torn>> /\ cleaner.pc = "scan"
        /\ raced' = raced \cup {x \in {r} : LockedBy(x) # {}}
    BY DEF Abandon
  <1>2. Sure(r)' => Sure(r) /\ \A t \in Threads : resolver[t].ref = r => ~Inside(t)
    BY <1>1 DEF Sure, LockedBy, Inside
  <1>3. PICK place \in {"dir", "partial"}, listing \in DirRow :
          /\ Deletes(r, place, listing)
          /\ listing.marker => place = "dir"
          /\ place = "dir" => listing = dir[r] /\ ~dir[r].marker
    <2>1. CASE Deletes(r, "partial", [files |-> partial[r], marker |-> FALSE])
      <3>1. partial[r] \in SUBSET Files
        BY DEF CacheInv, CacheTyped
      <3>2. [files |-> partial[r], marker |-> FALSE] \in DirRow
        BY <3>1 DEF DirRow
      <3>3. QED
        BY <2>1, <3>2
    <2>2. CASE ~dir[r].marker /\ Deletes(r, "dir", dir[r])
      <3>1. dir[r] \in DirRow
        BY DEF CacheInv, CacheTyped
      <3>2. QED
        BY <2>2, <3>1
    <2>3. QED
      BY <2>1, <2>2 DEF Abandon
  <1>4. /\ cleaner' \in CleanerRow /\ cleaner'.pc = "delete" /\ cleaner'.victim = r
        /\ cleaner'.place = place /\ cleaner'.left = listing
    BY <1>3, DeletesARow
  <1>5. Sure(r)' /\ place = "dir" => \A t \in Threads : resolver[t].ref = r => resolver[t].pc # "using"
    BY <1>2, <1>3 DEF CacheInv, UsedIsMarked
  <1>6. VictimIsAModel' /\ Undisturbed'
    BY <1>1, <1>2, <1>3, <1>4, <1>5 DEF VictimIsAModel, Undisturbed, Deleting, Inside
  <1>7. QED
    BY <1>1, <1>4, <1>6, CleanerKeeps DEF CacheInv, CacheTyped, Deleting

\* Files are taken from a model that nobody is at, or that nothing is claimed of.
LEMMA DeleteEntryKeeps ==
  ASSUME CacheInv, DeleteEntry
  PROVE  CacheInv'
  <1>1. PICK r \in Refs : r = cleaner.victim
    BY DEF DeleteEntry, CacheInv, VictimIsAModel
  <1>2. UNCHANGED <<kind, resolver, need, torn, raced>> /\ cleaner.pc = "delete"
    BY DEF DeleteEntry
  <1> DEFINE Took ==
             /\ dir' \in [Refs -> DirRow] /\ partial' \in [Refs -> SUBSET Files] /\ cleaner' \in CleanerRow
             /\ \A x \in Refs \ {r} : dir'[x] = dir[x] /\ partial'[x] = partial[x]
             /\ cleaner'.pc = "delete" /\ cleaner'.victim = r /\ cleaner'.place = cleaner.place
             /\ cleaner'.left.marker => cleaner.left.marker
             /\ dir'[r].marker => dir[r].marker
             /\ dir'[r].marker /\ cleaner.left.marker => cleaner'.left.marker
             /\ cleaner.place = "partial" => dir'[r] = dir[r]
  <1>3. Took
    <2>1. ASSUME NEW f \in cleaner.left.files,
                 cleaner' = [cleaner EXCEPT !.left.files = @ \ {f}],
                 IF cleaner.place = "dir" THEN dir' = [dir EXCEPT ![r].files = @ \ {f}] /\ UNCHANGED partial
                 ELSE partial' = [partial EXCEPT ![r] = @ \ {f}] /\ UNCHANGED dir
          PROVE  Took
      <3>1. /\ cleaner' \in CleanerRow /\ cleaner'.pc = "delete" /\ cleaner'.victim = r
            /\ cleaner'.place = cleaner.place /\ cleaner'.left.marker = cleaner.left.marker
        BY <1>1, <1>2, <2>1 DEF CacheInv, CacheTyped, CleanerRow, DirRow
      <3>2. CASE cleaner.place = "dir"
        <4> DEFINE row == [dir[r] EXCEPT !.files = @ \ {f}]
        <4>1. dir' = [dir EXCEPT ![r] = row] /\ UNCHANGED partial
          BY <2>1, <3>2
        <4>2. row \in DirRow /\ row.marker = dir[r].marker
          BY DEF CacheInv, CacheTyped, DirRow
        <4> HIDE DEF row
        <4>3. QED
          BY <3>1, <3>2, <4>1, <4>2 DEF CacheInv, CacheTyped
      <3>3. CASE cleaner.place # "dir"
        BY <2>1, <3>1, <3>3 DEF CacheInv, CacheTyped
      <3>4. QED
        BY <3>2, <3>3
    <2>2. ASSUME cleaner.left.marker, cleaner' = [cleaner EXCEPT !.left.marker = FALSE],
                 dir' = [dir EXCEPT ![r].marker = FALSE], UNCHANGED partial
          PROVE  Took
      <3>1. /\ cleaner' \in CleanerRow /\ cleaner'.pc = "delete" /\ cleaner'.victim = r
            /\ cleaner'.place = cleaner.place /\ ~cleaner'.left.marker
        BY <1>1, <1>2, <2>2 DEF CacheInv, CacheTyped, CleanerRow, DirRow
      <3>2. cleaner.place = "dir"
        BY <1>2, <2>2 DEF CacheInv, VictimIsAModel
      <3> DEFINE row == [dir[r] EXCEPT !.marker = FALSE]
      <3>3. dir' = [dir EXCEPT ![r] = row]
        BY <2>2
      <3>4. row \in DirRow /\ row.marker = FALSE
        BY DEF CacheInv, CacheTyped, DirRow
      <3> HIDE DEF row
      <3>5. /\ dir' \in [Refs -> DirRow] /\ dir'[r].marker = FALSE
            /\ \A x \in Refs \ {r} : dir'[x] = dir[x]
        BY <3>3, <3>4 DEF CacheInv, CacheTyped
      <3>6. partial' \in [Refs -> SUBSET Files] /\ \A x \in Refs \ {r} : partial'[x] = partial[x]
        BY <2>2 DEF CacheInv, CacheTyped
      <3>7. QED
        BY <2>2, <3>1, <3>2, <3>5, <3>6
    <2>3. \/ \E f \in cleaner.left.files :
              /\ cleaner' = [cleaner EXCEPT !.left.files = @ \ {f}]
              /\ IF cleaner.place = "dir" THEN dir' = [dir EXCEPT ![r].files = @ \ {f}] /\ UNCHANGED partial
                 ELSE partial' = [partial EXCEPT ![r] = @ \ {f}] /\ UNCHANGED dir
          \/ /\ cleaner.left.marker /\ cleaner' = [cleaner EXCEPT !.left.marker = FALSE]
             /\ dir' = [dir EXCEPT ![r].marker = FALSE] /\ UNCHANGED partial
      BY <1>1 DEF DeleteEntry
    <2>4. CASE /\ cleaner.left.marker /\ cleaner' = [cleaner EXCEPT !.left.marker = FALSE]
               /\ dir' = [dir EXCEPT ![r].marker = FALSE] /\ UNCHANGED partial
      BY <2>2, <2>4
    <2>5. QED
      BY <2>1, <2>3, <2>4
  <1>4. Deleting(r) /\ Deleting(r)' /\ \A x \in Refs : Deleting(x)' => x = r
    BY <1>1, <1>2, <1>3 DEF Deleting
  <1>5. CacheTyped' /\ Wanted' /\ OneInside' /\ NotMarkedYet' /\ VictimIsAModel'
    BY <1>1, <1>2, <1>3
    DEF CacheInv, CacheTyped, Wanted, OneInside, NotMarkedYet, VictimIsAModel, Inside
  <1>6. Awaited'
    BY <1>2, <1>3, <1>4 DEF CacheInv, Wanted, Awaited, Undisturbed, Inside, Into, Sure
  <1>7. Undisturbed'
    BY <1>2, <1>3, <1>4 DEF CacheInv, Undisturbed, Inside, Sure
  <1>8. MarkedIsWhole'
    BY <1>2, <1>3, <1>4 DEF CacheInv, MarkedIsWhole, Standing, Sure, Deleting, CacheTyped, CleanerRow
  <1>9. UsedIsMarked'
    BY <1>2, <1>3, <1>4 DEF CacheInv, Wanted, UsedIsMarked, Undisturbed, Sure, CacheTyped, CleanerRow
  <1>10. QED
    BY <1>5, <1>6, <1>7, <1>8, <1>9 DEF CacheInv

LEMMA DeletedKeeps ==
  ASSUME CacheInv, Deleted
  PROVE  CacheInv'
  <1>1. /\ UNCHANGED <<kind, dir, partial, resolver, need, torn, raced>>
        /\ cleaner.pc = "delete" /\ cleaner.left = Empty /\ cleaner' = Scanning
    BY DEF Deleted
  <1>2. cleaner' \in CleanerRow /\ cleaner'.pc = "scan" /\ ~cleaner.left.marker
    <2>1. Empty \in DirRow /\ Empty.marker = FALSE
      BY DEF Empty, DirRow
    <2>2. cleaner \in CleanerRow
      BY DEF CacheInv, CacheTyped
    <2>3. cleaner' \in CleanerRow /\ cleaner'.pc = "scan"
      BY <1>1, <2>1, <2>2 DEF CleanerRow, Scanning
    <2>4. QED
      BY <1>1, <2>1, <2>3
  <1>3. VictimIsAModel' /\ Undisturbed'
    BY <1>2 DEF VictimIsAModel, Undisturbed, Deleting
  <1>4. \A r \in Refs : Sure(r) /\ Deleting(r) /\ cleaner.place = "dir" => ~dir[r].marker
    BY <1>2 DEF CacheInv, Undisturbed
  <1>5. \A r \in Refs : Sure(r)' => Sure(r)
    BY <1>1 DEF Sure
  <1>6. QED
    BY <1>1, <1>2, <1>3, <1>4, <1>5, CleanerKeeps DEF CacheInv, CacheTyped

LEMMA TearKeeps ==
  ASSUME CacheInv, Tear
  PROVE  CacheInv'
  <1>1. /\ UNCHANGED <<kind, dir, partial, resolver, need, raced>>
        /\ cleaner.pc = "delete" /\ cleaner' = Resting
        /\ torn' = torn \cup {r \in {cleaner.victim} : dir[r].marker}
    BY DEF Tear
  <1>2. cleaner' \in CleanerRow /\ cleaner'.pc = "sleep"
    BY <1>1, RestingIsARow
  <1>3. VictimIsAModel' /\ Undisturbed'
    BY <1>2 DEF VictimIsAModel, Undisturbed, Deleting
  <1>4. \A r \in Refs : Sure(r)' /\ Deleting(r) => ~dir[r].marker
    BY <1>1 DEF Sure, Deleting
  <1>5. torn' \cup raced' \subseteq Refs /\ torn \subseteq torn' /\ raced \subseteq raced'
    BY <1>1 DEF CacheInv, CacheTyped, VictimIsAModel
  <1>6. QED
    BY <1>1, <1>2, <1>3, <1>4, <1>5, CleanerKeeps

\* The database changes: nobody works on a model that is not needed afterwards.
LEMMA NeedKeeps ==
  ASSUME CacheInv, UNCHANGED <<kind, dir, partial, resolver, cleaner, torn, raced>>,
         need' \in [Refs -> {"flight", "king", "done"}],
         \A t \in Threads : resolver[t].pc # "idle" => need'[resolver[t].ref] # "done"
  PROVE  CacheInv'
  <1>1. CacheTyped' /\ Wanted' /\ OneInside' /\ NotMarkedYet' /\ VictimIsAModel'
    BY DEF CacheInv, CacheTyped, Wanted, OneInside, NotMarkedYet, VictimIsAModel, Inside
  <1>2. Awaited' /\ Undisturbed' /\ MarkedIsWhole' /\ UsedIsMarked'
    BY DEF CacheInv, Awaited, Undisturbed, MarkedIsWhole, UsedIsMarked, Inside, Into, Sure,
       Standing, Deleting
  <1>3. QED
    BY <1>1, <1>2 DEF CacheInv

LEMMA JudgedKeeps ==
  ASSUME CacheInv, NEW r \in Refs, Judged(r)
  PROVE  CacheInv'
  <1>1. UNCHANGED <<kind, dir, partial, resolver, cleaner, torn, raced>>
    BY DEF Judged
  <1>2. /\ need' \in [Refs -> {"flight", "king", "done"}]
        /\ \/ /\ \A x \in Refs \ {r} : need'[x] = need[x]
              /\ \A t \in Threads : resolver[t].ref # r
           \/ \A t \in Threads : resolver[t].pc = "idle"
    BY DEF Judged, Dethroned, CacheInv, CacheTyped
  <1>3. \A t \in Threads : resolver[t].pc # "idle" => need'[resolver[t].ref] # "done"
    BY <1>2 DEF CacheInv, Wanted
  <1>4. QED
    BY <1>1, <1>2, <1>3, NeedKeeps

LEMMA OtherCrownedKeeps ==
  ASSUME CacheInv, OtherCrowned
  PROVE  CacheInv'
  <1>1. need' \in [Refs -> {"flight", "king", "done"}]
    BY DEF OtherCrowned, Dethroned, CacheInv, CacheTyped
  <1>2. QED
    BY <1>1, NeedKeeps DEF OtherCrowned

LEMMA ResubmitKeeps ==
  ASSUME CacheInv, NEW r \in Refs, Resubmit(r)
  PROVE  CacheInv'
  <1>1. /\ need' \in [Refs -> {"flight", "king", "done"}] /\ need'[r] # "done"
        /\ \A x \in Refs \ {r} : need'[x] = need[x]
    BY DEF Resubmit, CacheInv, CacheTyped
  <1>2. \A t \in Threads : resolver[t].pc # "idle" => need'[resolver[t].ref] # "done"
    BY <1>1 DEF CacheInv, Wanted
  <1>3. QED
    BY <1>1, <1>2, NeedKeeps DEF Resubmit

LEMMA CacheStep == ASSUME CacheInv, CacheNext PROVE CacheInv'
  <1>1. ASSUME NEW t \in Threads, Look(t) \/ FetchFile(t) \/ DigestFails(t) \/ Settle(t)
        PROVE  CacheInv'
    <2>1. resolver[t].ref \in Refs
      BY <1>1 DEF Look, FetchFile, DigestFails, Settle, CacheInv, Wanted
    <2>2. QED
      BY <1>1, <2>1, LookKeeps, FetchFileKeeps, DigestFailsKeeps, SettleKeeps
  <1>2. QED
    BY <1>1, ResolveKeeps, TakeSlotKeeps, FetchEndsKeeps, FetchFailsKeeps, StallKeeps, ReleaseKeeps,
       WorkerCrashKeeps, SnapshotKeeps, DecideKeeps, DeleteEntryKeeps, DeletedKeeps, TearKeeps,
       AbandonKeeps, JudgedKeeps, OtherCrownedKeeps, ResubmitKeeps
    DEF CacheNext

LEMMA CacheStutters == ASSUME CacheInv, UNCHANGED cacheVars PROVE CacheInv'
  <1>1. UNCHANGED <<kind, dir, partial, resolver, need, cleaner, torn, raced>>
    BY DEF cacheVars
  <1>2. QED
    BY <1>1, NeedKeeps DEF CacheInv, CacheTyped, Wanted

----------------------------------------------------------------------------
(* The king's engine. *)

LEMMA EngineStep == ASSUME EngineInv, EngineNext PROVE EngineInv'
  <1> USE EngineAssumption DEF EngineInv, EngineTyped, FetchedWhole, PointedIsWhole, WholeModel
  \* What the supervisor and its vLLM do, and a download that fails, leaves the disk and the
  \* .env as they are.
  <1>1. CASE Supervise \/ VllmFails \/ Misses \/ SupervisorDies
    BY <1>1 DEF Supervise, Boot, StartVllm, VllmLoads, Booted, Poll, OrphanEnds, VllmFails, Misses, SupervisorDies
  <1>2. CASE DownloadFails \/ Restart
    BY <1>2 DEF DownloadFails, Restart, NoTask
  <1>3. CASE GetFiles
    BY <1>3 DEF GetFiles
  <1>4. CASE Point
    BY <1>4 DEF Point
  <1>5. ASSUME NEW m \in Models, DownloadModel(m) PROVE EngineInv'
    BY <1>5 DEF DownloadModel, ModelComplete
  <1>6. ASSUME NEW m \in Models, Prune(m) PROVE EngineInv'
    BY <1>6 DEF Prune, ModelComplete
  <1>7. QED
    BY <1>1, <1>2, <1>3, <1>4, <1>5, <1>6 DEF EngineNext

LEMMA EngineStutters == ASSUME EngineInv, UNCHANGED engineVars PROVE EngineInv'
  BY DEF EngineInv, EngineTyped, FetchedWhole, PointedIsWhole, engineVars

----------------------------------------------------------------------------
(* The result. *)

LEMMA HostsInvInit == HostsInit => HostsInv
  <1> SUFFICES ASSUME HostsInit PROVE HostsInv
    OBVIOUS
  <1>1. CacheInv
    <2>1. Empty \in DirRow /\ Empty.marker = FALSE
      BY DEF Empty, DirRow
    <2>2. CacheTyped
      BY <2>1, IdleIsARow, RestingIsARow DEF HostsInit, CacheInit, CacheTyped
    <2>3. Wanted /\ OneInside /\ NotMarkedYet /\ Awaited /\ UsedIsMarked
      BY IdleIsARow DEF HostsInit, CacheInit, Wanted, OneInside, NotMarkedYet, Awaited, UsedIsMarked, Inside
    <2>4. VictimIsAModel /\ Undisturbed /\ MarkedIsWhole
      BY <2>1, RestingIsARow DEF HostsInit, CacheInit, VictimIsAModel, Undisturbed, MarkedIsWhole, Deleting
    <2>5. QED
      BY <2>2, <2>3, <2>4 DEF CacheInv
  <1>2. EngineInv
    BY EngineAssumption DEF HostsInit, EngineInit, EngineInv, EngineTyped, FetchedWhole, PointedIsWhole, NoTask
  <1>3. QED
    BY <1>1, <1>2 DEF HostsInv

LEMMA HostsInvNext == HostsInv /\ [HostsNext]_hostVars => HostsInv'
  BY CacheStep, CacheStutters, EngineStep, EngineStutters DEF HostsInv, HostsNext, hostVars

\* resolver.py, king_ctl.py: whatever crashes, stalls, is pruned or deleted meanwhile, a side of
\* an eval is given a whole model, and the .env names one; the exceptions are the models whose
\* deletion was cut off, and those deleted under a resolve or on the word of an old snapshot.
THEOREM SpecModelsAreWhole == HostsSpec => []ModelsAreWhole
  <1>1. HostsInv => ModelsAreWhole
    <2> SUFFICES ASSUME HostsInv PROVE UsedIsWhole /\ PointedIsWhole
      BY DEF ModelsAreWhole
    <2>1. ASSUME NEW t \in Threads, resolver[t].pc = "using", resolver[t].ref \in Refs \ (torn \cup raced)
          PROVE  dir[resolver[t].ref] = [files |-> Files, marker |-> TRUE]
      <3> DEFINE r == resolver[t].ref
      <3>1. Sure(r) /\ dir[r] \in DirRow /\ dir[r].marker
        BY <2>1 DEF HostsInv, CacheInv, CacheTyped, UsedIsMarked, Sure
      <3>2. Standing(r)
        BY <2>1, <3>1 DEF HostsInv, CacheInv, Undisturbed, Standing
      <3>3. dir[r].files = Files
        BY <2>1, <3>1, <3>2 DEF HostsInv, CacheInv, MarkedIsWhole
      <3>4. QED
        BY <3>1, <3>3 DEF DirRow
    <2>2. QED
      BY <2>1 DEF HostsInv, EngineInv, UsedIsWhole, WholeIn
  <1>2. QED
    BY <1>1, HostsInvInit, HostsInvNext, PTL DEF HostsSpec
=============================================================================
