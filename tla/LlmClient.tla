----------------------------- MODULE LlmClient -----------------------------
(* The judge's model client (judge_llm_client.py): one call is one question put   *)
(* to a model, tried along a list of routes until an answer is usable.  Engy, the *)
(* first route of a judge or reference call and the last of a questions call, has *)
(* a queue, a gate and an error budget per evaluation; every model has a room of  *)
(* max_concurrency_per_model calls.  A slot is a coroutine that makes one call    *)
(* after another.  What a model writes is only "usable" to its caller or not.     *)
EXTENDS Integers, Sequences, FiniteSets

CONSTANTS Slots,          \* coroutines that make calls
          EngyMaxErrors,  \* engy_max_errors
          EngyGate,       \* engy_max_concurrency
          EngyRoom,       \* engy_max_concurrency * engy_queue_depth
          ModelRoom,      \* max_concurrency_per_model
          ParseRetries,   \* parse_retries
          RetryCount      \* retry_count

ASSUME LlmAssumption ==
  /\ \A n \in {EngyMaxErrors, EngyGate, EngyRoom, ModelRoom, ParseRetries} : n \in Nat \ {0}
  /\ EngyGate <= EngyRoom
  /\ RetryCount \in Nat

VARIABLES
  call,        \* the call each slot makes
  engyErrors   \* _engy_errors of the main model, per eval_run_id

clientVars == <<call, engyErrors>>

\* The run's id, and the empty one of a checklist written on the spot.
Evals == {"run", "none"}

\* "rung" and "lastRung" are the simulator's ladder, "reask" its second try at a read.
Kinds == {"judge", "reference", "questions", "rung", "lastRung", "reask"}

Answers == {"none", "usable", "unusable", "error"}

Engy    == [via |-> "engy", model |-> "main"]
Main    == [via |-> "openrouter", model |-> "main"]
Spare   == [via |-> "openrouter", model |-> "spare"]
Pinned  == [via |-> "openrouter", model |-> "sim"]
Routes  == {Engy, Main, Spare, Pinned}

\* gate: in engy's queue; room: waiting for the model's semaphore; asked: exchanges under
\* way; pause: asleep between two tries, the semaphore held.
CallPcs == {"idle", "gate", "room", "asked", "pause", "done"}

NoCall == [pc |-> "idle", kind |-> "judge", eval |-> "run", routes |-> <<>>, parse |-> 1,
           attempt |-> 0, answer |-> "none"]

LlmTypeOK ==
  /\ \A c \in Slots :
       /\ call[c].pc \in CallPcs
       /\ call[c].kind \in Kinds
       /\ call[c].eval \in Evals
       /\ Len(call[c].routes) <= 3 /\ \A i \in DOMAIN call[c].routes : call[c].routes[i] \in Routes
       /\ call[c].parse \in 1..ParseRetries
       /\ call[c].attempt \in 0..RetryCount
       /\ call[c].answer \in Answers
  /\ engyErrors \in [Evals -> Nat]

LlmInit ==
  /\ call = [c \in Slots |-> NoCall]
  /\ engyErrors = [e \in Evals |-> 0]
-----------------------------------------------------------------------------
OnEngy(c)    == call[c].routes # <<>> /\ Head(call[c].routes) = Engy
EngyCalls    == {c \in Slots : OnEngy(c) /\ call[c].pc \in {"gate", "room", "asked"}}
GateHolders  == {c \in EngyCalls : call[c].pc # "gate"}
Holders(m)   == {c \in Slots : call[c].pc \in {"asked", "pause"} /\ Head(call[c].routes).model = m}

\* _use_engy of the main model: this evaluation's errors are still in the budget.
UseEngy(e) == engyErrors[e] < EngyMaxErrors

\* The routes of a call, as _call lists them when it begins.
RoutesOf(kind, e) ==
  LET engy == IF UseEngy(e) THEN <<Engy>> ELSE <<>>
  IN  CASE kind = "questions"              -> <<Main>> \o engy
        [] kind \in {"judge", "reference"} -> engy \o <<Main, Spare>>
        [] kind = "lastRung"               -> <<Main>>
        [] kind \in {"rung", "reask"}      -> <<Pinned>>

\* A semaphore is taken at once when it has room and nobody waits for it.
GateFree(c)    == /\ Cardinality(GateHolders \ {c}) < EngyGate
                  /\ \A o \in Slots \ {c} : call[o].pc # "gate"
RoomFree(c, m) == /\ Cardinality(Holders(m) \ {c}) < ModelRoom
                  /\ \A o \in Slots \ {c} : ~(call[o].pc = "room" /\ Head(call[o].routes).model = m)

\* Turning to the routes left: engy is skipped at once when its queue is full, and a call
\* with no route left returns what its last route said.
TakeUp(c, rec, routes, said) ==
  LET full  == Cardinality(EngyCalls \ {c}) >= EngyRoom
      left  == IF routes # <<>> /\ Head(routes) = Engy /\ full THEN Tail(routes) ELSE routes
      pc    == IF left = <<>> THEN "done"
               ELSE IF Head(left) = Engy /\ ~GateFree(c) THEN "gate"
               ELSE IF ~RoomFree(c, Head(left).model) THEN "room"
               ELSE "asked"
  IN  [rec EXCEPT !.routes = left, !.answer = said, !.parse = 1, !.attempt = 0, !.pc = pc]

\* The slot's next call, from its coroutine's own step.
Calling(c, kind, e) ==
  [call EXCEPT ![c] = TakeUp(c, [NoCall EXCEPT !.kind = kind, !.eval = e], RoutesOf(kind, e), "none")]
\* Its coroutine has the answer.
Collected(c) == [call EXCEPT ![c] = NoCall]

\* A slot of engy's gate frees.
PassGate(c) ==
  /\ call[c].pc = "gate"
  /\ Cardinality(GateHolders) < EngyGate
  /\ call' = [call EXCEPT ![c] = [@ EXCEPT !.pc =
             IF RoomFree(c, Head(@.routes).model) THEN "asked" ELSE "room"]]
  /\ UNCHANGED engyErrors

\* A slot of the model's semaphore frees and the first exchange is sent.
EnterRoom(c) ==
  /\ call[c].pc = "room"
  /\ Cardinality(Holders(Head(call[c].routes).model)) < ModelRoom
  /\ call' = [call EXCEPT ![c].pc = "asked"]
  /\ UNCHANGED engyErrors

\* A rung of the ladder is capped at one parse attempt and one retry, engy at one exchange.
ParseBudget(c) == IF call[c].kind = "rung" \/ OnEngy(c) THEN 1 ELSE ParseRetries
RetryBudget(c) == IF OnEngy(c) THEN 0
                  ELSE IF call[c].kind = "rung" /\ RetryCount > 1 THEN 1 ELSE RetryCount

\* The route's last word: the call goes on to the routes left.
NextRoute(c, said) == TakeUp(c, call[c], Tail(call[c].routes), said)

\* An attempt that did not help: asked anew while the parse budget lasts.
Unhelpful(c, said) ==
  call' = [call EXCEPT ![c] =
             IF @.parse < ParseBudget(c)
             THEN [@ EXCEPT !.parse = @ + 1, !.attempt = 0, !.pc = "asked"]
             ELSE NextRoute(c, said)]

\* An error on engy is charged to the evaluation's budget; so is an empty answer.
Charge(c, charged) == engyErrors' = IF OnEngy(c) /\ charged
                                    THEN [engyErrors EXCEPT ![call[c].eval] = @ + 1]
                                    ELSE engyErrors

\* The model answers.
Reply(c, x) ==
  /\ call[c].pc = "asked"
  /\ \/ /\ x = "usable"
        /\ call' = [call EXCEPT ![c] = [NoCall EXCEPT !.pc = "done", !.answer = "usable"]]
        /\ UNCHANGED engyErrors
     \/ /\ x = "unusable" /\ call[c].kind # "reask"   \* which takes any answer
        /\ Unhelpful(c, "unusable")
        /\ \E empty \in BOOLEAN : Charge(c, empty)

\* The exchange fails: a transport error, a bad status, a stall or the deadline.  (The
\* simulator's exchanges are hedged: one of a pair may fail, the exchange fails with both.)
Fail(c) ==
  /\ call[c].pc = "asked"
  /\ IF call[c].attempt < RetryBudget(c)
     THEN call' = [call EXCEPT ![c].pc = "pause"]
     ELSE Unhelpful(c, "error")
  /\ Charge(c, TRUE)

Retry(c) ==
  /\ call[c].pc = "pause"
  /\ call' = [call EXCEPT ![c].pc = "asked", ![c].attempt = @ + 1]
  /\ UNCHANGED engyErrors

ClientStep(c) ==
  \/ PassGate(c) \/ EnterRoom(c) \/ Fail(c) \/ Retry(c)
  \/ \E x \in {"usable", "unusable"} : Reply(c, x)
=============================================================================
