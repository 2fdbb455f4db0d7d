---------------------------- MODULE ScoreBridge ----------------------------
(* The score bridge: the GPU host cannot reach the judge, so the judge's side    *)
(* opens a websocket to the host, and every observation to simulate and every    *)
(* batch to score is a request sent down that socket and answered up it.         *)
(* scoring/score_bridge.py is the hub on the host, score_bridge_client.py the     *)
(* client beside the judge.  A call is one hub.request() with its own uuid.      *)
EXTENDS Integers, FiniteSets

CONSTANTS Calls,      \* requests, each made once
          MaxConns    \* bound: connections the client opens

ASSUME ConnsAssumption == MaxConns \in Nat

VARIABLES
  sock,      \* hub._websocket, NoSock when no client is attached
  conns,     \* connections opened so far
  client,    \* the socket the bridge client holds, NoSock while it backs off
  call,      \* each request: where its thread is, its socket, its outcome
  leg        \* where the request or its answer is outside the hub

bridgeVars == <<sock, conns, client, call, leg>>

NoSock  == 0
Socks   == 1..MaxConns
\* What request() returns, or the exception it raises: ScoreBridgeUnavailable, a
\* TimeoutError, or the RuntimeError that carries the judge's or the client's error.
Results == {"ok", "unavailable", "timeout", "error"}
Legs    == {"none", "post", "repost", "answer", "failure"}
CallPcs == {"idle", "await", "captured", "sent", "done"}

BridgeTypeOK ==
  /\ sock \in Socks \cup {NoSock}
  /\ client \in Socks \cup {NoSock}
  /\ conns \in 0..MaxConns
  /\ call \in [Calls -> [pc : CallPcs, sock : Socks \cup {NoSock}, res : Results \cup {"none"}]]
  /\ leg \in [Calls -> Legs]

BridgeInit ==
  /\ sock = NoSock
  /\ client = NoSock
  /\ conns = 0
  /\ call = [r \in Calls |-> [pc |-> "idle", sock |-> NoSock, res |-> "none"]]
  /\ leg = [r \in Calls |-> "none"]

\* A call that returned is followed no further: what is still under way for it finds no
\* pending future and is dropped (the first return of _handle_message).
Return(R, x) == /\ call' = [r \in Calls |-> IF r \in R
                                           THEN [pc |-> "done", sock |-> NoSock, res |-> x]
                                           ELSE call[r]]
                /\ leg' = [r \in Calls |-> IF r \in R THEN "none" ELSE leg[r]]
Returned(r)  == call[r].pc = "done"
\* Its caller has the result, which nobody reads again.
Taken(r)     == [call EXCEPT ![r].res = "none"]
\* _pending holds the requests sent and not yet answered.
Pending      == {r \in Calls : call[r].pc = "sent"}
-----------------------------------------------------------------------------
(* The hub.                                                                   *)

\* request(): the caller's thread polls for a client.
Requested(r) == [call EXCEPT ![r].pc = "await"]

\* It reads the socket under the lock and hands the coroutine to the loop.
Capture(r) ==
  /\ call[r].pc = "await"
  /\ sock # NoSock
  /\ call' = [call EXCEPT ![r].pc = "captured", ![r].sock = sock]
  /\ UNCHANGED <<sock, conns, client, leg>>

\* Mutant: the wait for a client has no deadline.
WaitsForEver(r) == FALSE

\* Two minutes without a client.
WaitedOut(r) == call[r].pc = "await" /\ sock = NoSock

GiveUp(r) ==
  /\ WaitedOut(r)
  /\ Return({r}, "unavailable")
  /\ UNCHANGED <<sock, conns, client>>

\* Mutant: the socket captured by the caller's thread is used without a second look.
TrustsTheCapture(r) == TRUE

\* _request_on_loop looks again: the socket may be another one than the thread captured.
StillAttached(r) == call[r].sock = sock

\* A send into a connection the other side has already left raises, or is swallowed by it.
SendRequest(r) ==
  /\ call[r].pc = "captured"
  /\ \/ /\ StillAttached(r)
        /\ call' = [call EXCEPT ![r].pc = "sent"]
        /\ leg' = [leg EXCEPT ![r] = IF client = call[r].sock THEN "post" ELSE "none"]
     \/ /\ StillAttached(r)
        /\ client # call[r].sock
        /\ Return({r}, "error")
     \/ /\ ~StillAttached(r)
        /\ Return({r}, "unavailable")
  /\ UNCHANGED <<sock, conns, client>>

\* asyncio.wait_for gives up on the answer.
RequestTimesOut(r) ==
  /\ call[r].pc = "sent"
  /\ Return({r}, "timeout")
  /\ UNCHANGED <<sock, conns, client>>

\* _handle_message: an answer, or the error the client sent in its place.
HandleMessage(r) ==
  /\ leg[r] \in {"answer", "failure"}
  /\ Return({r}, IF leg[r] = "answer" THEN "ok" ELSE "error")
  /\ UNCHANGED <<sock, conns, client>>

\* The end of attach(): the attached socket takes the pending requests with it.  The end
\* of one that was replaced changes nothing.
HubDisconnect ==
  /\ sock # NoSock
  /\ sock # client
  /\ sock' = NoSock
  /\ Return(Pending, "unavailable")
  /\ UNCHANGED <<conns, client>>
-----------------------------------------------------------------------------
(* The client.                                                                *)

\* run_bridge connects again after its backoff, and attach() replaces whatever socket the
\* hub still holds, failing what was pending on it.
Connect ==
  /\ client = NoSock
  /\ conns < MaxConns
  /\ conns' = conns + 1
  /\ client' = conns + 1
  /\ sock' = conns + 1
  /\ Return(Pending, "unavailable")

\* The connection breaks: the client sees it at once, the hub at the end of its read.  The
\* judge requests under way end with their http client; an answer already sent may arrive.
Drop ==
  /\ client # NoSock
  /\ client' = NoSock
  /\ leg' = [r \in Calls |-> IF leg[r] \in {"post", "repost"} THEN "none" ELSE leg[r]]
  /\ UNCHANGED <<sock, conns, call>>

\* _handle_score_request is a task per request, and _post_json asks the judge: it answers,
\* or refuses (a 429 is asked again until its retries end, then one more refusal), or the
\* connection to it drops, which is allowed once.
JudgeAnswers(r) ==
  /\ leg[r] \in {"post", "repost"}
  /\ leg' = [leg EXCEPT ![r] = "answer"]
  /\ UNCHANGED <<sock, conns, client, call>>

JudgeRefuses(r) ==
  /\ leg[r] \in {"post", "repost"}
  /\ leg' = [leg EXCEPT ![r] = "failure"]
  /\ UNCHANGED <<sock, conns, client, call>>

JudgeConnectionDrops(r) ==
  /\ leg[r] \in {"post", "repost"}
  /\ leg' = [leg EXCEPT ![r] = IF leg[r] = "post" THEN "repost" ELSE "failure"]
  /\ UNCHANGED <<sock, conns, client, call>>

HubStep(r) ==
  Capture(r) \/ GiveUp(r) \/ SendRequest(r) \/ RequestTimesOut(r) \/ HandleMessage(r)

JudgeStep(r) == JudgeAnswers(r) \/ JudgeRefuses(r) \/ JudgeConnectionDrops(r)

BridgeNext ==
  \/ \E r \in Calls : HubStep(r) \/ JudgeStep(r)
  \/ HubDisconnect
  \/ Connect
  \/ Drop
-----------------------------------------------------------------------------
\* A request waits for its answer only on the socket the hub is attached to: a client that
\* reconnects never leaves one behind on the socket it replaced, where nobody would answer
\* and only the timeout, minutes later, would end the wait (attach, _request_on_loop).
NothingWaitsOnAReplacedSocket == \A r \in Pending : call[r].sock = sock
=============================================================================
