-------------------------- MODULE WebhookTracking ---------------------------
(***************************************************************************)
(* The request handlers of pkg/adapter/frp/webhook.go.  net/http runs      *)
(* handleRequest in a goroutine per request; the goroutines share the      *)
(* handler, the map activeConnections and the counter connectionCount,     *)
(* which are updated by separate atomic operations.                        *)
(*                                                                         *)
(* A name is the sequence of its parts between slashes, so that            *)
(* runID + "/" + proxyName is the concatenation of two sequences.  The     *)
(* connection handler is the caller's: its decision is a free choice, and  *)
(* a call of it takes time.                                                *)
(***************************************************************************)
EXTENDS Integers, Sequences, FiniteSets

CONSTANTS
  Threads,    \* goroutines that run handleRequest
  Requests,   \* the requests frps may send
  MaxCount    \* bound: NewProxy requests counted or under way

(* What a request's names may be, and how well-formed it is.               *)
Ops   == {"Login", "NewProxy", "CloseProxy", "Ping", "NewWorkConn",
          "NewUserConn", "unknown"}
Forms == {"ok", "badContent", "badBody", "notPost"}

ASSUME ThreadsAssumption  == IsFiniteSet(Threads)
ASSUME RequestsNonEmpty   == Requests # {}
ASSUME RequestsAssumption ==
  \A q \in Requests : /\ DOMAIN q = {"op", "run", "proxy", "form"}
                      /\ q.op \in Ops
                      /\ q.form \in Forms
ASSUME MaxCountAssumption == MaxCount \in Nat

VARIABLES
  handlerSet,    \* s.handler is not nil
  active,        \* the keys of s.activeConnections
  count,         \* s.connectionCount
  pc,            \* program counter of every goroutine
  req,           \* the request it serves
  hasHandler,    \* its copy of the handler is not nil
  rejects,       \* the response it will send rejects the request
  registered,    \* the proxies frps holds, as <<run, proxy>>
  allowed        \* proxies whose NewProxy the handler has allowed

threadVars == <<pc, req, hasHandler, rejects>>
vars == <<handlerSet, active, count, threadVars, registered, allowed>>

-----------------------------------------------------------------------------
(* The key of a proxy in activeConnections.                                *)
ConnIDSwapped(run, proxy) == proxy \o run      \* mutant
ConnID(run, proxy)        == run \o proxy

Key(t)   == ConnID(req[t].run, req[t].proxy)
Proxy(q) == <<q.run, q.proxy>>

Places == {"free", "dispatch", "call", "store", "add", "untrack", "sub",
           "respond"}

TypeOK ==
  /\ handlerSet \in BOOLEAN
  /\ active \subseteq {q.run \o q.proxy : q \in Requests}
  /\ count \in Int
  /\ pc \in [Threads -> Places]
  /\ req \in [Threads -> Requests]
  /\ hasHandler \in [Threads -> BOOLEAN]
  /\ rejects \in [Threads -> BOOLEAN]
  /\ registered \subseteq {Proxy(q) : q \in Requests}
  /\ allowed \subseteq {Proxy(q) : q \in Requests}

(* The request of a goroutine that has not served one yet is arbitrary.    *)
NoRequest == CHOOSE q \in Requests : TRUE

Init ==
  /\ handlerSet \in BOOLEAN
  /\ active = {} /\ count = 0
  /\ pc = [t \in Threads |-> "free"]
  /\ req = [t \in Threads |-> NoRequest]
  /\ hasHandler = [t \in Threads |-> FALSE]
  /\ rejects = [t \in Threads |-> FALSE]
  /\ registered = {} /\ allowed = {}

-----------------------------------------------------------------------------
Goto(t, from, to) ==
  /\ pc[t] = from
  /\ pc' = [pc EXCEPT ![t] = to]

SetHandler ==
  /\ handlerSet' = TRUE
  /\ UNCHANGED <<active, count, threadVars, registered, allowed>>

(* A request arrives.                                                      *)
InFlightNewProxies ==
  {t \in Threads : pc[t] # "free" /\ req[t].op = "NewProxy"}

Accept(t, q) ==
  /\ Goto(t, "free", "dispatch")
  /\ q.op = "NewProxy" => count + Cardinality(InFlightNewProxies) < MaxCount
  /\ req' = [req EXCEPT ![t] = q]
  /\ UNCHANGED <<handlerSet, active, count, hasHandler, rejects, registered,
                 allowed>>

(* Whether a request that never reaches the handler is rejected.           *)
Malformed(q) ==
  \/ q.form \in {"badBody", "notPost"}
  \/ q.form = "badContent" /\ q.op \notin {"CloseProxy", "Ping", "unknown"}

(* Where the handler of an operation does its first shared access.         *)
FirstPlaceNoUntrack(q, handler) ==             \* mutant
  IF /\ q.form = "ok" /\ handler
     /\ q.op \in {"Login", "NewProxy", "CloseProxy", "NewUserConn"}
  THEN "call" ELSE "respond"

FirstPlace(q, handler) ==
  IF q.form # "ok" THEN "respond"
  ELSE IF q.op = "CloseProxy" THEN "untrack"
  ELSE IF handler /\ q.op \in {"Login", "NewProxy", "NewUserConn"} THEN "call"
  ELSE "respond"

(* handleRequest and processRequest: decode, copy the handler under s.mu,  *)
(* decode the content.                                                     *)
ProcessRequest(t) ==
  /\ Goto(t, "dispatch", FirstPlace(req[t], handlerSet))
  /\ hasHandler' = [hasHandler EXCEPT ![t] = handlerSet]
  /\ rejects' = [rejects EXCEPT ![t] = Malformed(req[t])]
  /\ UNCHANGED <<handlerSet, active, count, req, registered, allowed>>

(* What follows the handler's decision.                                    *)
AfterDecisionIgnored(op, ok) ==                \* mutant
  IF op = "NewProxy" THEN "store" ELSE "respond"
AfterDecision(op, ok) ==
  IF op = "NewProxy" /\ ok THEN "store" ELSE "respond"

(* handler(event) returns.  The decision about a close is ignored.         *)
HandlerReturns(t) ==
  \E ok \in BOOLEAN :
    /\ Goto(t, "call", AfterDecision(req[t].op, ok))
    /\ rejects' = [rejects EXCEPT ![t] = ~ok /\ req[t].op # "CloseProxy"]
    /\ allowed' = allowed \cup
         IF ok /\ req[t].op = "NewProxy" THEN {Proxy(req[t])} ELSE {}
    /\ UNCHANGED <<handlerSet, active, count, req, hasHandler, registered>>

(* handleNewProxy: activeConnections.Store, then connectionCount.Add(1).   *)
StoreConnection(t) ==
  /\ Goto(t, "store", "add")
  /\ active' = active \cup {Key(t)}
  /\ UNCHANGED <<handlerSet, count, req, hasHandler, rejects, registered,
                 allowed>>

CountUp(t) ==
  /\ Goto(t, "add", "respond")
  /\ count' = count + 1
  /\ UNCHANGED <<handlerSet, active, req, hasHandler, rejects, registered,
                 allowed>>

(* handleCloseProxy: activeConnections.LoadAndDelete, then                 *)
(* connectionCount.Add(-1) if there was an entry.                          *)
AlwaysLoaded(t) == TRUE                        \* mutant
NeverLoaded(t)  == FALSE                       \* mutant
Loaded(t)       == Key(t) \in active

AfterUntrack(t) == IF hasHandler[t] THEN "call" ELSE "respond"

LoadAndDelete(t) ==
  /\ Goto(t, "untrack", IF Loaded(t) THEN "sub" ELSE AfterUntrack(t))
  /\ active' = active \ {Key(t)}
  /\ UNCHANGED <<handlerSet, count, req, hasHandler, rejects, registered,
                 allowed>>

CountDown(t) ==
  /\ Goto(t, "sub", AfterUntrack(t))
  /\ count' = count - 1
  /\ UNCHANGED <<handlerSet, active, req, hasHandler, rejects, registered,
                 allowed>>

(* sendResponse, and what frps makes of the answer: an accepted NewProxy   *)
(* is registered, a CloseProxy is final.                                   *)
SendResponse(t) ==
  /\ Goto(t, "respond", "free")
  /\ registered' =
       CASE req[t].op = "NewProxy" /\ ~rejects[t] ->
              registered \cup {Proxy(req[t])}
         [] req[t].op = "CloseProxy" -> registered \ {Proxy(req[t])}
         [] OTHER -> registered
  /\ req' = [req EXCEPT ![t] = NoRequest]
  /\ hasHandler' = [hasHandler EXCEPT ![t] = FALSE]
  /\ rejects' = [rejects EXCEPT ![t] = FALSE]
  /\ UNCHANGED <<handlerSet, active, count, allowed>>

ThreadStep(t) ==
  \/ ProcessRequest(t) \/ HandlerReturns(t)
  \/ StoreConnection(t) \/ CountUp(t)
  \/ LoadAndDelete(t) \/ CountDown(t)
  \/ SendResponse(t)

Next ==
  \/ SetHandler
  \/ \E t \in Threads :
       \/ \E q \in Requests : Accept(t, q)
       \/ ThreadStep(t)

Spec == Init /\ [][Next]_vars

-----------------------------------------------------------------------------
(***************************************************************************)
(* An frps that is sequential about every proxy: it registers one that it  *)
(* does not hold, closes one that it holds, and waits for the answer.      *)
(* Requests about different proxies overlap.  The adapter refuses to start *)
(* without a handler.                                                      *)
(***************************************************************************)
Tracking(q) == q.op \in {"NewProxy", "CloseProxy"}

Busy(p) == \E t \in Threads :
             pc[t] # "free" /\ Tracking(req[t]) /\ Proxy(req[t]) = p

InTurn(q) ==
  Tracking(q) => /\ q.form = "ok"
                 /\ ~Busy(Proxy(q))
                 /\ q.op = "CloseProxy" <=> Proxy(q) \in registered

AcceptInTurn(t, q) == InTurn(q) /\ Accept(t, q)

SequentialNext ==
  \E t \in Threads :
    \/ \E q \in Requests : AcceptInTurn(t, q)
    \/ ThreadStep(t)

SequentialInit == Init /\ handlerSet = TRUE

SequentialSpec == SequentialInit /\ [][SequentialNext]_vars

-----------------------------------------------------------------------------
(***************************************************************************)
(* Properties of every behaviour of frps.                                  *)
(***************************************************************************)
Adders      == {t \in Threads : pc[t] = "add"}
Subtracters == {t \in Threads : pc[t] = "sub"}

(* What the counter will show beyond the map once the updates under way    *)
(* are done.                                                               *)
Drift == count + Cardinality(Adders) - Cardinality(Subtracters)
           - Cardinality(active)

(* ActiveConnections never settles below the number of tracked proxies,    *)
(* however registrations, closes and their two halves interleave.          *)
CountCoversTracked == Drift >= 0

(* The counter and the map part ways in one way only: NewProxy stores a    *)
(* key that is there already.  The surplus is never taken back.            *)
LeakOnlyByDuplicate ==
  [][\/ Drift' = Drift
     \/ /\ Drift' = Drift + 1
        /\ \E t \in Threads : pc[t] = "store" /\ Key(t) \in active]_vars

(* A key is tracked only after the handler has allowed a NewProxy of that  *)
(* very proxy (or of one with the same key): neither the Login of its run  *)
(* nor a NewProxy that was denied, or that came without a handler, is      *)
(* enough, whatever else is in flight.                                     *)
TrackedWasAllowed ==
  \A k \in active : \E p \in allowed : ConnID(p[1], p[2]) = k

-----------------------------------------------------------------------------
(***************************************************************************)
(* Properties under a sequential frps.                                     *)
(***************************************************************************)

(* What the server tracks is what frps holds, for every proxy that no      *)
(* request is about.                                                       *)
TrackingAgrees ==
  \A q \in Requests :
    Tracking(q) /\ ~Busy(Proxy(q)) =>
      (ConnID(q.run, q.proxy) \in active <=> Proxy(q) \in registered)

(* ActiveConnections is exact up to the updates under way, and never       *)
(* negative.                                                               *)
CountExact == Drift = 0 /\ count >= 0

(* While the handler decides about a proxy, or learns of its end, the      *)
(* proxy is not tracked.                                                   *)
UntrackedDuringEvent ==
  \A t \in Threads :
    pc[t] = "call" /\ Tracking(req[t]) => Key(t) \notin active
=============================================================================
