---------------------- MODULE WebhookSequential_proofs ----------------------
(***************************************************************************)
(* Proofs about WebhookTracking under an frps that is sequential about     *)
(* every proxy, for any number of request goroutines and any requests      *)
(* whose run IDs hold no slash: what is tracked is what frps holds, the    *)
(* counter is exact, and a proxy is not tracked while the handler is told  *)
(* of it.                                                                  *)
(***************************************************************************)
EXTENDS WebhookTracking_proofs, FunctionTheorems, SequenceTheorems

(* Run IDs hold no slash, whatever the names of the proxies.  Without this *)
(* two proxies may share one key of activeConnections.                     *)
RunsWithoutSlash ==
  \A q \in Requests : /\ q.run \in Seq(STRING) /\ Len(q.run) = 1
                      /\ q.proxy \in Seq(STRING)

-----------------------------------------------------------------------------
(***************************************************************************)
(* The inductive invariant, part by part.                                  *)
(***************************************************************************)
Serves(t) == pc[t] # "free" /\ Tracking(req[t])

(* At most one goroutine serves a request about a proxy.                   *)
Exclusive ==
  \A s, t \in Threads :
    Serves(s) /\ Serves(t) /\ Proxy(req[s]) = Proxy(req[t]) => s = t

(* Where a NewProxy has got to, and what is tracked there.                 *)
Registering(t) ==
  /\ Proxy(req[t]) \notin registered
  /\ pc[t] \in {"dispatch", "call", "store", "add", "respond"}
  /\ pc[t] \in {"dispatch", "call", "store"} => Key(t) \notin active
  /\ pc[t] \in {"store", "add"} => ~rejects[t]
  /\ pc[t] = "add" => Key(t) \in active
  /\ pc[t] = "respond" => (Key(t) \in active <=> ~rejects[t])

(* Where a CloseProxy has got to.                                          *)
Closing(t) ==
  /\ pc[t] \in {"dispatch", "untrack", "sub", "call", "respond"}
  /\ pc[t] \in {"dispatch", "untrack"} <=> Key(t) \in active

(* Every goroutine is in its turn.                                         *)
Turn(t) ==
  pc[t] # "free" =>
    /\ Tracking(req[t]) => req[t].form = "ok"
    /\ req[t].op = "NewProxy" => Registering(t)
    /\ req[t].op = "CloseProxy" => Closing(t)
    /\ ~Tracking(req[t]) => pc[t] \in {"dispatch", "call", "respond"}

Turns == \A t \in Threads : Turn(t)

TurnInv == TypeOK /\ handlerSet = TRUE /\ Exclusive /\ Turns /\ TrackingAgrees

-----------------------------------------------------------------------------
(***************************************************************************)
(* Keys of activeConnections.                                              *)
(***************************************************************************)

(* runID + "/" + proxyName names one proxy when run IDs hold no slash.     *)
LEMMA KeysApart ==
  ASSUME RunsWithoutSlash, NEW q \in Requests, NEW u \in Requests,
         ConnID(q.run, q.proxy) = ConnID(u.run, u.proxy)
  PROVE  Proxy(q) = Proxy(u)
<1> DEFINE k == q.run \o q.proxy
<1>1. /\ q.run \in Seq(STRING) /\ Len(q.run) = 1 /\ q.proxy \in Seq(STRING)
      /\ u.run \in Seq(STRING) /\ Len(u.run) = 1 /\ u.proxy \in Seq(STRING)
      /\ k = u.run \o u.proxy
  BY DEF RunsWithoutSlash, ConnID
<1>2. Len(q.proxy) \in Nat /\ Len(u.proxy) \in Nat
  BY <1>1, LenProperties
<1>3. ASSUME NEW r \in Seq(STRING), Len(r) = 1, NEW p \in Seq(STRING)
      PROVE  /\ Len(r \o p) = 1 + Len(p)
             /\ \A j \in 1..(1 + Len(p)) :
                  (r \o p)[j] = IF j <= 1 THEN r[j] ELSE p[j - 1]
  <2>1. /\ Len(r \o p) = Len(r) + Len(p)
        /\ \A j \in 1..(Len(r) + Len(p)) :
             (r \o p)[j] = IF j <= Len(r) THEN r[j] ELSE p[j - Len(r)]
    BY ConcatProperties, Zenon
  <2> QED
    BY <1>3, <2>1, Zenon
<1>4. /\ Len(k) = 1 + Len(q.proxy)
      /\ \A j \in 1..(1 + Len(q.proxy)) :
           k[j] = IF j <= 1 THEN q.run[j] ELSE q.proxy[j - 1]
  BY <1>1, <1>3, Zenon
<1> HIDE DEF k
<1>5. /\ Len(k) = 1 + Len(u.proxy)
      /\ \A j \in 1..(1 + Len(u.proxy)) :
           k[j] = IF j <= 1 THEN u.run[j] ELSE u.proxy[j - 1]
  <2> DEFINE w == u.run \o u.proxy
  <2>1. /\ Len(w) = 1 + Len(u.proxy)
        /\ \A j \in 1..(1 + Len(u.proxy)) :
             w[j] = IF j <= 1 THEN u.run[j] ELSE u.proxy[j - 1]
    BY <1>1, <1>3, Zenon
  <2>2. k = w
    BY <1>1
  <2> HIDE DEF w
  <2> QED
    BY <2>1, <2>2
<1>6. Len(q.proxy) = Len(u.proxy)
  BY <1>2, <1>4, <1>5
<1>7. q.run[1] = u.run[1]
  BY <1>2, <1>4, <1>5
<1>8. q.run = u.run
  BY <1>1, <1>7, SeqEqual
<1>9. ASSUME NEW j \in 1..Len(q.proxy) PROVE q.proxy[j] = u.proxy[j]
  <2>1. /\ j + 1 \in 1..(1 + Len(q.proxy)) /\ ~(j + 1 <= 1)
        /\ (j + 1) - 1 = j
    BY <1>2
  <2>2. k[j + 1] = q.proxy[j] /\ k[j + 1] = u.proxy[j]
    BY <1>4, <1>5, <1>6, <2>1
  <2> QED
    BY <2>2
<1>10. q.proxy = u.proxy
  BY <1>1, <1>6, <1>9, SeqEqual
<1> QED
  BY <1>8, <1>10 DEF Proxy

(* Goroutines that serve requests about different proxies use different    *)
(* keys.                                                                   *)
LEMMA ThreadKeys ==
  ASSUME RunsWithoutSlash, TypeOK, Exclusive,
         NEW s \in Threads, NEW t \in Threads, s # t, Serves(s), Serves(t)
  PROVE  Key(s) # Key(t) /\ Proxy(req[s]) # Proxy(req[t])
<1>1. Proxy(req[s]) # Proxy(req[t])
  BY DEF Exclusive
<1>2. req[s] \in Requests /\ req[t] \in Requests
  BY DEF TypeOK
<1> QED
  BY <1>1, <1>2, KeysApart DEF Key

-----------------------------------------------------------------------------
(***************************************************************************)
(* What a step of a goroutine leaves to the others.                        *)
(***************************************************************************)

(* The step changes nothing but the records of the goroutine's proxy.      *)
OnlyAbout(t) ==
  \/ UNCHANGED <<active, registered>>
  \/ /\ Serves(t)
     /\ \A k : k # Key(t) => (k \in active' <=> k \in active)
     /\ \A p : p # Proxy(req[t]) => (p \in registered' <=> p \in registered)

(* The other goroutines stay in their turn.                                *)
LEMMA OthersTurn ==
  ASSUME RunsWithoutSlash, TurnInv, NEW t \in Threads, OnlyAbout(t),
         NEW s \in Threads, s # t,
         pc'[s] = pc[s], req'[s] = req[s], rejects'[s] = rejects[s]
  PROVE  Turn(s)'
<1>1. TypeOK /\ Exclusive /\ Turn(s)
  BY DEF TurnInv, Turns
<1>2. Key(s)' = Key(s)
  BY DEF Key
<1>3. Serves(s) =>
        /\ Key(s) \in active' <=> Key(s) \in active
        /\ Proxy(req[s]) \in registered' <=> Proxy(req[s]) \in registered
  BY <1>1, ThreadKeys DEF OnlyAbout
<1>4. req[s].op \in {"NewProxy", "CloseProxy"} <=> Tracking(req[s])
  BY DEF Tracking
<1>5. CASE ~Serves(s)
  BY <1>1, <1>4, <1>5 DEF Turn, Serves, Tracking
<1>6. CASE Serves(s)
  BY <1>1, <1>2, <1>3, <1>4, <1>6
     DEF Turn, Serves, Tracking, Registering, Closing
<1> QED
  BY <1>5, <1>6

(* The proxies that the goroutine's request is not about still agree.      *)
LEMMA OthersAgree ==
  ASSUME RunsWithoutSlash, TurnInv, NEW t \in Threads, OnlyAbout(t),
         NEW q \in Requests, Tracking(q), ~Busy(Proxy(q)),
         Serves(t) => Proxy(q) # Proxy(req[t])
  PROVE  ConnID(q.run, q.proxy) \in active' <=> Proxy(q) \in registered'
<1>1. ConnID(q.run, q.proxy) \in active <=> Proxy(q) \in registered
  BY DEF TurnInv, TrackingAgrees
<1>2. CASE UNCHANGED <<active, registered>>
  BY <1>1, <1>2
<1>3. CASE Serves(t)
  <2>1. req[t] \in Requests
    BY DEF TurnInv, TypeOK
  <2>2. ConnID(q.run, q.proxy) # Key(t)
    BY <1>3, <2>1, KeysApart DEF Key
  <2> QED
    BY <1>1, <1>3, <2>2 DEF OnlyAbout
<1> QED
  BY <1>2, <1>3 DEF OnlyAbout

(* A goroutine goes on with its request: what remains to be shown is that  *)
(* it stays in its own turn.                                               *)
LEMMA GoesOn ==
  ASSUME RunsWithoutSlash, TurnInv, TypeOK', handlerSet' = TRUE,
         NEW t \in Threads, NEW from \in Places \ {"free"},
         NEW to \in Places \ {"free"}, Goto(t, from, to), UNCHANGED req,
         \A s \in Threads : s # t => rejects'[s] = rejects[s],
         OnlyAbout(t), Turn(t)'
  PROVE  TurnInv'
<1>1. pc \in [Threads -> Places]
  BY DEF TurnInv, TypeOK
<1>2. \A s \in Threads : Serves(s)' <=> Serves(s)
  BY <1>1 DEF Serves, Goto
<1>3. Exclusive'
  BY <1>2 DEF TurnInv, Exclusive
<1>4. Turns'
  <2> SUFFICES ASSUME NEW s \in Threads, s # t PROVE Turn(s)'
    BY DEF Turns
  <2>1. pc'[s] = pc[s] /\ req'[s] = req[s] /\ rejects'[s] = rejects[s]
    BY <1>1 DEF Goto
  <2> QED
    BY <2>1, OthersTurn
<1>5. TrackingAgrees'
  <2> SUFFICES ASSUME NEW q \in Requests, Tracking(q), ~Busy(Proxy(q))'
               PROVE  ConnID(q.run, q.proxy) \in active'
                        <=> Proxy(q) \in registered'
    BY DEF TrackingAgrees
  <2>1. \A s \in Threads : Serves(s) => Proxy(req[s]) # Proxy(q)
    BY <1>2 DEF Busy, Serves
  <2>2. ~Busy(Proxy(q))
    BY <2>1 DEF Busy, Serves
  <2> QED
    BY <2>1, <2>2, OthersAgree
<1> QED
  BY <1>3, <1>4, <1>5 DEF TurnInv

-----------------------------------------------------------------------------
(***************************************************************************)
(* The steps.                                                              *)
(***************************************************************************)

(* No goroutine serves a request at first, and nothing is tracked.         *)
LEMMA InitTurnInv == SequentialInit => TurnInv
<1> SUFFICES ASSUME SequentialInit PROVE TurnInv
  OBVIOUS
<1>1. TypeOK
  BY InitAllowInv DEF SequentialInit, AllowInv
<1>2. \A t \in Threads : pc[t] = "free"
  BY DEF SequentialInit, Init
<1>3. Exclusive /\ Turns
  BY <1>2 DEF Exclusive, Serves, Turns, Turn
<1>4. TrackingAgrees
  BY DEF SequentialInit, Init, TrackingAgrees
<1> QED
  BY <1>1, <1>3, <1>4 DEF SequentialInit, TurnInv

(* frps sends a request only in its turn.                                  *)
LEMMA AcceptTurn ==
  ASSUME RunsWithoutSlash, TurnInv, TypeOK', NEW t \in Threads,
         NEW q \in Requests, AcceptInTurn(t, q)
  PROVE  TurnInv'
<1>1. TypeOK /\ handlerSet = TRUE /\ Exclusive /\ Turns /\ TrackingAgrees
  BY DEF TurnInv
<1>2. /\ InTurn(q) /\ pc[t] = "free"
      /\ pc' = [pc EXCEPT ![t] = "dispatch"] /\ req' = [req EXCEPT ![t] = q]
      /\ UNCHANGED <<handlerSet, active, rejects, registered>>
  BY DEF AcceptInTurn, Accept, Goto
<1>3. /\ pc'[t] = "dispatch" /\ req'[t] = q
      /\ \A s \in Threads : s # t => pc'[s] = pc[s] /\ req'[s] = req[s]
  BY <1>1, <1>2 DEF TypeOK
<1>4. /\ ~Serves(t) /\ (Serves(t)' <=> Tracking(q))
      /\ \A s \in Threads : s # t => (Serves(s)' <=> Serves(s))
  BY <1>2, <1>3 DEF Serves
<1>5. Tracking(q) =>
        \A s \in Threads : Serves(s) => Proxy(req[s]) # Proxy(q)
  BY <1>2 DEF InTurn, Busy, Serves
<1>6. Exclusive'
  <2> SUFFICES ASSUME NEW s \in Threads, NEW u \in Threads,
                      Serves(s)', Serves(u)',
                      Proxy(req'[s]) = Proxy(req'[u])
               PROVE  s = u
    BY DEF Exclusive, Proxy
  <2>1. CASE s # t /\ u # t
    BY <1>1, <1>3, <1>4, <2>1 DEF Exclusive
  <2>2. CASE s = t /\ u # t
    BY <1>3, <1>4, <1>5, <2>2
  <2>3. CASE s # t /\ u = t
    BY <1>3, <1>4, <1>5, <2>3
  <2> QED
    BY <2>1, <2>2, <2>3
<1>7. Turn(t)'
  <2>1. Key(t)' = ConnID(q.run, q.proxy)
    BY <1>3 DEF Key
  <2>2. Tracking(q) =>
          /\ q.form = "ok"
          /\ q.op = "CloseProxy" <=> Proxy(q) \in registered
          /\ ConnID(q.run, q.proxy) \in active <=> Proxy(q) \in registered
    BY <1>1, <1>2 DEF InTurn, TrackingAgrees
  <2>3. CASE q.op = "NewProxy"
    <3>1. Registering(t)'
      BY <1>2, <1>3, <2>1, <2>2, <2>3 DEF Registering, Tracking
    <3> QED
      BY <1>3, <2>2, <2>3, <3>1 DEF Turn, Tracking
  <2>4. CASE q.op = "CloseProxy"
    <3>1. Closing(t)'
      BY <1>2, <1>3, <2>1, <2>2, <2>4 DEF Closing, Tracking
    <3> QED
      BY <1>3, <2>2, <2>4, <3>1 DEF Turn, Tracking
  <2>5. CASE ~Tracking(q)
    BY <1>3, <2>5 DEF Turn, Tracking
  <2> QED
    BY <2>3, <2>4, <2>5 DEF Tracking
<1>8. Turns'
  <2> SUFFICES ASSUME NEW s \in Threads, s # t PROVE Turn(s)'
    BY <1>7 DEF Turns
  <2> QED
    BY <1>2, <1>3, OthersTurn DEF OnlyAbout
<1>9. TrackingAgrees'
  <2> SUFFICES ASSUME NEW u \in Requests, Tracking(u), ~Busy(Proxy(u))'
               PROVE  ConnID(u.run, u.proxy) \in active'
                        <=> Proxy(u) \in registered'
    BY DEF TrackingAgrees
  <2>1. \A s \in Threads : Serves(s)' => Proxy(req'[s]) # Proxy(u)
    BY DEF Busy, Serves, Proxy
  <2>2. ~Busy(Proxy(u))
    BY <1>3, <1>4, <2>1 DEF Busy, Serves
  <2> QED
    BY <1>1, <1>2, <2>2 DEF TrackingAgrees
<1> QED
  BY <1>1, <1>2, <1>6, <1>8, <1>9 DEF TurnInv

(* The handlers of a request, up to the answer.                            *)
LEMMA HandlerTurn ==
  ASSUME RunsWithoutSlash, TurnInv, TypeOK', NEW t \in Threads,
         ThreadStep(t), ~SendResponse(t)
  PROVE  TurnInv'
<1> DEFINE q == req[t]
<1>t. /\ TypeOK /\ handlerSet = TRUE /\ Turn(t)
      /\ pc \in [Threads -> Places] /\ rejects \in [Threads -> BOOLEAN]
  BY DEF TurnInv, Turns, TypeOK
<1>1. ASSUME NEW from \in Places \ {"free"}, NEW to \in Places \ {"free"},
             Goto(t, from, to)
      PROVE  pc[t] = from /\ pc'[t] = to /\ pc[t] # "free" /\ pc'[t] # "free"
  BY <1>t, <1>1 DEF Goto
<1> USE DEF Places
<1>2. CASE ProcessRequest(t)
  <2> DEFINE to == FirstPlace(q, handlerSet)
  <2>1. /\ Goto(t, "dispatch", to) /\ UNCHANGED <<handlerSet, req>>
        /\ UNCHANGED <<active, registered>>
        /\ rejects' = [rejects EXCEPT ![t] = Malformed(q)]
    BY <1>2 DEF ProcessRequest
  <2>2. /\ to \in {"respond", "untrack", "call"}
        /\ q.form = "ok" /\ q.op = "NewProxy" => to = "call"
        /\ q.form = "ok" /\ q.op = "CloseProxy" => to = "untrack"
        /\ ~Tracking(q) => to \in {"respond", "call"}
    <3>1. CASE q.form # "ok"
      BY <3>1 DEF FirstPlace
    <3>2. CASE q.form = "ok" /\ q.op = "CloseProxy"
      BY <3>2 DEF FirstPlace, Tracking
    <3>3. CASE q.form = "ok" /\ q.op # "CloseProxy"
               /\ q.op \in {"Login", "NewProxy", "NewUserConn"}
      BY <1>t, <3>3 DEF FirstPlace
    <3>4. CASE q.form = "ok" /\ q.op # "CloseProxy"
               /\ q.op \notin {"Login", "NewProxy", "NewUserConn"}
      BY <3>4 DEF FirstPlace
    <3> QED
      BY <3>1, <3>2, <3>3, <3>4
  <2> HIDE DEF to
  <2>3. pc[t] = "dispatch" /\ pc'[t] = to
    BY <1>1, <2>1, <2>2
  <2>4. Key(t)' = Key(t) /\ req'[t] = q
    BY <2>1 DEF Key
  <2>5. Turn(t)'
    BY <1>t, <2>1, <2>2, <2>3, <2>4
       DEF Turn, Registering, Closing, Tracking
  <2>6. \A s \in Threads : s # t => rejects'[s] = rejects[s]
    BY <1>t, <2>1
  <2> QED
    BY <1>t, <2>1, <2>2, <2>5, <2>6, GoesOn DEF OnlyAbout
<1>3. CASE HandlerReturns(t)
  <2>1. PICK ok \in BOOLEAN :
          /\ Goto(t, "call", AfterDecision(q.op, ok))
          /\ rejects' = [rejects EXCEPT ![t] = ~ok /\ q.op # "CloseProxy"]
    BY <1>3 DEF HandlerReturns
  <2>2. UNCHANGED <<handlerSet, req, active, registered>>
    BY <1>3 DEF HandlerReturns
  <2> DEFINE to == AfterDecision(q.op, ok)
  <2>3. /\ to \in {"store", "respond"}
        /\ to = "store" <=> q.op = "NewProxy" /\ ok
    BY DEF AfterDecision
  <2> HIDE DEF to
  <2>4. pc[t] = "call" /\ pc'[t] = to
    BY <1>1, <2>1, <2>3 DEF to
  <2>5. Key(t)' = Key(t) /\ req'[t] = q
    BY <2>2 DEF Key
  <2>6. rejects'[t] <=> ~ok /\ q.op # "CloseProxy"
    BY <1>t, <2>1
  <2>7. Turn(t)'
    BY <1>t, <2>2, <2>3, <2>4, <2>5, <2>6
       DEF Turn, Registering, Closing, Tracking
  <2>8. \A s \in Threads : s # t => rejects'[s] = rejects[s]
    BY <1>t, <2>1
  <2> QED
    BY <1>t, <2>1, <2>2, <2>3, <2>7, <2>8, GoesOn DEF OnlyAbout, to
<1>4. CASE StoreConnection(t)
  <2>1. /\ Goto(t, "store", "add") /\ active' = active \cup {Key(t)}
        /\ UNCHANGED <<handlerSet, req, rejects, registered>>
    BY <1>4 DEF StoreConnection
  <2>2. pc[t] = "store" /\ pc'[t] = "add"
    BY <1>1, <2>1
  <2>3. Key(t)' = Key(t) /\ req'[t] = q
    BY <2>1 DEF Key
  <2>4. q.op = "NewProxy" /\ Serves(t)
    BY <1>t, <2>2 DEF Turn, Closing, Tracking, Serves
  <2>5. Turn(t)'
    BY <1>t, <2>1, <2>2, <2>3, <2>4 DEF Turn, Registering, Tracking
  <2>6. OnlyAbout(t)
    BY <2>1, <2>4 DEF OnlyAbout
  <2> QED
    BY <1>t, <2>1, <2>5, <2>6, GoesOn
<1>5. CASE CountUp(t)
  <2>1. /\ Goto(t, "add", "respond") /\ UNCHANGED <<active, registered>>
        /\ UNCHANGED <<handlerSet, req, rejects>>
    BY <1>5 DEF CountUp
  <2>2. pc[t] = "add" /\ pc'[t] = "respond"
    BY <1>1, <2>1
  <2>3. Key(t)' = Key(t) /\ req'[t] = q
    BY <2>1 DEF Key
  <2>4. Turn(t)'
    BY <1>t, <2>1, <2>2, <2>3 DEF Turn, Registering, Closing, Tracking
  <2> QED
    BY <1>t, <2>1, <2>4, GoesOn DEF OnlyAbout
<1>6. CASE LoadAndDelete(t)
  <2> DEFINE to == IF Loaded(t) THEN "sub" ELSE AfterUntrack(t)
  <2>1. /\ Goto(t, "untrack", to) /\ active' = active \ {Key(t)}
        /\ UNCHANGED <<handlerSet, req, rejects, registered>>
    BY <1>6 DEF LoadAndDelete
  <2>2. to \in {"sub", "call", "respond"}
    BY DEF AfterUntrack
  <2> HIDE DEF to
  <2>3. pc[t] = "untrack" /\ pc'[t] = to
    BY <1>1, <2>1, <2>2
  <2>4. Key(t)' = Key(t) /\ req'[t] = q
    BY <2>1 DEF Key
  <2>5. q.op = "CloseProxy" /\ Serves(t)
    BY <1>t, <2>3 DEF Turn, Registering, Tracking, Serves
  <2>6. Turn(t)'
    BY <1>t, <2>1, <2>2, <2>3, <2>4, <2>5 DEF Turn, Closing, Tracking
  <2>7. OnlyAbout(t)
    BY <2>1, <2>5 DEF OnlyAbout
  <2> QED
    BY <1>t, <2>1, <2>2, <2>6, <2>7, GoesOn
<1>7. CASE CountDown(t)
  <2>1. /\ Goto(t, "sub", AfterUntrack(t)) /\ UNCHANGED <<active, registered>>
        /\ UNCHANGED <<handlerSet, req, rejects>>
    BY <1>7 DEF CountDown
  <2>2. AfterUntrack(t) \in {"call", "respond"}
    BY DEF AfterUntrack
  <2>3. pc[t] = "sub" /\ pc'[t] = AfterUntrack(t)
    BY <1>1, <2>1, <2>2
  <2>4. Key(t)' = Key(t) /\ req'[t] = q
    BY <2>1 DEF Key
  <2>5. Turn(t)'
    BY <1>t, <2>1, <2>2, <2>3, <2>4
       DEF Turn, Registering, Closing, Tracking
  <2> QED
    BY <1>t, <2>1, <2>2, <2>5, GoesOn DEF OnlyAbout
<1> QED
  BY <1>2, <1>3, <1>4, <1>5, <1>6, <1>7 DEF ThreadStep

(* The answer: frps and the server agree about the proxy again.            *)
LEMMA ResponseTurn ==
  ASSUME RunsWithoutSlash, TurnInv, TypeOK', NEW t \in Threads,
         SendResponse(t)
  PROVE  TurnInv'
<1> DEFINE q == req[t]
<1>1. /\ TypeOK /\ handlerSet = TRUE /\ Exclusive /\ Turn(t)
      /\ q \in Requests
  BY DEF TurnInv, Turns, TypeOK
<1>2. /\ pc[t] = "respond" /\ pc' = [pc EXCEPT ![t] = "free"]
      /\ UNCHANGED <<handlerSet, active>>
  BY DEF SendResponse, Goto
<1>3. /\ pc'[t] = "free"
      /\ \A s \in Threads : s # t => /\ pc'[s] = pc[s] /\ req'[s] = req[s]
                                     /\ rejects'[s] = rejects[s]
  BY <1>1, <1>2 DEF SendResponse, TypeOK
<1>4. /\ ~Serves(t)'
      /\ \A s \in Threads : s # t => (Serves(s)' <=> Serves(s))
  BY <1>3 DEF Serves
<1>5. OnlyAbout(t) /\
      (Tracking(q) => (Key(t) \in active <=> Proxy(q) \in registered'))
  <2>1. CASE q.op = "NewProxy"
    <3>1. registered' = IF rejects[t] THEN registered
                                      ELSE registered \cup {Proxy(q)}
      BY <2>1 DEF SendResponse
    <3>2. Registering(t)
      BY <1>1, <1>2, <2>1 DEF Turn
    <3> QED
      BY <1>2, <2>1, <3>1, <3>2
         DEF OnlyAbout, Serves, Registering, Tracking
  <2>2. CASE q.op = "CloseProxy"
    <3>1. registered' = registered \ {Proxy(q)}
      BY <2>2 DEF SendResponse
    <3>2. Closing(t)
      BY <1>1, <1>2, <2>2 DEF Turn
    <3> QED
      BY <1>2, <2>2, <3>1, <3>2 DEF OnlyAbout, Serves, Closing, Tracking
  <2>3. CASE ~Tracking(q)
    <3>1. registered' = registered
      BY <2>3 DEF SendResponse, Tracking
    <3> QED
      BY <1>2, <2>3, <3>1 DEF OnlyAbout
  <2> QED
    BY <2>1, <2>2, <2>3 DEF Tracking
<1>6. Exclusive'
  BY <1>1, <1>3, <1>4 DEF Exclusive
<1>7. Turns'
  <2>1. Turn(t)'
    BY <1>3 DEF Turn
  <2>2. ASSUME NEW s \in Threads, s # t PROVE Turn(s)'
    BY <1>3, <1>5, <2>2, OthersTurn
  <2> QED
    BY <2>1, <2>2 DEF Turns
<1>8. TrackingAgrees'
  <2> SUFFICES ASSUME NEW u \in Requests, Tracking(u), ~Busy(Proxy(u))'
               PROVE  ConnID(u.run, u.proxy) \in active'
                        <=> Proxy(u) \in registered'
    BY DEF TrackingAgrees
  <2>1. \A s \in Threads : s # t /\ Serves(s) => Proxy(req[s]) # Proxy(u)
    BY <1>3, <1>4 DEF Busy, Serves, Proxy
  <2>2. CASE Serves(t) /\ Proxy(u) = Proxy(q)
    <3>1. ConnID(u.run, u.proxy) = Key(t)
      BY <2>2 DEF Proxy, Key
    <3> QED
      BY <1>2, <1>5, <2>2, <3>1 DEF Serves
  <2>3. CASE Serves(t) => Proxy(u) # Proxy(q)
    <3>1. ~Busy(Proxy(u))
      BY <2>1, <2>3 DEF Busy, Serves
    <3> QED
      BY <1>5, <2>3, <3>1, OthersAgree
  <2> QED
    BY <2>2, <2>3
<1> QED
  BY <1>1, <1>2, <1>6, <1>7, <1>8 DEF TurnInv

(* A sequential frps is an frps.                                           *)
LEMMA SequentialIsNext == [SequentialNext]_vars => [Next]_vars
BY DEF SequentialNext, Next, AcceptInTurn

(* Every step keeps every goroutine in its turn.                           *)
LEMMA TurnStep ==
  ASSUME RunsWithoutSlash, TurnInv, [SequentialNext]_vars
  PROVE  TurnInv'
<1>1. TypeOK'
  BY TypeStep, SequentialIsNext DEF TurnInv
<1>2. CASE UNCHANGED vars
  <2>1. UNCHANGED <<handlerSet, active, pc, req, rejects, registered>>
    BY <1>2 DEF vars, threadVars
  <2>2. Exclusive' <=> Exclusive
    BY <2>1 DEF Exclusive, Serves, Proxy
  <2>3. Turns' <=> Turns
    BY <2>1 DEF Turns, Turn, Registering, Closing, Key, Proxy
  <2>4. TrackingAgrees' <=> TrackingAgrees
    BY <2>1 DEF TrackingAgrees, Busy, Proxy
  <2> QED
    BY <1>1, <2>1, <2>2, <2>3, <2>4 DEF TurnInv
<1>3. CASE SequentialNext
  BY <1>1, <1>3, AcceptTurn, HandlerTurn, ResponseTurn DEF SequentialNext
<1> QED
  BY <1>2, <1>3

-----------------------------------------------------------------------------
(***************************************************************************)
(* The counter.                                                            *)
(***************************************************************************)

(* No NewProxy stores a key twice, so nothing is ever counted twice.       *)
LEMMA NoDriftStep ==
  ASSUME RunsWithoutSlash, TurnInv, CountType, Drift = 0,
         [SequentialNext]_vars
  PROVE  CountType' /\ Drift' = 0
<1>1. CountType' /\ DriftStep
  BY CountStep, SequentialIsNext
<1>2. \A t \in Threads : pc[t] = "store" => Key(t) \notin active
  BY DEF TurnInv, Turns, Turn, Registering, Closing, Tracking
<1> QED
  BY <1>1, <1>2 DEF DriftStep

(* The proxies that are yet to be counted are tracked, each by its key.    *)
LEMMA AddersTracked ==
  ASSUME RunsWithoutSlash, TurnInv, CountType
  PROVE  Cardinality(Adders) <= Cardinality(active)
<1> DEFINE f == [t \in Adders |-> Key(t)]
<1>1. \A t \in Adders : t \in Threads /\ Serves(t) /\ Key(t) \in active
  BY DEF Adders, TurnInv, Turns, Turn, Registering, Closing, Tracking, Serves
<1>2. \A s, t \in Adders : Key(s) = Key(t) => s = t
  BY <1>1, ThreadKeys DEF TurnInv
<1>3. /\ f \in [Adders -> active]
      /\ \A s, t \in Adders : f[s] = f[t] => s = t
  BY <1>1, <1>2
<1> HIDE DEF f
<1>4. f \in Injection(Adders, active)
  BY <1>3, Fun_IsInj
<1> QED
  BY <1>4, FS_Injection DEF CountType

(* An exact counter is not negative.                                       *)
LEMMA NotNegative ==
  ASSUME RunsWithoutSlash, TurnInv, CountType, Drift = 0
  PROVE  CountExact
<1>1. Adders \in SUBSET Threads /\ Subtracters \in SUBSET Threads
  BY DEF Adders, Subtracters
<1>2. Cardinality(Adders) \in Nat /\ Cardinality(Subtracters) \in Nat
  BY <1>1, ThreadSets
<1>3. Cardinality(active) \in Nat /\ count \in Int
  BY FS_CardinalityType DEF CountType
<1>4. Cardinality(Adders) <= Cardinality(active)
  BY AddersTracked
<1> QED
  BY <1>2, <1>3, <1>4 DEF CountExact, Drift

(* All of it, from the first state on.                                     *)
SequentialInv == TurnInv /\ CountType /\ Drift = 0

(* The invariant holds in every state under a sequential frps.             *)
LEMMA SpecSequentialInv ==
  ASSUME RunsWithoutSlash
  PROVE  SequentialSpec => []SequentialInv
<1>1. SequentialInit => SequentialInv
  <2> SUFFICES ASSUME SequentialInit PROVE SequentialInv
    OBVIOUS
  <2>1. Init
    BY DEF SequentialInit
  <2>2. CountType
    BY <2>1, InitCountInv DEF CountInv
  <2>3. Adders = {} /\ Subtracters = {} /\ active = {} /\ count = 0
    BY <2>1 DEF Init, Adders, Subtracters
  <2>4. Drift = 0
    BY <2>3, FS_EmptySet DEF Drift
  <2> QED
    BY <2>2, <2>4, InitTurnInv DEF SequentialInv
<1>2. SequentialInv /\ [SequentialNext]_vars => SequentialInv'
  BY TurnStep, NoDriftStep DEF SequentialInv
<1> QED
  BY <1>1, <1>2, PTL DEF SequentialSpec

-----------------------------------------------------------------------------
(***************************************************************************)
(* The theorems.                                                           *)
(***************************************************************************)

(* What activeConnections holds is what frps holds, for every proxy that   *)
(* no request is about.                                                    *)
THEOREM SequentialTrackingAgrees ==
  ASSUME RunsWithoutSlash
  PROVE  SequentialSpec => []TrackingAgrees
<1>1. SequentialInv => TrackingAgrees
  BY DEF SequentialInv, TurnInv
<1> QED
  BY SpecSequentialInv, <1>1, PTL

(* ActiveConnections is exact up to the updates under way, and never       *)
(* negative.                                                               *)
THEOREM SequentialCountExact ==
  ASSUME RunsWithoutSlash
  PROVE  SequentialSpec => []CountExact
<1>1. SequentialInv => CountExact
  BY NotNegative DEF SequentialInv
<1> QED
  BY SpecSequentialInv, <1>1, PTL

(* The handler is asked about a proxy before handleNewProxy tracks it, and *)
(* told of its end after handleCloseProxy has dropped it.                  *)
THEOREM SequentialUntrackedDuringEvent ==
  ASSUME RunsWithoutSlash
  PROVE  SequentialSpec => []UntrackedDuringEvent
<1>1. SequentialInv => UntrackedDuringEvent
  <2> SUFFICES ASSUME SequentialInv, NEW t \in Threads,
                      pc[t] = "call", Tracking(req[t])
               PROVE  Key(t) \notin active
    BY DEF UntrackedDuringEvent
  <2>1. Turn(t)
    BY DEF SequentialInv, TurnInv, Turns
  <2> QED
    BY <2>1 DEF Turn, Registering, Closing, Tracking
<1> QED
  BY SpecSequentialInv, <1>1, PTL
=============================================================================
