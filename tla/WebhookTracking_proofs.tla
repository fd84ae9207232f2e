----------------------- MODULE WebhookTracking_proofs -----------------------
(***************************************************************************)
(* Proofs about WebhookTracking, for any number of request goroutines and  *)
(* any requests: the counter never settles below the number of tracked     *)
(* proxies, it departs from it only when a NewProxy is repeated, and only  *)
(* what the handler has allowed is tracked.                                *)
(***************************************************************************)
EXTENDS WebhookTracking, FiniteSetTheorems, TLAPS

(* The part of the invariant that the counting argument needs.             *)
CountType ==
  /\ IsFiniteSet(active)
  /\ count \in Int
  /\ pc \in [Threads -> Places]

-----------------------------------------------------------------------------
(* Cardinalities of the sets of goroutines.                                *)
LEMMA ThreadSets ==
  ASSUME NEW S \in SUBSET Threads
  PROVE  IsFiniteSet(S) /\ Cardinality(S) \in Nat
BY ThreadsAssumption, FS_Subset, FS_CardinalityType

(* Adding an element changes a cardinality by at most one.                 *)
LEMMA AddOne ==
  ASSUME NEW S, IsFiniteSet(S), NEW x
  PROVE  /\ IsFiniteSet(S \cup {x})
         /\ Cardinality(S) \in Nat
         /\ x \notin S => Cardinality(S \cup {x}) = Cardinality(S) + 1
         /\ x \in S => S \cup {x} = S
BY FS_AddElement, FS_CardinalityType

(* So does removing one.                                                   *)
LEMMA RemoveOne ==
  ASSUME NEW S, IsFiniteSet(S), NEW x
  PROVE  /\ IsFiniteSet(S \ {x})
         /\ Cardinality(S) \in Nat
         /\ x \in S => Cardinality(S \ {x}) = Cardinality(S) - 1
         /\ x \notin S => S \ {x} = S
BY FS_RemoveElement, FS_CardinalityType

(* A goroutine that moves between places outside add and sub leaves both   *)
(* sets alone.                                                             *)
LEMMA MovesElsewhere ==
  ASSUME pc \in [Threads -> Places], NEW t \in Threads,
         NEW from \in Places \ {"add", "sub"},
         NEW to \in Places \ {"add", "sub"}, Goto(t, from, to)
  PROVE  Adders' = Adders /\ Subtracters' = Subtracters
BY DEF Goto, Adders, Subtracters

-----------------------------------------------------------------------------
(* What a step does to the drift.                                          *)
DriftStep ==
  \/ Drift' = Drift
  \/ /\ Drift' = Drift + 1
     /\ \E t \in Threads : pc[t] = "store" /\ Key(t) \in active

(* Every step moves the drift as DriftStep says.                           *)
LEMMA CountStep ==
  ASSUME CountType, [Next]_vars
  PROVE  CountType' /\ Drift \in Int /\ DriftStep
<1> DEFINE A == Cardinality(Adders)
           S == Cardinality(Subtracters)
           M == Cardinality(active)
<1>0. /\ A \in Nat /\ S \in Nat /\ M \in Nat
      /\ IsFiniteSet(Adders) /\ IsFiniteSet(Subtracters)
      /\ Drift \in Int
  <2>1. Adders \in SUBSET Threads /\ Subtracters \in SUBSET Threads
    BY DEF Adders, Subtracters
  <2>2. /\ A \in Nat /\ IsFiniteSet(Adders)
        /\ S \in Nat /\ IsFiniteSet(Subtracters)
    BY <2>1, ThreadSets
  <2>3. M \in Nat
    BY FS_CardinalityType DEF CountType
  <2> QED
    BY <2>2, <2>3 DEF Drift, CountType
<1>1. CASE UNCHANGED <<active, count, pc>>
  BY <1>0, <1>1 DEF CountType, DriftStep, Drift, Adders, Subtracters
<1>2. ASSUME NEW t \in Threads,
             NEW from \in Places \ {"add", "sub"},
             NEW to \in Places \ {"add", "sub"},
             Goto(t, from, to), UNCHANGED <<active, count>>
      PROVE  CountType' /\ DriftStep
  <2>1. Adders' = Adders /\ Subtracters' = Subtracters
    BY <1>2, MovesElsewhere DEF CountType
  <2>2. CountType'
    BY <1>2 DEF CountType, Goto
  <2> QED
    BY <1>2, <2>1, <2>2 DEF DriftStep, Drift
<1>3. ASSUME NEW t \in Threads, StoreConnection(t)
      PROVE  CountType' /\ DriftStep
  <2>1. Adders' = Adders \cup {t} /\ t \notin Adders
        /\ Subtracters' = Subtracters
    BY <1>3 DEF StoreConnection, Goto, Adders, Subtracters, CountType
  <2>2. Cardinality(Adders') = A + 1 /\ Cardinality(Subtracters') = S
    BY <1>0, <2>1, AddOne
  <2>3. active' = active \cup {Key(t)} /\ count' = count
    BY <1>3 DEF StoreConnection
  <2>4. CountType'
    BY <1>3, <2>3, AddOne DEF CountType, StoreConnection, Goto, Places
  <2>5. CASE Key(t) \in active
    <3>1. Cardinality(active') = M
      BY <2>3, <2>5, AddOne DEF CountType
    <3>2. Drift' = Drift + 1
      BY <1>0, <2>2, <2>3, <3>1 DEF Drift, CountType
    <3> QED
      BY <1>3, <2>4, <2>5, <3>2 DEF DriftStep, StoreConnection, Goto
  <2>6. CASE Key(t) \notin active
    <3>1. Cardinality(active') = M + 1
      BY <2>3, <2>6, AddOne DEF CountType
    <3>2. Drift' = Drift
      BY <1>0, <2>2, <2>3, <3>1 DEF Drift, CountType
    <3> QED
      BY <2>4, <3>2 DEF DriftStep
  <2> QED
    BY <2>5, <2>6
<1>4. ASSUME NEW t \in Threads, CountUp(t)
      PROVE  CountType' /\ DriftStep
  <2>1. Adders' = Adders \ {t} /\ t \in Adders /\ Subtracters' = Subtracters
    BY <1>4 DEF CountUp, Goto, Adders, Subtracters, CountType
  <2>2. Cardinality(Adders') = A - 1
    BY <1>0, <2>1, RemoveOne
  <2>3. count' = count + 1 /\ active' = active
    BY <1>4 DEF CountUp
  <2>4. CountType'
    BY <1>4, <2>3 DEF CountType, CountUp, Goto, Places
  <2>5. Drift' = Drift
    BY <1>0, <2>1, <2>2, <2>3 DEF Drift, CountType
  <2> QED
    BY <2>4, <2>5 DEF DriftStep
<1>5. ASSUME NEW t \in Threads, LoadAndDelete(t)
      PROVE  CountType' /\ DriftStep
  <2>1. active' = active \ {Key(t)} /\ count' = count
    BY <1>5 DEF LoadAndDelete
  <2>2. CountType'
    BY <1>5, <2>1, RemoveOne
       DEF CountType, LoadAndDelete, Goto, Places, AfterUntrack
  <2>3. CASE Key(t) \in active
    <3>1. Subtracters' = Subtracters \cup {t} /\ t \notin Subtracters
          /\ Adders' = Adders
      BY <1>5, <2>3 DEF LoadAndDelete, Goto, Adders, Subtracters, CountType,
                        Loaded
    <3>2. Cardinality(Subtracters') = S + 1
      BY <1>0, <3>1, AddOne
    <3>3. Cardinality(active') = M - 1
      BY <2>1, <2>3, RemoveOne DEF CountType
    <3>4. Drift' = Drift
      BY <1>0, <2>1, <3>1, <3>2, <3>3 DEF Drift, CountType
    <3> QED
      BY <2>2, <3>4 DEF DriftStep
  <2>4. CASE Key(t) \notin active
    <3>1. active' = active
      BY <2>1, <2>4
    <3>2. Subtracters' = Subtracters /\ Adders' = Adders
      BY <1>5, <2>4 DEF LoadAndDelete, Goto, Adders, Subtracters, CountType,
                        Loaded, AfterUntrack
    <3> QED
      BY <2>1, <2>2, <3>1, <3>2 DEF DriftStep, Drift
  <2> QED
    BY <2>3, <2>4
<1>6. ASSUME NEW t \in Threads, CountDown(t)
      PROVE  CountType' /\ DriftStep
  <2>1. Subtracters' = Subtracters \ {t} /\ t \in Subtracters
        /\ Adders' = Adders
    BY <1>6 DEF CountDown, Goto, Adders, Subtracters, CountType, AfterUntrack
  <2>2. Cardinality(Subtracters') = S - 1
    BY <1>0, <2>1, RemoveOne
  <2>3. count' = count - 1 /\ active' = active
    BY <1>6 DEF CountDown
  <2>4. CountType'
    BY <1>6, <2>3 DEF CountType, CountDown, Goto, Places, AfterUntrack
  <2>5. Drift' = Drift
    BY <1>0, <2>1, <2>2, <2>3 DEF Drift, CountType
  <2> QED
    BY <2>4, <2>5 DEF DriftStep
<1>7. ASSUME NEW t \in Threads, ProcessRequest(t)
      PROVE  CountType' /\ DriftStep
  <2>1. CASE FirstPlace(req[t], handlerSet) \in Places \ {"add", "sub"}
    BY <1>2, <1>7, <2>1 DEF ProcessRequest, Places
  <2>2. FirstPlace(req[t], handlerSet) \in Places \ {"add", "sub"}
    BY Zenon DEF FirstPlace, Places
  <2> QED
    BY <2>1, <2>2
<1>8. ASSUME NEW t \in Threads, NEW q \in Requests, Accept(t, q)
      PROVE  CountType' /\ DriftStep
  BY <1>2, <1>8 DEF Accept, Places
<1>9. ASSUME NEW t \in Threads, HandlerReturns(t)
      PROVE  CountType' /\ DriftStep
  <2>1. PICK ok \in BOOLEAN : Goto(t, "call", AfterDecision(req[t].op, ok))
    BY <1>9 DEF HandlerReturns
  <2>2. UNCHANGED <<active, count>>
    BY <1>9 DEF HandlerReturns
  <2>3. AfterDecision(req[t].op, ok) \in Places \ {"add", "sub"}
    BY DEF AfterDecision, Places
  <2> QED
    BY <1>2, <2>1, <2>2, <2>3 DEF Places
<1>10. ASSUME NEW t \in Threads, SendResponse(t)
       PROVE  CountType' /\ DriftStep
  BY <1>2, <1>10 DEF SendResponse, Places
<1>11. CASE SetHandler \/ UNCHANGED vars
  BY <1>1, <1>11 DEF SetHandler, vars, threadVars
<1> QED
  BY <1>0, <1>3, <1>4, <1>5, <1>6, <1>7, <1>8, <1>9, <1>10, <1>11
     DEF Next, ThreadStep

(* The counting invariant is inductive.                                    *)
CountInv == CountType /\ CountCoversTracked

(* Nothing is tracked or counted at first.                                 *)
LEMMA InitCountInv == Init => CountInv
<1> SUFFICES ASSUME Init PROVE CountInv
  OBVIOUS
<1>1. IsFiniteSet({}) /\ Cardinality({}) = 0
  BY FS_EmptySet
<1>2. Adders = {} /\ Subtracters = {}
  BY DEF Init, Adders, Subtracters
<1>3. CountType
  BY <1>1 DEF Init, CountType, Places
<1> QED
  BY <1>1, <1>2, <1>3 DEF Init, CountInv, CountCoversTracked, Drift

(* No step takes the drift below zero.                                     *)
LEMMA NextCountInv == CountInv /\ [Next]_vars => CountInv'
BY CountStep DEF CountInv, CountCoversTracked, DriftStep

(* ActiveConnections never settles below the number of tracked proxies.    *)
THEOREM CounterCoversTracked == Spec => []CountCoversTracked
BY InitCountInv, NextCountInv, PTL DEF Spec, CountInv

(* The counter departs from the map only when NewProxy stores a key that   *)
(* is there already, and then by one.                                      *)
THEOREM CounterLeaksOnlyByDuplicate == Spec => LeakOnlyByDuplicate
<1>1. Spec => []CountInv
  BY InitCountInv, NextCountInv, PTL DEF Spec
<1>2. CountInv /\ [Next]_vars =>
        [\/ Drift' = Drift
         \/ /\ Drift' = Drift + 1
            /\ \E t \in Threads : pc[t] = "store" /\ Key(t) \in active]_vars
  BY CountStep DEF CountInv, DriftStep
<1> QED
  BY <1>1, <1>2, PTL DEF Spec, LeakOnlyByDuplicate
-----------------------------------------------------------------------------
(***************************************************************************)
(* Types, and the handler's say.                                           *)
(***************************************************************************)

(* A goroutine that is about to store a proxy serves a NewProxy that the   *)
(* handler has allowed.                                                    *)
StoringAllowed ==
  \A t \in Threads :
    pc[t] = "store" => req[t].op = "NewProxy" /\ Proxy(req[t]) \in allowed

AllowInv == TypeOK /\ StoringAllowed /\ TrackedWasAllowed

(* Nothing is tracked or stored at first.                                  *)
LEMMA InitAllowInv == Init => AllowInv
<1> SUFFICES ASSUME Init PROVE AllowInv
  OBVIOUS
<1>1. NoRequest \in Requests
  BY RequestsNonEmpty DEF NoRequest
<1>2. TypeOK
  BY <1>1 DEF Init, TypeOK, Places
<1>3. StoringAllowed /\ TrackedWasAllowed
  BY DEF Init, StoringAllowed, TrackedWasAllowed
<1> QED
  BY <1>2, <1>3 DEF AllowInv

(* Every step keeps the types.                                             *)
LEMMA TypeStep == TypeOK /\ [Next]_vars => TypeOK'
<1> SUFFICES ASSUME TypeOK, [Next]_vars PROVE TypeOK'
  OBVIOUS
<1> USE DEF TypeOK, threadVars, Goto
<1>1. CASE SetHandler \/ UNCHANGED vars
  BY <1>1 DEF SetHandler, vars
<1>2. ASSUME NEW t \in Threads, NEW q \in Requests, Accept(t, q) PROVE TypeOK'
  BY <1>2 DEF Accept, Places
<1>3. ASSUME NEW t \in Threads, ProcessRequest(t) PROVE TypeOK'
  <2>1. FirstPlace(req[t], handlerSet) \in Places
    BY Zenon DEF FirstPlace, Places
  <2>2. Malformed(req[t]) \in BOOLEAN
    BY DEF Malformed
  <2> QED
    BY <1>3, <2>1, <2>2 DEF ProcessRequest
<1>4. ASSUME NEW t \in Threads, HandlerReturns(t) PROVE TypeOK'
  <2>1. PICK ok \in BOOLEAN :
          /\ Goto(t, "call", AfterDecision(req[t].op, ok))
          /\ rejects' = [rejects EXCEPT ![t] = ~ok /\ req[t].op # "CloseProxy"]
    BY <1>4 DEF HandlerReturns
  <2>2. AfterDecision(req[t].op, ok) \in Places
    BY DEF AfterDecision, Places
  <2>3. Proxy(req[t]) \in {Proxy(q) : q \in Requests}
    OBVIOUS
  <2>4. allowed' \subseteq {Proxy(q) : q \in Requests}
    BY <1>4, <2>3 DEF HandlerReturns
  <2>5. UNCHANGED <<handlerSet, active, count, req, hasHandler, registered>>
    BY <1>4 DEF HandlerReturns
  <2> QED
    BY <2>1, <2>2, <2>4, <2>5
<1>5. ASSUME NEW t \in Threads, StoreConnection(t) PROVE TypeOK'
  <2>1. Key(t) \in {q.run \o q.proxy : q \in Requests}
    BY DEF Key, ConnID
  <2> QED
    BY <1>5, <2>1 DEF StoreConnection, Places
<1>6. ASSUME NEW t \in Threads, CountUp(t) \/ CountDown(t) PROVE TypeOK'
  <2>1. AfterUntrack(t) \in Places
    BY DEF AfterUntrack, Places
  <2>2. count' \in Int
    BY <1>6 DEF CountUp, CountDown
  <2>3. pc' \in [Threads -> Places]
    BY <1>6, <2>1 DEF CountUp, CountDown, Places
  <2>4. UNCHANGED <<handlerSet, active, req, hasHandler, rejects, registered,
                    allowed>>
    BY <1>6 DEF CountUp, CountDown
  <2> QED
    BY <2>2, <2>3, <2>4
<1>7. ASSUME NEW t \in Threads, LoadAndDelete(t) PROVE TypeOK'
  BY <1>7 DEF LoadAndDelete, AfterUntrack, Places
<1>8. ASSUME NEW t \in Threads, SendResponse(t) PROVE TypeOK'
  <2>1. NoRequest \in Requests
    BY RequestsNonEmpty DEF NoRequest
  <2>2. Proxy(req[t]) \in {Proxy(q) : q \in Requests}
    OBVIOUS
  <2>3. \/ registered' = registered \cup {Proxy(req[t])}
        \/ registered' = registered \ {Proxy(req[t])}
        \/ registered' = registered
    <3>1. CASE req[t].op = "NewProxy" /\ ~rejects[t]
      BY <1>8, <3>1 DEF SendResponse
    <3>2. CASE req[t].op = "CloseProxy"
      BY <1>8, <3>2 DEF SendResponse
    <3>3. CASE ~(req[t].op = "NewProxy" /\ ~rejects[t])
               /\ req[t].op # "CloseProxy"
      BY <1>8, <3>3 DEF SendResponse
    <3> QED
      BY <3>1, <3>2, <3>3
  <2>4. registered' \subseteq {Proxy(q) : q \in Requests}
    BY <2>2, <2>3
  <2> QED
    BY <1>8, <2>1, <2>4 DEF SendResponse, Places
<1> QED
  BY <1>1, <1>2, <1>3, <1>4, <1>5, <1>6, <1>7, <1>8 DEF Next, ThreadStep

(* Only an allowed NewProxy reaches the store.                             *)
LEMMA StoringStep == AllowInv /\ [Next]_vars => StoringAllowed'
<1> SUFFICES ASSUME AllowInv, [Next]_vars, NEW s \in Threads, pc'[s] = "store"
             PROVE  req'[s].op = "NewProxy" /\ Proxy(req'[s]) \in allowed'
  BY DEF StoringAllowed
<1> USE DEF AllowInv, TypeOK, StoringAllowed, threadVars, Goto
<1>1. CASE SetHandler \/ UNCHANGED vars
  BY <1>1 DEF SetHandler, vars
<1>2. ASSUME NEW t \in Threads, NEW q \in Requests, Accept(t, q)
      PROVE  pc[s] = "store" /\ req'[s] = req[s] /\ UNCHANGED allowed
  BY <1>2 DEF Accept
<1>3. ASSUME NEW t \in Threads, HandlerReturns(t), s = t
      PROVE  req'[s].op = "NewProxy" /\ Proxy(req'[s]) \in allowed'
  <2>1. PICK ok \in BOOLEAN :
          /\ Goto(t, "call", AfterDecision(req[t].op, ok))
          /\ allowed' = allowed \cup
               IF ok /\ req[t].op = "NewProxy" THEN {Proxy(req[t])} ELSE {}
          /\ UNCHANGED req
    BY <1>3 DEF HandlerReturns
  <2>2. AfterDecision(req[t].op, ok) = "store"
    BY <1>3, <2>1
  <2>3. ok /\ req[t].op = "NewProxy"
    BY <2>2 DEF AfterDecision
  <2> QED
    BY <1>3, <2>1, <2>3
<1>4. ASSUME NEW t \in Threads, HandlerReturns(t), s # t
      PROVE  pc[s] = "store" /\ req'[s] = req[s] /\ allowed \subseteq allowed'
  BY <1>4 DEF HandlerReturns
<1>5. ASSUME NEW t \in Threads, ProcessRequest(t)
      PROVE  pc[s] = "store" /\ req'[s] = req[s] /\ UNCHANGED allowed
  <2>1. FirstPlace(req[t], handlerSet) # "store"
    BY Zenon DEF FirstPlace
  <2> QED
    BY <1>5, <2>1 DEF ProcessRequest
<1>6. ASSUME NEW t \in Threads,
             StoreConnection(t) \/ CountUp(t) \/ LoadAndDelete(t)
               \/ CountDown(t)
      PROVE  pc[s] = "store" /\ req'[s] = req[s] /\ UNCHANGED allowed
  BY <1>6 DEF StoreConnection, CountUp, LoadAndDelete, CountDown, AfterUntrack
<1>7. ASSUME NEW t \in Threads, SendResponse(t)
      PROVE  pc[s] = "store" /\ req'[s] = req[s] /\ UNCHANGED allowed
  BY <1>7 DEF SendResponse
<1> QED
  BY <1>1, <1>2, <1>3, <1>4, <1>5, <1>6, <1>7 DEF Next, ThreadStep

(* Only StoreConnection adds to the map, and allowed only grows.           *)
LEMMA TrackedStep == AllowInv /\ [Next]_vars => TrackedWasAllowed'
<1> SUFFICES ASSUME AllowInv, [Next]_vars PROVE TrackedWasAllowed'
  OBVIOUS
<1> USE DEF AllowInv, TypeOK, TrackedWasAllowed, threadVars, Goto
<1>1. CASE active' \subseteq active /\ allowed \subseteq allowed'
  BY <1>1
<1>2. ASSUME NEW t \in Threads, StoreConnection(t) PROVE TrackedWasAllowed'
  <2>1. Proxy(req[t]) \in allowed
    BY <1>2 DEF StoreConnection, StoringAllowed
  <2>2. active' = active \cup {ConnID(req[t].run, req[t].proxy)}
        /\ UNCHANGED allowed
    BY <1>2 DEF StoreConnection, Key
  <2> QED
    BY <2>1, <2>2 DEF Proxy
<1>3. CASE SetHandler \/ UNCHANGED vars
  BY <1>1, <1>3 DEF SetHandler, vars
<1>4. ASSUME NEW t \in Threads, NEW q \in Requests, Accept(t, q)
      PROVE  TrackedWasAllowed'
  BY <1>1, <1>4 DEF Accept
<1>5. ASSUME NEW t \in Threads, ThreadStep(t), ~StoreConnection(t)
      PROVE  active' \subseteq active /\ allowed \subseteq allowed'
  BY <1>5 DEF ThreadStep, ProcessRequest, HandlerReturns, CountUp,
              LoadAndDelete, CountDown, SendResponse
<1> QED
  BY <1>1, <1>2, <1>3, <1>4, <1>5 DEF Next

(* The invariant holds in every state of every behaviour.                  *)
LEMMA SpecAllowInv == Spec => []AllowInv
<1>1. AllowInv /\ [Next]_vars => AllowInv'
  BY TypeStep, StoringStep, TrackedStep DEF AllowInv
<1> QED
  BY <1>1, InitAllowInv, PTL DEF Spec

(* Type correctness of the webhook server.                                 *)
THEOREM TrackingTypeOK == Spec => []TypeOK
BY SpecAllowInv, PTL DEF AllowInv

(* A proxy whose own NewProxy the handler has not allowed is never         *)
(* tracked, whatever it has said of the run's Login.                       *)
THEOREM TrackedOnlyIfAllowed == Spec => []TrackedWasAllowed
BY SpecAllowInv, PTL DEF AllowInv
=============================================================================
