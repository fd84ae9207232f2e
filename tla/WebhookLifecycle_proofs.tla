----------------------- MODULE WebhookLifecycle_proofs ----------------------
(***************************************************************************)
(* Proofs about WebhookLifecycle, for any number of calls of Start and     *)
(* Stop: its types, that started always has an owner, and that on a fixed  *)
(* port the listener of a Start that has returned is about to be closed.   *)
(***************************************************************************)
EXTENDS WebhookLifecycle, TLAPS

-----------------------------------------------------------------------------
(***************************************************************************)
(* The inductive invariant, part by part.                                  *)
(***************************************************************************)

(* The field server is not nil where it is used: it never becomes nil      *)
(* again.                                                                  *)
ServerInv ==
  /\ \A k \in Calls : pc[k] = "shut" => server # None
  /\ \A k \in Calls : pc[k] \in {"drain", "drainErr"} => target[k] # None
  /\ \A a \in Starts : serve[a] # "none" => server # None

(* Where the port is fixed one listener is open at a time.  Its owner is   *)
(* between net.Listen and the assignment of server, or server is its       *)
(* owner's: a later Start cannot assign server before the address is free. *)
(* Once its owner has called Shutdown, its goroutine has still to call     *)
(* Serve, which will refuse.                                               *)
ListenerInv == fixedPort =>
  /\ \A a, b \in open : a = b
  /\ \A a \in Starts :
       /\ pc[a] \in {"idle", "listen"} => a \notin open /\ serve[a] = "none"
       /\ pc[a] = "assign" => a \in open /\ serve[a] = "none"
       /\ a \in open /\ pc[a] # "assign" =>
            server = a /\ serve[a] \in {"spawned", a}
       /\ a \in open /\ pc[a] \in {"drain", "drainErr", "store", "returned"} =>
            a \in closing /\ serve[a] = "spawned"

IInv == TypeOK /\ ServerInv /\ ListenerInv /\ StartedIsOwned

(* Where the port is fixed, a listener that outlives the return of its     *)
(* Start has a goroutine that will call Serve on a server that is shut     *)
(* down, and thereby close it.                                             *)
ReturnedListenerCloses ==
  \A a \in Starts :
    fixedPort /\ pc[a] = "returned" /\ a \in open =>
      serve[a] = "spawned" /\ server \in closing

-----------------------------------------------------------------------------
(* The server starts in the invariant.                                     *)
LEMMA InitIInv == Init => IInv
<1> SUFFICES ASSUME Init PROVE IInv
  OBVIOUS
<1>1. TypeOK
  <2>1. started \in BOOLEAN /\ fixedPort \in BOOLEAN
    BY Zenon DEF Init
  <2> QED
    BY <2>1 DEF Init, TypeOK, Marks
<1>2. ServerInv /\ ListenerInv /\ StartedIsOwned
  BY DEF Init, ServerInv, ListenerInv, StartedIsOwned, Calls
<1> QED
  BY <1>1, <1>2 DEF IInv

(* Every step keeps the types; a server that is shut down, or served, is   *)
(* not nil.                                                                *)
LEMMA TypeStep == TypeOK /\ ServerInv /\ [Next]_vars => TypeOK'
<1> SUFFICES ASSUME TypeOK, ServerInv, [Next]_vars PROVE TypeOK'
  OBVIOUS
<1> USE DEF callVars, serveVars, fateVars, TypeOK, Calls, ServerInv, Marks
<1>1. ASSUME NEW a \in Starts, CancelCtx(a) PROVE TypeOK'
  BY <1>1 DEF CancelCtx
<1>2. ASSUME NEW a \in Starts, StartSwap(a) PROVE TypeOK'
  BY <1>2 DEF StartSwap, Goto
<1>3. ASSUME NEW a \in Starts, StartListens(a) PROVE TypeOK'
  BY <1>3 DEF StartListens, Goto
<1>4. ASSUME NEW a \in Starts, StartListenFails(a) PROVE TypeOK'
  BY <1>4 DEF StartListenFails, Goto, Released
<1>5. ASSUME NEW a \in Starts, StartAssigns(a) PROVE TypeOK'
  BY <1>5 DEF StartAssigns, Goto
<1>6. ASSUME NEW a \in Starts, StartWaits(a) PROVE TypeOK'
  BY <1>6 DEF StartWaits, Goto
<1>7. ASSUME NEW a \in Starts, Serve(a) PROVE TypeOK'
  BY <1>7 DEF Serve
<1>8. ASSUME NEW a \in Starts, ServeFails(a) PROVE TypeOK'
  BY <1>8 DEF ServeFails
<1>9. ASSUME NEW a \in Starts, Request(a) PROVE TypeOK'
  BY <1>9 DEF Request
<1>10. ASSUME NEW a \in Starts, Answered(a) PROVE TypeOK'
  BY <1>10 DEF Answered
<1>11. ASSUME NEW s \in Stops, StopLoads(s) PROVE TypeOK'
  BY <1>11 DEF StopLoads, Goto
<1>12. ASSUME NEW k \in Calls, ShutdownChecks(k) PROVE TypeOK'
  BY <1>12 DEF ShutdownChecks, Goto, NothingToStop
<1>13. ASSUME NEW k \in Calls, Shutdown(k) PROVE TypeOK'
  BY <1>13 DEF Shutdown, Goto
<1>14. ASSUME NEW k \in Calls, Drained(k) PROVE TypeOK'
  BY <1>14 DEF Drained, Goto
<1>15. ASSUME NEW k \in Calls, ShutdownFails(k) PROVE TypeOK'
  BY <1>15 DEF ShutdownFails, Goto
<1>16. ASSUME NEW k \in Calls, ShutdownStores(k) PROVE TypeOK'
  BY <1>16 DEF ShutdownStores, Goto, Released
<1>17. CASE UNCHANGED vars
  BY <1>17 DEF vars
<1> QED
  BY <1>1, <1>2, <1>3, <1>4, <1>5, <1>6, <1>7, <1>8, <1>9, <1>10, <1>11,
     <1>12, <1>13, <1>14, <1>15, <1>16, <1>17
     DEF Next, StartStep, ShutdownStep

(* Only StartAssigns changes server, and it does not make it nil.          *)
LEMMA ServerStep == TypeOK /\ ServerInv /\ [Next]_vars => ServerInv'
<1> SUFFICES ASSUME TypeOK, ServerInv, [Next]_vars PROVE ServerInv'
  OBVIOUS
<1> USE NoneAssumption, MarksAssumption
<1> USE DEF callVars, serveVars, fateVars, TypeOK, Calls, ServerInv, Marks
<1>1. ASSUME NEW a \in Starts, CancelCtx(a) PROVE ServerInv'
  BY <1>1 DEF CancelCtx
<1>2. ASSUME NEW a \in Starts, StartSwap(a) PROVE ServerInv'
  BY <1>2 DEF StartSwap, Goto
<1>3. ASSUME NEW a \in Starts, StartListens(a) PROVE ServerInv'
  BY <1>3 DEF StartListens, Goto
<1>4. ASSUME NEW a \in Starts, StartListenFails(a) PROVE ServerInv'
  BY <1>4 DEF StartListenFails, Goto, Released
<1>5. ASSUME NEW a \in Starts, StartAssigns(a) PROVE ServerInv'
  BY <1>5 DEF StartAssigns, Goto
<1>6. ASSUME NEW a \in Starts, StartWaits(a) PROVE ServerInv'
  BY <1>6 DEF StartWaits, Goto
<1>7. ASSUME NEW a \in Starts, Serve(a) PROVE ServerInv'
  BY <1>7 DEF Serve
<1>8. ASSUME NEW a \in Starts, ServeFails(a) PROVE ServerInv'
  BY <1>8 DEF ServeFails
<1>9. ASSUME NEW a \in Starts, Request(a) PROVE ServerInv'
  BY <1>9 DEF Request
<1>10. ASSUME NEW a \in Starts, Answered(a) PROVE ServerInv'
  BY <1>10 DEF Answered
<1>11. ASSUME NEW s \in Stops, StopLoads(s) PROVE ServerInv'
  BY <1>11 DEF StopLoads, Goto
<1>12. ASSUME NEW k \in Calls, ShutdownChecks(k) PROVE ServerInv'
  BY <1>12 DEF ShutdownChecks, Goto, NothingToStop
<1>13. ASSUME NEW k \in Calls, Shutdown(k) PROVE ServerInv'
  BY <1>13 DEF Shutdown, Goto
<1>14. ASSUME NEW k \in Calls, Drained(k) PROVE ServerInv'
  BY <1>14 DEF Drained, Goto
<1>15. ASSUME NEW k \in Calls, ShutdownFails(k) PROVE ServerInv'
  BY <1>15 DEF ShutdownFails, Goto
<1>16. ASSUME NEW k \in Calls, ShutdownStores(k) PROVE ServerInv'
  BY <1>16 DEF ShutdownStores, Goto, Released
<1>17. CASE UNCHANGED vars
  BY <1>17 DEF vars
<1> QED
  BY <1>1, <1>2, <1>3, <1>4, <1>5, <1>6, <1>7, <1>8, <1>9, <1>10, <1>11,
     <1>12, <1>13, <1>14, <1>15, <1>16, <1>17
     DEF Next, StartStep, ShutdownStep

(* A listener passes from net.Listen to its server, from there to Shutdown *)
(* and no further.                                                         *)
LEMMA ListenerStep ==
  TypeOK /\ ServerInv /\ ListenerInv /\ [Next]_vars => ListenerInv'
<1> SUFFICES ASSUME TypeOK, ServerInv, ListenerInv, [Next]_vars
             PROVE  ListenerInv'
  OBVIOUS
<1> USE NoneAssumption, MarksAssumption
<1> USE DEF callVars, serveVars, fateVars, TypeOK, Calls, ServerInv,
            ListenerInv, Marks
<1>1. ASSUME NEW a \in Starts, CancelCtx(a) PROVE ListenerInv'
  BY <1>1 DEF CancelCtx
<1>2. ASSUME NEW a \in Starts, StartSwap(a) PROVE ListenerInv'
  BY <1>2 DEF StartSwap, Goto
<1>3. ASSUME NEW a \in Starts, StartListens(a) PROVE ListenerInv'
  BY <1>3 DEF StartListens, Goto
<1>4. ASSUME NEW a \in Starts, StartListenFails(a) PROVE ListenerInv'
  BY <1>4 DEF StartListenFails, Goto, Released
<1>5. ASSUME NEW a \in Starts, StartAssigns(a) PROVE ListenerInv'
  BY <1>5 DEF StartAssigns, Goto
<1>6. ASSUME NEW a \in Starts, StartWaits(a) PROVE ListenerInv'
  BY <1>6 DEF StartWaits, Goto
<1>7. ASSUME NEW a \in Starts, Serve(a) PROVE ListenerInv'
  BY <1>7 DEF Serve
<1>8. ASSUME NEW a \in Starts, ServeFails(a) PROVE ListenerInv'
  BY <1>8 DEF ServeFails
<1>9. ASSUME NEW a \in Starts, Request(a) PROVE ListenerInv'
  BY <1>9 DEF Request
<1>10. ASSUME NEW a \in Starts, Answered(a) PROVE ListenerInv'
  BY <1>10 DEF Answered
<1>11. ASSUME NEW s \in Stops, StopLoads(s) PROVE ListenerInv'
  BY <1>11 DEF StopLoads, Goto
<1>12. ASSUME NEW k \in Calls, ShutdownChecks(k) PROVE ListenerInv'
  BY <1>12 DEF ShutdownChecks, Goto, NothingToStop
<1>13. ASSUME NEW k \in Calls, Shutdown(k) PROVE ListenerInv'
  BY <1>13 DEF Shutdown, Goto
<1>14. ASSUME NEW k \in Calls, Drained(k) PROVE ListenerInv'
  BY <1>14 DEF Drained, Goto
<1>15. ASSUME NEW k \in Calls, ShutdownFails(k) PROVE ListenerInv'
  BY <1>15 DEF ShutdownFails, Goto
<1>16. ASSUME NEW k \in Calls, ShutdownStores(k) PROVE ListenerInv'
  BY <1>16 DEF ShutdownStores, Goto, Released
<1>17. CASE UNCHANGED vars
  BY <1>17 DEF vars
<1> QED
  BY <1>1, <1>2, <1>3, <1>4, <1>5, <1>6, <1>7, <1>8, <1>9, <1>10, <1>11,
     <1>12, <1>13, <1>14, <1>15, <1>16, <1>17
     DEF Next, StartStep, ShutdownStep

(* A Start that returns gives started back, or its Shutdown has failed; a  *)
(* Shutdown that mends a failed one is about to give started back.         *)
LEMMA OwnerStep ==
  TypeOK /\ StartedIsOwned /\ [Next]_vars => StartedIsOwned'
<1> SUFFICES ASSUME TypeOK, StartedIsOwned, [Next]_vars PROVE StartedIsOwned'
  OBVIOUS
<1> USE NoneAssumption DEF callVars, serveVars, fateVars, TypeOK, Calls,
                           StartedIsOwned
<1>1. ASSUME NEW a \in Starts, CancelCtx(a) PROVE StartedIsOwned'
  BY <1>1 DEF CancelCtx
<1>2. ASSUME NEW a \in Starts, StartSwap(a) PROVE StartedIsOwned'
  BY <1>2 DEF StartSwap, Goto
<1>3. ASSUME NEW a \in Starts, StartListens(a) PROVE StartedIsOwned'
  BY <1>3 DEF StartListens, Goto
<1>4. ASSUME NEW a \in Starts, StartListenFails(a) PROVE StartedIsOwned'
  BY <1>4 DEF StartListenFails, Goto, Released
<1>5. ASSUME NEW a \in Starts, StartAssigns(a) PROVE StartedIsOwned'
  BY <1>5 DEF StartAssigns, Goto
<1>6. ASSUME NEW a \in Starts, StartWaits(a) PROVE StartedIsOwned'
  BY <1>6 DEF StartWaits, Goto
<1>7. ASSUME NEW a \in Starts, Serve(a) PROVE StartedIsOwned'
  BY <1>7 DEF Serve
<1>8. ASSUME NEW a \in Starts, ServeFails(a) PROVE StartedIsOwned'
  BY <1>8 DEF ServeFails
<1>9. ASSUME NEW a \in Starts, Request(a) PROVE StartedIsOwned'
  BY <1>9 DEF Request
<1>10. ASSUME NEW a \in Starts, Answered(a) PROVE StartedIsOwned'
  BY <1>10 DEF Answered
<1>11. ASSUME NEW s \in Stops, StopLoads(s) PROVE StartedIsOwned'
  BY <1>11 DEF StopLoads, Goto
<1>12. ASSUME NEW k \in Calls, ShutdownChecks(k) PROVE StartedIsOwned'
  BY <1>12 DEF ShutdownChecks, Goto, NothingToStop
<1>13. ASSUME NEW k \in Calls, Shutdown(k) PROVE StartedIsOwned'
  BY <1>13 DEF Shutdown, Goto
<1>14. ASSUME NEW k \in Calls, Drained(k) PROVE StartedIsOwned'
  BY <1>14 DEF Drained, Goto
<1>15. ASSUME NEW k \in Calls, ShutdownFails(k) PROVE StartedIsOwned'
  BY <1>15 DEF ShutdownFails, Goto
<1>16. ASSUME NEW k \in Calls, ShutdownStores(k) PROVE StartedIsOwned'
  BY <1>16 DEF ShutdownStores, Goto, Released
<1>17. CASE UNCHANGED vars
  BY <1>17 DEF vars
<1> QED
  BY <1>1, <1>2, <1>3, <1>4, <1>5, <1>6, <1>7, <1>8, <1>9, <1>10, <1>11,
     <1>12, <1>13, <1>14, <1>15, <1>16, <1>17
     DEF Next, StartStep, ShutdownStep

-----------------------------------------------------------------------------
(* The invariant is inductive.                                             *)
LEMMA SpecIInv == Spec => []IInv
<1>1. IInv /\ [Next]_vars => IInv'
  BY TypeStep, ServerStep, ListenerStep, OwnerStep DEF IInv
<1> QED
  BY <1>1, InitIInv, PTL DEF Spec

(* Type correctness; with it, no nil server is ever served or shut down.   *)
THEOREM WebhookTypeOK == Spec => []TypeOK
BY SpecIInv, PTL DEF IInv

(* However many calls of Start and Stop interleave, started is set only    *)
(* while somebody is going to clear it or after the last Shutdown of the   *)
(* server has failed.                                                      *)
THEOREM WebhookStartedIsOwned == Spec => []StartedIsOwned
BY SpecIInv, PTL DEF IInv

(* However many calls of Start and Stop interleave, on a fixed port a      *)
(* listener whose Start has returned is one that its goroutine will close. *)
THEOREM WebhookReturnedListenerCloses == Spec => []ReturnedListenerCloses
<1>1. IInv => ReturnedListenerCloses
  BY DEF IInv, ListenerInv, ReturnedListenerCloses
<1> QED
  BY <1>1, SpecIInv, PTL
=============================================================================
