------------------------- MODULE FrpAdapter_proofs --------------------------
(***************************************************************************)
(* Proofs about FrpAdapter, for any number of calls of Start and Stop, any *)
(* number of requests and any configurations: its types, the safety        *)
(* invariants of the lifecycle, the supervised process, the retry budget   *)
(* and the shutdown of the webhook server, the backoff schedule, and the   *)
(* refinement of AdapterLifecycle.                                         *)
(***************************************************************************)
EXTENDS FrpAdapter, FiniteSetTheorems, TLAPS

-----------------------------------------------------------------------------
(***************************************************************************)
(* The inductive invariant, part by part.                                  *)
(***************************************************************************)

(* A call of Start that is past the checks has a valid configuration; one  *)
(* that is past the swap has set started.                                  *)
LifecycleInv ==
  /\ \A c \in Starters : startPc[c] = "swap" \/ Active(c) => Valid
  /\ \A c \in Starters : Active(c) => started
  /\ SingleSupervisor

(* There is a process only while a call of Start waits for it, or after    *)
(* that call was cancelled; errChan has a value once the process is gone.  *)
ProcessInv ==
  /\ alive \in {0, 1}
  /\ ~started => alive = 0
  /\ \A c \in Starters :
       startPc[c] \in LoopPlaces \cup {"bind", "boot"} =>
         startPc[c] = "wait" \/ alive = 0
  /\ \A c \in Starters :
       startPc[c] = "wait" => (exitStatus = "none" <=> alive = 1)
  /\ IsProcessRunning => \E c \in Starters : startPc[c] = "wait"

(* The retry budget; runLoop has returned only if no call is before its    *)
(* end.                                                                    *)
RetryInv ==
  /\ RetryBudget
  /\ loopErr # "none" =>
       /\ started
       /\ \A c \in Starters :
            startPc[c] \notin LoopPlaces \cup {"bind", "boot"}

(* The webhook server begins after bind and boot; doneChan is closed after *)
(* it has ended, by the only supervisor, and Stop returns nil after that.  *)
ShutdownInv ==
  /\ ~started => webhookPc = "none"
  /\ \A c \in Starters : startPc[c] \in {"bind", "boot"} => webhookPc = "none"
  /\ serve = "running" => webhookPc = "serving"
  /\ serve = "spawned" => webhookPc # "none"
  /\ doneClosed => /\ started
                   /\ webhookPc = "done"
                   /\ \A c \in Starters : ~Active(c)
  /\ \A s \in Stoppers : stopErr[s] = "nil" => doneClosed

IInv == TypeOK /\ LifecycleInv /\ ProcessInv /\ RetryInv /\ ShutdownInv

(* a.cancel is assigned exactly once, on the way from bind to boot, and    *)
(* before the webhook server begins; a Stop that has an answer is over.    *)
PhaseInv ==
  /\ ~started => ~cancelSet
  /\ \A c \in Starters : startPc[c] = "bind" => ~cancelSet
  /\ \A c \in Starters :
       startPc[c] \in LoopPlaces \cup {"boot", "join"} => cancelSet
  /\ webhookPc # "none" \/ doneClosed => cancelSet
  /\ \A s \in Stoppers : stopErr[s] = "nil" => stopPc[s] = "returned"

-----------------------------------------------------------------------------
(* A valid configuration has a positive number of retries: New replaces    *)
(* zero by ten.                                                            *)
LEMMA ConfigFacts ==
  ASSUME TypeOK
  PROVE  /\ RestartDelay \in Int /\ MaxRestartDelay \in Int
         /\ MaxRetries \in Int
         /\ Valid => MaxRetries > 0
<1>1. config \in ConfigType
  BY ConfigAssumption DEF TypeOK
<1> QED
  BY <1>1 DEF ConfigType, RestartDelay, MaxRestartDelay, MaxRetries, OrDefault,
              Valid

(* A spawn that fails, before or at the fork, is counted, and the call     *)
(* backs off or gives up.                                                  *)
LEMMA SpawnFailure ==
  ASSUME NEW c \in Starters, StartProcessFails(c)
  PROVE  /\ startPc[c] \in {"spawn", "fork"}
         /\ failures' = failures + 1
         /\ \/ /\ RetriesExhausted(failures')
               /\ startPc' = [startPc EXCEPT ![c] = "join"]
               /\ loopErr' = "maxRetries"
            \/ /\ ~RetriesExhausted(failures')
               /\ startPc' = [startPc EXCEPT ![c] = "backoff"]
               /\ UNCHANGED loopErr
         /\ UNCHANGED <<delay, reconnects, processVars, loopFrame>>
<1>1. PICK place \in {"spawn", "fork"} :
        /\ failures' = FailuresAfter(TRUE)
        /\ IF RetriesExhausted(failures')
             THEN LoopReturns(c, place, "maxRetries")
             ELSE /\ StartGoto(c, place, "backoff")
                  /\ UNCHANGED loopErr
        /\ UNCHANGED <<delay, reconnects, processVars, loopFrame>>
  BY DEF StartProcessFails
<1>2. failures' = failures + 1
  BY <1>1 DEF FailuresAfter
<1>3. CASE RetriesExhausted(failures')
  BY <1>1, <1>2, <1>3 DEF LoopReturns, StartGoto
<1>4. CASE ~RetriesExhausted(failures')
  BY <1>1, <1>2, <1>4 DEF StartGoto
<1> QED
  BY <1>3, <1>4

(* The adapter starts in the invariant.                                    *)
LEMMA InitIInv == Init => IInv
<1> SUFFICES ASSUME Init PROVE IInv
  OBVIOUS
<1>1. TypeOK
  <2>1. /\ handlerSet \in BOOLEAN /\ started \in BOOLEAN
        /\ stopped \in BOOLEAN /\ cancelSet \in BOOLEAN
        /\ parentDone \in BOOLEAN /\ cancelCalled \in BOOLEAN
        /\ doneClosed \in BOOLEAN /\ cmdSet \in BOOLEAN
    BY Zenon DEF Init
  <2> QED
    BY <2>1, CounterMaxAssumption DEF Init, TypeOK, StartErrors, StopErrors
<1>2. LifecycleInv /\ ProcessInv
  BY DEF Init, LifecycleInv, ProcessInv, SingleSupervisor, Active,
         ActivePlaces, LoopPlaces, IsProcessRunning
<1>3. RetryInv /\ ShutdownInv
  BY DEF Init, RetryInv, RetryBudget, ShutdownInv, LoopPlaces
<1> QED
  BY <1>1, <1>2, <1>3 DEF IInv

(* Every step keeps the types.                                             *)
LEMMA TypeStep == TypeOK /\ [Next]_vars => TypeOK'
<1> SUFFICES ASSUME TypeOK, [Next]_vars PROVE TypeOK'
  OBVIOUS
<1> USE CounterMaxAssumption
    DEF TypeOK, configVars, ctxVars, startVars, stopVars,
           loopVars, processVars, webhookVars, startFrame, loopFrame,
           stopFrame, processFrame, webhookFrame,
        ActivePlaces, LoopPlaces, StartErrors, StopErrors
<1>1. CASE OnConnection
  BY <1>1 DEF OnConnection
<1>2. CASE ParentCancel
  BY <1>2 DEF ParentCancel
<1>3. CASE ProcessExits
  BY <1>3 DEF ProcessExits
<1>4. CASE KillOnCancel
  BY <1>4 DEF KillOnCancel
<1>5. CASE WebhookListens
  BY <1>5 DEF WebhookListens
<1>6. CASE WebhookStartFails
  BY <1>6 DEF WebhookStartFails
<1>7. CASE WebhookShutdown
  BY <1>7 DEF WebhookShutdown
<1>8. CASE WebhookDrained
  BY <1>8 DEF WebhookDrained, ShutdownErr
<1>9. CASE WebhookServes \/ WebhookServeFails
  BY <1>9 DEF WebhookServes, WebhookServeFails
<1>10. CASE UNCHANGED vars
  BY <1>10 DEF vars
<1>11. ASSUME NEW c \in Starters, StartCheck(c) PROVE TypeOK'
  BY <1>11 DEF StartCheck, StartGoto, StartReturns
<1>12. ASSUME NEW c \in Starters, StartSwap(c) PROVE TypeOK'
  <2>1. started' \in BOOLEAN
    BY <1>12, Zenon DEF StartSwap
  <2> QED
    BY <1>12, <2>1 DEF StartSwap, StartGoto, StartReturns
<1>13. ASSUME NEW c \in Starters, StartBind(c) PROVE TypeOK'
  BY <1>13 DEF StartBind, StartGoto
<1>14. ASSUME NEW c \in Starters, StartBoot(c) PROVE TypeOK'
  BY <1>14, ConfigFacts DEF StartBoot, StartGoto
<1>15. ASSUME NEW c \in Starters, StartFinish(c) PROVE TypeOK'
  BY <1>15 DEF StartFinish, StartGoto, StartReturns
<1>16. ASSUME NEW c \in Starters, LoopTop(c) PROVE TypeOK'
  <2>1. cmdSet' \in BOOLEAN
    BY <1>16, Zenon DEF LoopTop
  <2> QED
    BY <1>16, <2>1 DEF LoopTop, LoopReturns, StartGoto
<1>17. ASSUME NEW c \in Starters, StartProcess(c) PROVE TypeOK'
  BY <1>17 DEF StartProcess, StartGoto
<1>18. ASSUME NEW c \in Starters, StartProcessFails(c) PROVE TypeOK'
  BY <1>18 DEF StartProcessFails, LoopReturns, StartGoto, FailuresAfter
<1>19. ASSUME NEW c \in Starters, WaitProcessCancelled(c) PROVE TypeOK'
  <2>1. cmdSet' \in BOOLEAN
    BY <1>19, Zenon DEF WaitProcessCancelled
  <2> QED
    BY <1>19, <2>1 DEF WaitProcessCancelled, LoopReturns, StartGoto
<1>20. ASSUME NEW c \in Starters, ProcessExited(c) PROVE TypeOK'
  BY <1>20, ConfigFacts DEF ProcessExited, LoopReturns, StartGoto, CountExit,
     FailuresAfter
<1>21. ASSUME NEW c \in Starters, BackoffElapsed(c) PROVE TypeOK'
  BY <1>21, ConfigFacts DEF BackoffElapsed, StartGoto, NextDelay,
     NextReconnects
<1>22. ASSUME NEW c \in Starters, BackoffCancelled(c) PROVE TypeOK'
  BY <1>22 DEF BackoffCancelled, LoopReturns, StartGoto
<1>23. ASSUME NEW s \in Stoppers, StopCheck(s) PROVE TypeOK'
  BY <1>23 DEF StopCheck, StopGoto, StopReturns
<1>24. ASSUME NEW s \in Stoppers, StopSwap(s) PROVE TypeOK'
  <2>1. stopped' \in BOOLEAN
    BY <1>24, Zenon DEF StopSwap
  <2> QED
    BY <1>24, <2>1 DEF StopSwap, StopGoto, StopReturns
<1>25. ASSUME NEW s \in Stoppers, StopCancel(s) PROVE TypeOK'
  BY <1>25 DEF StopCancel, StopGoto
<1>26. ASSUME NEW s \in Stoppers, StopDone(s) PROVE TypeOK'
  BY <1>26 DEF StopDone, StopGoto, StopReturns
<1>27. ASSUME NEW s \in Stoppers, StopTimeout(s) PROVE TypeOK'
  BY <1>27 DEF StopTimeout, StopGoto, StopReturns
<1>28. ASSUME NEW r \in Requests, RequestAccepted(r) PROVE TypeOK'
  BY <1>28 DEF RequestAccepted, requestFrame
<1>29. ASSUME NEW r \in Requests, RequestAnswered(r) PROVE TypeOK'
  BY <1>29 DEF RequestAnswered, requestFrame
<1>30. ASSUME NEW c \in Starters, StartProcessChecks(c) PROVE TypeOK'
  BY <1>30 DEF StartProcessChecks, StartGoto
<1> QED
  BY <1>1, <1>2, <1>3, <1>4, <1>5, <1>6, <1>7, <1>8, <1>9, <1>10, <1>11,
     <1>12, <1>13, <1>14, <1>15, <1>16, <1>17, <1>18, <1>19, <1>20, <1>21,
     <1>22, <1>23, <1>24, <1>25, <1>26, <1>27, <1>28, <1>29, <1>30
     DEF Next, StartStep, StopStep, WebhookStep

(* Only the swap makes a call the supervisor, and only once.               *)
LEMMA LifecycleStep == IInv /\ [Next]_vars => LifecycleInv'
<1> SUFFICES ASSUME IInv, [Next]_vars PROVE LifecycleInv'
  OBVIOUS
<1> USE DEF IInv, TypeOK, LifecycleInv, SingleSupervisor, Active, ActivePlaces,
        LoopPlaces, Valid, RestartDelay, MaxRestartDelay, MaxRetries,
        configVars, ctxVars, startVars, stopVars,
           loopVars, processVars, webhookVars, startFrame, loopFrame,
           stopFrame, processFrame, webhookFrame
<1>1. CASE OnConnection
  BY <1>1 DEF OnConnection
<1>2. CASE ParentCancel
  BY <1>2 DEF ParentCancel
<1>3. CASE ProcessExits
  BY <1>3 DEF ProcessExits
<1>4. CASE KillOnCancel
  BY <1>4 DEF KillOnCancel
<1>5. CASE WebhookListens
  BY <1>5 DEF WebhookListens
<1>6. CASE WebhookStartFails
  BY <1>6 DEF WebhookStartFails
<1>7. CASE WebhookShutdown
  BY <1>7 DEF WebhookShutdown
<1>8. CASE WebhookDrained
  BY <1>8 DEF WebhookDrained
<1>9. CASE WebhookServes \/ WebhookServeFails
  BY <1>9 DEF WebhookServes, WebhookServeFails
<1>10. CASE UNCHANGED vars
  BY <1>10 DEF vars
<1>11. ASSUME NEW c \in Starters, StartCheck(c) PROVE LifecycleInv'
  BY <1>11 DEF StartCheck, StartGoto, StartReturns
<1>12. ASSUME NEW c \in Starters, StartSwap(c) PROVE LifecycleInv'
  BY <1>12 DEF StartSwap, StartGoto, StartReturns
<1>13. ASSUME NEW c \in Starters, StartBind(c) PROVE LifecycleInv'
  BY <1>13 DEF StartBind, StartGoto
<1>14. ASSUME NEW c \in Starters, StartBoot(c) PROVE LifecycleInv'
  BY <1>14 DEF StartBoot, StartGoto
<1>15. ASSUME NEW c \in Starters, StartFinish(c) PROVE LifecycleInv'
  BY <1>15 DEF StartFinish, StartGoto, StartReturns
<1>16. ASSUME NEW c \in Starters, LoopTop(c) PROVE LifecycleInv'
  BY <1>16 DEF LoopTop, LoopReturns, StartGoto
<1>17. ASSUME NEW c \in Starters, StartProcess(c) PROVE LifecycleInv'
  BY <1>17 DEF StartProcess, StartGoto
<1>18. ASSUME NEW c \in Starters, StartProcessFails(c) PROVE LifecycleInv'
  BY <1>18, SpawnFailure
<1>19. ASSUME NEW c \in Starters, WaitProcessCancelled(c) PROVE LifecycleInv'
  BY <1>19 DEF WaitProcessCancelled, LoopReturns, StartGoto
<1>20. ASSUME NEW c \in Starters, ProcessExited(c) PROVE LifecycleInv'
  BY <1>20 DEF ProcessExited, LoopReturns, StartGoto
<1>21. ASSUME NEW c \in Starters, BackoffElapsed(c) PROVE LifecycleInv'
  BY <1>21 DEF BackoffElapsed, StartGoto
<1>22. ASSUME NEW c \in Starters, BackoffCancelled(c) PROVE LifecycleInv'
  BY <1>22 DEF BackoffCancelled, LoopReturns, StartGoto
<1>23. ASSUME NEW s \in Stoppers, StopCheck(s) PROVE LifecycleInv'
  BY <1>23 DEF StopCheck, StopGoto, StopReturns
<1>24. ASSUME NEW s \in Stoppers, StopSwap(s) PROVE LifecycleInv'
  BY <1>24 DEF StopSwap, StopGoto, StopReturns
<1>25. ASSUME NEW s \in Stoppers, StopCancel(s) PROVE LifecycleInv'
  BY <1>25 DEF StopCancel, StopGoto
<1>26. ASSUME NEW s \in Stoppers, StopDone(s) PROVE LifecycleInv'
  BY <1>26 DEF StopDone, StopGoto, StopReturns
<1>27. ASSUME NEW s \in Stoppers, StopTimeout(s) PROVE LifecycleInv'
  BY <1>27 DEF StopTimeout, StopGoto, StopReturns
<1>28. ASSUME NEW r \in Requests, RequestAccepted(r) PROVE LifecycleInv'
  BY <1>28 DEF RequestAccepted, requestFrame
<1>29. ASSUME NEW r \in Requests, RequestAnswered(r) PROVE LifecycleInv'
  BY <1>29 DEF RequestAnswered, requestFrame
<1>30. ASSUME NEW c \in Starters, StartProcessChecks(c) PROVE LifecycleInv'
  BY <1>30 DEF StartProcessChecks, StartGoto
<1> QED
  BY <1>1, <1>2, <1>3, <1>4, <1>5, <1>6, <1>7, <1>8, <1>9, <1>10, <1>11,
     <1>12, <1>13, <1>14, <1>15, <1>16, <1>17, <1>18, <1>19, <1>20, <1>21,
     <1>22, <1>23, <1>24, <1>25, <1>26, <1>27, <1>28, <1>29, <1>30
     DEF Next, StartStep, StopStep, WebhookStep

(* A process is spawned only when the one before is gone.                  *)
LEMMA ProcessStep == IInv /\ [Next]_vars => ProcessInv'
<1> SUFFICES ASSUME IInv, [Next]_vars PROVE ProcessInv'
  OBVIOUS
<1> USE DEF IInv, TypeOK, LifecycleInv, SingleSupervisor, Active, ActivePlaces,
        LoopPlaces, ProcessInv, IsProcessRunning,
        configVars, ctxVars, startVars, stopVars,
           loopVars, processVars, webhookVars, startFrame, loopFrame,
           stopFrame, processFrame, webhookFrame
<1>1. CASE OnConnection
  BY <1>1 DEF OnConnection
<1>2. CASE ParentCancel
  BY <1>2 DEF ParentCancel
<1>3. CASE ProcessExits
  BY <1>3 DEF ProcessExits
<1>4. CASE KillOnCancel
  BY <1>4 DEF KillOnCancel
<1>5. CASE WebhookListens
  BY <1>5 DEF WebhookListens
<1>6. CASE WebhookStartFails
  BY <1>6 DEF WebhookStartFails
<1>7. CASE WebhookShutdown
  BY <1>7 DEF WebhookShutdown
<1>8. CASE WebhookDrained
  BY <1>8 DEF WebhookDrained
<1>9. CASE WebhookServes \/ WebhookServeFails
  BY <1>9 DEF WebhookServes, WebhookServeFails
<1>10. CASE UNCHANGED vars
  BY <1>10 DEF vars
<1>11. ASSUME NEW c \in Starters, StartCheck(c) PROVE ProcessInv'
  BY <1>11 DEF StartCheck, StartGoto, StartReturns
<1>12. ASSUME NEW c \in Starters, StartSwap(c) PROVE ProcessInv'
  BY <1>12 DEF StartSwap, StartGoto, StartReturns
<1>13. ASSUME NEW c \in Starters, StartBind(c) PROVE ProcessInv'
  BY <1>13 DEF StartBind, StartGoto
<1>14. ASSUME NEW c \in Starters, StartBoot(c) PROVE ProcessInv'
  BY <1>14 DEF StartBoot, StartGoto
<1>15. ASSUME NEW c \in Starters, StartFinish(c) PROVE ProcessInv'
  BY <1>15 DEF StartFinish, StartGoto, StartReturns
<1>16. ASSUME NEW c \in Starters, LoopTop(c) PROVE ProcessInv'
  BY <1>16 DEF LoopTop, LoopReturns, StartGoto
<1>17. ASSUME NEW c \in Starters, StartProcess(c) PROVE ProcessInv'
  BY <1>17 DEF StartProcess, StartGoto
<1>18. ASSUME NEW c \in Starters, StartProcessFails(c) PROVE ProcessInv'
  BY <1>18, SpawnFailure
<1>19. ASSUME NEW c \in Starters, WaitProcessCancelled(c) PROVE ProcessInv'
  BY <1>19 DEF WaitProcessCancelled, LoopReturns, StartGoto
<1>20. ASSUME NEW c \in Starters, ProcessExited(c) PROVE ProcessInv'
  BY <1>20 DEF ProcessExited, LoopReturns, StartGoto, WaitReturned
<1>21. ASSUME NEW c \in Starters, BackoffElapsed(c) PROVE ProcessInv'
  BY <1>21 DEF BackoffElapsed, StartGoto
<1>22. ASSUME NEW c \in Starters, BackoffCancelled(c) PROVE ProcessInv'
  BY <1>22 DEF BackoffCancelled, LoopReturns, StartGoto
<1>23. ASSUME NEW s \in Stoppers, StopCheck(s) PROVE ProcessInv'
  BY <1>23 DEF StopCheck, StopGoto, StopReturns
<1>24. ASSUME NEW s \in Stoppers, StopSwap(s) PROVE ProcessInv'
  BY <1>24 DEF StopSwap, StopGoto, StopReturns
<1>25. ASSUME NEW s \in Stoppers, StopCancel(s) PROVE ProcessInv'
  BY <1>25 DEF StopCancel, StopGoto
<1>26. ASSUME NEW s \in Stoppers, StopDone(s) PROVE ProcessInv'
  BY <1>26 DEF StopDone, StopGoto, StopReturns
<1>27. ASSUME NEW s \in Stoppers, StopTimeout(s) PROVE ProcessInv'
  BY <1>27 DEF StopTimeout, StopGoto, StopReturns
<1>28. ASSUME NEW r \in Requests, RequestAccepted(r) PROVE ProcessInv'
  BY <1>28 DEF RequestAccepted, requestFrame
<1>29. ASSUME NEW r \in Requests, RequestAnswered(r) PROVE ProcessInv'
  BY <1>29 DEF RequestAnswered, requestFrame
<1>30. ASSUME NEW c \in Starters, StartProcessChecks(c) PROVE ProcessInv'
  BY <1>30 DEF StartProcessChecks, StartGoto
<1> QED
  BY <1>1, <1>2, <1>3, <1>4, <1>5, <1>6, <1>7, <1>8, <1>9, <1>10, <1>11,
     <1>12, <1>13, <1>14, <1>15, <1>16, <1>17, <1>18, <1>19, <1>20, <1>21,
     <1>22, <1>23, <1>24, <1>25, <1>26, <1>27, <1>28, <1>29, <1>30
     DEF Next, StartStep, StopStep, WebhookStep

(* The failures reach MaxRetries only on the way out of the loop.           *)
LEMMA RetryStep == IInv /\ [Next]_vars => RetryInv'
<1> SUFFICES ASSUME IInv, [Next]_vars PROVE RetryInv'
  OBVIOUS
<1>0. MaxRetries \in Int /\ (Valid => MaxRetries > 0)
  BY ConfigFacts DEF IInv
<1> USE <1>0 DEF IInv, TypeOK, LifecycleInv, SingleSupervisor, Active,
        ActivePlaces, LoopPlaces, RetryInv, RetryBudget, MaxRetries,
        configVars, ctxVars, startVars, stopVars,
           loopVars, processVars, webhookVars, startFrame, loopFrame,
           stopFrame, processFrame, webhookFrame
<1>1. CASE OnConnection
  BY <1>1 DEF OnConnection
<1>2. CASE ParentCancel
  BY <1>2 DEF ParentCancel
<1>3. CASE ProcessExits
  BY <1>3 DEF ProcessExits
<1>4. CASE KillOnCancel
  BY <1>4 DEF KillOnCancel
<1>5. CASE WebhookListens
  BY <1>5 DEF WebhookListens
<1>6. CASE WebhookStartFails
  BY <1>6 DEF WebhookStartFails
<1>7. CASE WebhookShutdown
  BY <1>7 DEF WebhookShutdown
<1>8. CASE WebhookDrained
  BY <1>8 DEF WebhookDrained
<1>9. CASE WebhookServes \/ WebhookServeFails
  BY <1>9 DEF WebhookServes, WebhookServeFails
<1>10. CASE UNCHANGED vars
  BY <1>10 DEF vars
<1>11. ASSUME NEW c \in Starters, StartCheck(c) PROVE RetryInv'
  BY <1>11 DEF StartCheck, StartGoto, StartReturns
<1>12. ASSUME NEW c \in Starters, StartSwap(c) PROVE RetryInv'
  BY <1>12 DEF StartSwap, StartGoto, StartReturns
<1>13. ASSUME NEW c \in Starters, StartBind(c) PROVE RetryInv'
  BY <1>13 DEF StartBind, StartGoto
<1>14. ASSUME NEW c \in Starters, StartBoot(c) PROVE RetryInv'
  BY <1>14 DEF StartBoot, StartGoto
<1>15. ASSUME NEW c \in Starters, StartFinish(c) PROVE RetryInv'
  BY <1>15 DEF StartFinish, StartGoto, StartReturns
<1>16. ASSUME NEW c \in Starters, LoopTop(c) PROVE RetryInv'
  BY <1>16 DEF LoopTop, LoopReturns, StartGoto
<1>17. ASSUME NEW c \in Starters, StartProcess(c) PROVE RetryInv'
  BY <1>17 DEF StartProcess, StartGoto
<1>18. ASSUME NEW c \in Starters, StartProcessFails(c) PROVE RetryInv'
  BY <1>18 DEF StartProcessFails, LoopReturns, StartGoto, FailuresAfter,
     RetriesExhausted
<1>19. ASSUME NEW c \in Starters, WaitProcessCancelled(c) PROVE RetryInv'
  BY <1>19 DEF WaitProcessCancelled, LoopReturns, StartGoto
<1>20. ASSUME NEW c \in Starters, ProcessExited(c) PROVE RetryInv'
  BY <1>20 DEF ProcessExited, LoopReturns, StartGoto, CountExit,
     FailuresAfter, RetriesExhausted
<1>21. ASSUME NEW c \in Starters, BackoffElapsed(c) PROVE RetryInv'
  BY <1>21 DEF BackoffElapsed, StartGoto
<1>22. ASSUME NEW c \in Starters, BackoffCancelled(c) PROVE RetryInv'
  BY <1>22 DEF BackoffCancelled, LoopReturns, StartGoto
<1>23. ASSUME NEW s \in Stoppers, StopCheck(s) PROVE RetryInv'
  BY <1>23 DEF StopCheck, StopGoto, StopReturns
<1>24. ASSUME NEW s \in Stoppers, StopSwap(s) PROVE RetryInv'
  BY <1>24 DEF StopSwap, StopGoto, StopReturns
<1>25. ASSUME NEW s \in Stoppers, StopCancel(s) PROVE RetryInv'
  BY <1>25 DEF StopCancel, StopGoto
<1>26. ASSUME NEW s \in Stoppers, StopDone(s) PROVE RetryInv'
  BY <1>26 DEF StopDone, StopGoto, StopReturns
<1>27. ASSUME NEW s \in Stoppers, StopTimeout(s) PROVE RetryInv'
  BY <1>27 DEF StopTimeout, StopGoto, StopReturns
<1>28. ASSUME NEW r \in Requests, RequestAccepted(r) PROVE RetryInv'
  BY <1>28 DEF RequestAccepted, requestFrame
<1>29. ASSUME NEW r \in Requests, RequestAnswered(r) PROVE RetryInv'
  BY <1>29 DEF RequestAnswered, requestFrame
<1>30. ASSUME NEW c \in Starters, StartProcessChecks(c) PROVE RetryInv'
  BY <1>30 DEF StartProcessChecks, StartGoto
<1> QED
  BY <1>1, <1>2, <1>3, <1>4, <1>5, <1>6, <1>7, <1>8, <1>9, <1>10, <1>11,
     <1>12, <1>13, <1>14, <1>15, <1>16, <1>17, <1>18, <1>19, <1>20, <1>21,
     <1>22, <1>23, <1>24, <1>25, <1>26, <1>27, <1>28, <1>29, <1>30
     DEF Next, StartStep, StopStep, WebhookStep

(* doneChan is closed last.                                                *)
LEMMA ShutdownStep == IInv /\ [Next]_vars => ShutdownInv'
<1> SUFFICES ASSUME IInv, [Next]_vars PROVE ShutdownInv'
  OBVIOUS
<1> USE DEF IInv, TypeOK, LifecycleInv, SingleSupervisor, Active, ActivePlaces,
        LoopPlaces, ShutdownInv,
        configVars, ctxVars, startVars, stopVars,
           loopVars, processVars, webhookVars, startFrame, loopFrame,
           stopFrame, processFrame, webhookFrame
<1>1. CASE OnConnection
  BY <1>1 DEF OnConnection
<1>2. CASE ParentCancel
  BY <1>2 DEF ParentCancel
<1>3. CASE ProcessExits
  BY <1>3 DEF ProcessExits
<1>4. CASE KillOnCancel
  BY <1>4 DEF KillOnCancel
<1>5. CASE WebhookListens
  BY <1>5 DEF WebhookListens
<1>6. CASE WebhookStartFails
  BY <1>6 DEF WebhookStartFails
<1>7. CASE WebhookShutdown
  BY <1>7 DEF WebhookShutdown
<1>8. CASE WebhookDrained
  BY <1>8 DEF WebhookDrained, ShutdownErr
<1>9. CASE WebhookServes \/ WebhookServeFails
  BY <1>9 DEF WebhookServes, WebhookServeFails
<1>10. CASE UNCHANGED vars
  BY <1>10 DEF vars
<1>11. ASSUME NEW c \in Starters, StartCheck(c) PROVE ShutdownInv'
  BY <1>11 DEF StartCheck, StartGoto, StartReturns
<1>12. ASSUME NEW c \in Starters, StartSwap(c) PROVE ShutdownInv'
  BY <1>12 DEF StartSwap, StartGoto, StartReturns
<1>13. ASSUME NEW c \in Starters, StartBind(c) PROVE ShutdownInv'
  BY <1>13 DEF StartBind, StartGoto
<1>14. ASSUME NEW c \in Starters, StartBoot(c) PROVE ShutdownInv'
  BY <1>14 DEF StartBoot, StartGoto
<1>15. ASSUME NEW c \in Starters, StartFinish(c) PROVE ShutdownInv'
  BY <1>15 DEF StartFinish, StartGoto, StartReturns
<1>16. ASSUME NEW c \in Starters, LoopTop(c) PROVE ShutdownInv'
  BY <1>16 DEF LoopTop, LoopReturns, StartGoto
<1>17. ASSUME NEW c \in Starters, StartProcess(c) PROVE ShutdownInv'
  BY <1>17 DEF StartProcess, StartGoto
<1>18. ASSUME NEW c \in Starters, StartProcessFails(c) PROVE ShutdownInv'
  BY <1>18, SpawnFailure
<1>19. ASSUME NEW c \in Starters, WaitProcessCancelled(c) PROVE ShutdownInv'
  BY <1>19 DEF WaitProcessCancelled, LoopReturns, StartGoto
<1>20. ASSUME NEW c \in Starters, ProcessExited(c) PROVE ShutdownInv'
  BY <1>20 DEF ProcessExited, LoopReturns, StartGoto
<1>21. ASSUME NEW c \in Starters, BackoffElapsed(c) PROVE ShutdownInv'
  BY <1>21 DEF BackoffElapsed, StartGoto
<1>22. ASSUME NEW c \in Starters, BackoffCancelled(c) PROVE ShutdownInv'
  BY <1>22 DEF BackoffCancelled, LoopReturns, StartGoto
<1>23. ASSUME NEW s \in Stoppers, StopCheck(s) PROVE ShutdownInv'
  BY <1>23 DEF StopCheck, StopGoto, StopReturns
<1>24. ASSUME NEW s \in Stoppers, StopSwap(s) PROVE ShutdownInv'
  BY <1>24 DEF StopSwap, StopGoto, StopReturns
<1>25. ASSUME NEW s \in Stoppers, StopCancel(s) PROVE ShutdownInv'
  BY <1>25 DEF StopCancel, StopGoto
<1>26. ASSUME NEW s \in Stoppers, StopDone(s) PROVE ShutdownInv'
  BY <1>26 DEF StopDone, StopGoto, StopReturns
<1>27. ASSUME NEW s \in Stoppers, StopTimeout(s) PROVE ShutdownInv'
  BY <1>27 DEF StopTimeout, StopGoto, StopReturns
<1>28. ASSUME NEW r \in Requests, RequestAccepted(r) PROVE ShutdownInv'
  BY <1>28 DEF RequestAccepted, requestFrame
<1>29. ASSUME NEW r \in Requests, RequestAnswered(r) PROVE ShutdownInv'
  BY <1>29 DEF RequestAnswered, requestFrame
<1>30. ASSUME NEW c \in Starters, StartProcessChecks(c) PROVE ShutdownInv'
  BY <1>30 DEF StartProcessChecks, StartGoto
<1> QED
  BY <1>1, <1>2, <1>3, <1>4, <1>5, <1>6, <1>7, <1>8, <1>9, <1>10, <1>11,
     <1>12, <1>13, <1>14, <1>15, <1>16, <1>17, <1>18, <1>19, <1>20, <1>21,
     <1>22, <1>23, <1>24, <1>25, <1>26, <1>27, <1>28, <1>29, <1>30
     DEF Next, StartStep, StopStep, WebhookStep

-----------------------------------------------------------------------------
(* The invariant is inductive.                                             *)
LEMMA NextIInv == IInv /\ [Next]_vars => IInv'
BY TypeStep, LifecycleStep, ProcessStep, RetryStep, ShutdownStep DEF IInv

(* The invariant holds in every state of every behaviour.                  *)
LEMMA SpecIInv == Spec => []IInv
BY InitIInv, NextIInv, PTL DEF Spec

(* Type correctness of the adapter.                                        *)
THEOREM AdapterTypeOK == Spec => []TypeOK
BY SpecIInv, PTL DEF IInv

(* However many calls of Start race, one supervises frpc.                  *)
THEOREM AdapterSingleSupervisor == Spec => []SingleSupervisor
BY SpecIInv, PTL DEF IInv, LifecycleInv

(* However frpc crashes and is restarted or cancelled, one process at most *)
(* is alive.                                                               *)
THEOREM AdapterAtMostOneProcess == Spec => []AtMostOneProcess
<1>1. IInv => AtMostOneProcess
  BY DEF IInv, ProcessInv, AtMostOneProcess
<1> QED
  BY <1>1, SpecIInv, PTL

(* Whatever the configuration, the loop goes on only below MaxRetries      *)
(* consecutive failures and gives up at exactly that many, where New has   *)
(* made 10 of 0.                                                           *)
THEOREM AdapterRetryBudget == Spec => []RetryBudget
BY SpecIInv, PTL DEF IInv, RetryInv

(* Once a Stop has returned nil, the webhook server accepts no connection  *)
(* and no call of Start supervises anything.                               *)
THEOREM AdapterStopNilMeansQuiet == Spec => []StopNilMeansQuiet
<1>1. IInv => StopNilMeansQuiet
  BY DEF IInv, TypeOK, ShutdownInv, StopNilMeansQuiet
<1> QED
  BY <1>1, SpecIInv, PTL

(* Status never reports Connected for a process that nobody waits for.     *)
THEOREM AdapterConnectedIsSupervised == Spec => []ConnectedIsSupervised
<1>1. IInv => ConnectedIsSupervised
  BY DEF IInv, ProcessInv, ConnectedIsSupervised, Connected
<1> QED
  BY <1>1, SpecIInv, PTL

-----------------------------------------------------------------------------
(***************************************************************************)
(* Refinement of AdapterLifecycle.                                         *)
(***************************************************************************)

(* What the steps of runLoop have in common: the call stays in the loop or *)
(* goes to its join, and nothing of the life cycle changes.                *)
LEMMA LoopFrame ==
  ASSUME TypeOK, NEW c \in Starters,
         \/ LoopTop(c)
         \/ StartProcessChecks(c) \/ StartProcess(c) \/ StartProcessFails(c)
         \/ WaitProcessCancelled(c) \/ ProcessExited(c)
         \/ BackoffElapsed(c) \/ BackoffCancelled(c)
  PROVE  /\ startPc[c] \in LoopPlaces
         /\ \E place \in LoopPlaces \cup {"join"} :
              startPc' = [startPc EXCEPT ![c] = place]
         /\ UNCHANGED <<started, cancelSet, doneClosed, ctxVars, stopVars,
                        webhookVars>>
<1> USE DEF LoopPlaces, StartGoto, LoopReturns, loopFrame
<1>1. CASE LoopTop(c)
  BY <1>1 DEF LoopTop
<1>2. CASE StartProcess(c)
  BY <1>2 DEF StartProcess
<1>3. CASE StartProcessFails(c)
  BY <1>3 DEF StartProcessFails
<1>4. CASE WaitProcessCancelled(c)
  BY <1>4 DEF WaitProcessCancelled
<1>5. CASE ProcessExited(c)
  BY <1>5 DEF ProcessExited
<1>6. CASE BackoffElapsed(c)
  BY <1>6 DEF BackoffElapsed
<1>7. CASE BackoffCancelled(c)
  BY <1>7 DEF BackoffCancelled
<1>8. CASE StartProcessChecks(c)
  BY <1>8 DEF StartProcessChecks
<1> QED
  BY <1>1, <1>2, <1>3, <1>4, <1>5, <1>6, <1>7, <1>8

(* The adapter starts with a.cancel unassigned.                            *)
LEMMA InitPhaseInv == Init => PhaseInv
BY DEF Init, PhaseInv, LoopPlaces

(* Only StartBind assigns a.cancel, and every place behind it stays        *)
(* behind it.                                                              *)
LEMMA PhaseStep == IInv /\ PhaseInv /\ [Next]_vars => PhaseInv'
<1> SUFFICES ASSUME IInv, PhaseInv, [Next]_vars PROVE PhaseInv'
  OBVIOUS
<1> USE DEF PhaseInv, IInv, TypeOK, LifecycleInv, SingleSupervisor, Active,
        ActivePlaces, LoopPlaces, StartGoto, StartReturns, StopGoto,
        StopReturns, configVars, ctxVars, startVars, stopVars, loopVars,
        processVars, webhookVars, startFrame, stopFrame, processFrame,
        webhookFrame
<1>1. CASE OnConnection \/ ParentCancel \/ UNCHANGED vars
  BY <1>1 DEF OnConnection, ParentCancel, vars
<1>2. CASE ProcessExits \/ KillOnCancel
  BY <1>2 DEF ProcessExits, KillOnCancel
<1>3. CASE WebhookStep \/ WebhookServes \/ WebhookServeFails
  BY <1>3 DEF WebhookStep, WebhookListens, WebhookStartFails, WebhookShutdown,
              WebhookDrained, WebhookServes, WebhookServeFails
<1>4. ASSUME NEW r \in Requests, RequestAccepted(r) \/ RequestAnswered(r)
      PROVE  PhaseInv'
  BY <1>4 DEF RequestAccepted, RequestAnswered, requestFrame
<1>5. ASSUME NEW c \in Starters, StartCheck(c) PROVE PhaseInv'
  BY <1>5 DEF StartCheck
<1>6. ASSUME NEW c \in Starters, StartSwap(c) PROVE PhaseInv'
  BY <1>6 DEF StartSwap
<1>7. ASSUME NEW c \in Starters, StartBind(c) PROVE PhaseInv'
  BY <1>7 DEF StartBind
<1>8. ASSUME NEW c \in Starters, StartBoot(c) PROVE PhaseInv'
  BY <1>8 DEF StartBoot
<1>9. ASSUME NEW c \in Starters, StartFinish(c) PROVE PhaseInv'
  BY <1>9 DEF StartFinish
<1>10. ASSUME NEW c \in Starters,
              \/ LoopTop(c) \/ StartProcessChecks(c)
              \/ StartProcess(c) \/ StartProcessFails(c)
              \/ WaitProcessCancelled(c) \/ ProcessExited(c)
              \/ BackoffElapsed(c) \/ BackoffCancelled(c)
       PROVE  PhaseInv'
  <2>1. /\ startPc[c] \in LoopPlaces
        /\ \E place \in LoopPlaces \cup {"join"} :
             startPc' = [startPc EXCEPT ![c] = place]
        /\ UNCHANGED <<started, cancelSet, doneClosed, ctxVars, stopVars,
                       webhookVars>>
    BY <1>10, LoopFrame
  <2> QED
    BY <2>1
<1>11. ASSUME NEW s \in Stoppers, StopCheck(s) \/ StopSwap(s) PROVE PhaseInv'
  BY <1>11 DEF StopCheck, StopSwap
<1>12. ASSUME NEW s \in Stoppers,
              StopCancel(s) \/ StopDone(s) \/ StopTimeout(s)
       PROVE  PhaseInv'
  BY <1>12 DEF StopCancel, StopDone, StopTimeout
<1> QED
  BY <1>1, <1>2, <1>3, <1>4, <1>5, <1>6, <1>7, <1>8, <1>9, <1>10, <1>11, <1>12
     DEF Next, StartStep, StopStep

(* The adapter is idle before Start, as AdapterLifecycle begins.           *)
LEMMA InitLifecycle == Init => Lifecycle!Init
BY DEF Init, Lifecycle!Init, Phase

(* Every step of the adapter is a step of AdapterLifecycle, or leaves its  *)
(* variables alone.                                                        *)
LEMMA StepLifecycle ==
  IInv /\ PhaseInv /\ [Next]_vars => [Lifecycle!Next]_(Lifecycle!vars)
<1> SUFFICES ASSUME IInv, PhaseInv, [Next]_vars
             PROVE  Lifecycle!Next \/ UNCHANGED Lifecycle!vars
  OBVIOUS
<1> DEFINE Acked     == \E s \in Stoppers : stopErr[s] = "nil"
           Spawning  == \E c \in Starters : startPc[c] = "fork"
           Accepting == serve = "running"
<1> USE DEF PhaseInv, Active, ActivePlaces, LoopPlaces, Phase, CtxDone,
        configVars, ctxVars, startVars, stopVars, loopVars, processVars,
        webhookVars, startFrame, stopFrame, processFrame, webhookFrame,
        Lifecycle!vars
(* Whatever leaves these alone is a stuttering step.                       *)
<1>0. CASE /\ UNCHANGED <<cancelSet, doneClosed, ctxVars, alive>>
           /\ Acked' = Acked /\ Spawning' = Spawning
           /\ Accepting' = Accepting
  BY <1>0
<1>1. CASE OnConnection \/ UNCHANGED vars
  BY <1>0, <1>1 DEF OnConnection, vars
<1>2. CASE ParentCancel
  <2>1. /\ Acked' = Acked /\ Spawning' = Spawning /\ Accepting' = Accepting
        /\ UNCHANGED alive
    BY <1>2 DEF ParentCancel
  <2>2. Phase' = Phase \/ (Phase = "running" /\ Phase' = "stopping")
    BY <1>2 DEF ParentCancel
  <2> QED
    BY <2>1, <2>2 DEF Lifecycle!Next, Lifecycle!Cancel
<1>3. CASE ProcessExits \/ KillOnCancel
  <2>1. alive = 1 /\ alive' = 0
    BY <1>3 DEF ProcessExits, KillOnCancel, IInv, ProcessInv
  <2>2. /\ Phase' = Phase /\ Acked' = Acked
        /\ Spawning' = Spawning /\ Accepting' = Accepting
    BY <1>3 DEF ProcessExits, KillOnCancel
  <2> QED
    BY <2>1, <2>2 DEF Lifecycle!Next, Lifecycle!Exit
<1>4. CASE WebhookServes
  <2>1. /\ Phase' = Phase /\ Acked' = Acked /\ Spawning' = Spawning
        /\ UNCHANGED <<cancelSet, doneClosed, ctxVars, alive>>
    BY <1>4 DEF WebhookServes
  <2>2. CASE webhookPc = "serving"
    <3>1. Phase \in {"running", "stopping"} /\ Accepting' = TRUE
      BY <1>4, <2>2 DEF WebhookServes, IInv, TypeOK, ShutdownInv
    <3> QED
      BY <2>1, <3>1 DEF Lifecycle!Next, Lifecycle!Listen
  <2>3. CASE webhookPc # "serving"
    BY <1>0, <1>4, <2>1, <2>3 DEF WebhookServes
  <2> QED
    BY <2>2, <2>3
<1>5. CASE WebhookShutdown \/ WebhookServeFails
  <2>1. /\ Accepting' = FALSE /\ Spawning' = Spawning
        /\ Phase' = Phase /\ Acked' = Acked /\ UNCHANGED alive
    BY <1>5 DEF WebhookShutdown, WebhookServeFails
  <2> QED
    BY <2>1 DEF Lifecycle!Next, Lifecycle!Unlisten
<1>6. CASE WebhookListens \/ WebhookStartFails \/ WebhookDrained
  <2>1. Accepting' = Accepting
    BY <1>6 DEF WebhookListens, WebhookStartFails, WebhookDrained, IInv,
                ShutdownInv
  <2> QED
    BY <1>0, <1>6, <2>1 DEF WebhookListens, WebhookStartFails, WebhookDrained
<1>7. ASSUME NEW r \in Requests, RequestAccepted(r) \/ RequestAnswered(r)
      PROVE  UNCHANGED Lifecycle!vars
  BY <1>0, <1>7 DEF RequestAccepted, RequestAnswered, requestFrame
<1>8. ASSUME NEW c \in Starters,
             StartCheck(c) \/ StartSwap(c) \/ StartBoot(c)
      PROVE  UNCHANGED Lifecycle!vars
  <2>1. Spawning' = Spawning
    BY <1>8 DEF StartCheck, StartSwap, StartBoot, StartGoto, StartReturns,
                IInv, TypeOK
  <2> QED
    BY <1>0, <1>8, <2>1 DEF StartCheck, StartSwap, StartBoot
<1>9. ASSUME NEW c \in Starters, StartBind(c) PROVE Lifecycle!Next
  <2>1. startPc[c] = "bind" /\ cancelSet' = TRUE /\ doneClosed' = doneClosed
    BY <1>9 DEF StartBind, StartGoto
  <2>2. ~cancelSet /\ ~doneClosed
    BY <2>1 DEF IInv, ShutdownInv
  <2>3. /\ Acked' = Acked /\ Spawning' = Spawning /\ Accepting' = Accepting
        /\ UNCHANGED alive
    BY <1>9 DEF StartBind, StartGoto, IInv, TypeOK
  <2>4. Phase = "idle" /\ Phase' \in {"running", "stopping"}
    BY <2>1, <2>2
  <2> QED
    BY <2>3, <2>4 DEF Lifecycle!Next, Lifecycle!Launch
<1>10. ASSUME NEW c \in Starters, StartFinish(c) PROVE Lifecycle!Next
  <2>1. /\ startPc[c] = "join" /\ webhookPc = "done"
        /\ doneClosed' = TRUE /\ cancelSet' = cancelSet
    BY <1>10 DEF StartFinish, StartReturns, StartGoto
  <2>2. cancelSet /\ ~doneClosed /\ ~Accepting /\ ~Spawning
    BY <2>1 DEF IInv, TypeOK, ShutdownInv, LifecycleInv, SingleSupervisor
  <2>3. /\ Acked' = Acked /\ Spawning' = Spawning /\ Accepting' = Accepting
        /\ UNCHANGED alive
    BY <1>10 DEF StartFinish, StartReturns, StartGoto, IInv, TypeOK
  <2>4. Phase \in {"running", "stopping"} /\ Phase' = "done"
    BY <2>1, <2>2
  <2> QED
    BY <2>2, <2>3, <2>4 DEF Lifecycle!Next, Lifecycle!Finish
(* The steps of the loop: a client is begun, appears, or fails to appear.  *)
<1>11. ASSUME NEW c \in Starters,
              \/ LoopTop(c) \/ StartProcessChecks(c)
              \/ StartProcess(c) \/ StartProcessFails(c)
              \/ WaitProcessCancelled(c) \/ ProcessExited(c)
              \/ BackoffElapsed(c) \/ BackoffCancelled(c)
       PROVE  Lifecycle!Next \/ UNCHANGED Lifecycle!vars
  <2>1. /\ UNCHANGED <<cancelSet, doneClosed, ctxVars, stopVars, webhookVars>>
        /\ startPc[c] \in LoopPlaces
        /\ \E place \in LoopPlaces \cup {"join"} :
             startPc' = [startPc EXCEPT ![c] = place]
    BY <1>11, LoopFrame DEF IInv
  <2>2. Phase' = Phase /\ Acked' = Acked /\ Accepting' = Accepting
    BY <2>1
  <2>3. /\ Spawning <=> startPc[c] = "fork"
        /\ Spawning' <=> startPc'[c] = "fork"
        /\ cancelSet /\ ~doneClosed
    BY <2>1 DEF IInv, TypeOK, LifecycleInv, SingleSupervisor, ShutdownInv
  <2>4. CASE StartProcessChecks(c)
    <3>1. /\ startPc[c] = "spawn" /\ startPc'[c] = "fork" /\ ~CtxDone
          /\ UNCHANGED alive
      BY <2>4 DEF StartProcessChecks, StartGoto, IInv, TypeOK
    <3>2. alive = 0 /\ Phase = "running"
      BY <2>3, <3>1 DEF IInv, ProcessInv
    <3> QED
      BY <2>2, <2>3, <3>1, <3>2 DEF Lifecycle!Next, Lifecycle!BeginSpawn
  <2>5. CASE StartProcess(c)
    <3>1. /\ startPc[c] = "fork" /\ startPc'[c] = "wait"
          /\ alive' = alive + 1
      BY <2>5 DEF StartProcess, StartGoto, IInv, TypeOK
    <3>2. alive = 0
      BY <3>1 DEF IInv, ProcessInv
    <3> QED
      BY <2>2, <2>3, <3>1, <3>2 DEF Lifecycle!Next, Lifecycle!Spawn
  <2>6. CASE StartProcessFails(c)
    <3>1. startPc'[c] # "fork" /\ UNCHANGED alive
      BY <2>6 DEF StartProcessFails, StartGoto, LoopReturns, IInv, TypeOK
    <3> QED
      BY <1>0, <2>1, <2>2, <2>3, <3>1
         DEF Lifecycle!Next, Lifecycle!SpawnFails
  <2>7. CASE \/ LoopTop(c) \/ WaitProcessCancelled(c) \/ ProcessExited(c)
             \/ BackoffElapsed(c) \/ BackoffCancelled(c)
    <3>1. /\ startPc[c] # "fork" /\ startPc'[c] # "fork"
          /\ UNCHANGED alive
      BY <2>7 DEF LoopTop, WaitProcessCancelled, ProcessExited, LoopReturns,
                  BackoffElapsed, BackoffCancelled, StartGoto, IInv, TypeOK
    <3> QED
      BY <1>0, <2>1, <2>2, <2>3, <3>1
  <2> QED
    BY <1>11, <2>4, <2>5, <2>6, <2>7
<1>12. ASSUME NEW s \in Stoppers, StopCheck(s) \/ StopSwap(s) \/ StopTimeout(s)
       PROVE  UNCHANGED Lifecycle!vars
  <2>1. /\ stopPc[s] # "returned"
        /\ \/ UNCHANGED stopErr
           \/ \E e \in StopErrors \ {"nil"} :
                stopErr' = [stopErr EXCEPT ![s] = e]
    BY <1>12 DEF StopCheck, StopSwap, StopTimeout, StopGoto, StopReturns,
                 StopErrors
  <2>2. stopErr[s] # "nil"
    BY <2>1
  <2>3. Acked' = Acked
    BY <2>1, <2>2 DEF IInv, TypeOK
  <2> QED
    BY <1>0, <1>12, <2>3 DEF StopCheck, StopSwap, StopTimeout
<1>13. ASSUME NEW s \in Stoppers, StopCancel(s)
       PROVE  Lifecycle!Next \/ UNCHANGED Lifecycle!vars
  <2>1. /\ Acked' = Acked /\ Spawning' = Spawning /\ Accepting' = Accepting
        /\ UNCHANGED alive
    BY <1>13 DEF StopCancel
  <2>2. Phase' = Phase \/ (Phase = "running" /\ Phase' = "stopping")
    BY <1>13 DEF StopCancel
  <2> QED
    BY <2>1, <2>2 DEF Lifecycle!Next, Lifecycle!Cancel
<1>14. ASSUME NEW s \in Stoppers, StopDone(s) PROVE Lifecycle!Next
  <2>1. doneClosed /\ stopErr' = [stopErr EXCEPT ![s] = "nil"]
    BY <1>14 DEF StopDone, StopReturns
  <2>2. Acked' = TRUE
    BY <2>1 DEF IInv, TypeOK
  <2>3. /\ Phase = "done" /\ Phase' = Phase /\ UNCHANGED alive
        /\ Spawning' = Spawning /\ Accepting' = Accepting
    BY <1>14, <2>1 DEF StopDone
  <2> QED
    BY <2>2, <2>3 DEF Lifecycle!Next, Lifecycle!StopReturns
<1> QED
  BY <1>1, <1>2, <1>3, <1>4, <1>5, <1>6, <1>7, <1>8, <1>9, <1>10, <1>11,
     <1>12, <1>13, <1>14 DEF Next, StartStep, StopStep, WebhookStep

(* The adapter implements the life cycle, for any number of callers: one   *)
(* life, no process begun after cancellation and none that appears after   *)
(* the end, and no Stop acknowledged before the end.                       *)
THEOREM AdapterImplementsLifecycle == Spec => LifecycleSpec
<1>1. Spec => [](IInv /\ PhaseInv)
  BY InitIInv, NextIInv, InitPhaseInv, PhaseStep, PTL DEF Spec
<1>2. Lifecycle!Init /\ [][Lifecycle!Next]_(Lifecycle!vars) <=> LifecycleSpec
  BY DEF LifecycleSpec, Lifecycle!Spec
<1> QED
  BY <1>1, <1>2, InitLifecycle, StepLifecycle, PTL DEF Spec

-----------------------------------------------------------------------------
(***************************************************************************)
(* The backoff schedule.                                                   *)
(***************************************************************************)

(* A power of two doubles from one exponent to the next.  The provers know *)
(* nothing of exponentiation; the library says that 2^n is the number of   *)
(* subsets of a set of n elements, and an element more doubles that.       *)
LEMMA PowerDoubles ==
  ASSUME NEW n \in Nat
  PROVE  /\ 2^n \in Nat /\ 2^n > 0
         /\ 2^(n + 1) = 2 * 2^n
<1> DEFINE A == 1..n
           B == 1..(n + 1)
           m == n + 1
           With == {U \cup {m} : U \in SUBSET A}
<1>1. /\ IsFiniteSet(A) /\ Cardinality(A) = n
      /\ IsFiniteSet(B) /\ Cardinality(B) = n + 1
  BY FS_Interval
<1>2. /\ IsFiniteSet(SUBSET A) /\ Cardinality(SUBSET A) = 2^n
      /\ IsFiniteSet(SUBSET B) /\ Cardinality(SUBSET B) = 2^(n + 1)
  BY <1>1, FS_SUBSET
<1>3. 2^n \in Nat /\ 2^n > 0
  <2>1. 2^n \in Nat
    BY <1>2, FS_CardinalityType
  <2>2. 2^n # 0
    BY <1>2, FS_EmptySet
  <2> QED
    BY <2>1, <2>2
<1>4. B = A \cup {m} /\ m \notin A
  OBVIOUS
<1> HIDE DEF A, B, m
<1>5. IsFiniteSet(With) /\ Cardinality(With) = 2^n
  <2> DEFINE f == [U \in SUBSET A |-> U \cup {m}]
  <2>1. f \in [SUBSET A -> With]
    OBVIOUS
  <2>2. \A U, V \in SUBSET A : f[U] = f[V] => U = V
    <3> SUFFICES ASSUME NEW U \in SUBSET A, NEW V \in SUBSET A,
                        U \cup {m} = V \cup {m}
                 PROVE  U = V
      OBVIOUS
    <3> QED
      BY <1>4
  <2>3. \A W \in With : \E U \in SUBSET A : f[U] = W
    OBVIOUS
  <2>4. f \in Bijection(SUBSET A, With)
    BY <2>1, <2>2, <2>3 DEF Bijection, Injection, Surjection, IsInjective
  <2>5. ExistsBijection(SUBSET A, With)
    BY <2>4 DEF ExistsBijection
  <2> QED
    BY <1>2, <2>5, FS_Bijection
<1>6. SUBSET B = (SUBSET A) \cup With
  <2>1. ASSUME NEW W \in SUBSET B PROVE W \in (SUBSET A) \cup With
    <3>1. CASE m \in W
      <4>1. W \ {m} \in SUBSET A /\ W = (W \ {m}) \cup {m}
        BY <1>4, <3>1
      <4> QED
        BY <4>1
    <3>2. CASE m \notin W
      BY <1>4, <3>2
    <3> QED
      BY <3>1, <3>2
  <2>2. SUBSET A \subseteq SUBSET B /\ With \subseteq SUBSET B
    BY <1>4
  <2> QED
    BY <2>1, <2>2
<1>7. (SUBSET A) \cap With = {}
  BY <1>4
<1>8. Cardinality((SUBSET A) \cup With)
        = Cardinality(SUBSET A) + Cardinality(With) - Cardinality({})
  <2> HIDE DEF With
  <2> QED
    BY <1>2, <1>5, <1>7, FS_Union
<1>9. 2^(n + 1) = 2^n + 2^n - 0
  <2> HIDE DEF With
  <2> QED
    BY <1>2, <1>5, <1>6, <1>8, FS_EmptySet
<1> QED
  BY <1>3, <1>9

(* Doubling the delay and cutting it off at MaxRestartDelay is one step    *)
(* along the schedule, also from a delay that is cut off already.          *)
LEMMA ScheduleStep ==
  ASSUME TypeOK, Valid, NEW n \in Nat
  PROVE  /\ Schedule(0) = RestartDelay
         /\ Schedule(n + 1) =
              IF Schedule(n) * 2 > MaxRestartDelay THEN MaxRestartDelay
              ELSE Schedule(n) * 2
<1> DEFINE p == 2^n
           D == RestartDelay
           M == MaxRestartDelay
<1>1. D \in Int /\ D >= 0 /\ M \in Int /\ M >= 0
  BY ConfigFacts DEF Valid
<1>2. p \in Nat /\ p > 0 /\ 2^(n + 1) = 2 * p /\ 2^0 = 1
  BY PowerDoubles
<1>3. D * p \in Int /\ D * p >= 0 /\ D * (2 * p) = (D * p) * 2
  <2> HIDE DEF p, D
  <2> QED
    BY <1>1, <1>2
<1>4. Schedule(0) = D
  BY <1>1, <1>2 DEF Schedule
<1>5. n = 0 => D * p = D
  BY <1>1, <1>2
<1> DEFINE r == D * p
<1>6. Schedule(n) = IF n > 0 /\ r > M THEN M ELSE r
  BY DEF Schedule
<1>7. Schedule(n + 1) = IF r * 2 > M THEN M ELSE r * 2
  BY <1>2, <1>3 DEF Schedule
<1> HIDE DEF r, M
<1>8. r \in Int /\ r >= 0
  BY <1>3 DEF r
<1>9. M \in Int /\ M >= 0
  BY <1>1 DEF M
<1> QED
  BY <1>4, <1>6, <1>7, <1>8, <1>9 DEF M

(* The steps of a call outside the loop, and of everybody else, leave the  *)
(* delay, the failures and the calls in the loop alone.                    *)
LEMMA DelayFrame ==
  ASSUME IInv, Next,
         \A c \in Starters :
           /\ ~StartBoot(c) /\ ~LoopTop(c) /\ ~StartProcessChecks(c)
           /\ ~StartProcess(c) /\ ~StartProcessFails(c)
           /\ ~WaitProcessCancelled(c) /\ ~ProcessExited(c)
           /\ ~BackoffElapsed(c) /\ ~BackoffCancelled(c)
  PROVE  /\ UNCHANGED <<config, delay, failures>>
         /\ \A c \in Starters :
              startPc'[c] \in LoopPlaces => startPc'[c] = startPc[c]
<1> USE DEF IInv, TypeOK, LoopPlaces, StartGoto, StartReturns, configVars,
        ctxVars, startVars, stopVars, loopVars, processVars, webhookVars,
        startFrame, stopFrame, processFrame, webhookFrame
<1>1. CASE OnConnection \/ ParentCancel
  BY <1>1 DEF OnConnection, ParentCancel
<1>2. CASE ProcessExits \/ KillOnCancel
  BY <1>2 DEF ProcessExits, KillOnCancel
<1>3. CASE WebhookStep \/ WebhookServes \/ WebhookServeFails
  BY <1>3 DEF WebhookStep, WebhookListens, WebhookStartFails, WebhookShutdown,
              WebhookDrained, WebhookServes, WebhookServeFails
<1>4. CASE \E r \in Requests : RequestAccepted(r) \/ RequestAnswered(r)
  BY <1>4 DEF RequestAccepted, RequestAnswered, requestFrame
<1>5. CASE \E s \in Stoppers : StopCheck(s) \/ StopTimeout(s) \/ StopStep(s)
  BY <1>5 DEF StopCheck, StopSwap, StopCancel, StopDone, StopTimeout, StopStep
<1>6. ASSUME NEW c \in Starters, StartCheck(c) \/ StartSwap(c)
      PROVE  /\ UNCHANGED <<config, delay, failures>>
             /\ \A d \in Starters :
                  startPc'[d] \in LoopPlaces => startPc'[d] = startPc[d]
  BY <1>6 DEF StartCheck, StartSwap
<1>7. ASSUME NEW c \in Starters, StartBind(c) \/ StartFinish(c)
      PROVE  /\ UNCHANGED <<config, delay, failures>>
             /\ \A d \in Starters :
                  startPc'[d] \in LoopPlaces => startPc'[d] = startPc[d]
  BY <1>7 DEF StartBind, StartFinish
<1> QED
  BY <1>1, <1>2, <1>3, <1>4, <1>5, <1>6, <1>7 DEF Next, StartStep

(* Every step of the loop is a step along the schedule, or back to its     *)
(* beginning.                                                              *)
LEMMA BackoffStep ==
  IInv /\ BackoffFollowsSchedule /\ [Next]_vars => BackoffFollowsSchedule'
<1> SUFFICES ASSUME IInv, BackoffFollowsSchedule, [Next]_vars
             PROVE  BackoffFollowsSchedule'
  OBVIOUS
<1> USE DEF BackoffFollowsSchedule
<1>0. ASSUME UNCHANGED <<config, delay, failures>>,
             \A c \in Starters :
               startPc'[c] \in LoopPlaces => startPc'[c] = startPc[c]
      PROVE  BackoffFollowsSchedule'
  BY <1>0 DEF LoopPlaces, Schedule, RestartDelay, MaxRestartDelay
<1>1. CASE UNCHANGED vars
  BY <1>0, <1>1 DEF vars, configVars, loopVars, startVars
<1>2. CASE Next /\ \A c \in Starters :
             /\ ~StartBoot(c) /\ ~LoopTop(c) /\ ~StartProcessChecks(c)
             /\ ~StartProcess(c) /\ ~StartProcessFails(c)
             /\ ~WaitProcessCancelled(c) /\ ~ProcessExited(c)
             /\ ~BackoffElapsed(c) /\ ~BackoffCancelled(c)
  BY <1>0, <1>2, DelayFrame
<1>3. ASSUME NEW c \in Starters,
             \/ StartBoot(c) \/ LoopTop(c) \/ StartProcessChecks(c)
             \/ StartProcess(c) \/ StartProcessFails(c)
             \/ WaitProcessCancelled(c) \/ ProcessExited(c)
             \/ BackoffElapsed(c) \/ BackoffCancelled(c)
      PROVE  BackoffFollowsSchedule'
  (* The call is the only one in the loop.                                 *)
  <2>1. /\ startPc[c] \in LoopPlaces \cup {"boot"}
        /\ \E place \in LoopPlaces \cup {"join"} :
             startPc' = [startPc EXCEPT ![c] = place]
        /\ UNCHANGED config
    <3>1. CASE StartBoot(c)
      BY <3>1 DEF StartBoot, StartGoto, LoopPlaces, startFrame, configVars
    <3>2. CASE ~StartBoot(c)
      <4>1. UNCHANGED config
        BY <1>3, <3>2 DEF LoopTop, StartProcessChecks, StartProcess,
           StartProcessFails, WaitProcessCancelled, ProcessExited,
           BackoffElapsed, BackoffCancelled, loopFrame, configVars
      <4> QED
        BY <1>3, <3>2, <4>1, LoopFrame DEF IInv
    <3> QED
      BY <3>1, <3>2
  <2>2. Active(c) /\ Valid /\ startPc \in [Starters -> ActivePlaces \cup
                                            {"idle", "swap", "returned"}]
    BY <2>1 DEF IInv, TypeOK, LifecycleInv, Active, ActivePlaces
  <2>3. \A d \in Starters \ {c} : startPc'[d] \notin LoopPlaces
    BY <2>1, <2>2 DEF IInv, LifecycleInv, SingleSupervisor, Active,
                      ActivePlaces
  <2>4. /\ RestartDelay' = RestartDelay /\ MaxRestartDelay' = MaxRestartDelay
        /\ \A n \in Nat : Schedule(n)' = Schedule(n)
    BY <2>1 DEF Schedule, RestartDelay, MaxRestartDelay
  <2>5. Schedule(0) = RestartDelay
    BY <2>2, ScheduleStep DEF IInv
  (* It is enough to look at its delay.                                    *)
  <2>6. SUFFICES
          /\ startPc'[c] = "backoff" =>
               delay' = Schedule(IF failures' = 0 THEN 0 ELSE failures' - 1)
          /\ startPc'[c] \in LoopPlaces \ {"backoff"} =>
               delay' = Schedule(failures')
    <3>1. failures' \in Nat
      BY TypeStep DEF IInv, TypeOK
    <3> QED
      BY <2>3, <2>4, <2>6, <3>1 DEF LoopPlaces
  <2> USE DEF StartGoto, LoopReturns
  <2>7. CASE StartBoot(c)
    BY <2>2, <2>5, <2>7 DEF StartBoot
  <2>8. CASE LoopTop(c) \/ StartProcessChecks(c) \/ StartProcess(c)
    BY <2>2, <2>8 DEF LoopTop, StartProcessChecks, StartProcess, loopVars,
                      LoopPlaces
  <2>9. CASE StartProcessFails(c)
    BY <2>2, <2>9, SpawnFailure DEF LoopPlaces, IInv, TypeOK
  <2>10. CASE WaitProcessCancelled(c) \/ BackoffCancelled(c)
    BY <2>2, <2>10 DEF WaitProcessCancelled, BackoffCancelled, LoopPlaces
  <2>11. CASE ProcessExited(c)
    BY <2>2, <2>5, <2>11 DEF ProcessExited, CountExit, FailuresAfter,
                             LoopPlaces, IInv, TypeOK
  <2>12. CASE BackoffElapsed(c)
    <3>1. /\ startPc[c] = "backoff" /\ startPc'[c] = "top"
          /\ delay' = NextDelay /\ failures' = failures
      BY <2>2, <2>12 DEF BackoffElapsed
    <3>2. CASE failures = 0
      BY <3>1, <3>2 DEF NextDelay
    <3>3. CASE failures # 0
      <4>1. PICK n \in Nat : failures = n + 1
        <5>1. failures - 1 \in Nat /\ failures = (failures - 1) + 1
          BY <3>3 DEF IInv, TypeOK
        <5> QED
          BY <5>1
      <4>2. delay = Schedule(n)
        BY <3>1, <4>1
      <4> QED
        BY <2>2, <3>1, <3>3, <4>1, <4>2, ScheduleStep DEF NextDelay, IInv
    <3> QED
      BY <3>2, <3>3
  <2> QED
    BY <1>3, <2>7, <2>8, <2>9, <2>10, <2>11, <2>12
<1> QED
  BY <1>1, <1>2, <1>3

(* Through any crashes, failed spawns and stable runs the delay is the     *)
(* one of the schedule, for every configuration: RestartDelay as it is     *)
(* before the first doubling, and from then on at most MaxRestartDelay.    *)
THEOREM AdapterBackoffFollowsSchedule == Spec => []BackoffFollowsSchedule
<1>1. Init => BackoffFollowsSchedule
  BY DEF Init, BackoffFollowsSchedule, LoopPlaces
<1> QED
  BY <1>1, SpecIInv, BackoffStep, PTL DEF Spec
=============================================================================
