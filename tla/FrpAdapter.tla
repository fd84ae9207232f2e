----------------------------- MODULE FrpAdapter -----------------------------
(***************************************************************************)
(* The frp adapter of pkg/adapter/frp/adapter.go: concurrent calls of      *)
(* Start and Stop, the loop that supervises the frpc child process         *)
(* (runLoop), the goroutine that runs the webhook server, and the HTTP     *)
(* requests that the webhook server has in flight.                         *)
(*                                                                         *)
(* Every goroutine is a process with a program counter.  Its steps are the *)
(* stretches of code between two accesses to shared state.  Time is        *)
(* abstracted: a timer may fire at any moment, a process may exit at any   *)
(* moment, and whether a run was longer than stableRunThreshold is a       *)
(* choice.  Durations are in seconds.                                      *)
(***************************************************************************)
EXTENDS Integers, FiniteSets

CONSTANTS
  Starters,       \* calls of Start
  Stoppers,       \* calls of Stop
  Requests,       \* HTTP requests the webhook server may have in flight
  Configs,        \* the configurations New may be given
  CounterMax      \* the greatest value of an int32: reconnectAttempts

(***************************************************************************)
(* The configuration as the caller wrote it: paths stands for FrpcPath and *)
(* ConfigPath being non-empty.  Durations are far below 2^62 ns, so that   *)
(* delay * 2 cannot overflow.                                              *)
(***************************************************************************)
ConfigType == [paths : BOOLEAN, restartDelay : Int,
               maxRestartDelay : Int, maxRetries : Int]

ASSUME ConfigAssumption == Configs \subseteq ConfigType

ASSUME CounterMaxAssumption == CounterMax \in Nat

VARIABLES
  config,       \* the configuration given to New
  handlerSet,   \* a.handler, and the webhook server's handler, are not nil
  started,      \* a.started
  stopped,      \* a.stopped
  cancelSet,    \* a.cancel has been assigned
  parentDone,   \* the context given to Start is done
  cancelCalled, \* a.cancel has been called
  doneClosed,   \* a.doneChan is closed
  startPc,      \* program counter of every call of Start
  startErr,     \* what that call of Start returned
  stopPc,       \* program counter of every call of Stop
  stopErr,      \* what that call of Stop returned
  delay,        \* runLoop's delay
  failures,     \* runLoop's consecutiveFailures
  loopErr,      \* what runLoop returned
  reconnects,   \* a.reconnectAttempts
  cmdSet,       \* a.cmd is not nil
  alive,        \* number of frpc processes alive
  exitStatus,   \* what the pending cmd.Wait has put into errChan
  webhookPc,    \* program counter of the goroutine of webhook.Start
  webhookErr,   \* what webhook.Start returned
  serve,        \* the goroutine of server.Serve, which owns the listener
  inFlight      \* the HTTP requests that are being served

configVars  == <<config, handlerSet>>
ctxVars     == <<parentDone, cancelCalled>>
startVars   == <<startPc, startErr, started, cancelSet, doneClosed>>
stopVars    == <<stopPc, stopErr, stopped>>
loopVars    == <<delay, failures, loopErr, reconnects>>
processVars == <<cmdSet, alive, exitStatus>>
webhookVars == <<webhookPc, webhookErr, serve>>

vars == <<configVars, ctxVars, startVars, stopVars, loopVars, processVars,
          webhookVars, inFlight>>

(* What the steps of one goroutine leave alone.                            *)
startFrame   == <<configVars, ctxVars, stopVars, processVars, inFlight>>
loopFrame    == <<startErr, started, cancelSet, doneClosed, configVars,
                  ctxVars, stopVars, webhookVars, inFlight>>
stopFrame    == <<configVars, startVars, loopVars, processVars, webhookVars,
                  inFlight>>
processFrame == <<configVars, ctxVars, startVars, stopVars, loopVars,
                  webhookVars, inFlight>>
requestFrame == <<configVars, ctxVars, startVars, stopVars, loopVars,
                  processVars, webhookVars>>
webhookFrame == <<configVars, ctxVars, startVars, stopVars, loopVars,
                  processVars, inFlight>>

-----------------------------------------------------------------------------
(***************************************************************************)
(* Configuration.  New replaces a zero by the default.                     *)
(***************************************************************************)
OrDefault(value, default) == IF value = 0 THEN default ELSE value

RestartDelay    == OrDefault(config.restartDelay, 1)
MaxRestartDelay == OrDefault(config.maxRestartDelay, 300)
MaxRetries      == OrDefault(config.maxRetries, 10)

Valid == /\ config.paths
         /\ RestartDelay >= 0
         /\ MaxRestartDelay >= 0
         /\ MaxRetries >= 0

(* The context derived in Start is done when its parent is, or when Stop   *)
(* called its cancel function.                                             *)
CtxDetached == cancelCalled                 \* mutant: parent ignored
CtxDone     == parentDone \/ cancelCalled

(* Status().Connected; signal 0 reaches the process while it is alive.     *)
ProcessSignalled == alive > 0               \* mutant: a.cmd not consulted
IsProcessRunning == cmdSet /\ alive > 0
Connected        == started /\ ~stopped /\ IsProcessRunning

StartErrors == {"none", "nil", "invalid", "ErrHandlerNotSet",
                "ErrAlreadyStarted", "maxRetries"}
StopErrors  == {"none", "nil", "ErrNotStarted", "ctxErr"}

(* The places of a call of Start that is past the compare-and-swap and has *)
(* not returned.                                                           *)
LoopPlaces   == {"top", "spawn", "fork", "wait", "backoff"}
ActivePlaces == LoopPlaces \cup {"bind", "boot", "join"}

TypeOK ==
  /\ config \in Configs
  /\ handlerSet \in BOOLEAN
  /\ started \in BOOLEAN /\ stopped \in BOOLEAN
  /\ cancelSet \in BOOLEAN
  /\ parentDone \in BOOLEAN /\ cancelCalled \in BOOLEAN
  /\ doneClosed \in BOOLEAN
  /\ startPc \in [Starters -> ActivePlaces \cup {"idle", "swap", "returned"}]
  /\ startErr \in [Starters -> StartErrors]
  /\ stopPc \in [Stoppers -> {"idle", "swap", "cancel", "await", "returned"}]
  /\ stopErr \in [Stoppers -> StopErrors]
  /\ delay \in Int
  /\ failures \in Nat
  /\ loopErr \in {"none", "nil", "maxRetries"}
  /\ reconnects \in (-CounterMax - 1)..CounterMax
  /\ cmdSet \in BOOLEAN
  /\ alive \in Nat
  /\ exitStatus \in {"none", "ok", "err"}
  /\ webhookPc \in {"none", "starting", "serving", "draining", "done"}
  /\ webhookErr \in {"none", "nil", "failed", "timeout"}
  /\ serve \in {"none", "spawned", "running", "refused", "ended"}
  /\ inFlight \subseteq Requests

Init ==
  /\ config \in Configs
  /\ handlerSet = FALSE
  /\ started = FALSE /\ stopped = FALSE
  /\ cancelSet = FALSE
  /\ parentDone = FALSE /\ cancelCalled = FALSE
  /\ doneClosed = FALSE
  /\ startPc = [c \in Starters |-> "idle"]
  /\ startErr = [c \in Starters |-> "none"]
  /\ stopPc = [s \in Stoppers |-> "idle"]
  /\ stopErr = [s \in Stoppers |-> "none"]
  /\ delay = 0 /\ failures = 0
  /\ loopErr = "none"
  /\ reconnects = 0
  /\ cmdSet = FALSE /\ alive = 0 /\ exitStatus = "none"
  /\ webhookPc = "none" /\ webhookErr = "none" /\ serve = "none"
  /\ inFlight = {}

-----------------------------------------------------------------------------
(***************************************************************************)
(* The caller's environment.                                               *)
(***************************************************************************)

(* OnConnection registers a handler; a.mu is held over both assignments,   *)
(* so a.handler and the webhook server's handler change together.          *)
OnConnection ==
  /\ handlerSet' = TRUE
  /\ UNCHANGED <<config, ctxVars, startVars, stopVars, loopVars, processVars,
                 webhookVars, inFlight>>

(* The context passed to Start is cancelled or reaches its deadline.       *)
ParentCancel ==
  /\ parentDone' = TRUE
  /\ UNCHANGED <<cancelCalled, stopVars, stopFrame>>

-----------------------------------------------------------------------------
(***************************************************************************)
(* Start.                                                                  *)
(***************************************************************************)
StartGoto(c, from, to) ==
  /\ startPc[c] = from
  /\ startPc' = [startPc EXCEPT ![c] = to]

StartReturns(c, from, err) ==
  /\ StartGoto(c, from, "returned")
  /\ startErr' = [startErr EXCEPT ![c] = err]

(* Validate, then read the handler under a.mu.                             *)
StartCheck(c) ==
  /\ \/ /\ ~Valid
        /\ StartReturns(c, "idle", "invalid")
     \/ /\ Valid /\ ~handlerSet
        /\ StartReturns(c, "idle", "ErrHandlerNotSet")
     \/ /\ Valid /\ handlerSet
        /\ StartGoto(c, "idle", "swap")
        /\ UNCHANGED startErr
  /\ UNCHANGED <<started, cancelSet, doneClosed, loopVars, webhookVars,
                 startFrame>>

(* Mutant: a plain store of true.                                          *)
StartStore(c) ==
  /\ StartGoto(c, "swap", "bind")
  /\ started' = TRUE
  /\ UNCHANGED <<startErr, cancelSet, doneClosed, loopVars, webhookVars,
                 startFrame>>

(* a.started.CompareAndSwap(false, true)                                   *)
StartSwap(c) ==
  /\ \/ /\ started
        /\ StartReturns(c, "swap", "ErrAlreadyStarted")
        /\ UNCHANGED started
     \/ /\ ~started
        /\ StartGoto(c, "swap", "bind")
        /\ started' = TRUE
        /\ UNCHANGED startErr
  /\ UNCHANGED <<cancelSet, doneClosed, loopVars, webhookVars, startFrame>>

(* ctx, a.cancel = context.WithCancel(ctx): an unlocked write that Stop    *)
(* reads without a lock.                                                   *)
StartBind(c) ==
  /\ StartGoto(c, "bind", "boot")
  /\ cancelSet' = TRUE
  /\ UNCHANGED <<started, doneClosed, startErr, loopVars, webhookVars,
                 startFrame>>

(* Launch the webhook goroutine, sleep 50 ms, enter runLoop.  The sleep    *)
(* orders nothing: the webhook server may or may not be listening.         *)
StartBoot(c) ==
  /\ StartGoto(c, "boot", "top")
  /\ webhookPc' = "starting"
  /\ delay' = RestartDelay
  /\ failures' = 0
  /\ UNCHANGED <<started, cancelSet, doneClosed, startErr, loopErr,
                 reconnects, webhookErr, serve, startFrame>>

(* Mutant: webhookErrChan is not received from.                            *)
StartFinishNoJoin(c) ==
  /\ StartReturns(c, "join", loopErr)
  /\ doneClosed' = TRUE
  /\ UNCHANGED <<started, cancelSet, loopVars, webhookVars, startFrame>>

(* runLoop has returned: receive from webhookErrChan (dropping the error), *)
(* close doneChan, return runLoop's error.                                 *)
StartFinish(c) ==
  /\ webhookPc = "done"
  /\ StartReturns(c, "join", loopErr)
  /\ doneClosed' = TRUE
  /\ UNCHANGED <<started, cancelSet, loopVars, webhookVars, startFrame>>

-----------------------------------------------------------------------------
(***************************************************************************)
(* runLoop.                                                                *)
(***************************************************************************)
LoopReturns(c, from, err) ==
  /\ StartGoto(c, from, "join")
  /\ loopErr' = err

(* The select at the head of the loop.  stopProcess clears a.cmd; the      *)
(* process it points at has already exited.                                *)
LoopTop(c) ==
  /\ \/ /\ CtxDone
        /\ LoopReturns(c, "top", "nil")
        /\ cmdSet' = FALSE
     \/ /\ ~CtxDone
        /\ StartGoto(c, "top", "spawn")
        /\ UNCHANGED <<loopErr, cmdSet>>
  /\ UNCHANGED <<delay, failures, reconnects, alive, exitStatus,
                 loopFrame>>

(* Mutant: exec.Command, which does not look at the context.               *)
StartProcessUnchecked(c) ==
  /\ StartGoto(c, "spawn", "fork")
  /\ UNCHANGED <<loopVars, processVars, loopFrame>>

(* startProcess makes the pipes and calls cmd.Start, which refuses a       *)
(* context that is done ...                                                *)
StartProcessChecks(c) ==
  /\ ~CtxDone
  /\ StartGoto(c, "spawn", "fork")
  /\ UNCHANGED <<loopVars, processVars, loopFrame>>

(* ... and forks later, without looking again.  a.mu is held from the      *)
(* pipes to the assignment of a.cmd: Status sees both or neither.          *)
StartProcess(c) ==
  /\ StartGoto(c, "fork", "wait")
  /\ cmdSet' = TRUE
  /\ alive' = alive + 1
  /\ exitStatus' = "none"
  /\ UNCHANGED <<loopVars, loopFrame>>

(* consecutiveFailures after an attempt, and whether to give up at n.      *)
FailuresKept(failed)    == IF failed THEN failures ELSE 0          \* mutant
FailuresDecayed(failed) == failures + IF failed THEN 1 ELSE -1     \* mutant
FailuresAfter(failed)   == IF failed THEN failures + 1 ELSE 0

RetriesExceeded(n)  == MaxRetries > 0 /\ n > MaxRetries    \* mutant
RetriesExhausted(n) == MaxRetries > 0 /\ n >= MaxRetries

(* startProcess fails: a pipe or the fork fails, or cmd.Start reports the  *)
(* error of a context that was cancelled since the head of the loop.       *)
StartProcessFails(c) ==
  \E place \in {"spawn", "fork"} :
    /\ failures' = FailuresAfter(TRUE)
    /\ IF RetriesExhausted(failures')
         THEN LoopReturns(c, place, "maxRetries")
         ELSE /\ StartGoto(c, place, "backoff")
              /\ UNCHANGED loopErr
    /\ UNCHANGED <<delay, reconnects, processVars, loopFrame>>

(* waitProcess takes ctx.Done(): interrupt the process, forget it, leave   *)
(* the loop.                                                               *)
WaitProcessCancelled(c) ==
  /\ CtxDone
  /\ LoopReturns(c, "wait", "nil")
  /\ cmdSet' = FALSE
  /\ UNCHANGED <<delay, failures, reconnects, alive, exitStatus,
                 loopFrame>>

(* Mutant: the delay survives a reset of the failures.                     *)
CountExitOnly(stable) ==
  /\ failures' = FailuresAfter(exitStatus = "err" /\ ~stable)
  /\ delay' = delay

(* The error counts as a failure unless the run was stable; a clean exit   *)
(* and a stable run reset the failures and the delay.                      *)
CountExit(stable) ==
  LET failed == exitStatus = "err" /\ ~stable
  IN  /\ failures' = FailuresAfter(failed)
      /\ delay' = IF failed THEN delay ELSE RestartDelay

(* cmd.Wait has put its result into errChan.                               *)
WaitNotAwaited == TRUE                      \* mutant
WaitReturned   == exitStatus # "none"

(* waitProcess takes errChan: the process has exited.  A context that is   *)
(* done by now ends the loop whatever the exit status.                     *)
ProcessExited(c) ==
  /\ WaitReturned
  /\ \/ /\ CtxDone
        /\ LoopReturns(c, "wait", "nil")
        /\ UNCHANGED <<delay, failures>>
     \/ /\ ~CtxDone
        /\ \E stable \in BOOLEAN : CountExit(stable)
        /\ IF RetriesExhausted(failures')
             THEN LoopReturns(c, "wait", "maxRetries")
             ELSE /\ StartGoto(c, "wait", "backoff")
                  /\ UNCHANGED loopErr
  /\ UNCHANGED <<reconnects, processVars, loopFrame>>

(* Exponential backoff, only after a failure.  The cap is applied to what  *)
(* was doubled, not to the first delay.                                    *)
NextDelay == IF failures = 0 THEN delay
             ELSE IF delay * 2 > MaxRestartDelay THEN MaxRestartDelay
             ELSE delay * 2

(* reconnectAttempts.Add(1): an int32 goes from its greatest value to its  *)
(* least, and Status reports that.                                         *)
NextReconnects ==
  IF reconnects = CounterMax THEN -CounterMax - 1 ELSE reconnects + 1

(* time.After(delay) fires and the loop starts over.                       *)
BackoffElapsed(c) ==
  /\ StartGoto(c, "backoff", "top")
  /\ delay' = NextDelay
  /\ reconnects' = NextReconnects
  /\ UNCHANGED <<failures, loopErr, processVars, loopFrame>>

(* The context is done during the wait.                                    *)
BackoffCancelled(c) ==
  /\ CtxDone
  /\ LoopReturns(c, "backoff", "nil")
  /\ UNCHANGED <<delay, failures, reconnects, processVars,
                 loopFrame>>

-----------------------------------------------------------------------------
(***************************************************************************)
(* Stop.                                                                   *)
(***************************************************************************)
StopGoto(s, from, to) ==
  /\ stopPc[s] = from
  /\ stopPc' = [stopPc EXCEPT ![s] = to]

StopReturns(s, from, err) ==
  /\ StopGoto(s, from, "returned")
  /\ stopErr' = [stopErr EXCEPT ![s] = err]

(* a.started.Load()                                                        *)
StopCheck(s) ==
  /\ \/ /\ ~started
        /\ StopReturns(s, "idle", "ErrNotStarted")
     \/ /\ started
        /\ StopGoto(s, "idle", "swap")
        /\ UNCHANGED stopErr
  /\ UNCHANGED <<stopped, ctxVars, stopFrame>>

(* a.stopped.CompareAndSwap(false, true)                                   *)
StopSwap(s) ==
  /\ \/ /\ stopped
        /\ StopReturns(s, "swap", "ErrNotStarted")
        /\ UNCHANGED stopped
     \/ /\ ~stopped
        /\ StopGoto(s, "swap", "cancel")
        /\ stopped' = TRUE
        /\ UNCHANGED stopErr
  /\ UNCHANGED <<ctxVars, stopFrame>>

(* if a.cancel != nil { a.cancel() }                                       *)
StopCancel(s) ==
  /\ StopGoto(s, "cancel", "await")
  /\ cancelCalled' = (cancelCalled \/ cancelSet)
  /\ UNCHANGED <<stopped, stopErr, parentDone, stopFrame>>

(* The select that ends Stop: doneChan is closed, or Stop's own context    *)
(* expires.                                                                *)
StopDone(s) ==
  /\ doneClosed
  /\ StopReturns(s, "await", "nil")
  /\ UNCHANGED <<stopped, ctxVars, stopFrame>>

StopTimeout(s) ==
  /\ StopReturns(s, "await", "ctxErr")
  /\ UNCHANGED <<stopped, ctxVars, stopFrame>>

-----------------------------------------------------------------------------
(***************************************************************************)
(* The frpc process, and os/exec's watcher, which kills the process of     *)
(* CommandContext once the context is done.                                *)
(***************************************************************************)
ProcessExits ==
  /\ alive > 0
  /\ alive' = alive - 1
  /\ exitStatus' \in {"ok", "err"}
  /\ UNCHANGED <<cmdSet, processFrame>>

NoKill == FALSE                             \* mutant: exec.Command

KillOnCancel ==
  /\ CtxDone
  /\ alive > 0
  /\ alive' = alive - 1
  /\ exitStatus' = "err"
  /\ UNCHANGED <<cmdSet, processFrame>>

-----------------------------------------------------------------------------
(***************************************************************************)
(* The goroutine of webhook.Start(ctx), and the server it runs.            *)
(***************************************************************************)
(* net.Listen, the assignment of s.server and the goroutine of Serve.      *)
(* Nobody reads s.server in between: the adapter never calls webhook.Stop, *)
(* and webhook.Start once.                                                 *)
WebhookListens ==
  /\ webhookPc = "starting"
  /\ webhookPc' = "serving"
  /\ serve' = "spawned"
  /\ UNCHANGED <<webhookErr, webhookFrame>>

(* server.Serve begins to accept, or refuses a server that is shut down,   *)
(* and closes the listener.                                                *)
WebhookServes ==
  /\ serve = "spawned"
  /\ serve' = IF webhookPc = "serving" THEN "running" ELSE "refused"
  /\ UNCHANGED <<webhookPc, webhookErr, webhookFrame>>

(* The configuration is invalid or net.Listen fails.                       *)
WebhookStartFails ==
  /\ webhookPc = "starting"
  /\ webhookPc' = "done"
  /\ webhookErr' = "failed"
  /\ UNCHANGED <<serve, webhookFrame>>

(* server.Serve returns an error: it is logged, and Start goes on waiting  *)
(* for its context.                                                        *)
WebhookServeFails ==
  /\ serve = "running"
  /\ serve' = "ended"
  /\ UNCHANGED <<webhookPc, webhookErr, webhookFrame>>

(* The context is done: shutdown closes the listener, if Serve has begun,  *)
(* and starts to drain.                                                    *)
WebhookShutdown ==
  /\ webhookPc = "serving"
  /\ CtxDone
  /\ webhookPc' = "draining"
  /\ serve' = IF serve = "running" THEN "ended" ELSE serve
  /\ UNCHANGED <<webhookErr, webhookFrame>>

(* Shutdown returns once no request is in flight, or after 5 seconds.      *)
(* (An error of closing the listener changes started only, which           *)
(* WebhookLifecycle models: the adapter drops what webhook.Start returns.) *)
ShutdownErr ==
  IF inFlight = {} THEN "nil" ELSE "timeout"

WebhookDrained ==
  /\ webhookPc = "draining"
  /\ webhookErr' = ShutdownErr
  /\ webhookPc' = "done"
  /\ UNCHANGED <<serve, webhookFrame>>

-----------------------------------------------------------------------------
(***************************************************************************)
(* HTTP requests.  A request in flight may call the connection handler;    *)
(* WebhookTracking models what it does.                                    *)
(***************************************************************************)

(* A request arrives on a new connection, or on one that was accepted      *)
(* before Serve ended: Shutdown has not closed it yet, or has given up.    *)
RequestAccepted(r) ==
  /\ serve \in {"running", "ended"}
  /\ webhookErr # "nil"
  /\ inFlight' = inFlight \cup {r}
  /\ UNCHANGED requestFrame

RequestAnswered(r) ==
  /\ inFlight' = inFlight \ {r}
  /\ UNCHANGED requestFrame

-----------------------------------------------------------------------------
StartStep(c) ==
  \/ StartSwap(c) \/ StartBind(c) \/ StartBoot(c) \/ StartFinish(c)
  \/ LoopTop(c)
  \/ StartProcessChecks(c) \/ StartProcess(c) \/ StartProcessFails(c)
  \/ WaitProcessCancelled(c) \/ ProcessExited(c)
  \/ BackoffElapsed(c) \/ BackoffCancelled(c)

StopStep(s) == StopSwap(s) \/ StopCancel(s) \/ StopDone(s)

WebhookStep ==
  \/ WebhookListens \/ WebhookStartFails
  \/ WebhookShutdown \/ WebhookDrained

Next ==
  \/ OnConnection
  \/ ParentCancel
  \/ \E c \in Starters : StartCheck(c) \/ StartStep(c)
  \/ \E s \in Stoppers : StopCheck(s) \/ StopTimeout(s) \/ StopStep(s)
  \/ ProcessExits
  \/ KillOnCancel
  \/ WebhookStep
  \/ WebhookServes \/ WebhookServeFails
  \/ \E r \in Requests : RequestAccepted(r) \/ RequestAnswered(r)

Spec == Init /\ [][Next]_vars

(* Goroutines that can run do run, timers fire, and a killed process dies. *)
(* Nothing is assumed of the callers, of frpc exiting by itself, or of     *)
(* requests being answered.                                                *)
Fairness ==
  /\ \A c \in Starters : WF_vars(StartStep(c))
  /\ \A s \in Stoppers : WF_vars(StopStep(s))
  /\ WF_vars(WebhookStep)
  /\ WF_vars(WebhookServes)
  /\ WF_vars(KillOnCancel)

FairSpec == Spec /\ Fairness

-----------------------------------------------------------------------------
(***************************************************************************)
(* Safety.                                                                 *)
(***************************************************************************)
Active(c) == startPc[c] \in ActivePlaces

(* At most one call of Start supervises the process: a second one would    *)
(* spawn a second frpc and close doneChan twice, which panics.             *)
SingleSupervisor == \A c, d \in Starters : Active(c) /\ Active(d) => c = d

(* The restart loop never has two frpc processes alive, across crashes,    *)
(* failed spawns and cancellation.                                         *)
AtMostOneProcess == alive <= 1

(* While the loop goes on, the consecutive failures are below the limit;   *)
(* it gives up at exactly the limit.  A limit of 0, which the              *)
(* documentation calls unlimited, has become 10 in New.                    *)
RetryBudget ==
  /\ \A c \in Starters : startPc[c] \in LoopPlaces => failures < MaxRetries
  /\ loopErr = "maxRetries" => failures = MaxRetries

(* The delay is a function of the consecutive failures: RestartDelay       *)
(* doubled once per failure that was waited for.  MaxRestartDelay cuts off *)
(* what was doubled and nothing else: the delay of n = 0, after a clean    *)
(* exit, a stable run or a first failure, is RestartDelay, also where that *)
(* is above MaxRestartDelay.                                               *)
Schedule(n) ==
  LET raw == RestartDelay * 2^n
  IN  IF n > 0 /\ raw > MaxRestartDelay THEN MaxRestartDelay ELSE raw

BackoffFollowsSchedule ==
  \A c \in Starters :
    /\ startPc[c] = "backoff" =>
         delay = Schedule(IF failures = 0 THEN 0 ELSE failures - 1)
    /\ startPc[c] \in LoopPlaces \ {"backoff"} => delay = Schedule(failures)

(* When Stop has returned nil the webhook server accepts no connection any *)
(* more, and no supervisor is left.  A listener that Serve never got to    *)
(* may still be open, but Serve will refuse and close it; requests that    *)
(* were accepted before may go on.                                         *)
StopNilMeansQuiet ==
  (\E s \in Stoppers : stopErr[s] = "nil") =>
     serve # "running" /\ \A c \in Starters : ~Active(c)

(* Status reports Connected only for a process that a call of Start is     *)
(* waiting for: a process that cancellation has given up on, and that is   *)
(* still dying, is not reported.                                           *)
ConnectedIsSupervised ==
  Connected => \E c \in Starters : startPc[c] = "wait"

-----------------------------------------------------------------------------
(***************************************************************************)
(* Refinement.  The adapter is running from the assignment of a.cancel to  *)
(* the closing of doneChan.                                                *)
(***************************************************************************)
Phase == IF ~cancelSet THEN "idle"
         ELSE IF doneClosed THEN "done"
         ELSE IF CtxDone THEN "stopping"
         ELSE "running"

Lifecycle == INSTANCE AdapterLifecycle
               WITH phase <- Phase, clients <- alive,
                    spawning <- \E c \in Starters : startPc[c] = "fork",
                    accepting <- serve = "running",
                    acked <- \E s \in Stoppers : stopErr[s] = "nil"

(* The adapter implements the life cycle: whatever Start, Stop, runLoop,   *)
(* the process and the webhook server do in between, there is one life, no *)
(* process is begun after cancellation (one that cmd.Start was about to    *)
(* fork may still appear, for KillOnCancel to end), none appears after the *)
(* end, and Stop is acknowledged only after the end, when no connection is *)
(* accepted any more.                                                      *)
LifecycleSpec == Lifecycle!Spec

-----------------------------------------------------------------------------
(***************************************************************************)
(* Liveness, under FairSpec.                                               *)
(***************************************************************************)

(* Once the derived context is done, Start runs to its end, wherever it    *)
(* was: spawning, waiting, backing off, or joining the webhook server.     *)
CancelTerminates ==
  (cancelSet /\ (parentDone \/ cancelCalled)) ~> doneClosed

(* After doneChan is closed no frpc process stays behind.                  *)
ProcessReaped == doneClosed ~> [](alive = 0)

(* The loop never gets stuck between two processes: a backoff ends in a    *)
(* new process or in the end of the loop.                                  *)
RestartsOrReturns ==
  \A c \in Starters :
    startPc[c] = "backoff" ~> startPc[c] \in {"wait", "join", "returned"}

-----------------------------------------------------------------------------
(***************************************************************************)
(* What the documentation says and the code does not do.                   *)
(***************************************************************************)

(* "Set to 0 for unlimited retries."                                       *)
UnlimitedRetries == config.maxRetries = 0 => loopErr # "maxRetries"

(* "After this many failures, Start returns an error."                     *)
GivingUpReturns ==
  \A c \in Starters :
    (startPc[c] = "join" /\ loopErr = "maxRetries") ~> startPc[c] = "returned"

(* "Stop gracefully shuts down the adapter": a Stop that got past the      *)
(* compare-and-swap ends the adapter.                                      *)
StopIsEffective ==
  \A s \in Stoppers : stopPc[s] = "cancel" ~> doneClosed
=============================================================================
