-------------------------- MODULE WebhookLifecycle --------------------------
(***************************************************************************)
(* Start and Stop of one WebhookServer, pkg/adapter/frp/webhook.go, called *)
(* by any goroutines and any number of times: all of them share the fields *)
(* started and server.  Every Start that gets so far makes a listener and  *)
(* an http.Server of its own, named here after the call.  The              *)
(* configuration is valid.  Its port is fixed, and then one listener is    *)
(* open at a time, or 0, and then every Start listens on a port of its     *)
(* own.                                                                    *)
(***************************************************************************)
CONSTANTS
  Starts,   \* calls of Start
  Stops,    \* calls of Stop
  None      \* the nil pointer

ASSUME NoneAssumption == None \notin Starts

(* What the state of a goroutine may be besides a server.                  *)
Marks == {"none", "spawned", "ended"}

ASSUME MarksAssumption == Starts \cap Marks = {}

VARIABLES
  fixedPort, \* the port of ListenAddr is not 0
  started,   \* s.started
  server,    \* s.server
  pc,        \* where every call is
  target,    \* the server on which it has called Shutdown
  ctxDone,   \* the calls of Start whose context is done
  open,      \* the listeners that are open
  serve,     \* every Start's goroutine: none, spawned, the server it runs
             \* Serve of, ended
  closing,   \* the servers on which Shutdown has been called
  busy,      \* the servers that have a request in flight
  failed     \* the servers whose last Shutdown has returned an error

callVars  == <<pc, target, ctxDone>>
serveVars == <<open, serve, closing, busy>>
fateVars  == <<fixedPort, failed>>
vars == <<started, server, callVars, serveVars, fateVars>>

Calls == Starts \cup Stops

TypeOK ==
  /\ fixedPort \in BOOLEAN
  /\ started \in BOOLEAN /\ server \in Starts \cup {None}
  /\ pc \in [Calls -> {"idle", "listen", "assign", "wait", "check", "shut",
                       "drain", "drainErr", "store", "returned"}]
  /\ target \in [Calls -> Starts \cup {None}]
  /\ ctxDone \subseteq Starts /\ open \subseteq Starts
  /\ serve \in [Starts -> Starts \cup Marks]
  /\ closing \subseteq Starts /\ busy \subseteq Starts
  /\ failed \subseteq Starts

Init ==
  /\ fixedPort \in BOOLEAN
  /\ started = FALSE /\ server = None
  /\ pc = [k \in Calls |-> "idle"]
  /\ target = [k \in Calls |-> None]
  /\ ctxDone = {} /\ open = {}
  /\ serve = [a \in Starts |-> "none"]
  /\ closing = {} /\ busy = {} /\ failed = {}

Goto(k, from, to) == pc[k] = from /\ pc' = [pc EXCEPT ![k] = to]

-----------------------------------------------------------------------------
(***************************************************************************)
(* Start.                                                                  *)
(***************************************************************************)
CancelCtx(a) ==
  /\ ctxDone' = ctxDone \cup {a}
  /\ UNCHANGED <<started, server, pc, target, serveVars, fateVars>>

(* s.started.CompareAndSwap(false, true)                                   *)
StartSwap(a) ==
  /\ Goto(a, "idle", IF started THEN "returned" ELSE "listen")
  /\ started' = TRUE
  /\ UNCHANGED <<server, target, ctxDone, serveVars, fateVars>>

(* net.Listen; an address in use is one way in which it fails.             *)
StartListens(a) ==
  /\ fixedPort => open = {}
  /\ open' = open \cup {a}
  /\ Goto(a, "listen", "assign")
  /\ UNCHANGED <<started, server, target, ctxDone, serve, closing, busy,
                 fateVars>>

(* s.started.Store(false)                                                  *)
KeptStarted == started                                        \* mutant
Released    == FALSE

StartListenFails(a) ==
  /\ Goto(a, "listen", "returned")
  /\ started' = Released
  /\ UNCHANGED <<server, target, ctxDone, serveVars, fateVars>>

(* s.server = &http.Server{...}, and the goroutine.                        *)
StartAssigns(a) ==
  /\ Goto(a, "assign", "wait")
  /\ server' = a
  /\ serve' = [serve EXCEPT ![a] = "spawned"]
  /\ UNCHANGED <<started, target, ctxDone, open, closing, busy, fateVars>>

(* <-ctx.Done(), then shutdown.                                            *)
StartWaits(a) ==
  /\ a \in ctxDone
  /\ Goto(a, "wait", "check")
  /\ UNCHANGED <<started, server, target, ctxDone, serveVars, fateVars>>

(* s.server.Serve(listener): it refuses a server that is shut down, and    *)
(* closes the listener when it returns.                                    *)
Serve(a) ==
  /\ serve[a] = "spawned"
  /\ serve' = [serve EXCEPT ![a] = IF server \in closing THEN "ended"
                                                         ELSE server]
  /\ open' = IF server \in closing THEN open \ {a} ELSE open
  /\ UNCHANGED <<started, server, callVars, closing, busy, fateVars>>

ServeFails(a) ==
  /\ serve[a] \in Starts
  /\ serve' = [serve EXCEPT ![a] = "ended"]
  /\ open' = open \ {a}
  /\ UNCHANGED <<started, server, callVars, closing, busy, fateVars>>

-----------------------------------------------------------------------------
(***************************************************************************)
(* Stop and shutdown.                                                      *)
(***************************************************************************)
StopLoads(s) ==
  /\ Goto(s, "idle", IF started THEN "check" ELSE "returned")
  /\ UNCHANGED <<started, server, target, ctxDone, serveVars, fateVars>>

(* if s.server != nil                                                      *)
NothingStarted == server = None \/ ~started                   \* mutant
NilUnchecked   == FALSE                                       \* mutant
NothingToStop  == server = None

ShutdownChecks(k) ==
  /\ Goto(k, "check", IF NothingToStop THEN "store" ELSE "shut")
  /\ UNCHANGED <<started, server, target, ctxDone, serveVars, fateVars>>

(* s.server.Shutdown reads the field again, closes the listeners, one of   *)
(* which may report an error, and ...                                      *)
Shutdown(k) ==
  LET served == {a \in Starts : serve[a] = server}
  IN  /\ \/ Goto(k, "shut", "drain")
         \/ served # {} /\ Goto(k, "shut", "drainErr")
      /\ target' = [target EXCEPT ![k] = server]
      /\ closing' = closing \cup {server}
      /\ open' = open \ served
      /\ serve' = [a \in Starts |-> IF a \in served THEN "ended"
                                                    ELSE serve[a]]
      /\ UNCHANGED <<started, server, ctxDone, busy, fateVars>>

(* ... returns nil when it has closed the last connection, or the error    *)
(* of the listener, or that of its context after five seconds.  shutdown   *)
(* returns an error with started as it is.                                 *)
Drained(k) ==
  /\ target[k] \notin busy
  /\ Goto(k, "drain", "store")
  /\ failed' = failed \ {target[k]}
  /\ UNCHANGED <<fixedPort, started, server, target, ctxDone, serveVars>>

(* Mutant: Shutdown under a context without a deadline.                    *)
NoTimeout(k) ==
  /\ target[k] \notin busy
  /\ Goto(k, "drainErr", "returned")
  /\ failed' = failed \cup {target[k]}
  /\ UNCHANGED <<fixedPort, started, server, target, ctxDone, serveVars>>

ShutdownFails(k) ==
  /\ \/ target[k] \in busy /\ Goto(k, "drain", "returned")
     \/ Goto(k, "drainErr", "returned")
  /\ failed' = failed \cup {target[k]}
  /\ UNCHANGED <<fixedPort, started, server, target, ctxDone, serveVars>>

ShutdownStores(k) ==
  /\ Goto(k, "store", "returned")
  /\ started' = Released
  /\ UNCHANGED <<server, target, ctxDone, serveVars, fateVars>>

(* Requests, on new connections or on ones that outlive the listener until *)
(* the drain is over, and longer when it failed.                           *)
Request(x) ==
  /\ \/ \E a \in Starts : serve[a] = x
     \/ \E k \in Calls : pc[k] \in {"drain", "drainErr"} /\ target[k] = x
     \/ x \in failed
  /\ busy' = busy \cup {x}
  /\ UNCHANGED <<started, server, callVars, open, serve, closing, fateVars>>

Answered(x) ==
  /\ busy' = busy \ {x}
  /\ UNCHANGED <<started, server, callVars, open, serve, closing, fateVars>>

-----------------------------------------------------------------------------
StartStep(a) ==
  \/ StartListens(a) \/ StartListenFails(a) \/ StartAssigns(a)
  \/ StartWaits(a)

ShutdownStep(k) ==
  \/ ShutdownChecks(k) \/ Shutdown(k)
  \/ Drained(k) \/ ShutdownFails(k) \/ ShutdownStores(k)

Next ==
  \/ \E a \in Starts : \/ CancelCtx(a) \/ StartSwap(a) \/ StartStep(a)
                       \/ Serve(a) \/ ServeFails(a)
                       \/ Request(a) \/ Answered(a)
  \/ \E s \in Stops : StopLoads(s)
  \/ \E k \in Calls : ShutdownStep(k)

Spec == Init /\ [][Next]_vars

(* Goroutines that can run do run, and the five seconds of Shutdown pass.  *)
(* Nothing is assumed of callers, contexts or requests.                    *)
FairSpec ==
  /\ Spec
  /\ \A a \in Starts : WF_vars(StartStep(a)) /\ WF_vars(Serve(a))
  /\ \A k \in Calls : WF_vars(ShutdownStep(k))

-----------------------------------------------------------------------------
(* "already started" is never said by mistake: started is set only while   *)
(* somebody is going to clear it (a Start that has still to shut down, or  *)
(* that shuts down the server there is, or a call about to store false) or *)
(* after the last Shutdown of the server there is has failed, whatever     *)
(* Stop and the other calls of Start store and assign meanwhile.           *)
StartedIsOwned ==
  started =>
    \/ server \in failed
    \/ \E k \in Calls : pc[k] = "store"
    \/ \E a \in Starts :
         \/ pc[a] \in {"listen", "assign", "wait", "check", "shut"}
         \/ pc[a] \in {"drain", "drainErr"} /\ target[a] = server

(* A Start whose context is done returns, also when a Stop came between    *)
(* the swap of started and the assignment of server, and also when a       *)
(* request never ends.                                                     *)
CancelledStartReturns ==
  \A a \in Starts :
    (a \in ctxDone /\ pc[a] # "idle") ~> pc[a] = "returned"

(* Where the port is fixed, no listener is left behind by a Start that has *)
(* returned: the address keeps a later Start from replacing the server     *)
(* before the listener is closed.  Where the port is 0 nothing does: a     *)
(* later Start overwrites s.server, and the earlier one shuts down the     *)
(* wrong server and leaves its own listener open.                          *)
NoListenerLeft ==
  \A a \in Starts : fixedPort /\ pc[a] = "returned" ~> a \notin open
=============================================================================
