----------------------------- MODULE Cloudtapd ------------------------------
(***************************************************************************)
(* The life cycle of the daemon, cmd/cloudtapd/main.go: main, the          *)
(* goroutines of runHTTPServer and runGRPCServer, the goroutine that each  *)
(* of them starts, and the requests they have in flight.                   *)
(*                                                                         *)
(* net/http and grpc-go are modelled from what main.go relies on: after    *)
(* Shutdown or GracefulStop has begun the accept loop ends without an      *)
(* error, and a nil from Shutdown, or the end of GracefulStop, means that  *)
(* no request is in flight.  The five seconds of Shutdown may be over at   *)
(* any moment.                                                             *)
(***************************************************************************)
EXTENDS Naturals, Sequences

CONSTANT Requests   \* the requests that clients send while the daemon lives

VARIABLES
  ctxDone,     \* the context of signal.NotifyContext is done
  main,        \* where main is: in the select, in the range, or its exit
  fatalErr,    \* main's fatalErr: "none", or the server whose error it is
  serverErrs,  \* the channel serverErrs, as a sequence of servers
  errsClosed,  \* serverErrs is closed
  http,        \* where runHTTPServer is, or what it has returned
  listen,      \* where its goroutine is, or what that has put into errCh
  httpUp,      \* the HTTP server may have connections
  grpc,        \* where runGRPCServer is, or what it has returned
  stop,        \* where its goroutine is, which calls GracefulStop
  request      \* state of every request

chanVars == <<serverErrs, errsClosed>>
mainVars == <<ctxDone, main, fatalErr>>
httpVars == <<http, listen, httpUp>>
grpcVars == <<grpc, stop>>
vars == <<mainVars, chanVars, httpVars, grpcVars, request>>

Results == {"nil", "err"}

TypeOK ==
  /\ ctxDone \in BOOLEAN
  /\ main \in {"select", "range", "ok", "error", "killed"}
  /\ fatalErr \in {"none", "http", "grpc"}
  /\ serverErrs \in Seq({"http", "grpc"}) /\ Len(serverErrs) <= 2
  /\ errsClosed \in BOOLEAN
  /\ http \in {"boot", "select", "shutdown", "join"} \cup Results
  /\ listen \in {"none", "listen", "serving", "ErrServerClosed", "failed"}
  /\ httpUp \in BOOLEAN
  /\ grpc \in {"boot", "listening", "serving"} \cup Results
  /\ stop \in {"none", "waiting", "graceful", "stopped"}
  /\ request \in [Requests -> {"new", "http", "grpc", "answered"}]

Init ==
  /\ ctxDone = FALSE /\ main = "select" /\ fatalErr = "none"
  /\ serverErrs = <<>> /\ errsClosed = FALSE
  /\ http = "boot" /\ listen = "none" /\ httpUp = FALSE
  /\ grpc = "boot" /\ stop = "none"
  /\ request = [r \in Requests |-> "new"]

(* Every goroutine is there until main is over.                            *)
Running == main \in {"select", "range"}

InFlight(server) == {r \in Requests : request[r] = server}

-----------------------------------------------------------------------------
(***************************************************************************)
(* Signals and main.  stop() cancels the context and gives signals their   *)
(* default effect back.                                                    *)
(***************************************************************************)
Signal ==
  /\ main = "select" /\ ctxDone' = TRUE
  /\ UNCHANGED <<main, fatalErr, chanVars, httpVars, grpcVars, request>>

SignalKills ==
  /\ main = "range" /\ main' = "killed"
  /\ UNCHANGED <<ctxDone, fatalErr, chanVars, httpVars, grpcVars, request>>

NotStopped == main' = "range" /\ UNCHANGED ctxDone             \* mutant
Stop       == main' = "range" /\ ctxDone' = TRUE

(* The select, then stop().                                                *)
MainSelects ==
  /\ main = "select"
  /\ \/ ctxDone /\ UNCHANGED <<fatalErr, serverErrs>>
     \/ /\ serverErrs # <<>>
        /\ fatalErr' = Head(serverErrs)
        /\ serverErrs' = Tail(serverErrs)
     \/ errsClosed /\ serverErrs = <<>> /\ UNCHANGED <<fatalErr, serverErrs>>
  /\ Stop
  /\ UNCHANGED <<errsClosed, httpVars, grpcVars, request>>

(* The range over serverErrs keeps the first error.                        *)
LaterIgnored(err) == fatalErr                                  \* mutant
FatalAfter(err)   == IF fatalErr = "none" THEN err ELSE fatalErr

MainRanges ==
  /\ main = "range" /\ serverErrs # <<>>
  /\ fatalErr' = FatalAfter(Head(serverErrs))
  /\ serverErrs' = Tail(serverErrs)
  /\ UNCHANGED <<ctxDone, main, errsClosed, httpVars, grpcVars, request>>

MainExits ==
  /\ main = "range" /\ serverErrs = <<>> /\ errsClosed
  /\ main' = IF fatalErr = "none" THEN "ok" ELSE "error"
  /\ UNCHANGED <<ctxDone, fatalErr, chanVars, httpVars, grpcVars, request>>

(* wg.Wait(); close(serverErrs)                                            *)
AllReturned == http \in Results /\ grpc \in Results

CloseErrs ==
  /\ Running /\ ~errsClosed /\ AllReturned
  /\ errsClosed' = TRUE
  /\ UNCHANGED <<mainVars, serverErrs, httpVars, grpcVars, request>>

(* The goroutine of a server: send an error, then wg.Done().  The buffer   *)
(* holds an error of either server, so that the send does not block.       *)
Report(server, res) ==
  /\ serverErrs' = serverErrs \o (IF res = "err" THEN <<server>> ELSE <<>>)
  /\ UNCHANGED errsClosed

-----------------------------------------------------------------------------
(***************************************************************************)
(* runHTTPServer, which from "shutdown" on has called Shutdown.            *)
(***************************************************************************)
HttpGoto(from, to) ==
  /\ Running /\ http = from /\ http' = to
  /\ IF to \in Results THEN Report("http", to) ELSE UNCHANGED chanVars
  /\ UNCHANGED <<mainVars, grpcVars, request>>

HttpBoots ==
  /\ HttpGoto("boot", "select")
  /\ listen' = "listen"
  /\ UNCHANGED httpUp

(* The select takes ctx.Done() and calls Shutdown, or errCh.               *)
ErrChRaw    == listen                                          \* mutant
ErrChResult == IF listen = "failed" THEN "err" ELSE "nil"
InErrCh     == listen \in {"ErrServerClosed", "failed"}

HttpSelects ==
  /\ \/ ctxDone /\ HttpGoto("select", "shutdown")
     \/ InErrCh /\ HttpGoto("select", ErrChResult)
  /\ UNCHANGED <<listen, httpUp>>

(* Shutdown returns nil when no request is in flight ...                   *)
HttpDrained == InFlight("http") = {}

HttpShutdownDone ==
  /\ HttpDrained
  /\ HttpGoto("shutdown", "join")
  /\ httpUp' = FALSE
  /\ UNCHANGED listen

(* ... and an error after five seconds (a connection that has sent nothing *)
(* yet counts as busy) or when the listener fails to close.                *)
HttpShutdownFails ==
  /\ HttpGoto("shutdown", "err")
  /\ UNCHANGED <<listen, httpUp>>

(* <-errCh after Shutdown.                                                 *)
HttpJoins ==
  /\ InErrCh /\ HttpGoto("join", ErrChResult)
  /\ UNCHANGED <<listen, httpUp>>

(* The goroutine: ListenAndServe listens ...                               *)
InShutdown == http \notin {"boot", "select"}

ListenGoto(from, to) ==
  /\ Running /\ listen = from /\ listen' = to
  /\ UNCHANGED <<http, mainVars, chanVars, grpcVars, request>>

HttpListens == ~InShutdown /\ ListenGoto("listen", "serving") /\ httpUp' = TRUE

(* ... and returns: with an error of net.Listen (which Shutdown may        *)
(* overtake) or of Accept, or with ErrServerClosed in a shutdown.          *)
ListenAndServeReturns ==
  /\ \/ ListenGoto("listen", "failed")
     \/ ~InShutdown /\ ListenGoto("serving", "failed")
     \/ InShutdown /\ ListenGoto("listen", "ErrServerClosed")
     \/ InShutdown /\ ListenGoto("serving", "ErrServerClosed")
  /\ UNCHANGED httpUp

-----------------------------------------------------------------------------
(***************************************************************************)
(* runGRPCServer.                                                          *)
(***************************************************************************)
GrpcGoto(from, to) ==
  /\ Running /\ grpc = from /\ grpc' = to
  /\ IF to \in Results THEN Report("grpc", to) ELSE UNCHANGED chanVars
  /\ UNCHANGED <<mainVars, httpVars, request>>

(* net.Listen, then the goroutine that waits for the context.              *)
GrpcListens ==
  \/ GrpcGoto("boot", "listening") /\ stop' = "waiting"
  \/ GrpcGoto("boot", "err") /\ UNCHANGED stop

(* Serve refuses a server that was stopped before: ErrServerStopped.       *)
GrpcServes ==
  /\ GrpcGoto("listening", IF stop = "waiting" THEN "serving" ELSE "nil")
  /\ UNCHANGED stop

(* Accept fails for good before GracefulStop is called.                    *)
GrpcServeFails ==
  /\ stop = "waiting" /\ GrpcGoto("serving", "err")
  /\ UNCHANGED stop

(* Once GracefulStop has been called, Serve waits for its end.             *)
StopBegun  == stop \in {"graceful", "stopped"}                 \* mutant
StopJoined == stop = "stopped"

GrpcServeReturns ==
  /\ StopJoined /\ GrpcGoto("serving", "nil")
  /\ UNCHANGED stop

(* The goroutine: GracefulStop has no time limit.                          *)
StopGoto(from, to) ==
  /\ Running /\ stop = from /\ stop' = to
  /\ UNCHANGED <<grpc, mainVars, chanVars, httpVars, request>>

GracefulStop ==
  \/ ctxDone /\ StopGoto("waiting", "graceful")
  \/ InFlight("grpc") = {} /\ StopGoto("graceful", "stopped")

-----------------------------------------------------------------------------
(***************************************************************************)
(* Requests.  Connections outlive an accept loop that has failed, and take *)
(* requests until the drain is over.                                       *)
(***************************************************************************)
GrpcUp == grpc \in {"serving", "err"} /\ stop \in {"waiting", "graceful"}

RequestGoto(r, from, to) ==
  /\ Running /\ request[r] = from
  /\ request' = [request EXCEPT ![r] = to]
  /\ UNCHANGED <<mainVars, chanVars, httpVars, grpcVars>>

Arrives(r) ==
  \/ httpUp /\ RequestGoto(r, "new", "http")
  \/ GrpcUp /\ RequestGoto(r, "new", "grpc")

Answered(r) ==
  \/ RequestGoto(r, "http", "answered")
  \/ RequestGoto(r, "grpc", "answered")

-----------------------------------------------------------------------------
MainStep   == MainSelects \/ MainRanges \/ MainExits
HttpStep   == \/ HttpBoots \/ HttpSelects
              \/ HttpShutdownDone \/ HttpShutdownFails \/ HttpJoins
ListenStep == HttpListens \/ ListenAndServeReturns
GrpcStep   == GrpcListens \/ GrpcServes \/ GrpcServeReturns

Next ==
  \/ Signal \/ SignalKills
  \/ MainStep \/ CloseErrs
  \/ HttpStep \/ ListenStep
  \/ GrpcStep \/ GrpcServeFails \/ GracefulStop
  \/ \E r \in Requests : Arrives(r) \/ Answered(r)

Spec == Init /\ [][Next]_vars

(* Goroutines that can run do run, and a request handler answers: it only  *)
(* calls the manager, whose calls return (TunnelManager, CallReturns).     *)
(* Nothing is assumed of signals or of clients.                            *)
FairSpec ==
  /\ Spec
  /\ WF_vars(MainStep) /\ WF_vars(CloseErrs)
  /\ WF_vars(HttpStep) /\ WF_vars(ListenStep)
  /\ WF_vars(GrpcStep) /\ WF_vars(GracefulStop)
  /\ \A r \in Requests : WF_vars(Answered(r))

-----------------------------------------------------------------------------
(* The exit status tells whether a server failed, whichever case of the    *)
(* select main took and whenever the errors came in, and both servers have *)
(* returned by then.                                                       *)
ExitStatusTruthful ==
  main \in {"ok", "error"} =>
    /\ AllReturned
    /\ (main = "error") <=> ("err" \in {http, grpc})

(* "cloudtapd stopped cleanly" is true: no request of either protocol is   *)
(* cut off by the end of the process.                                      *)
CleanExitDrained ==
  main = "ok" => InFlight("http") = {} /\ InFlight("grpc") = {}

(* A signal, or the failure of one server at any stage, ends the daemon:   *)
(* neither server is left to run without the other.                        *)
ShutdownCompletes ==
  (ctxDone \/ "err" \in {http, grpc}) ~> ~Running
=============================================================================
