-------------------------- MODULE Cloudtapd_proofs --------------------------
(***************************************************************************)
(* Proofs about Cloudtapd, for any number of requests: its types, that the *)
(* exit status tells whether a server failed, and that a clean exit cuts   *)
(* off no request.                                                         *)
(***************************************************************************)
EXTENDS Cloudtapd, SequenceTheorems, TLAPS

-----------------------------------------------------------------------------
(***************************************************************************)
(* The inductive invariant, part by part.                                  *)
(***************************************************************************)

(* What the channel may hold: at most one error of each server.            *)
ErrQueues == {<<>>, <<"http">>, <<"grpc">>, <<"http", "grpc">>,
              <<"grpc", "http">>}

Members(q) == {q[k] : k \in DOMAIN q}

(* The errors main has not received are those of servers that have failed; *)
(* the error of a failed server is in the channel until main has one.      *)
ErrorInv ==
  /\ serverErrs \in ErrQueues
  /\ "http" \in Members(serverErrs) => http = "err"
  /\ "grpc" \in Members(serverErrs) => grpc = "err"
  /\ fatalErr = "http" => http = "err" /\ "http" \notin Members(serverErrs)
  /\ fatalErr = "grpc" => grpc = "err" /\ "grpc" \notin Members(serverErrs)
  /\ fatalErr = "none" =>
       /\ http = "err" => "http" \in Members(serverErrs)
       /\ grpc = "err" => "grpc" \in Members(serverErrs)

(* The channel is closed after both servers have returned, and main exits  *)
(* when it has read the channel to its end.                                *)
ExitInv ==
  /\ main = "select" => fatalErr = "none"
  /\ errsClosed => AllReturned
  /\ main \in {"ok", "error"} =>
       /\ errsClosed /\ serverErrs = <<>>
       /\ main = "ok" <=> fatalErr = "none"

(* From the end of Shutdown on nothing comes in over HTTP, and the accept  *)
(* loop ends without an error only after Shutdown was called; nothing      *)
(* comes in over gRPC before Serve or after GracefulStop.                  *)
DrainInv ==
  /\ listen = "ErrServerClosed" => InShutdown
  /\ http \in {"join", "nil"} => ~httpUp /\ InFlight("http") = {}
  /\ grpc \in {"boot", "listening", "nil"} \/ stop = "stopped" =>
       InFlight("grpc") = {}

IInv == TypeOK /\ ErrorInv /\ ExitInv /\ DrainInv

-----------------------------------------------------------------------------
(***************************************************************************)
(* The channel.                                                            *)
(***************************************************************************)

(* The members of each queue.                                              *)
LEMMA QueueMembers ==
  /\ Members(<<>>) = {}
  /\ \A x : Members(<<x>>) = {x}
  /\ \A x, y : Members(<<x, y>>) = {x, y}
BY DEF Members

(* The channel holds two errors at most.                                   *)
LEMMA QueueType ==
  ASSUME NEW q \in ErrQueues
  PROVE  q \in Seq({"http", "grpc"}) /\ Len(q) <= 2 /\ q \o <<>> = q
<1>1. \/ q = <<>> \/ q = <<"http">> \/ q = <<"grpc">>
      \/ q = <<"http", "grpc">> \/ q = <<"grpc", "http">>
  BY DEF ErrQueues
<1>2. q \in Seq({"http", "grpc"}) /\ Len(q) <= 2
  <2>1. CASE q = <<>>
    BY <2>1
  <2>2. ASSUME NEW x \in {"http", "grpc"}, q = <<x>>
        PROVE  q \in Seq({"http", "grpc"}) /\ Len(q) <= 2
    BY <2>2
  <2>3. ASSUME NEW x \in {"http", "grpc"}, NEW y \in {"http", "grpc"},
               q = <<x, y>>
        PROVE  q \in Seq({"http", "grpc"}) /\ Len(q) <= 2
    BY <2>3
  <2> QED
    BY <1>1, <2>1, <2>2, <2>3
<1> QED
  BY <1>2, ConcatEmptySeq

(* A receive takes the only copy of an error out of the channel.           *)
LEMMA Receive ==
  ASSUME NEW q \in ErrQueues, q # <<>>
  PROVE  /\ Head(q) \in {"http", "grpc"}
         /\ Tail(q) \in ErrQueues
         /\ Members(q) = Members(Tail(q)) \cup {Head(q)}
         /\ Head(q) \notin Members(Tail(q))
<1>1. CASE q = <<"http">> \/ q = <<"grpc">>
  <2>1. PICK x \in {"http", "grpc"} : q = <<x>>
    BY <1>1
  <2>2. Head(q) = x /\ Tail(q) = <<>>
    BY <2>1
  <2> QED
    BY <2>1, <2>2, QueueMembers DEF ErrQueues
<1>2. CASE q = <<"http", "grpc">>
  <2>1. Head(q) = "http" /\ Tail(q) = <<"grpc">>
    BY <1>2
  <2> QED
    BY <1>2, <2>1, QueueMembers DEF ErrQueues
<1>3. CASE q = <<"grpc", "http">>
  <2>1. Head(q) = "grpc" /\ Tail(q) = <<"http">>
    BY <1>3
  <2> QED
    BY <1>3, <2>1, QueueMembers DEF ErrQueues
<1> QED
  BY <1>1, <1>2, <1>3 DEF ErrQueues

(* A server that has not reported finds room in the channel.               *)
LEMMA Send ==
  ASSUME NEW q \in ErrQueues, NEW server \in {"http", "grpc"},
         server \notin Members(q)
  PROVE  /\ q \o <<server>> \in ErrQueues
         /\ Members(q \o <<server>>) = Members(q) \cup {server}
<1>1. CASE q = <<>>
  <2>1. q \o <<server>> = <<server>>
    BY <1>1
  <2> QED
    BY <1>1, <2>1, QueueMembers DEF ErrQueues
<1>2. ASSUME NEW other \in {"http", "grpc"}, q = <<other>>
      PROVE  /\ q \o <<server>> \in ErrQueues
             /\ Members(q \o <<server>>) = Members(q) \cup {server}
  <2>1. q \o <<server>> = <<other, server>>
    <3> DEFINE r == <<other, server>>
               S == {"http", "grpc"}
    <3>1. /\ q \in Seq(S) /\ <<server>> \in Seq(S) /\ r \in Seq(S)
          /\ Len(q) = 1 /\ Len(<<server>>) = 1 /\ Len(r) = 2
          /\ r[1] = q[1] /\ r[2] = <<server>>[1]
      BY <1>2
    <3>2. /\ q \o <<server>> \in Seq(S) /\ Len(q \o <<server>>) = 2
          /\ (q \o <<server>>)[1] = r[1] /\ (q \o <<server>>)[2] = r[2]
      <4> HIDE DEF r, S
      <4> QED
        BY <3>1, ConcatProperties
    <3> HIDE DEF r, S
    <3>3. \A k \in 1..2 : (q \o <<server>>)[k] = r[k]
      BY <3>2
    <3>4. q \o <<server>> = r
      BY <3>1, <3>2, <3>3, SeqEqual
    <3> QED
      BY <3>4 DEF r
  <2>2. other # server
    BY <1>2, QueueMembers
  <2>3. <<other, server>> \in ErrQueues
    BY <2>2 DEF ErrQueues
  <2>4. Members(q) = {other} /\ Members(<<other, server>>) = {other, server}
    BY <1>2, QueueMembers
  <2> QED
    BY <2>1, <2>3, <2>4
<1>3. q = <<>> \/ \E other \in {"http", "grpc"} : q = <<other>>
  BY QueueMembers DEF ErrQueues
<1> QED
  BY <1>1, <1>2, <1>3

-----------------------------------------------------------------------------
(***************************************************************************)
(* Steps.                                                                  *)
(***************************************************************************)

(* A server's goroutine reports once: its error was not in the channel and *)
(* main did not have it.                                                   *)
LEMMA HttpReports ==
  ASSUME IInv,
         NEW from \in {"boot", "select", "shutdown", "join"},
         NEW to \in {"select", "shutdown", "join"} \cup Results,
         HttpGoto(from, to)
  PROVE  ErrorInv' /\ ExitInv'
<1> USE DEF IInv, TypeOK, ErrorInv, ExitInv, HttpGoto, Report, Running,
        AllReturned, mainVars, chanVars, grpcVars, Results
<1>1. CASE to \in {"select", "shutdown", "join"}
  BY <1>1
<1>2. CASE to = "nil"
  <2>1. serverErrs' = serverErrs
    BY <1>2, QueueType
  <2> QED
    BY <1>2, <2>1
<1>3. CASE to = "err"
  <2>1. "http" \notin Members(serverErrs)
    OBVIOUS
  <2>2. serverErrs' = serverErrs \o <<"http">>
    BY <1>3
  <2>3. /\ serverErrs' \in ErrQueues
        /\ Members(serverErrs') = Members(serverErrs) \cup {"http"}
    BY <2>1, <2>2, Send
  <2>4. ~errsClosed /\ main \notin {"ok", "error"}
    OBVIOUS
  <2> QED
    BY <1>3, <2>3, <2>4
<1> QED
  BY <1>1, <1>2, <1>3

(* The same for runGRPCServer.                                             *)
LEMMA GrpcReports ==
  ASSUME IInv,
         NEW from \in {"boot", "listening", "serving"},
         NEW to \in {"listening", "serving"} \cup Results,
         GrpcGoto(from, to)
  PROVE  ErrorInv' /\ ExitInv'
<1> USE DEF IInv, TypeOK, ErrorInv, ExitInv, GrpcGoto, Report, Running,
        AllReturned, mainVars, chanVars, httpVars, Results
<1>1. CASE to \in {"listening", "serving"}
  BY <1>1
<1>2. CASE to = "nil"
  <2>1. serverErrs' = serverErrs
    BY <1>2, QueueType
  <2> QED
    BY <1>2, <2>1
<1>3. CASE to = "err"
  <2>1. "grpc" \notin Members(serverErrs)
    OBVIOUS
  <2>2. serverErrs' = serverErrs \o <<"grpc">>
    BY <1>3
  <2>3. /\ serverErrs' \in ErrQueues
        /\ Members(serverErrs') = Members(serverErrs) \cup {"grpc"}
    BY <2>1, <2>2, Send
  <2>4. ~errsClosed /\ main \notin {"ok", "error"}
    OBVIOUS
  <2> QED
    BY <1>3, <2>3, <2>4
<1> QED
  BY <1>1, <1>2, <1>3

(* No error is lost on the way to main, and main exits with what it has    *)
(* read.                                                                   *)
LEMMA ErrorStep == IInv /\ [Next]_vars => ErrorInv' /\ ExitInv'
<1> SUFFICES ASSUME IInv, [Next]_vars PROVE ErrorInv' /\ ExitInv'
  OBVIOUS
<1> USE DEF IInv, TypeOK, ErrorInv, ExitInv, AllReturned, Results, mainVars,
        chanVars, httpVars, grpcVars
<1>1. CASE Signal \/ SignalKills
  BY <1>1 DEF Signal, SignalKills
<1>2. CASE MainSelects
  <2>1. main = "select" /\ main' = "range"
        /\ UNCHANGED <<http, grpc, errsClosed>>
    BY <1>2 DEF MainSelects, Stop
  <2>2. CASE UNCHANGED <<fatalErr, serverErrs>>
    BY <2>1, <2>2
  <2>3. CASE /\ serverErrs # <<>> /\ fatalErr' = Head(serverErrs)
             /\ serverErrs' = Tail(serverErrs)
    BY <2>1, <2>3, Receive
  <2> QED
    BY <1>2, <2>2, <2>3 DEF MainSelects
<1>3. CASE MainRanges
  <2>1. /\ main = "range" /\ serverErrs # <<>>
        /\ fatalErr' = FatalAfter(Head(serverErrs))
        /\ serverErrs' = Tail(serverErrs)
        /\ UNCHANGED <<main, http, grpc, errsClosed>>
    BY <1>3 DEF MainRanges
  <2> QED
    BY <2>1, Receive DEF FatalAfter
<1>4. CASE MainExits \/ CloseErrs
  BY <1>4 DEF MainExits, CloseErrs, Running
<1>5. CASE HttpStep
  <2>1. CASE HttpBoots
    BY <2>1, HttpReports DEF HttpBoots
  <2>2. CASE HttpSelects
    BY <2>2, HttpReports DEF HttpSelects, ErrChResult
  <2>3. CASE HttpShutdownDone \/ HttpShutdownFails
    BY <2>3, HttpReports DEF HttpShutdownDone, HttpShutdownFails
  <2>4. CASE HttpJoins
    BY <2>4, HttpReports DEF HttpJoins, ErrChResult
  <2> QED
    BY <1>5, <2>1, <2>2, <2>3, <2>4 DEF HttpStep
<1>6. CASE ListenStep
  BY <1>6 DEF ListenStep, HttpListens, ListenAndServeReturns, ListenGoto
<1>7. CASE GrpcStep \/ GrpcServeFails
  <2>1. CASE GrpcListens
    BY <2>1, GrpcReports DEF GrpcListens
  <2>2. CASE GrpcServes
    BY <2>2, GrpcReports DEF GrpcServes
  <2>3. CASE GrpcServeReturns \/ GrpcServeFails
    BY <2>3, GrpcReports DEF GrpcServeReturns, GrpcServeFails
  <2> QED
    BY <1>7, <2>1, <2>2, <2>3 DEF GrpcStep
<1>8. CASE GracefulStop
  BY <1>8 DEF GracefulStop, StopGoto
<1>9. ASSUME NEW r \in Requests, Arrives(r) \/ Answered(r)
      PROVE  ErrorInv' /\ ExitInv'
  BY <1>9 DEF Arrives, Answered, RequestGoto
<1>10. CASE UNCHANGED vars
  BY <1>10 DEF vars
<1> QED
  BY <1>1, <1>2, <1>3, <1>4, <1>5, <1>6, <1>7, <1>8, <1>9, <1>10
     DEF Next, MainStep

(* Every step keeps the types; the bound on the channel is that of its     *)
(* queues.                                                                 *)
LEMMA TypeStep == IInv /\ [Next]_vars => TypeOK'
<1> SUFFICES ASSUME IInv, [Next]_vars PROVE TypeOK'
  OBVIOUS
<1>0. /\ serverErrs' \in Seq({"http", "grpc"}) /\ Len(serverErrs') <= 2
      /\ serverErrs # <<>> => Head(serverErrs) \in {"http", "grpc"}
  BY ErrorStep, QueueType, Receive DEF ErrorInv, IInv
<1> USE <1>0 DEF IInv, TypeOK, Results, mainVars, chanVars, httpVars, grpcVars
<1>1. CASE Signal \/ SignalKills \/ UNCHANGED vars
  BY <1>1 DEF Signal, SignalKills, vars
<1>2. CASE MainSelects
  <2>1. ctxDone' \in BOOLEAN
    BY <1>2, Zenon DEF MainSelects, Stop
  <2> QED
    BY <1>2, <2>1 DEF MainSelects, Stop
<1>3. CASE MainRanges \/ MainExits
  BY <1>3 DEF MainRanges, FatalAfter, MainExits
<1>4. CASE CloseErrs
  BY <1>4 DEF CloseErrs
<1>5. CASE HttpStep
  <2>1. httpUp' \in BOOLEAN
    BY <1>5, Zenon DEF HttpStep, HttpBoots, HttpSelects, HttpShutdownDone,
                       HttpShutdownFails, HttpJoins
  <2>2. listen' \in {"none", "listen", "serving", "ErrServerClosed", "failed"}
    BY <1>5 DEF HttpStep, HttpBoots, HttpSelects, HttpShutdownDone,
                HttpShutdownFails, HttpJoins
  <2>3. ErrChResult \in Results
    BY DEF ErrChResult
  <2>4. /\ http' \in {"boot", "select", "shutdown", "join"} \cup Results
        /\ errsClosed' = errsClosed
        /\ UNCHANGED <<mainVars, grpcVars, request>>
    BY <1>5, <2>3 DEF HttpStep, HttpBoots, HttpSelects, HttpShutdownDone,
                      HttpShutdownFails, HttpJoins, HttpGoto, Report
  <2> QED
    BY <2>1, <2>2, <2>4
<1>6. CASE ListenStep
  BY <1>6 DEF ListenStep, HttpListens, ListenAndServeReturns, ListenGoto
<1>7. CASE GrpcStep \/ GrpcServeFails
  <2>1. /\ grpc' \in {"boot", "listening", "serving"} \cup Results
        /\ stop' \in {"none", "waiting", "graceful", "stopped"}
        /\ errsClosed' = errsClosed
        /\ UNCHANGED <<mainVars, httpVars, request>>
    BY <1>7 DEF GrpcStep, GrpcListens, GrpcServes, GrpcServeReturns,
                GrpcServeFails, GrpcGoto, Report
  <2> QED
    BY <2>1
<1>8. CASE GracefulStop
  BY <1>8 DEF GracefulStop, StopGoto
<1>9. ASSUME NEW r \in Requests, Arrives(r) \/ Answered(r) PROVE TypeOK'
  BY <1>9 DEF Arrives, Answered, RequestGoto
<1> QED
  BY <1>1, <1>2, <1>3, <1>4, <1>5, <1>6, <1>7, <1>8, <1>9
     DEF Next, MainStep

(* A request comes in only while its server is up.                         *)
LEMMA DrainStep == IInv /\ [Next]_vars => DrainInv'
<1> SUFFICES ASSUME IInv, [Next]_vars PROVE DrainInv'
  OBVIOUS
<1> USE DEF IInv, TypeOK, DrainInv, InFlight, InShutdown, Results, mainVars,
        chanVars, httpVars, grpcVars
<1>1. CASE Signal \/ SignalKills \/ UNCHANGED vars
  BY <1>1 DEF Signal, SignalKills, vars
<1>2. CASE MainStep \/ CloseErrs
  BY <1>2 DEF MainStep, MainSelects, MainRanges, MainExits, CloseErrs
<1>3. CASE HttpStep
  <2> USE DEF HttpGoto, HttpDrained, InErrCh, ErrChResult
  <2>1. CASE HttpBoots
    BY <2>1 DEF HttpBoots
  <2>2. CASE HttpSelects
    BY <2>2 DEF HttpSelects
  <2>3. CASE HttpShutdownDone
    BY <2>3 DEF HttpShutdownDone
  <2>4. CASE HttpShutdownFails
    BY <2>4 DEF HttpShutdownFails
  <2>5. CASE HttpJoins
    BY <2>5 DEF HttpJoins
  <2> QED
    BY <1>3, <2>1, <2>2, <2>3, <2>4, <2>5 DEF HttpStep
<1>4. CASE ListenStep
  BY <1>4 DEF ListenStep, HttpListens, ListenAndServeReturns, ListenGoto
<1>5. CASE GrpcStep \/ GrpcServeFails
  BY <1>5 DEF GrpcStep, GrpcListens, GrpcServes, GrpcServeReturns,
              GrpcServeFails, GrpcGoto, StopJoined
<1>6. CASE GracefulStop
  BY <1>6 DEF GracefulStop, StopGoto
<1>7. ASSUME NEW r \in Requests, Arrives(r) PROVE DrainInv'
  <2>1. /\ UNCHANGED <<listen, http, httpUp, grpc, stop>>
        /\ \/ httpUp /\ request' = [request EXCEPT ![r] = "http"]
           \/ GrpcUp /\ request' = [request EXCEPT ![r] = "grpc"]
    BY <1>7 DEF Arrives, RequestGoto
  <2> QED
    BY <2>1 DEF GrpcUp
<1>8. ASSUME NEW r \in Requests, Answered(r) PROVE DrainInv'
  <2>1. /\ UNCHANGED <<listen, http, httpUp, grpc, stop>>
        /\ request' = [request EXCEPT ![r] = "answered"]
    BY <1>8 DEF Answered, RequestGoto
  <2> QED
    BY <2>1
<1> QED
  BY <1>1, <1>2, <1>3, <1>4, <1>5, <1>6, <1>7, <1>8 DEF Next

-----------------------------------------------------------------------------
(* The daemon boots in the invariant, and every step keeps it.             *)
LEMMA InitIInv == Init => IInv
<1> SUFFICES ASSUME Init PROVE IInv
  OBVIOUS
<1>1. <<>> \in ErrQueues
  BY DEF ErrQueues
<1>2. TypeOK
  <2>1. ctxDone \in BOOLEAN /\ errsClosed \in BOOLEAN /\ httpUp \in BOOLEAN
    BY Zenon DEF Init
  <2> QED
    BY <1>1, <2>1, QueueType DEF Init, TypeOK
<1>3. ErrorInv /\ ExitInv /\ DrainInv
  BY <1>1, QueueMembers DEF Init, ErrorInv, ExitInv, DrainInv, InFlight
<1> QED
  BY <1>2, <1>3 DEF IInv

(* The invariant holds in every state of every behaviour.                  *)
LEMMA SpecIInv == Spec => []IInv
<1>1. IInv /\ [Next]_vars => IInv'
  BY ErrorStep, TypeStep, DrainStep DEF IInv
<1> QED
  BY <1>1, InitIInv, PTL DEF Spec

(* Type correctness of the daemon; with it, a send into the channel of two *)
(* never blocks.                                                           *)
THEOREM DaemonTypeOK == Spec => []TypeOK
BY SpecIInv, PTL DEF IInv

(* Whichever case of the select main takes, and in whatever order the      *)
(* servers fail, the exit status tells whether one of them did.            *)
THEOREM DaemonExitStatusTruthful == Spec => []ExitStatusTruthful
<1>1. IInv => ExitStatusTruthful
  <2> SUFFICES ASSUME IInv, main \in {"ok", "error"}
               PROVE  /\ AllReturned
                      /\ main = "error" <=> "err" \in {http, grpc}
    BY DEF ExitStatusTruthful
  <2>1. /\ AllReturned /\ Members(serverErrs) = {}
        /\ main = "ok" <=> fatalErr = "none"
    BY QueueMembers DEF IInv, ExitInv
  <2> QED
    BY <2>1 DEF IInv, TypeOK, ErrorInv
<1> QED
  BY <1>1, SpecIInv, PTL

(* "cloudtapd stopped cleanly" cuts off no request, however many are in    *)
(* flight when the daemon is told to stop.                                 *)
THEOREM DaemonCleanExitDrained == Spec => []CleanExitDrained
<1>1. IInv => CleanExitDrained
  <2> SUFFICES ASSUME IInv, main = "ok"
               PROVE  InFlight("http") = {} /\ InFlight("grpc") = {}
    BY DEF CleanExitDrained
  <2>1. AllReturned /\ Members(serverErrs) = {} /\ fatalErr = "none"
    BY QueueMembers DEF IInv, ExitInv
  <2>2. http = "nil" /\ grpc = "nil"
    BY <2>1 DEF IInv, ErrorInv, AllReturned, Results
  <2> QED
    BY <2>2 DEF IInv, DrainInv
<1> QED
  BY <1>1, SpecIInv, PTL
=============================================================================
