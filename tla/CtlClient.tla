----------------------------- MODULE CtlClient ------------------------------
(***************************************************************************)
(* cloudtapctl (cmd/cloudtapctl/main.go) against the handlers of cloudtapd *)
(* (cmd/cloudtapd/main.go) and the manager behind them.  A command goes    *)
(* out over gRPC and, after any error, over HTTP, both within one deadline *)
(* of 15 seconds.  The manager is the table of TunnelRegistry, which       *)
(* TunnelManager implements.                                               *)
(*                                                                         *)
(* The network may refuse a connection, lose a request, lose an answer, or *)
(* deliver a request after the client has given up on it: a call that is   *)
(* pending may be served at any later moment, or never.                    *)
(***************************************************************************)
EXTENDS Naturals, FiniteSets

CONSTANTS
  Clients,  \* runs of cloudtapctl, one command each
  Names,    \* names of targets
  Infos,    \* what a target says besides its name
  None      \* no entry

ASSUME NamesAssumption   == Names # {}
ASSUME ClientsAssumption == IsFiniteSet(Clients)

VARIABLES
  targets,  \* the manager's known targets
  active,   \* its active tunnels
  pc,       \* what every client does: which transport it is at
  cmd,      \* its command
  ctxDone,  \* its context is done
  call,     \* what became of its request over each transport
  report,   \* what it reports
  seen      \* history: states of its tunnel while the command ran

managerVars == <<targets, active>>
vars == <<managerVars, pc, cmd, ctxDone, call, report, seen>>

Manager == INSTANCE TunnelRegistry

Commands   == [op : {"proxy", "close", "list-targets"}, name : Names]
Transports == {"grpc", "http"}
Answers    == {"ok", "notActive", "failed"}

TypeOK ==
  /\ targets \in Manager!Table /\ active \in Manager!Table
  /\ pc \in [Clients -> {"idle", "grpc", "http", "done"}]
  /\ cmd \in [Clients -> Commands]
  /\ ctxDone \in [Clients -> BOOLEAN]
  /\ call \in [Clients -> [Transports ->
                 {"none", "refused", "pending"} \cup Answers]]
  /\ report \in [Clients -> {"none", "transport"} \cup Answers]
  /\ seen \in [Clients -> SUBSET {"active", "inactive"}]

Init ==
  /\ Manager!Init
  /\ pc = [c \in Clients |-> "idle"]
  /\ cmd \in [Clients -> Commands]
  /\ ctxDone = [c \in Clients |-> FALSE]
  /\ call = [c \in Clients |-> [t \in Transports |-> "none"]]
  /\ report = [c \in Clients |-> "none"]
  /\ seen = [c \in Clients |-> {}]

-----------------------------------------------------------------------------
(***************************************************************************)
(* The client.                                                             *)
(***************************************************************************)
Status(tunnel) == IF tunnel = None THEN "inactive" ELSE "active"

Goto(c, from, to) ==
  /\ pc[c] = from
  /\ pc' = [pc EXCEPT ![c] = to]

(* main: the deadline starts to run.                                       *)
Begin(c) ==
  /\ Goto(c, "idle", "grpc")
  /\ seen' = [seen EXCEPT ![c] = {Status(active[cmd[c].name])}]
  /\ UNCHANGED <<managerVars, cmd, ctxDone, call, report>>

NoDeadline(c) == FALSE                                         \* mutant

Deadline(c) ==
  /\ pc[c] \in {"grpc", "http"} /\ ~ctxDone[c]
  /\ ctxDone' = [ctxDone EXCEPT ![c] = TRUE]
  /\ UNCHANGED <<managerVars, pc, cmd, call, report, seen>>

(* A request goes out; a context that is done sends nothing.               *)
Send(c, t) ==
  /\ pc[c] = t /\ call[c][t] = "none" /\ ~ctxDone[c]
  /\ \E sent \in {"pending", "refused"} :
       call' = [call EXCEPT ![c][t] = sent]
  /\ UNCHANGED <<managerVars, pc, cmd, ctxDone, report, seen>>

Ends(c, from, outcome) ==
  /\ Goto(c, from, "done")
  /\ report' = [report EXCEPT ![c] = outcome]
  /\ UNCHANGED <<managerVars, cmd, ctxDone, call, seen>>

GrpcOk(c) == call[c]["grpc"] = "ok" /\ Ends(c, "grpc", "ok")

(* Any error, an answer of the server or one of the transport, leads to    *)
(* the fallback: requestTunnel, closeTunnel and listTargets drop it.       *)
Fallback(c) ==
  /\ call[c]["grpc"] # "none" \/ ctxDone[c]
  /\ Goto(c, "grpc", "http")
  /\ UNCHANGED <<managerVars, cmd, ctxDone, call, report, seen>>

(* The status of the HTTP answer decides.                                  *)
StatusIgnored(answer) == "ok"                                  \* mutant
HttpOutcome(answer)   == answer

(* Mutant: the error of httpRequest is not looked at, and the status of an *)
(* answer that is not there is reported.                                   *)
HttpUnchecked(c) ==
  /\ call[c]["http"] # "none" \/ ctxDone[c]
  /\ Ends(c, "http", HttpOutcome(call[c]["http"]))

HttpAnswered(c) ==
  /\ call[c]["http"] \in Answers
  /\ Ends(c, "http", HttpOutcome(call[c]["http"]))

(* httpRequest or the decoding of the answer fails.                        *)
HttpFails(c) ==
  /\ call[c]["http"] # "none" \/ ctxDone[c]
  /\ Ends(c, "http", "transport")

ClientStep(c) ==
  \/ \E t \in Transports : Send(c, t)
  \/ GrpcOk(c) \/ Fallback(c) \/ HttpAnswered(c) \/ HttpFails(c)

-----------------------------------------------------------------------------
(***************************************************************************)
(* The handlers of cloudtapd, /proxy, /close and /targets and the methods  *)
(* of tunnelServer: one call of the manager, and its answer.               *)
(***************************************************************************)
Answer(c, t, answer) ==
  /\ call[c][t] = "pending"
  /\ call' = [call EXCEPT ![c][t] = answer]
  /\ seen' = [d \in Clients |->
                IF pc[d] \in {"grpc", "http"}
                  THEN seen[d] \cup {Status(active'[cmd[d].name])}
                  ELSE seen[d]]
  /\ UNCHANGED <<pc, cmd, ctxDone, report>>

HandleOpen(c, t) ==
  /\ cmd[c].op = "proxy"
  /\ Manager!Open(cmd[c].name)
  /\ Answer(c, t, "ok")

(* Manager.Close fails for a tunnel that is not active.                    *)
CloseErrorDropped == "ok"                                      \* mutant
NoActiveTunnel    == "notActive"

HandleClose(c, t) ==
  /\ cmd[c].op = "close"
  /\ \/ /\ Manager!Close(cmd[c].name)
        /\ Answer(c, t, "ok")
     \/ /\ active[cmd[c].name] = None
        /\ UNCHANGED managerVars
        /\ Answer(c, t, NoActiveTunnel)

HandleList(c, t) ==
  /\ cmd[c].op = "list-targets"
  /\ UNCHANGED managerVars
  /\ Answer(c, t, "ok")

(* The context of the request is done, the source or the dialer fails, or  *)
(* the target is not known.                                                *)
HandleFails(c, t) ==
  /\ UNCHANGED managerVars
  /\ Answer(c, t, "failed")

(* ensureTargets reads the source again.                                   *)
Refresh ==
  /\ \E table \in Manager!Table : Manager!Discover(table)
  /\ UNCHANGED <<pc, cmd, ctxDone, call, report, seen>>

-----------------------------------------------------------------------------
Next ==
  \/ \E c \in Clients :
       \/ Begin(c) \/ Deadline(c) \/ ClientStep(c)
       \/ \E t \in Transports : \/ HandleOpen(c, t) \/ HandleClose(c, t)
                                \/ HandleList(c, t) \/ HandleFails(c, t)
  \/ Refresh

Spec == Init /\ [][Next]_vars

(* A client goes on when it has an answer, or an error, or its deadline    *)
(* has expired, which it does.  Nothing is assumed of the network or of    *)
(* the daemon: a request may stay unanswered and its connection up.        *)
Ready(c) ==
  pc[c] \in Transports /\ (ctxDone[c] \/ call[c][pc[c]] # "pending")

FairSpec ==
  /\ Spec
  /\ \A c \in Clients : WF_vars(Ready(c) /\ ClientStep(c))
  /\ \A c \in Clients : WF_vars(Deadline(c))

-----------------------------------------------------------------------------
(* What a command reports was true while it ran: a tunnel that is said to  *)
(* be open was active, one that is said to be closed, or not to be active, *)
(* was not, although the answer may be that of the second attempt and the  *)
(* first one may have been served as well.                                 *)
ReportWasTrue ==
  \A c \in Clients :
    /\ report[c] = "ok" /\ cmd[c].op = "proxy" => "active" \in seen[c]
    /\ report[c] = "ok" /\ cmd[c].op = "close" => "inactive" \in seen[c]
    /\ report[c] = "notActive" => "inactive" \in seen[c]

(* The requests that the daemon has acknowledged.                          *)
Served(op, n) == {k \in Clients \X Transports :
                    /\ cmd[k[1]] = [op |-> op, name |-> n]
                    /\ call[k[1]][k[2]] = "ok"}

(* However requests are repeated, delayed or lost, the daemon never        *)
(* acknowledges more closes of a tunnel than it did opens.                 *)
NoPhantomClose ==
  \A n \in Names :
    Cardinality(Served("close", n)) <= Cardinality(Served("proxy", n))

(* Every command ends, whatever becomes of its requests.                   *)
CommandEnds == \A c \in Clients : pc[c] = "grpc" ~> pc[c] = "done"
=============================================================================
