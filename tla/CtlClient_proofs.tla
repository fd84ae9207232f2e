-------------------------- MODULE CtlClient_proofs --------------------------
(***************************************************************************)
(* Proofs about CtlClient, for any number of clients, commands, names and  *)
(* targets: its types, that what a command reports was true while it ran,  *)
(* and that no close is acknowledged more often than an open.              *)
(***************************************************************************)
EXTENDS CtlClient, FiniteSetTheorems, TLAPS

-----------------------------------------------------------------------------
(***************************************************************************)
(* The inductive invariant, part by part.                                  *)
(***************************************************************************)

(* Nothing is sent before the command begins or reported before it ends.   *)
OrderInv ==
  \A c \in Clients :
    /\ pc[c] = "idle" => \A t \in Transports : call[c][t] = "none"
    /\ report[c] # "none" => pc[c] = "done"

(* An answer that has come in while the command runs tells of a state the  *)
(* command has seen.  Answers that come in later are not reported.         *)
AnswerWasTrue ==
  \A c \in Clients, t \in Transports :
    pc[c] \in {"grpc", "http"} =>
      /\ call[c][t] = "ok" /\ cmd[c].op = "proxy" => "active" \in seen[c]
      /\ call[c][t] = "ok" /\ cmd[c].op = "close" => "inactive" \in seen[c]
      /\ call[c][t] = "notActive" => "inactive" \in seen[c]

ReportInv == OrderInv /\ AnswerWasTrue /\ ReportWasTrue

(* Of the opens that were acknowledged, one is not closed while the tunnel *)
(* is active: without it NoPhantomClose is not inductive.                  *)
OpenNow(n) == IF active[n] = None THEN 0 ELSE 1

CloseInv ==
  \A n \in Names :
    Cardinality(Served("close", n)) + OpenNow(n)
      <= Cardinality(Served("proxy", n))

IInv == TypeOK /\ ReportInv /\ CloseInv

-----------------------------------------------------------------------------
(***************************************************************************)
(* What a handler does.                                                    *)
(***************************************************************************)

(* A step of a handler of the daemon.                                      *)
Handled(c, t) ==
  \/ HandleOpen(c, t) \/ HandleClose(c, t)
  \/ HandleList(c, t) \/ HandleFails(c, t)

(* A handler answers one pending call with what it found in the manager,   *)
(* and changes the manager's tables only by opening or closing a tunnel.   *)
LEMMA HandlerTruth ==
  ASSUME TypeOK, NEW c \in Clients, NEW t \in Transports, Handled(c, t)
  PROVE  \E answer \in Answers :
           /\ Answer(c, t, answer)
           /\ targets' \in Manager!Table /\ active' \in Manager!Table
           /\ answer = "ok" /\ cmd[c].op = "proxy" =>
                Status(active'[cmd[c].name]) = "active"
           /\ answer = "ok" /\ cmd[c].op = "close" =>
                Status(active'[cmd[c].name]) = "inactive"
           /\ answer = "notActive" =>
                Status(active'[cmd[c].name]) = "inactive"
<1>0. /\ cmd[c].name \in Names
      /\ cmd[c].op \in {"proxy", "close", "list-targets"}
  BY DEF TypeOK, Commands
<1> USE <1>0 DEF TypeOK, Answers, Status, Manager!Table, managerVars
<1>1. CASE HandleOpen(c, t)
  BY <1>1 DEF HandleOpen, Manager!Open
<1>2. CASE HandleClose(c, t)
  BY <1>2 DEF HandleClose, Manager!Close, NoActiveTunnel
<1>3. CASE HandleList(c, t)
  BY <1>3 DEF HandleList
<1>4. CASE HandleFails(c, t)
  BY <1>4 DEF HandleFails
<1> QED
  BY <1>1, <1>2, <1>3, <1>4 DEF Handled

(* The answer to one call leaves every other call alone.                   *)
LEMMA AnswerCalls ==
  ASSUME TypeOK, NEW c \in Clients, NEW t \in Transports,
         NEW answer \in Answers, Answer(c, t, answer)
  PROVE  /\ call[c][t] = "pending" /\ call'[c][t] = answer
         /\ \A d \in Clients, u \in Transports :
              <<d, u>> # <<c, t>> => call'[d][u] = call[d][u]
         /\ call' \in [Clients -> [Transports ->
                         {"none", "refused", "pending"} \cup Answers]]
BY DEF TypeOK, Answer

(* A running client sees the tables as a handler leaves them.              *)
LEMMA AnswerSeen ==
  ASSUME TypeOK, NEW c \in Clients, NEW t \in Transports,
         NEW answer \in Answers, Answer(c, t, answer)
  PROVE  /\ \A d \in Clients : seen[d] \subseteq seen'[d]
         /\ \A d \in Clients : pc[d] \in {"grpc", "http"} =>
              Status(active'[cmd[d].name]) \in seen'[d]
         /\ \A d \in Clients :
              pc[d] \notin {"grpc", "http"} => seen'[d] = seen[d]
         /\ seen' \in [Clients -> SUBSET {"active", "inactive"}]
BY DEF TypeOK, Answer, Status

-----------------------------------------------------------------------------
(* The clients start in the invariant.                                     *)
LEMMA InitIInv == Init => IInv
<1> SUFFICES ASSUME Init PROVE IInv
  OBVIOUS
<1>1. TypeOK
  BY DEF Init, TypeOK, Manager!Init, Manager!Table
<1>2. ReportInv
  BY DEF Init, ReportInv, OrderInv, AnswerWasTrue, ReportWasTrue
<1>3. CloseInv
  <2>1. \A n \in Names : Served("close", n) = {} /\ Served("proxy", n) = {}
    BY DEF Init, Served
  <2>2. \A n \in Names : OpenNow(n) = 0
    BY DEF Init, Manager!Init, OpenNow
  <2> QED
    BY <2>1, <2>2, FS_EmptySet DEF CloseInv
<1> QED
  BY <1>1, <1>2, <1>3 DEF IInv

(* Every step keeps the types.                                             *)
LEMMA TypeStep == TypeOK /\ [Next]_vars => TypeOK'
<1> SUFFICES ASSUME TypeOK, [Next]_vars PROVE TypeOK'
  OBVIOUS
<1>1. ASSUME NEW c \in Clients, NEW t \in Transports, Handled(c, t)
      PROVE  TypeOK'
  <2>1. PICK answer \in Answers :
          /\ Answer(c, t, answer)
          /\ targets' \in Manager!Table /\ active' \in Manager!Table
    BY <1>1, HandlerTruth
  <2>2. call' \in [Clients -> [Transports ->
                     {"none", "refused", "pending"} \cup Answers]]
    BY <2>1, AnswerCalls
  <2>3. seen' \in [Clients -> SUBSET {"active", "inactive"}]
    BY <2>1, AnswerSeen
  <2>4. UNCHANGED <<pc, cmd, ctxDone, report>>
    BY <2>1 DEF Answer
  <2> QED
    BY <2>1, <2>2, <2>3, <2>4 DEF TypeOK
<1> USE DEF TypeOK, managerVars
<1>2. ASSUME NEW c \in Clients, Begin(c) PROVE TypeOK'
  BY <1>2 DEF Begin, Goto, Status
<1>3. ASSUME NEW c \in Clients, Deadline(c) PROVE TypeOK'
  BY <1>3 DEF Deadline
<1>4. ASSUME NEW c \in Clients, NEW t \in Transports, Send(c, t)
      PROVE  TypeOK'
  BY <1>4 DEF Send
<1>5. ASSUME NEW c \in Clients, GrpcOk(c) \/ HttpAnswered(c) \/ HttpFails(c)
      PROVE  TypeOK'
  BY <1>5 DEF GrpcOk, HttpAnswered, HttpFails, HttpOutcome, Ends, Goto, Answers
<1>6. ASSUME NEW c \in Clients, Fallback(c) PROVE TypeOK'
  BY <1>6 DEF Fallback, Goto
<1>7. CASE Refresh
  BY <1>7 DEF Refresh, Manager!Discover
<1>8. CASE UNCHANGED vars
  BY <1>8 DEF vars
<1> QED
  BY <1>1, <1>2, <1>3, <1>4, <1>5, <1>6, <1>7, <1>8
     DEF Next, ClientStep, Handled

(* A report repeats an answer that came in while the command ran.          *)
LEMMA ReportStep == TypeOK /\ ReportInv /\ [Next]_vars => ReportInv'
<1> SUFFICES ASSUME TypeOK, ReportInv, [Next]_vars PROVE ReportInv'
  OBVIOUS
<1> USE DEF ReportInv, OrderInv, AnswerWasTrue, ReportWasTrue
<1>1. ASSUME NEW c \in Clients, NEW t \in Transports, Handled(c, t)
      PROVE  ReportInv'
  <2>1. PICK answer \in Answers :
          /\ Answer(c, t, answer)
          /\ answer = "ok" /\ cmd[c].op = "proxy" =>
               Status(active'[cmd[c].name]) = "active"
          /\ answer = "ok" /\ cmd[c].op = "close" =>
               Status(active'[cmd[c].name]) = "inactive"
          /\ answer = "notActive" =>
               Status(active'[cmd[c].name]) = "inactive"
    BY <1>1, HandlerTruth
  <2>2. UNCHANGED <<pc, cmd, report>>
    BY <2>1 DEF Answer
  <2>3. OrderInv'
    BY <2>1, <2>2, AnswerCalls
  <2>4. AnswerWasTrue'
    BY <2>1, <2>2, AnswerCalls, AnswerSeen
  <2>5. ReportWasTrue'
    BY <2>1, <2>2, AnswerSeen
  <2> QED
    BY <2>3, <2>4, <2>5
<1> USE DEF TypeOK, managerVars
<1>2. ASSUME NEW c \in Clients, Begin(c) PROVE ReportInv'
  BY <1>2 DEF Begin, Goto
<1>3. ASSUME NEW c \in Clients, Deadline(c) PROVE ReportInv'
  BY <1>3 DEF Deadline
<1>4. ASSUME NEW c \in Clients, NEW t \in Transports, Send(c, t)
      PROVE  ReportInv'
  BY <1>4 DEF Send, Transports
<1>5. ASSUME NEW c \in Clients, GrpcOk(c) PROVE ReportInv'
  BY <1>5 DEF GrpcOk, Ends, Goto, Transports
<1>6. ASSUME NEW c \in Clients, HttpAnswered(c) PROVE ReportInv'
  BY <1>6 DEF HttpAnswered, HttpOutcome, Ends, Goto, Transports
<1>7. ASSUME NEW c \in Clients, HttpFails(c) PROVE ReportInv'
  BY <1>7 DEF HttpFails, Ends, Goto
<1>8. ASSUME NEW c \in Clients, Fallback(c) PROVE ReportInv'
  BY <1>8 DEF Fallback, Goto
<1>9. CASE Refresh
  BY <1>9 DEF Refresh
<1>10. CASE UNCHANGED vars
  BY <1>10 DEF vars
<1> QED
  BY <1>1, <1>2, <1>3, <1>4, <1>5, <1>6, <1>7, <1>8, <1>9, <1>10
     DEF Next, ClientStep, Handled

-----------------------------------------------------------------------------
(***************************************************************************)
(* Counting the acknowledged opens and closes of a tunnel.                 *)
(***************************************************************************)

(* The acknowledged calls are finite in number.                            *)
LEMMA ServedFinite ==
  ASSUME NEW op, NEW n
  PROVE  IsFiniteSet(Served(op, n)) /\ Cardinality(Served(op, n)) \in Nat
<1>1. IsFiniteSet(Clients \X Transports)
  <2>1. IsFiniteSet(Transports)
    <3>1. Transports = {"grpc"} \cup {"http"}
      BY DEF Transports
    <3> QED
      BY <3>1, FS_Singleton, FS_Union
  <2> QED
    BY <2>1, ClientsAssumption, FS_Product
<1>2. Served(op, n) \in SUBSET (Clients \X Transports)
  BY DEF Served
<1> QED
  BY <1>1, <1>2, FS_Subset, FS_CardinalityType

(* An "ok" adds its call to those of its command; any other answer, and    *)
(* any other command, changes nothing.                                     *)
LEMMA AnswerServed ==
  ASSUME TypeOK, NEW c \in Clients, NEW t \in Transports,
         NEW answer \in Answers, Answer(c, t, answer),
         NEW op, NEW n
  PROVE  LET mine == answer = "ok" /\ cmd[c] = [op |-> op, name |-> n]
         IN  Cardinality(Served(op, n)') =
               Cardinality(Served(op, n)) + (IF mine THEN 1 ELSE 0)
<1>0. /\ cmd' = cmd /\ <<c, t>> \in Clients \X Transports
      /\ <<c, t>>[1] = c /\ <<c, t>>[2] = t
  BY DEF Answer
<1>1. /\ call[c][t] = "pending" /\ call'[c][t] = answer
      /\ \A d \in Clients, u \in Transports :
           <<d, u>> # <<c, t>> => call'[d][u] = call[d][u]
  BY AnswerCalls
<1>2. \A k \in Clients \X Transports :
        /\ k[1] \in Clients /\ k[2] \in Transports
        /\ k # <<c, t>> => call'[k[1]][k[2]] = call[k[1]][k[2]]
  BY <1>1
<1>3. <<c, t>> \notin Served(op, n)
  BY <1>0, <1>1 DEF Served
<1>4. CASE answer = "ok" /\ cmd[c] = [op |-> op, name |-> n]
  <2>1. Served(op, n)' = Served(op, n) \cup {<<c, t>>}
    BY <1>0, <1>1, <1>2, <1>4 DEF Served
  <2>2. Cardinality(Served(op, n) \cup {<<c, t>>}) =
          Cardinality(Served(op, n)) + 1
    BY <1>3, ServedFinite, FS_AddElement
  <2> QED
    BY <1>4, <2>1, <2>2
<1>5. CASE ~(answer = "ok" /\ cmd[c] = [op |-> op, name |-> n])
  <2>1. Served(op, n)' = Served(op, n)
    BY <1>0, <1>1, <1>2, <1>3, <1>5 DEF Served
  <2> QED
    BY <1>5, <2>1, ServedFinite
<1> QED
  BY <1>4, <1>5

(* An acknowledged open leaves the tunnel open, and a close is             *)
(* acknowledged only when it takes an open tunnel away.                    *)
LEMMA HandlerCounts ==
  ASSUME TypeOK, NEW c \in Clients, NEW t \in Transports, Handled(c, t),
         NEW n \in Names
  PROVE  Cardinality(Served("close", n)') - Cardinality(Served("close", n))
           + OpenNow(n)' - OpenNow(n)
         <= Cardinality(Served("proxy", n)') - Cardinality(Served("proxy", n))
<1> DEFINE name == cmd[c].name
           C == Cardinality(Served("close", n))
           P == Cardinality(Served("proxy", n))
<1>0. /\ C \in Nat /\ P \in Nat /\ name \in Names
      /\ cmd[c] = [op |-> cmd[c].op, name |-> name]
      /\ cmd[c].op \in {"proxy", "close", "list-targets"}
      /\ OpenNow(n) \in {0, 1}
  BY ServedFinite DEF TypeOK, Commands, OpenNow
<1>1. ASSUME NEW answer \in Answers, Answer(c, t, answer),
             NEW o \in {"proxy", "close"}
      PROVE  Cardinality(Served(o, n)') = Cardinality(Served(o, n)) +
               (IF answer = "ok" /\ cmd[c].op = o /\ name = n
                  THEN 1 ELSE 0)
  <2>1. cmd[c] = [op |-> o, name |-> n] <=> cmd[c].op = o /\ name = n
    BY <1>0
  <2> QED
    BY <1>1, <2>1, AnswerServed
<1>2. CASE HandleOpen(c, t)
  <2>1. /\ cmd[c].op = "proxy" /\ Answer(c, t, "ok")
        /\ targets[name] # None
        /\ active' = [active EXCEPT ![name] = targets[name]]
    BY <1>2 DEF HandleOpen, Manager!Open
  <2>2. /\ Cardinality(Served("close", n)') = C
        /\ Cardinality(Served("proxy", n)') = P + (IF name = n THEN 1 ELSE 0)
    BY <1>0, <1>1, <2>1 DEF Answers
  <2>3. /\ name # n => OpenNow(n)' = OpenNow(n)
        /\ name = n => OpenNow(n)' = 1
    BY <1>0, <2>1 DEF OpenNow, TypeOK, Manager!Table
  <2> QED
    BY <1>0, <2>2, <2>3
<1>3. CASE HandleClose(c, t) /\ Manager!Close(name) /\ Answer(c, t, "ok")
  <2>1. /\ cmd[c].op = "close" /\ Answer(c, t, "ok")
        /\ active[name] # None
        /\ active' = [active EXCEPT ![name] = None]
    BY <1>3 DEF HandleClose, Manager!Close
  <2>2. /\ Cardinality(Served("close", n)') = C + (IF name = n THEN 1 ELSE 0)
        /\ Cardinality(Served("proxy", n)') = P
    BY <1>0, <1>1, <2>1 DEF Answers
  <2>3. /\ name # n => OpenNow(n)' = OpenNow(n)
        /\ name = n => OpenNow(n)' = 0 /\ OpenNow(n) = 1
    BY <1>0, <2>1 DEF OpenNow, TypeOK, Manager!Table
  <2> QED
    BY <1>0, <2>2, <2>3
<1>4. ASSUME NEW answer \in Answers, Answer(c, t, answer),
             answer # "ok" \/ cmd[c].op = "list-targets", UNCHANGED managerVars
      PROVE  /\ Cardinality(Served("close", n)') = C
             /\ Cardinality(Served("proxy", n)') = P
             /\ OpenNow(n)' = OpenNow(n)
  BY <1>0, <1>1, <1>4 DEF OpenNow, managerVars
<1>5. CASE /\ HandleClose(c, t) /\ Answer(c, t, "notActive")
           /\ UNCHANGED managerVars
  BY <1>0, <1>4, <1>5 DEF Answers
<1>6. CASE HandleList(c, t) \/ HandleFails(c, t)
  BY <1>0, <1>4, <1>6 DEF HandleList, HandleFails, Answers
<1> QED
  BY <1>2, <1>3, <1>5, <1>6 DEF Handled, HandleClose, NoActiveTunnel

(* Every step keeps the account of every tunnel.                           *)
LEMMA CloseStep == TypeOK /\ CloseInv /\ [Next]_vars => CloseInv'
<1> SUFFICES ASSUME TypeOK, CloseInv, [Next]_vars, NEW n \in Names
             PROVE  Cardinality(Served("close", n)') + OpenNow(n)'
                      <= Cardinality(Served("proxy", n)')
  BY DEF CloseInv
<1>0. /\ Cardinality(Served("close", n)) + OpenNow(n)
           <= Cardinality(Served("proxy", n))
      /\ OpenNow(n) \in {0, 1} /\ OpenNow(n)' \in {0, 1}
      /\ Cardinality(Served("close", n)) \in Nat
      /\ Cardinality(Served("proxy", n)) \in Nat
  BY ServedFinite DEF CloseInv, OpenNow
<1>1. ASSUME NEW c \in Clients, NEW t \in Transports, Handled(c, t)
      PROVE  Cardinality(Served("close", n)') + OpenNow(n)'
               <= Cardinality(Served("proxy", n)')
  <2>1. /\ Cardinality(Served("close", n)') \in Nat
        /\ Cardinality(Served("proxy", n)') \in Nat
    <3>1. PICK answer \in Answers : Answer(c, t, answer)
      BY <1>1, HandlerTruth
    <3>2. ASSUME NEW op PROVE Cardinality(Served(op, n)') \in Nat
      <4>1. \E d \in {0, 1} : Cardinality(Served(op, n)') =
                                Cardinality(Served(op, n)) + d
        BY <3>1, AnswerServed
      <4> QED
        BY <4>1, ServedFinite
    <3> QED
      BY <3>2
  <2> QED
    BY <1>0, <1>1, <2>1, HandlerCounts
<1>2. ASSUME UNCHANGED <<active, cmd>>,
             \A d \in Clients, u \in Transports :
               (call'[d][u] = "ok") <=> (call[d][u] = "ok")
      PROVE  Cardinality(Served("close", n)') + OpenNow(n)'
               <= Cardinality(Served("proxy", n)')
  <2>1. \A op : Served(op, n)' = Served(op, n)
    BY <1>2 DEF Served
  <2> QED
    BY <1>0, <1>2, <2>1 DEF OpenNow
<1>3. ASSUME NEW c \in Clients, NEW t \in Transports, Send(c, t)
      PROVE  \A d \in Clients, u \in Transports :
               (call'[d][u] = "ok") <=> (call[d][u] = "ok")
  BY <1>3 DEF Send, TypeOK
<1>4. ASSUME NEW c \in Clients, NEW t \in Transports, Send(c, t)
      PROVE  UNCHANGED <<active, cmd>>
  BY <1>4 DEF Send, managerVars
<1>5. ASSUME NEW c \in Clients,
             \/ Begin(c) \/ Deadline(c) \/ GrpcOk(c) \/ Fallback(c)
             \/ HttpAnswered(c) \/ HttpFails(c)
      PROVE  UNCHANGED <<active, cmd, call>>
  BY <1>5 DEF Begin, Deadline, GrpcOk, Fallback, HttpAnswered, HttpFails,
              Ends, managerVars
<1>6. CASE Refresh \/ UNCHANGED vars
  BY <1>2, <1>6 DEF Refresh, Manager!Discover, vars, managerVars
<1> QED
  BY <1>1, <1>2, <1>3, <1>4, <1>5, <1>6 DEF Next, ClientStep, Handled

-----------------------------------------------------------------------------
(* The invariant is inductive.                                             *)
LEMMA SpecIInv == Spec => []IInv
<1>1. IInv /\ [Next]_vars => IInv'
  BY TypeStep, ReportStep, CloseStep DEF IInv
<1> QED
  BY <1>1, InitIInv, PTL DEF Spec

(* Type correctness of clients, handlers and tables.                       *)
THEOREM ClientTypeOK == Spec => []TypeOK
BY SpecIInv, PTL DEF IInv

(* Over any loss, delay and repetition of requests, what cloudtapctl       *)
(* reports of a tunnel was true at some moment of its run.                 *)
THEOREM ClientReportWasTrue == Spec => []ReportWasTrue
BY SpecIInv, PTL DEF IInv, ReportInv

(* Over any loss, delay and repetition of requests, the daemon             *)
(* acknowledges no more closes of a tunnel than opens.                     *)
THEOREM ClientNoPhantomClose == Spec => []NoPhantomClose
<1>1. IInv => NoPhantomClose
  <2> SUFFICES ASSUME IInv, NEW n \in Names
               PROVE  Cardinality(Served("close", n))
                        <= Cardinality(Served("proxy", n))
    BY DEF NoPhantomClose
  <2>1. /\ Cardinality(Served("close", n)) \in Nat
        /\ Cardinality(Served("proxy", n)) \in Nat
        /\ OpenNow(n) \in {0, 1}
    BY ServedFinite DEF OpenNow
  <2> QED
    BY <2>1 DEF IInv, CloseInv
<1> QED
  BY <1>1, SpecIInv, PTL
=============================================================================
