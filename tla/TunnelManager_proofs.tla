------------------------ MODULE TunnelManager_proofs ------------------------
(***************************************************************************)
(* Proofs about TunnelManager, for any number of callers and targets: what *)
(* Open dials is what is registered until the tunnel is active, and the    *)
(* manager implements TunnelRegistry.                                      *)
(***************************************************************************)
EXTENDS TunnelManager, TLAPS

(* RegisterTarget is called with a target.                                 *)
RegistersTarget ==
  \A c \in Callers : call[c].op = "RegisterTarget" => call[c].info # None

(* m.mu has an owner exactly while some caller asks the source or dials.   *)
LockOwner == \A c \in Callers : pc[c] \in Locked <=> mu = c

(* The inductive invariant.  DialsKnownTarget needs LockOwner: nobody      *)
(* changes targets while another caller dials under the lock.              *)
IInv == TypeOK /\ LockOwner /\ DialsKnownTarget /\ RegistersTarget

(* Some call exists, so that NoCall is one.                                *)
LEMMA NoCallType == NoCall \in Calls
<1>1. PICK n \in Names : TRUE
  BY NamesAssumption
<1>2. [op |-> "Open", name |-> n, info |-> None] \in Calls
  BY <1>1 DEF Calls, CallStates
<1> QED
  BY <1>2 DEF NoCall

(* The manager starts in the invariant.                                    *)
LEMMA InitIInv == Init => IInv
<1> SUFFICES ASSUME Init PROVE IInv
  OBVIOUS
<1>1. TypeOK
  BY NoCallType DEF Init, TypeOK, Table, Places, Locked, Calls
<1>2. LockOwner /\ DialsKnownTarget
  BY NobodyAssumption DEF Init, LockOwner, DialsKnownTarget, Locked
<1>3. RegistersTarget
  BY NoCallType DEF Init, RegistersTarget, Calls
<1> QED
  BY <1>1, <1>2, <1>3 DEF IInv

(* Every step keeps the types.                                             *)
LEMMA TypeStep == TypeOK /\ [Next]_vars => TypeOK'
<1> SUFFICES ASSUME TypeOK, [Next]_vars PROVE TypeOK'
  OBVIOUS
<1> USE DEF TypeOK, memoryVars, sourceVars, callVars, Goto, Places, Locked
<1>1. CASE Expire
  BY <1>1 DEF Expire
<1>2. CASE SourceChanges
  BY <1>2 DEF SourceChanges
<1>3. ASSUME NEW c \in Callers, NEW k \in Calls, Begin(c, k) PROVE TypeOK'
  BY <1>3 DEF Begin, Calls
<1>4. ASSUME NEW c \in Callers, CancelCtx(c) PROVE TypeOK'
  BY <1>4 DEF CancelCtx
<1>5. ASSUME NEW c \in Callers, OwnStep(c) PROVE TypeOK'
  <2>1. CASE CheckCtx(c)
    BY <2>1 DEF CheckCtx
  <2>2. CASE Refresh(c)
    BY <2>2 DEF Refresh, Continue, HolderAfter
  <2>3. CASE RefreshFails(c) \/ DialFails(c)
    BY <2>3 DEF RefreshFails, DialFails, Continue, HolderAfter
  <2>4. CASE Dialed(c)
    <3>1. call[c].name \in Names /\ call[c].info \in Infos \cup {None}
      BY DEF CallStates
    <3>2. active' \in Table
      BY <2>4, <3>1 DEF Dialed, Table
    <3> QED
      BY <2>4, <3>2 DEF Dialed, Continue, HolderAfter
  <2> QED
    BY <1>5, <2>1, <2>2, <2>3, <2>4 DEF OwnStep
<1>6. ASSUME NEW c \in Callers, LockStep(c) PROVE TypeOK'
  <2>0. call[c].name \in Names /\ call[c].info \in Infos \cup {None}
    BY DEF CallStates
  <2>1. CASE EnsureTargets(c)
    BY <2>1 DEF EnsureTargets, Acquire, HolderAfter
  <2>2. CASE Lookup(c)
    <3>1. targets[call[c].name] \in Infos \cup {None}
      BY <2>0 DEF Table
    <3>2. call' \in [Callers -> CallStates]
      BY <2>2, <3>1 DEF Lookup, CallStates
    <3> QED
      BY <2>2, <3>2 DEF Lookup, Acquire, HolderAfter
  <2>3. CASE CloseBody(c)
    <3>1. active' \in Table
      BY <2>3, <2>0 DEF CloseBody, Deleted, Table
    <3> QED
      BY <2>3, <3>1 DEF CloseBody, Acquire, HolderAfter
  <2>4. CASE ListBody(c)
    BY <2>4 DEF ListBody, Acquire, HolderAfter
  <2>5. CASE RegisterBody(c)
    <3>1. targets' \in Table
      BY <2>5, <2>0 DEF RegisterBody, Table
    <3> QED
      BY <2>5, <2>0, <3>1 DEF RegisterBody, Acquire, HolderAfter
  <2> QED
    BY <1>6, <2>1, <2>2, <2>3, <2>4, <2>5 DEF LockStep
<1>7. CASE UNCHANGED vars
  BY <1>7 DEF vars
<1> QED
  BY <1>1, <1>2, <1>3, <1>4, <1>5, <1>6, <1>7 DEF Next

(* Every step keeps the lock discipline.                                   *)
LEMMA LockStepInv == IInv /\ [Next]_vars => LockOwner'
<1> SUFFICES ASSUME IInv, [Next]_vars PROVE LockOwner'
  OBVIOUS
<1> USE NobodyAssumption DEF IInv, TypeOK, LockOwner, memoryVars, sourceVars,
        callVars, Goto, Locked
<1>1. CASE Expire \/ SourceChanges \/ UNCHANGED vars
  BY <1>1 DEF Expire, SourceChanges, vars
<1>2. ASSUME NEW c \in Callers, NEW k \in Calls, Begin(c, k) PROVE LockOwner'
  BY <1>2 DEF Begin
<1>3. ASSUME NEW c \in Callers, CancelCtx(c) PROVE LockOwner'
  BY <1>3 DEF CancelCtx
<1>4. ASSUME NEW c \in Callers, CheckCtx(c) PROVE LockOwner'
  BY <1>4 DEF CheckCtx
<1>5. ASSUME NEW c \in Callers, NEW from \in Locked, NEW to,
             Continue(c, from, to)
      PROVE  LockOwner'
  BY <1>5 DEF Continue, HolderAfter
<1>6. ASSUME NEW c \in Callers, NEW from, NEW to, Acquire(c, from, to)
      PROVE  LockOwner'
  BY <1>6 DEF Acquire, LockFree, HolderAfter
<1>7. ASSUME NEW c \in Callers, OwnStep(c) PROVE LockOwner'
  BY <1>4, <1>5, <1>7
     DEF OwnStep, Refresh, RefreshFails, Dialed, DialFails
<1>8. ASSUME NEW c \in Callers, LockStep(c) PROVE LockOwner'
  BY <1>6, <1>8
     DEF LockStep, EnsureTargets, Lookup, CloseBody, ListBody, RegisterBody
<1> QED
  BY <1>1, <1>2, <1>3, <1>7, <1>8 DEF Next

(* Nobody touches a target that is being dialed.                           *)
LEMMA DialStep == IInv /\ [Next]_vars => DialsKnownTarget'
<1> SUFFICES ASSUME IInv, [Next]_vars, NEW d \in Callers, pc'[d] = "dial"
             PROVE  /\ call'[d].op = "Open"
                    /\ call'[d].info # None
                    /\ targets'[call'[d].name] = call'[d].info
  BY DEF DialsKnownTarget
<1> USE NobodyAssumption DEF IInv, TypeOK, LockOwner, DialsKnownTarget,
        memoryVars, sourceVars, callVars, Goto, Locked, Places
<1>1. CASE Expire \/ SourceChanges \/ UNCHANGED vars
  BY <1>1 DEF Expire, SourceChanges, vars
<1>2. ASSUME NEW c \in Callers, NEW k \in Calls, Begin(c, k)
      PROVE  call'[d] = call[d] /\ pc[d] = "dial" /\ UNCHANGED targets
  BY <1>2 DEF Begin
<1>3. ASSUME NEW c \in Callers, CancelCtx(c)
      PROVE  UNCHANGED <<call, pc, targets>>
  BY <1>3 DEF CancelCtx
<1>4. ASSUME NEW c \in Callers, OwnStep(c)
      PROVE  UNCHANGED <<call, targets>> /\ pc[d] = "dial"
  <2>1. CASE CheckCtx(c)
    BY <1>4, <2>1 DEF CheckCtx
  <2>2. CASE Refresh(c)
    BY <1>4, <2>2 DEF Refresh, Continue
  <2>3. CASE RefreshFails(c) \/ DialFails(c) \/ Dialed(c)
    BY <1>4, <2>3 DEF RefreshFails, DialFails, Dialed, Continue
  <2> QED
    BY <1>4, <2>1, <2>2, <2>3 DEF OwnStep
<1>5. ASSUME NEW c \in Callers, LockStep(c)
      PROVE  /\ call'[d].op = "Open"
             /\ call'[d].info # None
             /\ targets'[call'[d].name] = call'[d].info
  <2>1. \A e \in Callers : pc[e] # "dial"
    BY <1>5 DEF LockStep, EnsureTargets, Lookup, CloseBody, ListBody,
                RegisterBody, Acquire, LockFree
  <2>2. Lookup(c) /\ d = c
    BY <1>5, <2>1 DEF LockStep, EnsureTargets, Lookup, CloseBody, ListBody,
                      RegisterBody, Acquire
  <2> QED
    BY <2>1, <2>2 DEF Lookup, CallStates, Acquire
<1> QED
  BY <1>1, <1>2, <1>3, <1>4, <1>5 DEF Next

(* Only Begin and Lookup write a call.                                     *)
LEMMA RegistersStep == IInv /\ [Next]_vars => RegistersTarget'
<1> SUFFICES ASSUME IInv, [Next]_vars PROVE RegistersTarget'
  OBVIOUS
<1> USE DEF IInv, TypeOK, RegistersTarget, memoryVars, sourceVars, callVars
<1>1. CASE UNCHANGED call
  BY <1>1
<1>2. ASSUME NEW c \in Callers, NEW k \in Calls, Begin(c, k)
      PROVE  RegistersTarget'
  BY <1>2 DEF Begin, Calls
<1>3. ASSUME NEW c \in Callers, Lookup(c) PROVE RegistersTarget'
  BY <1>3 DEF Lookup, CallStates
<1>4. ASSUME NEW c \in Callers, CancelCtx(c) \/ OwnStep(c) PROVE UNCHANGED call
  BY <1>4 DEF CancelCtx, OwnStep, CheckCtx, Refresh, RefreshFails, Dialed,
              DialFails
<1>5. ASSUME NEW c \in Callers, LockStep(c), ~Lookup(c) PROVE UNCHANGED call
  BY <1>5 DEF LockStep, EnsureTargets, CloseBody, ListBody, RegisterBody
<1>6. CASE Expire \/ SourceChanges \/ UNCHANGED vars
  BY <1>6 DEF Expire, SourceChanges, vars
<1> QED
  BY <1>1, <1>2, <1>3, <1>4, <1>5, <1>6 DEF Next

(* The invariant is inductive.                                             *)
LEMMA NextIInv == IInv /\ [Next]_vars => IInv'
BY TypeStep, LockStepInv, DialStep, RegistersStep DEF IInv

(* The invariant holds in every state of every behaviour.                  *)
LEMMA SpecIInv == Spec => []IInv
BY InitIInv, NextIInv, PTL DEF Spec

(* Type correctness of the manager.                                        *)
THEOREM ManagerTypeOK == Spec => []TypeOK
BY SpecIInv, PTL DEF IInv

(* Open dials the target that is registered, through to the activation.    *)
THEOREM ManagerDialsKnownTarget == Spec => []DialsKnownTarget
BY SpecIInv, PTL DEF IInv

-----------------------------------------------------------------------------
(* Every step of the manager is a step of the table or leaves it alone.    *)
LEMMA RegistryStep ==
  IInv /\ [Next]_vars => [Registry!Next]_(Registry!vars)
<1> SUFFICES ASSUME IInv, [Next]_vars
             PROVE  Registry!Next \/ UNCHANGED <<targets, active>>
  BY DEF Registry!vars
<1> USE DEF IInv, memoryVars, sourceVars, callVars
<1>1. CASE Expire \/ SourceChanges \/ UNCHANGED vars
  BY <1>1 DEF Expire, SourceChanges, vars
<1>2. ASSUME NEW c \in Callers, NEW k \in Calls, Begin(c, k)
      PROVE  UNCHANGED <<targets, active>>
  BY <1>2 DEF Begin
<1>3. ASSUME NEW c \in Callers, CancelCtx(c)
      PROVE  UNCHANGED <<targets, active>>
  BY <1>3 DEF CancelCtx
<1>4. ASSUME NEW c \in Callers, OwnStep(c)
      PROVE  Registry!Next \/ UNCHANGED <<targets, active>>
  <2>1. CASE CheckCtx(c) \/ RefreshFails(c) \/ DialFails(c)
    BY <2>1 DEF CheckCtx, RefreshFails, DialFails
  <2>2. CASE Refresh(c)
    <3>1. source \in Registry!Table /\ Registry!Discover(source)
      BY <2>2 DEF Refresh, Registry!Discover, Registry!Table, TypeOK, Table
    <3> QED
      BY <3>1 DEF Registry!Next
  <2>3. CASE Dialed(c)
    <3>1. /\ call[c].name \in Names
          /\ targets[call[c].name] # None
          /\ call[c].info = targets[call[c].name]
      BY <2>3 DEF Dialed, Continue, Goto, DialsKnownTarget, TypeOK, CallStates
    <3>2. active' = [active EXCEPT ![call[c].name] = targets[call[c].name]]
          /\ UNCHANGED targets
      BY <2>3, <3>1 DEF Dialed
    <3> QED
      BY <3>1, <3>2 DEF Registry!Next, Registry!Open
  <2> QED
    BY <1>4, <2>1, <2>2, <2>3 DEF OwnStep
<1>5. ASSUME NEW c \in Callers, LockStep(c)
      PROVE  Registry!Next \/ UNCHANGED <<targets, active>>
  <2>0. call[c].name \in Names
    BY DEF TypeOK, CallStates
  <2>1. CASE EnsureTargets(c) \/ Lookup(c) \/ ListBody(c)
    BY <2>1 DEF EnsureTargets, Lookup, ListBody
  <2>2. CASE CloseBody(c)
    <3>1. CASE active[call[c].name] # None
      BY <2>0, <2>2, <3>1
         DEF CloseBody, Deleted, Registry!Next, Registry!Close
    <3>2. CASE active[call[c].name] = None
      BY <2>0, <2>2, <3>2 DEF CloseBody, Deleted, TypeOK, Table
    <3> QED
      BY <3>1, <3>2
  <2>3. CASE RegisterBody(c)
    <3>1. call[c].info \in Infos
      BY <2>3 DEF RegisterBody, RegistersTarget, TypeOK, CallStates
    <3> QED
      BY <2>0, <2>3, <3>1 DEF RegisterBody, Registry!Next, Registry!Register
  <2> QED
    BY <1>5, <2>1, <2>2, <2>3 DEF LockStep
<1> QED
  BY <1>1, <1>2, <1>3, <1>4, <1>5 DEF Next

(* The manager implements TunnelRegistry: its operations take effect one   *)
(* at a time, whatever their interleaving.                                 *)
THEOREM ManagerImplementsRegistry == Spec => RegistrySpec
<1>1. Init => Registry!Init
  BY DEF Init, Registry!Init, Table, Registry!Table
<1> QED
  BY <1>1, SpecIInv, RegistryStep, PTL DEF Spec, RegistrySpec, Registry!Spec
=============================================================================
