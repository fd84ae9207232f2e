--------------------------- MODULE TunnelManager ----------------------------
(***************************************************************************)
(* tunnel.Manager of pkg/tunnel/manager.go under concurrent calls of Open, *)
(* Close, ListTargets and RegisterTarget.                                  *)
(*                                                                         *)
(* m.mu is explicit where it is held over something that takes time: the   *)
(* discovery source in ensureTargets and the dialer in Open.  A critical   *)
(* section that only touches memory is one step that needs m.mu to be      *)
(* free.  The source and the dialer are the caller's: they may fail, and   *)
(* what the source knows changes.  Time is abstracted to fresh, which      *)
(* Expire ends at any moment.                                              *)
(***************************************************************************)
CONSTANTS
  Callers,  \* goroutines that call the manager
  Names,    \* names of targets
  Infos,    \* what a Target says besides its name
  None,     \* no entry in a map
  Nobody    \* m.mu is free

ASSUME NoneAssumption   == None \notin Infos
ASSUME NobodyAssumption == Nobody \notin Callers
ASSUME NamesAssumption  == Names # {}

VARIABLES
  targets,    \* m.targets
  active,     \* m.active
  fresh,      \* time.Since(m.lastRefresh) < m.refreshInterval
  sourceSet,  \* m.source is not nil
  source,     \* what m.source.Targets returns
  mu,         \* who holds m.mu
  pc,         \* program counter of every caller
  call,       \* the call it makes
  ctxDone,    \* the context of that call is done
  registered  \* names given to RegisterTarget

memoryVars == <<targets, active, fresh>>
sourceVars == <<sourceSet, source>>
callVars   == <<pc, call, ctxDone>>
vars == <<memoryVars, sourceVars, mu, callVars, registered>>

Table == [Names -> Infos \cup {None}]

(* A call: the operation, its target, and the Target for RegisterTarget or *)
(* the one that Open has looked up.                                        *)
CallStates == [op : {"Open", "Close", "ListTargets", "RegisterTarget"},
               name : Names, info : Infos \cup {None}]
Calls == {k \in CallStates : k.op = "RegisterTarget" <=> k.info # None}

(* The places where a caller has m.mu.                                     *)
Locked == {"fetch", "dial"}
Places == Locked \cup {"idle", "entry", "ensure", "body"}

TypeOK ==
  /\ targets \in Table /\ active \in Table
  /\ fresh \in BOOLEAN
  /\ sourceSet \in BOOLEAN /\ source \in Table
  /\ mu \in Callers \cup {Nobody}
  /\ pc \in [Callers -> Places]
  /\ call \in [Callers -> CallStates]
  /\ ctxDone \in [Callers -> BOOLEAN]
  /\ registered \subseteq Names

(* A caller that has called nothing yet.                                   *)
NoCall == CHOOSE k \in Calls : TRUE

Init ==
  /\ targets \in Table
  /\ active = [n \in Names |-> None]
  /\ fresh = FALSE
  /\ sourceSet \in BOOLEAN /\ source \in Table
  /\ mu = Nobody
  /\ pc = [c \in Callers |-> "idle"]
  /\ call = [c \in Callers |-> NoCall]
  /\ ctxDone = [c \in Callers |-> FALSE]
  /\ registered = {}

-----------------------------------------------------------------------------
(***************************************************************************)
(* The environment: calls, contexts, the clock and the discovery source.   *)
(***************************************************************************)
Begin(c, k) ==
  /\ pc[c] = "idle"
  /\ pc' = [pc EXCEPT ![c] = "entry"]
  /\ call' = [call EXCEPT ![c] = k]
  /\ ctxDone' = [ctxDone EXCEPT ![c] = FALSE]
  /\ UNCHANGED <<memoryVars, sourceVars, mu, registered>>

CancelCtx(c) ==
  /\ pc[c] # "idle"
  /\ ctxDone' = [ctxDone EXCEPT ![c] = TRUE]
  /\ UNCHANGED <<memoryVars, sourceVars, mu, pc, call, registered>>

Expire ==
  /\ fresh' = FALSE
  /\ UNCHANGED <<targets, active, sourceVars, mu, callVars, registered>>

SourceChanges ==
  /\ source' \in Table
  /\ UNCHANGED <<memoryVars, sourceSet, mu, callVars, registered>>

-----------------------------------------------------------------------------
Goto(c, from, to) ==
  /\ pc[c] = from
  /\ pc' = [pc EXCEPT ![c] = to]

(* The mutex: m.mu.Lock needs it free; a step that leaves a caller in a    *)
(* place of Locked keeps it, any other gives it back (defer m.mu.Unlock).  *)
LockFree  == mu = Nobody
UnlockedDial(c, to) == IF to = "fetch" THEN c ELSE Nobody     \* mutant
NeverUnlock(c, to)  == c                                      \* mutant
HolderAfter(c, to)  == IF to \in Locked THEN c ELSE Nobody

Acquire(c, from, to) ==
  /\ LockFree
  /\ Goto(c, from, to)
  /\ mu' = HolderAfter(c, to)

Continue(c, from, to) ==
  /\ Goto(c, from, to)
  /\ mu' = HolderAfter(c, to)

(* The head of Open and ListTargets (through ensureTargets) and of Close:  *)
(* return if the context is done.  RegisterTarget takes no context.        *)
CheckCtx(c) ==
  /\ \/ /\ call[c].op # "RegisterTarget" /\ ctxDone[c]
        /\ Goto(c, "entry", "idle")
     \/ /\ call[c].op # "RegisterTarget" /\ ~ctxDone[c]
        /\ Goto(c, "entry", IF call[c].op = "Close" THEN "body" ELSE "ensure")
     \/ /\ call[c].op = "RegisterTarget"
        /\ Goto(c, "entry", "body")
  /\ UNCHANGED <<memoryVars, sourceVars, mu, call, ctxDone, registered>>

(* ensureTargets: without a source the call fails; within the interval the *)
(* cache is used; else the source is asked while m.mu is held.             *)
EnsureTargets(c) ==
  /\ Acquire(c, "ensure", CASE ~sourceSet -> "idle"
                            [] sourceSet /\ fresh -> "body"
                            [] OTHER -> "fetch")
  /\ UNCHANGED <<memoryVars, sourceVars, call, ctxDone, registered>>

(* m.source.Targets returns targets, which replace all the known ones ...  *)
Refresh(c) ==
  /\ Continue(c, "fetch", "body")
  /\ targets' = source
  /\ fresh' = TRUE
  /\ UNCHANGED <<active, sourceVars, call, ctxDone, registered>>

(* ... or an error, which ends the call and leaves the cache as it is.     *)
RefreshFails(c) ==
  /\ Continue(c, "fetch", "idle")
  /\ UNCHANGED <<memoryVars, sourceVars, call, ctxDone, registered>>

(* Open, under m.mu: look the target up, then dial.                        *)
Lookup(c) ==
  LET found == targets[call[c].name]
  IN  /\ call[c].op = "Open"
      /\ \/ /\ found = None
            /\ Acquire(c, "body", "idle")
            /\ UNCHANGED call
         \/ /\ found # None
            /\ Acquire(c, "body", "dial")
            /\ call' = [call EXCEPT ![c].info = found]
      /\ UNCHANGED <<memoryVars, sourceVars, ctxDone, registered>>

Dialed(c) ==
  /\ Continue(c, "dial", "idle")
  /\ active' = [active EXCEPT ![call[c].name] = call[c].info]
  /\ UNCHANGED <<targets, fresh, sourceVars, call, ctxDone, registered>>

DialFails(c) ==
  /\ Continue(c, "dial", "idle")
  /\ UNCHANGED <<memoryVars, sourceVars, call, ctxDone, registered>>

(* Close: deleting a tunnel that is not active is an error.                *)
Zeroed  == "zero"                                             \* mutant
Deleted == None

CloseBody(c) ==
  /\ call[c].op = "Close"
  /\ Acquire(c, "body", "idle")
  /\ active' = [active EXCEPT ![call[c].name] = Deleted]
  /\ UNCHANGED <<targets, fresh, sourceVars, call, ctxDone, registered>>

(* ListTargets copies the names under m.mu.RLock.                          *)
ListBody(c) ==
  /\ call[c].op = "ListTargets"
  /\ Acquire(c, "body", "idle")
  /\ UNCHANGED <<memoryVars, sourceVars, call, ctxDone, registered>>

RegisterBody(c) ==
  /\ call[c].op = "RegisterTarget"
  /\ Acquire(c, "body", "idle")
  /\ targets' = [targets EXCEPT ![call[c].name] = call[c].info]
  /\ registered' = registered \cup {call[c].name}
  /\ UNCHANGED <<active, fresh, sourceVars, call, ctxDone>>

LockStep(c) ==
  \/ EnsureTargets(c)
  \/ Lookup(c) \/ CloseBody(c) \/ ListBody(c) \/ RegisterBody(c)

OwnStep(c) ==
  \/ CheckCtx(c)
  \/ Refresh(c) \/ RefreshFails(c)
  \/ Dialed(c) \/ DialFails(c)

Next ==
  \/ Expire
  \/ SourceChanges
  \/ \E c \in Callers : \/ \E k \in Calls : Begin(c, k)
                        \/ CancelCtx(c)
                        \/ OwnStep(c)
                        \/ LockStep(c)

Spec == Init /\ [][Next]_vars

(* The source and the dialer answer in the end (both take a context, and   *)
(* the dialers have time limits), and sync.RWMutex starves nobody.         *)
FairSpec == /\ Spec
            /\ \A c \in Callers : WF_vars(OwnStep(c)) /\ SF_vars(LockStep(c))

-----------------------------------------------------------------------------
(* While Open dials, the target it dials is the one that is known.         *)
DialsKnownTarget ==
  \A c \in Callers :
    pc[c] = "dial" => /\ call[c].op = "Open"
                      /\ call[c].info # None
                      /\ targets[call[c].name] = call[c].info

(* The manager implements the table of atomic operations.                  *)
Registry == INSTANCE TunnelRegistry

RegistrySpec == Registry!Spec

(* Every call returns: no lock is left behind by an error path.            *)
CallReturns == \A c \in Callers : pc[c] = "entry" ~> pc[c] = "idle"

-----------------------------------------------------------------------------
(***************************************************************************)
(* What the documentation says and the code does not do.                   *)
(***************************************************************************)

(* "RegisterTarget adds or updates a target immediately": the target is    *)
(* then known.                                                             *)
RegisteredIsKnown == \A n \in registered : targets[n] # None
=============================================================================
