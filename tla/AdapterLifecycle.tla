-------------------------- MODULE AdapterLifecycle --------------------------
(***************************************************************************)
(* The life of an adapter as its owner sees it, whoever calls Start and    *)
(* Stop (pkg/adapter/adapter.go, pkg/adapter/frp/adapter.go) and however   *)
(* often: one life from Start to its end, at most one tunnel client at a   *)
(* time, begun only while nobody has asked for the end, and a Stop that is *)
(* acknowledged only after the end, when no connection is accepted.        *)
(*                                                                         *)
(* It says nothing of the requests on connections accepted before: the     *)
(* interface promises no event after Stop, the frp adapter does not keep   *)
(* that when its webhook server gives up on a request in flight.           *)
(***************************************************************************)
EXTENDS Naturals

VARIABLES
  phase,      \* idle, running, stopping, done
  clients,    \* number of tunnel clients alive
  spawning,   \* the operating system is about to start a tunnel client
  accepting,  \* the server for the client's events accepts connections
  acked       \* a Stop has returned nil

vars == <<phase, clients, spawning, accepting, acked>>

Init == /\ phase = "idle" /\ clients = 0
        /\ ~spawning /\ ~accepting /\ ~acked

(* Start, under a context that may already be done.                        *)
Launch ==
  /\ phase = "idle" /\ phase' \in {"running", "stopping"}
  /\ UNCHANGED <<clients, spawning, accepting, acked>>

(* Stop, or the end of Start's context.                                    *)
Cancel ==
  /\ phase = "running" /\ phase' = "stopping"
  /\ UNCHANGED <<clients, spawning, accepting, acked>>

(* A tunnel client is begun, or begun again, only before cancellation.  It *)
(* appears, perhaps after cancellation, or fails to; and it ends.          *)
BeginSpawn ==
  /\ phase = "running" /\ clients = 0 /\ spawning' = TRUE
  /\ UNCHANGED <<phase, clients, accepting, acked>>

Spawn ==
  /\ spawning /\ spawning' = FALSE
  /\ clients = 0 /\ clients' = 1
  /\ UNCHANGED <<phase, accepting, acked>>

SpawnFails ==
  /\ spawning /\ spawning' = FALSE
  /\ UNCHANGED <<phase, clients, accepting, acked>>

Exit ==
  /\ clients = 1 /\ clients' = 0
  /\ UNCHANGED <<phase, spawning, accepting, acked>>

(* The adapter begins to accept connections, and ceases to.                *)
Listen ==
  /\ phase \in {"running", "stopping"} /\ accepting' = TRUE
  /\ UNCHANGED <<phase, clients, spawning, acked>>

Unlisten ==
  /\ accepting' = FALSE
  /\ UNCHANGED <<phase, clients, spawning, acked>>

(* Start returns; it may have given up by itself.                          *)
Finish ==
  /\ phase \in {"running", "stopping"} /\ phase' = "done"
  /\ ~spawning /\ ~accepting
  /\ UNCHANGED <<clients, spawning, accepting, acked>>

StopReturns ==
  /\ phase = "done" /\ acked' = TRUE
  /\ UNCHANGED <<phase, clients, spawning, accepting>>

Next == \/ Launch \/ Cancel \/ Finish \/ StopReturns
        \/ BeginSpawn \/ Spawn \/ SpawnFails \/ Exit
        \/ Listen \/ Unlisten

Spec == Init /\ [][Next]_vars
=============================================================================
