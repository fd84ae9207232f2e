--------------------------- MODULE TunnelRegistry ---------------------------
(***************************************************************************)
(* What tunnel.Manager promises its concurrent callers: a table of known   *)
(* targets and a table of active tunnels that change one operation at a    *)
(* time.  A tunnel becomes active only for the target as it is known at    *)
(* that moment, and only an active tunnel is closed.                       *)
(***************************************************************************)
CONSTANTS
  Names,   \* names of targets
  Infos,   \* what a target says besides its name
  None     \* no entry

VARIABLES
  targets, \* the known targets
  active   \* the active tunnels

vars == <<targets, active>>

Table == [Names -> Infos \cup {None}]

Init == targets \in Table /\ active = [n \in Names |-> None]

Register(n, i) ==
  /\ targets' = [targets EXCEPT ![n] = i]
  /\ UNCHANGED active

Discover(table) == targets' = table /\ UNCHANGED active

Open(n) ==
  /\ targets[n] # None
  /\ active' = [active EXCEPT ![n] = targets[n]]
  /\ UNCHANGED targets

Close(n) ==
  /\ active[n] # None
  /\ active' = [active EXCEPT ![n] = None]
  /\ UNCHANGED targets

Next ==
  \/ \E n \in Names, i \in Infos : Register(n, i)
  \/ \E table \in Table : Discover(table)
  \/ \E n \in Names : Open(n) \/ Close(n)

Spec == Init /\ [][Next]_vars
=============================================================================
