---------------------------- MODULE MCFrpAdapter ----------------------------
(***************************************************************************)
(* Model values for FrpAdapter: configurations that make every branch of   *)
(* Validate, of the defaults and of the backoff schedule happen.           *)
(***************************************************************************)
EXTENDS FrpAdapter

Cfg(paths, restart, max, retries) ==
  [paths |-> paths, restartDelay |-> restart,
   maxRestartDelay |-> max, maxRetries |-> retries]

(* The default first delay, doubled below the cap and beyond it; a first   *)
(* delay above the cap; and two that Validate rejects.                     *)
AdapterConfigs == {Cfg(TRUE, 0, 3, 3), Cfg(TRUE, 5, 3, 1),
                   Cfg(FALSE, 1, 4, 2), Cfg(TRUE, 1, 4, -1)}

(* One failure to wait for and one to give up at.                          *)
TwoRetriesConfigs == {Cfg(TRUE, 1, 2, 2)}

(* One attempt only.                                                       *)
OneRetryConfigs == {Cfg(TRUE, 1, 4, 1)}

(* What New fills with its defaults, the number of retries included.       *)
ZeroConfigs == {Cfg(TRUE, 0, 0, 0)}
=============================================================================
