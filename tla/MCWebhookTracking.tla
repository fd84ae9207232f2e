------------------------- MODULE MCWebhookTracking --------------------------
(***************************************************************************)
(* Model values for WebhookTracking: two runs and two proxies, and names   *)
(* with a slash, for which two different proxies have the same key.        *)
(***************************************************************************)
EXTENDS WebhookTracking, TLC

Req(op, run, proxy, form) ==
  [op |-> op, run |-> run, proxy |-> proxy, form |-> form]

Tracked(runs, proxies) ==
  {Req(op, run, proxy, "ok") : op \in {"NewProxy", "CloseProxy"},
                               run \in runs, proxy \in proxies}

(* Every operation in every form, and the tracking operations on another   *)
(* proxy with the same key: "a" + "/" + "b/c" and "a/b" + "/" + "c".       *)
AnyRequests ==
  {Req(op, <<"a">>, <<"b", "c">>, form) : op \in Ops, form \in Forms}
    \cup Tracked({<<"a", "b">>}, {<<"c">>})

(* Names without a slash, one run with two proxies and one with one.       *)
SequentialRequests ==
  Tracked({<<"a">>}, {<<"c">>, <<"d">>}) \cup Tracked({<<"b">>}, {<<"c">>})
    \cup {Req("Login", <<"a">>, <<"c">>, "ok"),
          Req("NewUserConn", <<"a">>, <<"c">>, "ok")}

Symmetry == Permutations(Threads)
=============================================================================
