# TLA+ models of cloudtap

cloudtap wraps a tunnel client (frp), intercepts its connection events for policy
and capture, and offers a small tunnel control API. This directory holds TLA+
models of its concurrent core, TLC configurations for small instances, and
TLAPS proofs for all instances. `PROJECT.json` lists the runs, the source lines
behind every definition, the findings, the hazards and the theorems.

## Inventory

| Component | State | Operations | Hard behaviour |
|---|---|---|---|
| frp adapter, `pkg/adapter/frp/adapter.go` | `started`, `stopped`, `cancel`, `doneChan`, `cmd`, `lastError`, `reconnectAttempts`; `delay` and `consecutiveFailures` in `runLoop` | `New`, `OnConnection`, `Start`, `Stop`, `Status` | races of Start and Stop, cancellation at any point of the restart loop, process exit against cancellation, joining the webhook server |
| webhook server, `pkg/adapter/frp/webhook.go` | `handler`, `server`, `started`, map `activeConnections`, `connectionCount` | `Start`, `Stop`, `SetHandler`, one handler per frp operation | a goroutine per request, map and counter updated separately, drain with a time limit, repeated and late requests |
| tunnel manager, `pkg/tunnel/manager.go` | `targets`, `active`, `lastRefresh`, `mu` | `Open`, `Close`, `ListTargets`, `RegisterTarget` | lock held over discovery and dialing, cache refresh against registration |
| dialers, `pkg/tunnel/dialer.go` | none | `Connect` | failure, cancellation |
| cloudtapd, `cmd/cloudtapd` | error channel, wait group, signal context | HTTP and gRPC servers over the manager | early failure of one server, shutdown, exit status |
| cloudtapctl, `cmd/cloudtapctl` | one context with a deadline | proxy, close, list-targets | gRPC first, HTTP fallback after a lost answer, one deadline for both |
| policy, `pkg/policy` | the policy | `LoadFromFile`, `Parse`, `Validate`; the evaluator is a stub | early returns of a loop, a default that only `Parse` fills in |
| observability, proto | none | stub; generated | none |

The adapter owns the webhook server: `Start` runs it in a goroutine under the
derived context, and joins it after the restart loop. frps calls the webhook
server over HTTP; its request goroutines call the connection handler of the
adapter's owner. The daemon calls the manager from its HTTP and gRPC handlers,
and the client calls those handlers, first over gRPC and then over HTTP.
Docs also name capture, audit, plugins and adapters for ngrok and cloudflared;
the repository has no code for them.

## Modules

* `FrpAdapter` - calls of `Start` and `Stop`, `runLoop`, the frpc process, the
  webhook server's goroutine and requests in flight. Every goroutine has a
  program counter whose places are the stretches of code between two accesses
  to shared state. `startPc` walks `idle`, `swap` (the compare-and-swap), `bind`
  (`a.cancel = ...`), `boot` (launch of the webhook server), the loop `top`,
  `spawn`, `fork`, `wait`, `backoff`, then `join` (`<-webhookErrChan`) and
  `returned`. `cmd.Start` checks the context on the way from `spawn` to `fork` and
  forks after it, so a process may appear after a cancellation. `serve` is the
  goroutine of `server.Serve`: the listener is open from `spawned` on, and a
  shutdown that comes before `running` leaves it to Serve, which refuses.
  `stopPc` walks `idle`, `swap`, `cancel`, `await`, `returned`. The two backoff
  selects of `runLoop` are one place: after a failed spawn the failures are
  positive, so both double the delay in the same way.
* `WebhookTracking` - the handlers of the six frp operations in concurrent
  goroutines, with malformed requests, a handler that may be nil, the map and
  the counter. A name is the sequence of its parts between slashes, so the key
  `RunID + "/" + ProxyName` is a concatenation and may collide. `Spec` has an
  frps that sends anything at any time, `SequentialSpec` one that waits for the
  answer about a proxy before it sends the next request about it.
* `TunnelManager` - concurrent calls of the manager with its lock; `TunnelRegistry`
  is the abstract table of atomic operations that it implements
  (`Registry == INSTANCE TunnelRegistry`, identity mapping on `targets` and
  `active`).
* `AdapterLifecycle` - the abstract life of an adapter: idle, running, stopping,
  done; at most one tunnel client, begun only while running (the operating
  system may bring it up a little later, never after the end); a Stop that is
  acknowledged only when the life is over and no connection is accepted any
  more. `FrpAdapter` implements it under the mapping of `Phase`: idle until
  `a.cancel` is assigned, done once `doneChan` is closed, stopping in between when
  the derived context is done; the tunnel client is the frpc process, spawning
  is the place `fork`, accepting is a running `server.Serve`, and acknowledged
  means that some Stop returned nil. It is weaker than the interface's comment:
  requests on connections accepted earlier are outside it (see below).
* `WebhookLifecycle` - `Start`, `Stop` and `shutdown` of one `WebhookServer` under
  any callers. The adapter calls `Start` once and never `Stop`; here both are
  called by anyone, so that a Stop falls between the swap of `started` and the
  assignment of `server`, and one call's shutdown meets another call's server.
  Each Start owns a listener and an `http.Server`; `shutdown` is the places
  `check` (the nil test), `shut` (which reads `s.server` again), `drain` (or
  `drainErr`, when a listener failed to close) and `store`. The port is fixed,
  so that one listener is open at a time, or 0 (`fixedPort`).
* `Cloudtapd` - the daemon from boot to exit: `main` (`select`, then `range`, then an
  exit status), `runHTTPServer` and the goroutine of `ListenAndServe`,
  `runGRPCServer` and the goroutine of `GracefulStop`, the channel `serverErrs`
  and requests in flight. What net/http and grpc-go do is modelled from what
  main.go relies on: the accept loop ends without an error once Shutdown or
  GracefulStop has begun, Serve of grpc-go returns after GracefulStop has, a
  server that is stopped before it serves refuses to, and nil from Shutdown
  means that nothing is in flight.
* `CtlClient` - runs of the client against the daemon's handlers and the table of
  `TunnelRegistry` (`Manager == INSTANCE TunnelRegistry`), through a network that
  may refuse, lose or delay. A request that is pending may be served at any
  later moment, also after its client has fallen back to HTTP or has ended.
* `PolicyValidate` - loading and validation of a policy, step by step, against a
  definition of a valid policy without a loop. Strings are abstracted to what
  the code tells apart; what YAML and `net.ParseCIDR` accept is given.
* `MCFrpAdapter`, `MCWebhookTracking`, `MCPolicyValidate` - model values. The other
  modules need none.
* `FrpAdapter_proofs`, `WebhookTracking_proofs`, `TunnelManager_proofs`,
  `WebhookLifecycle_proofs`, `Cloudtapd_proofs`, `CtlClient_proofs` and
  `PolicyValidate_proofs` - the theorems of the module each is named after.
  `WebhookSequential_proofs` extends `WebhookTracking_proofs` with the theorems
  of `SequentialSpec`.

Definitions marked "mutant" are plausible bugs. Each one replaces the
definition after it in a run that must then fail, which shows that the property
depends on the code.

Abstractions: durations keep their values where the backoff schedule needs
them, but time itself is a choice (a timer fires whenever, a run is stable or
not). Error values are kinds. Log lines, event metadata, addresses, uptime and
`lastError`, which nothing but `Status` reads, are left out. `reconnectAttempts`
wraps from `CounterMax` (2^31 - 1 in the code) to `-CounterMax - 1`, which `Status`
then reports.
frpc, os/exec's kill on cancellation, net/http's goroutines, frps, the
discovery source and the dialer are external and modelled from their use.

## Runs

| Run | Checks | Bounds |
|---|---|---|
| `adapter` | one supervisor, one process, retry budget, backoff schedule, quiet after Stop, Connected; refinement of `AdapterLifecycle`; Start ends after cancellation, the process is reaped, the loop restarts or ends | 2 Starts, 1 Stop, 1 request; four configurations (a delay doubled below the cap and beyond it, up to 3 retries; a first delay above the cap; two invalid); `CounterMax` 0 |
| `webhook_any_frps` | counter against map for any frps, tracking only after the proxy's own NewProxy was allowed | 2 goroutines, every operation in every form, two proxies with one key, `MaxCount` 3 |
| `webhook_sequential_frps` | map, counter and frps's table agree | 3 goroutines, 3 proxies in 2 runs, `MaxCount` 3 |
| `manager` | dialed target, refinement of `TunnelRegistry`, every call returns | 2 callers, 1 name, 2 infos |
| `webhook_lifecycle` | `started` has an owner, a cancelled Start returns, on a fixed port no listener is left | 2 Starts, 2 Stops, a fixed port or port 0 |
| `daemon` | exit status, clean exit, the daemon ends | 2 requests, each over either protocol |
| `client` | reports are true, no close is acknowledged twice, commands end | 2 clients with any command, 1 name, 1 info |
| `policy` | Validate is exact, the first fault is reported, default deny | up to 3 rules out of 10 that meet and miss every condition |

Two Starts race on the swap of `started`; a third one only meets a swap that is
already lost, and so does a second Stop. Three retries are enough for a
doubling, one that passes the cap, and the last failure. With `CounterMax` 0
`reconnectAttempts` wraps at the first restart and is negative after it. Two
goroutines are what an
interleaving of two halves of an update needs, the third one adds a request
about another proxy. One name suffices for the manager because calls interact
only through the lock and the entry of their own name; a second info makes a
stale lookup visible. Two Starts of the webhook server show a shutdown that
meets a later server, two Stops a Stop that is late and one that is early. Two
requests put the daemon's two drains against each other. Two clients on one
name make a close overtake an open and its repetition, in any combination of
commands. Three rules put a duplicate name at a distance. The proofs remove
these bounds for every safety property that a run checks.

Every other run states a promise of a doc comment that the code does not keep,
and TLC finds the counterexample:

* `giving_up` - after the last retry Start blocks on the webhook server.
* `stop_effective` - a Stop between the swap and the assignment of `cancel` is lost.
* `unlimited_retries` - `New` turns a `MaxRetries` of 0 into ten, so that the
  configuration documented as unlimited gives up (adapter.go:71, 167).
* `registered_known` - a refresh forgets what `RegisterTarget` added.

The models also show other differences from the comments, for which no run
is kept:

* A request that outlives the five seconds of the drain passes its event to the
  handler after cancellation, and after Stop has returned nil, and a connection
  that the drain gave up on may even deliver new requests (webhook.go:287). The
  comments promise that no events follow (adapter/adapter.go:75, 86).
  `StopNilMeansQuiet` and `AdapterLifecycle` speak of new connections only.
* `cmd.Start` looks at the context before it forks, so that a process may start
  after cancellation (adapter.go:460); `CommandContext`'s watcher then kills it
  (`ProcessReaped`).
* When the context is done before the goroutine of Serve has run, Start and Stop
  return with the listener still open; Serve refuses and closes it when it runs
  (webhook.go:258).
* With port 0, which Validate accepts and webhook_test.go:542 uses, two calls of
  `WebhookServer.Start` listen at once after an early Stop. The second overwrites
  `s.server` (webhook.go:246), the shutdown of the first one then stops the
  other's server, and its own listener stays open. The same happens without a
  Stop when a Start follows one whose Serve has not run yet. `NoListenerLeft`
  says that a fixed port excludes this.
* A repeated NewProxy is counted twice and closed once (webhook.go:501, 298).
  `LeakOnlyByDuplicate` states that this is the only way to a wrong count.
* The ConnectionID of connect and disconnect events is the RunID, so that events
  of one ConnectionID are delivered concurrently, even under the sequential frps
  (webhook.go:486; adapter/adapter.go:63).
* A `WebhookServer.Stop` between the swap of `started` and the assignment of `server`
  returns nil and stops nothing, and later Stops return at once while the server
  runs on until its context is done (webhook.go:272, 286).
* The shutdown of a Start that a Stop has already ended stops the server of a
  later Start (webhook.go:287).
* A late CloseProxy of an old session untracks the proxy that a new session has
  registered (webhook.go:522). `TrackingAgrees` assumes an frps that sends none.
* A close whose gRPC answer was lost is reported as failed, with "no active
  tunnel", although it was done (cloudtapctl/main.go:139; manager.go:168).
* The cap applies after doubling only, so a `RestartDelay` above `MaxRestartDelay`
  is waited for in full after a clean exit, a stable run or a first failure
  (adapter.go:366, 428), although adapter.go:65 calls the cap "the maximum delay
  between restart attempts". `Schedule` states what the code does.
* A cancellation between the head of the loop and `cmd.Start` counts as a failure
  and may be reported as exhausted retries (adapter.go:346).
* When the webhook server fails to listen, frpc is started all the same and the
  error is dropped (adapter.go:244).
* A close between store and count shows the counter at -1 (webhook.go:500).
* Request events have a fresh ConnectionID, and a disconnect event is not the last
  one of its ConnectionID (webhook.go:606, 532; adapter/adapter.go:122, 126).
* Open dials again for an active tunnel (manager.go:150; tunnel.proto:9 says reuse).

## Fairness

`FrpAdapter!FairSpec`: weak fairness of every call of Start and Stop that is
under way, of the webhook goroutine and the goroutine of Serve, and of the kill
that `CommandContext` performs. Timers are part of these steps: `time.After` and the drain's five
seconds fire. Nothing is assumed of callers beginning or giving up, of frpc
exiting by itself, of a spawn or the server failing, or of requests being
answered.
`TunnelManager!FairSpec`: weak fairness of a caller's own steps (the source and
the dialer answer, since they take a context and the dialers have time limits)
and strong fairness of steps that take the lock, since `sync.RWMutex` starves
nobody.
`WebhookLifecycle!FairSpec`: weak fairness of calls under way, the five seconds of
Shutdown among their steps, and of the serving goroutine; none of callers,
contexts or requests.
`Cloudtapd!FairSpec`: weak fairness of main, of each server's goroutines and of the
goroutine that closes the channel, and of the answer to a request in flight:
handlers only call the manager, whose calls return (`CallReturns`), and
`GracefulStop` waits for them without a limit. Nothing is assumed of signals,
clients, or listeners failing.
`CtlClient!FairSpec`: weak fairness of the deadline, and of a client that has an
answer, an error or an expired deadline. The network and the daemon may never
answer: without the deadline `CommandEnds` fails.

## Proofs

Every invariant and every action property that a passing run checks, and both
refinements, are theorems of the specification the run uses, for every value
of the constants that meets the named assumptions. The assumptions say:
configurations are records of integers; the greatest counter value is a natural
number; the sets of goroutines and of clients
are finite (cardinalities are counted); there is at least one request and one
name; null values and the marks of a goroutine's state are not members of the
sets they stand beside; rules are records and `Fold` is defined on spellings.
Every inductive invariant was checked by TLC on the instance of the module's run
before it was proved. An invariant is a conjunction of named parts, and the
preservation proofs go action by action.

* `FrpAdapter_proofs`: `IInv` is the conjunction of the types and four parts.
  `LifecycleInv` says that a call past the swap has set `started`, which makes
  the swap exclusive. `ProcessInv` says that no process is alive up to
  `fork` and that `errChan` is filled exactly when the process is gone;
  `alive <= 1` alone is not inductive. `RetryInv` adds that nobody is in the
  loop once it has returned. `ShutdownInv` orders the end of Serve and of the webhook
  server, `doneChan` and the return of Stop. Theorems: types,
  `SingleSupervisor`, `AtMostOneProcess`, `RetryBudget`, `StopNilMeansQuiet`,
  `ConnectedIsSupervised`.
  The refinement of `AdapterLifecycle` needs `PhaseInv` besides: `a.cancel` is
  assigned exactly when a Start is past `bind`, so that the phase of the mapping
  moves only with the step that the abstract module allows.
  `BackoffFollowsSchedule` compares a delay that is doubled step by step with a
  power of two. The prover knows no recursion, so `PowerDoubles` takes
  2^(n+1) = 2 * 2^n from the cardinality of sets of subsets; `ScheduleStep` then
  says that doubling and cutting commute with the closed form, and
  `BackoffStep` that the loop does just that.
* `WebhookTracking_proofs`: `Drift` is the counter plus the pending additions,
  less the pending subtractions and the size of the map. Every step keeps it,
  except a store of a key that is there, which adds one; cardinalities come
  from `FiniteSetTheorems`. From this `CountCoversTracked` and
  `LeakOnlyByDuplicate` follow. `TrackedWasAllowed` needs `StoringAllowed`: a
  goroutine about to store serves a NewProxy that was itself allowed.
* `WebhookSequential_proofs`: `TurnInv` says for every goroutine where its
  NewProxy or CloseProxy has got to and whether its key is tracked there, that
  at most one goroutine serves a proxy, and `TrackingAgrees` for the others. A
  step of one goroutine changes the records of its own proxy only
  (`OnlyAbout`), which leaves the other goroutines in their turn because their
  keys differ. That last fact is the hypothesis `RunsWithoutSlash` of the three
  theorems: with a slash in a run ID, `a` + `/` + `b/c` and `a/b` + `/` + `c` are
  one key, and the map confuses two proxies. Names of proxies are arbitrary;
  `KeysApart` derives that keys are distinct. `CountExact` follows from
  `CountStep`, since no key is stored twice, and from an injection of the
  pending additions into the map.
* `TunnelManager_proofs`: `DialsKnownTarget` is inductive together with
  `LockOwner`, which says who holds the lock. With them every step is a step of `TunnelRegistry` or leaves its
  variables alone, hence `Spec => RegistrySpec`.
* `WebhookLifecycle_proofs`: `ServerInv` says that `s.server` is not nil where
  `shutdown` uses it. `ListenerInv` says that on a fixed port at most one listener
  is open, that `s.server` is its owner's once assigned, and that after the
  owner's Shutdown the goroutine of Serve is still to run. `StartedIsOwned` is
  inductive with the types alone, for any port. `ReturnedListenerCloses` is what
  safety says of the liveness property `NoListenerLeft`, under the same condition
  of a fixed port: a listener that outlives its Start belongs to a goroutine that
  is going to call Serve on a server that is shut down.
* `Cloudtapd_proofs`: `ErrorInv` accounts for the errors: `serverErrs` holds only
  those of servers that failed, each at most once, and the error of a failed
  server is there until main has one. `ExitInv` says that the channel is closed
  after both servers have returned and that main exits when it has read it to
  its end. `DrainInv` says that a server returns without an error only when its
  protocol has nothing in flight.
* `CtlClient_proofs`: `ReportInv` carries an answer from the handler that gave it
  to the report: an answer that came in while the command runs tells of a state
  in `seen`. `CloseInv` balances the books of every name: the closes
  acknowledged, plus one while the tunnel is open, are at most the opens
  acknowledged.
* `PolicyValidate_proofs`: the loop invariant `PrefixInv` says that the rules
  before the i-th are valid, have names of their own, and that `names` holds
  exactly these. `ResultInv` records why the call returned, `PolicyInv` relates
  the policy to the file. `GoodPrefix` takes validity of a prefix of the rules
  to the indices the loop has passed. The number of rules is bounded by
  `MaxRules`, which is any number.

Only model-checked: the liveness properties `CancelTerminates`,
`ProcessReaped`, `RestartsOrReturns`, `CallReturns`, `CancelledStartReturns`,
`NoListenerLeft`, `ShutdownCompletes` and `CommandEnds`. They rest on fairness
and on ENABLED, which the prover does not handle.

## Not modelled

Log output and `logOutput`; uptime; parsing of addresses and URLs; event
metadata; YAML and JSON syntax; flags, environment variables, TLS set-up and
tokens of the client and the daemon, which only decide whether a connection is
made; generated gRPC code; the stubs of `pkg/policy/policy.go` and
`pkg/observability`. The policy is not evaluated anywhere in the repository, so
that matching rules has no code to model.

## Plan

1. Done: `FrpAdapter`, `WebhookTracking`, `TunnelManager`, `TunnelRegistry` with
   their runs and the proofs above.
2. Done: `AdapterLifecycle` and its refinement, `WebhookLifecycle`, `Cloudtapd`,
   `CtlClient` over `TunnelRegistry`, `PolicyValidate`.
3. Done: the refinement of `AdapterLifecycle`, the backoff schedule, and the
   invariants of `WebhookLifecycle`, `Cloudtapd`, `CtlClient`, `PolicyValidate` and
   of the sequential frps.
4. Next: the safety cores of the remaining liveness properties, in the manner of
   `ReturnedListenerCloses` (who will take the step that a waiting call needs):
   for the join of `FrpAdapter`, the lock of `TunnelManager` and the wait group of
   `Cloudtapd`.
