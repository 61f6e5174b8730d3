----------------------------- MODULE Lifecycle -----------------------------
(***************************************************************************)
(* The life of the process: run (cmd/server/main.go), NewContainer,        *)
(* StartJanitor, StartAdmin and Close (internal/di/container.go) and the   *)
(* opening of the database (internal/platform/database.go).                *)
(*                                                                         *)
(* Actors: the main goroutine, the goroutines of the server, of the admin  *)
(* listener and of the janitor, the handlers, the database and whoever     *)
(* sends signals.  Timeouts are choices: a wait that has one may end.      *)
(***************************************************************************)
EXTENDS Integers, FiniteSets

CONSTANTS
    Requests,       \* requests clients send to the public server
    PingAttempts,   \* pingAttempts
    MaxSignals      \* bound: SIGINT and SIGTERM sent

ASSUME LifecycleAssumption ==
    PingAttempts \in Nat \ {0} /\ MaxSignals \in Nat

VARIABLES
    config,     \* what is enabled: tracing, admin, janitor, migrate
    main,       \* the next step of run
    result,     \* how run returns: "none", "ok" or the step that failed
    status,     \* of the process: "up", "ok", "error", "panic", "killed"
    attempt,    \* pings made by pingWithRetry
    signals, notify, ctxDone,   \* signals sent; whether they are caught; ctx
    reachable,  \* whether the database accepts connections
    db,         \* the pool: "none", "open", "closed"
    tracer,     \* the provider: "none", "on", "shut"
    adminServer, adminShut, adminLoop,  \* Container.AdminServer is not nil;
                \*   its Shutdown was called; its goroutine
    server, serverShut, serverErr,      \* the goroutine of srv; its Shutdown
                \*   was called; the channel
    janitor,    \* its goroutine: "none", "sweep", "wait", "ended"
    request,    \* "none", "running", "done"
    lost        \* history: requests whose span ended after the tracer

container == <<db, tracer, adminServer, adminShut>>
signalling == <<signals, notify, ctxDone>>
public == <<server, serverShut, serverErr, request, lost>>
vars == <<config, main, result, status, attempt, signalling, reachable,
          container, adminLoop, public, janitor>>

At(step) == status = "up" /\ main = step

Goto(step) == main' = step /\ UNCHANGED <<result, status>>

Return(r, step) == result' = r /\ main' = step /\ UNCHANGED status

\* NewContainer failed: no cleanup is deferred yet, and main exits with 1.
Fatal(r) == Return(r, "exit")

---------------------------------------------------------------------------
(* NewContainer *)

Validate ==
    /\ At("validate")
    /\ Goto("tracing") \/ Fatal("config")
    /\ UNCHANGED <<config, attempt, signalling, reachable, container,
                   adminLoop, public, janitor>>

\* tracing.Init: a provider if tracing is on and the exporter can be made.
InitTracing ==
    /\ At("tracing")
    /\ \/ Goto("open") /\ tracer' = IF config.tracing THEN "on" ELSE "none"
       \/ config.tracing /\ Fatal("tracing") /\ UNCHANGED tracer
    /\ UNCHANGED <<config, attempt, signalling, reachable, db, adminServer,
                   adminShut, adminLoop, public, janitor>>

\* InitializeDatabase up to its own pings.  gorm.Open pings once by itself
\* (DisableAutomaticPing is not set) and does not close the pool when that
\* fails, though it does when the dialect cannot use the pool.  When the
\* tracing plugin cannot be installed the pool is closed.
OpenDatabase ==
    /\ At("open")
    /\ \/ reachable /\ db' = "open" /\ Goto("ping")
       \/ ~ reachable /\ Fatal("connect") /\ db' \in {"none", "open"}
       \/ reachable /\ config.tracing /\ Fatal("plugin") /\ db' = "closed"
    /\ UNCHANGED <<config, attempt, signalling, reachable, tracer, adminServer,
                   adminShut, adminLoop, public, janitor>>

\* One attempt of pingWithRetry; the last failure closes the pool.
Ping ==
    /\ At("ping")
    /\ attempt' = attempt + 1
    /\ \/ reachable /\ Goto("migrate") /\ UNCHANGED db
       \/ ~ reachable /\ attempt' < PingAttempts /\ Goto("ping") /\ UNCHANGED db
       \/ ~ reachable /\ attempt' = PingAttempts /\ Fatal("ping") /\ db' = "closed"
    /\ UNCHANGED <<config, signalling, reachable, tracer, adminServer,
                   adminShut, adminLoop, public, janitor>>

\* Nil when neither metrics nor pprof is on.
NewAdminServer == config.admin

\* Migrate (module Migrations), then the container is put together.
Migrate ==
    /\ At("migrate")
    /\ \/ Goto("notify") /\ adminServer' = NewAdminServer
       \/ config.migrate /\ Fatal("migrate") /\ UNCHANGED adminServer
    /\ UNCHANGED <<config, attempt, signalling, reachable, db, tracer,
                   adminShut, adminLoop, public, janitor>>

---------------------------------------------------------------------------
(* run: start *)

\* Close is deferred before stop, so stop will run first.
NotifyContext ==
    /\ At("notify")
    /\ notify' = TRUE
    /\ Goto("start")
    /\ UNCHANGED <<config, attempt, signals, ctxDone, reachable, container,
                   adminLoop, public, janitor>>

\* StartJanitor, StartAdmin and go srv.ListenAndServe return at once.
StartGoroutines ==
    /\ At("start")
    /\ janitor' = IF config.janitor THEN "sweep" ELSE "none"
    /\ adminLoop' = IF adminServer THEN "starting" ELSE "none"
    /\ server' = "starting"
    /\ Goto("select")
    /\ UNCHANGED <<config, attempt, signalling, reachable, container,
                   serverShut, serverErr, request, lost>>

---------------------------------------------------------------------------
(* run: the end *)

SelectServerErr ==
    /\ At("select") /\ serverErr
    /\ Return("server", "stop")
    /\ UNCHANGED <<config, attempt, signalling, reachable, container,
                   adminLoop, public, janitor>>

\* stop at once, so that another signal kills; then srv.Shutdown, which
\* closes the listener.
SelectDone ==
    /\ At("select") /\ ctxDone
    /\ notify' = FALSE
    /\ serverShut' = TRUE
    /\ server' = IF server = "serving" THEN "ended" ELSE server
    /\ Goto("drain")
    /\ UNCHANGED <<config, attempt, signals, ctxDone, reachable, container,
                   adminLoop, serverErr, request, lost, janitor>>

Running == {r \in Requests : request[r] = "running"}

\* Variant: srv.Shutdown with a context that never ends.
DrainWithoutTimeout ==
    /\ At("drain") /\ Running = {}
    /\ Return("ok", "stop")
    /\ UNCHANGED <<config, attempt, signalling, reachable, container,
                   adminLoop, public, janitor>>

\* Variant: srv.Close, which does not wait.
DrainAtOnce ==
    /\ At("drain")
    /\ Return("ok", "stop")
    /\ UNCHANGED <<config, attempt, signalling, reachable, container,
                   adminLoop, public, janitor>>

\* srv.Shutdown returns when it finds no handler running, or when its time is
\* up, be it just before it would have found none.
Drain ==
    /\ At("drain")
    /\ \/ Running = {} /\ Return("ok", "stop")
       \/ Return("shutdown", "stop")
    /\ UNCHANGED <<config, attempt, signalling, reachable, container,
                   adminLoop, public, janitor>>

\* Variant: the deferred stop only restores the signals.
StopKeepsContext ==
    /\ At("stop")
    /\ notify' = FALSE
    /\ Goto("close")
    /\ UNCHANGED <<config, attempt, signals, ctxDone, reachable, container,
                   adminLoop, public, janitor>>

\* The deferred stop cancels ctx, whatever ended the select.
Stop ==
    /\ At("stop")
    /\ notify' = FALSE /\ ctxDone' = TRUE
    /\ Goto("close")
    /\ UNCHANGED <<config, attempt, signals, reachable, container, adminLoop,
                   public, janitor>>

---------------------------------------------------------------------------
(* Container.Close *)

CloseAdmin ==
    /\ At("close")
    /\ adminShut' = adminServer
    /\ adminLoop' = IF adminLoop = "serving" THEN "ended" ELSE adminLoop
    /\ Goto("nil")
    /\ UNCHANGED <<config, attempt, signalling, reachable, db, tracer,
                   adminServer, public, janitor>>

\* Once its Shutdown has returned, idle or not.
ForgetAdmin ==
    /\ At("nil")
    /\ adminServer' = FALSE
    /\ Goto("tracer")
    /\ UNCHANGED <<config, attempt, signalling, reachable, db, tracer,
                   adminShut, adminLoop, public, janitor>>

\* Variant: Close leaves early when there is no tracer to shut.
ShutTracerOrLeave ==
    /\ At("tracer")
    /\ tracer' = IF tracer = "on" THEN "shut" ELSE tracer
    /\ Goto(IF tracer = "on" THEN "db" ELSE "exit")
    /\ UNCHANGED <<config, attempt, signalling, reachable, db, adminServer,
                   adminShut, adminLoop, public, janitor>>

ShutTracer ==
    /\ At("tracer")
    /\ tracer' = IF tracer = "on" THEN "shut" ELSE tracer
    /\ Goto("db")
    /\ UNCHANGED <<config, attempt, signalling, reachable, db, adminServer,
                   adminShut, adminLoop, public, janitor>>

CloseDatabase ==
    /\ At("db")
    /\ db' = "closed"
    /\ Goto("exit")
    /\ UNCHANGED <<config, attempt, signalling, reachable, tracer, adminServer,
                   adminShut, adminLoop, public, janitor>>

Exit ==
    /\ At("exit")
    /\ status' = IF result = "ok" THEN "ok" ELSE "error"
    /\ UNCHANGED <<config, main, result, attempt, signalling, reachable,
                   container, adminLoop, public, janitor>>

---------------------------------------------------------------------------
(* The other goroutines, while the process is up *)

\* srv.ListenAndServe: quiet after Shutdown; otherwise it serves, or the
\* address cannot be bound.
Listen ==
    /\ status = "up" /\ server = "starting"
    /\ \/ serverShut /\ server' = "ended" /\ UNCHANGED serverErr
       \/ ~ serverShut /\ server' = "serving" /\ UNCHANGED serverErr
       \/ ~ serverShut /\ server' = "ended" /\ serverErr' = TRUE
    /\ UNCHANGED <<config, main, result, status, attempt, signalling,
                   reachable, container, adminLoop, serverShut, request, lost,
                   janitor>>

\* The listener breaks; handlers go on.
AcceptFails ==
    /\ status = "up" /\ server = "serving"
    /\ server' = "ended" /\ serverErr' = TRUE
    /\ UNCHANGED <<config, main, result, status, attempt, signalling,
                   reachable, container, adminLoop, serverShut, request, lost,
                   janitor>>

Accept(r) ==
    /\ status = "up" /\ server = "serving" /\ request[r] = "none"
    /\ request' = [request EXCEPT ![r] = "running"]
    /\ UNCHANGED <<config, main, result, status, attempt, signalling,
                   reachable, container, adminLoop, server, serverShut,
                   serverErr, lost, janitor>>

\* The handler returns and its span ends.
Finish(r) ==
    /\ status = "up" /\ request[r] = "running"
    /\ request' = [request EXCEPT ![r] = "done"]
    /\ lost' = IF tracer = "shut" THEN lost \cup {r} ELSE lost
    /\ UNCHANGED <<config, main, result, status, attempt, signalling,
                   reachable, container, adminLoop, server, serverShut,
                   serverErr, janitor>>

\* The goroutine of StartAdmin reads c.AdminServer when it gets to run.
AdminListen ==
    /\ status = "up" /\ adminLoop = "starting" /\ adminServer
    /\ \/ ~ adminShut /\ adminLoop' = "serving"
       \/ adminLoop' = "ended"
    /\ UNCHANGED <<config, main, result, status, attempt, signalling,
                   reachable, container, public, janitor>>

\* Close has set it to nil meanwhile.  The two accesses race: the goroutine
\* sees the closed server, or nil and panics.
AdminListenLate ==
    /\ status = "up" /\ adminLoop = "starting" /\ ~ adminServer
    /\ adminLoop' = "ended"
    /\ status' \in {"up", "panic"}
    /\ UNCHANGED <<config, main, result, attempt, signalling, reachable,
                   container, public, janitor>>

\* A sweep ends, well or not, and never stops the janitor.
SweepEnds ==
    /\ status = "up" /\ janitor = "sweep"
    /\ janitor' = "wait"
    /\ UNCHANGED <<config, main, result, status, attempt, signalling,
                   reachable, container, adminLoop, public>>

\* The janitor's select: with both ready, either.
JanitorSelect ==
    /\ status = "up" /\ janitor = "wait"
    /\ \/ ctxDone /\ janitor' = "ended"
       \/ janitor' = "sweep"
    /\ UNCHANGED <<config, main, result, status, attempt, signalling,
                   reachable, container, adminLoop, public>>

---------------------------------------------------------------------------
(* The environment *)

\* SIGINT or SIGTERM: ctx is cancelled while they are caught, otherwise the
\* process dies.
Signal ==
    /\ status = "up" /\ signals < MaxSignals
    /\ signals' = signals + 1
    /\ \/ notify /\ ctxDone' = TRUE /\ UNCHANGED status
       \/ ~ notify /\ status' = "killed" /\ UNCHANGED ctxDone
    /\ UNCHANGED <<config, main, result, attempt, notify, reachable, container,
                   adminLoop, public, janitor>>

\* The database finishes booting, or goes away.
DatabaseFlips ==
    /\ status = "up" /\ main \in {"open", "ping"}
    /\ reachable' = ~ reachable
    /\ UNCHANGED <<config, main, result, status, attempt, signalling,
                   container, adminLoop, public, janitor>>

---------------------------------------------------------------------------
Init ==
    /\ config \in [tracing : BOOLEAN, admin : BOOLEAN, janitor : BOOLEAN,
                   migrate : BOOLEAN]
    /\ main = "validate" /\ result = "none" /\ status = "up" /\ attempt = 0
    /\ signals = 0 /\ notify = FALSE /\ ctxDone = FALSE
    /\ reachable \in BOOLEAN
    /\ db = "none" /\ tracer = "none"
    /\ adminServer = FALSE /\ adminShut = FALSE /\ adminLoop = "none"
    /\ server = "none" /\ serverShut = FALSE /\ serverErr = FALSE
    /\ janitor = "none"
    /\ request = [r \in Requests |-> "none"] /\ lost = {}

Main ==
    \/ Validate \/ InitTracing \/ OpenDatabase \/ Ping \/ Migrate
    \/ NotifyContext \/ StartGoroutines
    \/ SelectServerErr \/ SelectDone \/ Drain \/ Stop
    \/ CloseAdmin \/ ForgetAdmin \/ ShutTracer \/ CloseDatabase \/ Exit

Next ==
    \/ Main \/ Listen \/ AcceptFails
    \/ AdminListen \/ AdminListenLate \/ SweepEnds \/ JanitorSelect
    \/ \E r \in Requests : Accept(r) \/ Finish(r)
    \/ Signal \/ DatabaseFlips

Spec == Init /\ [][Next]_vars

\* Only the goroutine of run has to be scheduled: its waits have timeouts.
FairSpec == Spec /\ WF_vars(Main)

---------------------------------------------------------------------------
(* Properties *)

\* Type correctness.
TypeOK ==
    /\ config \in [tracing : BOOLEAN, admin : BOOLEAN, janitor : BOOLEAN,
                   migrate : BOOLEAN]
    /\ main \in {"validate", "tracing", "open", "ping", "migrate", "notify",
                 "start", "select", "drain", "stop", "close", "nil", "tracer",
                 "db", "exit"}
    /\ result \in {"none", "ok", "config", "tracing", "connect", "plugin",
                   "ping", "migrate", "server", "shutdown"}
    /\ status \in {"up", "ok", "error", "panic", "killed"}
    /\ attempt \in 0 .. PingAttempts
    /\ signals \in 0 .. MaxSignals /\ notify \in BOOLEAN /\ ctxDone \in BOOLEAN
    /\ reachable \in BOOLEAN
    /\ db \in {"none", "open", "closed"} /\ tracer \in {"none", "on", "shut"}
    /\ adminServer \in BOOLEAN /\ adminShut \in BOOLEAN
    /\ adminLoop \in {"none", "starting", "serving", "ended"}
    /\ server \in {"none", "starting", "serving", "ended"}
    /\ serverShut \in BOOLEAN /\ serverErr \in BOOLEAN
    /\ janitor \in {"none", "sweep", "wait", "ended"}
    /\ request \in [Requests -> {"none", "running", "done"}]
    /\ lost \subseteq Requests

\* The janitor never sweeps a closed database without knowing that it should
\* stop: the deferred stop runs before the deferred Close, also when the
\* server failed and no signal came (main.go 55-73, container.go 348-374).
JanitorToldBeforeClose ==
    db = "closed" /\ janitor \in {"sweep", "wait"} => ctxDone

\* The database is taken from running handlers, and spans of requests are
\* lost, only when the drain ran out of time or the server failed
\* (main.go 96-110, container.go 302-339).
HandlersOutliveContainerOnlyIfCut ==
    (db = "closed" /\ Running # {}) \/ lost # {} =>
        result \in {"server", "shutdown"}

\* However run returns, the database is closed, unless gorm.Open or Migrate
\* failed (main.go 30-31, database.go 45-77, container.go 139-143); a run that
\* got as far as serving has shut down the tracer and both listeners too. One
\* that returns without an error has answered every request it accepted, and
\* so has one that panics on the AdminServer that Close forgot: the late
\* goroutine finds nil only when the drain is over (container.go 302-339 and
\* 420-432).
ExitIsClean ==
    LET served == result \in {"ok", "server", "shutdown"}
    IN /\ status \in {"ok", "error"} /\ db = "open" => result \in {"connect", "migrate"}
       /\ status \in {"ok", "error"} /\ served =>
             tracer # "on" /\ ~ adminServer /\ server # "serving"
       /\ status \in {"ok", "panic"} => served /\ (result = "ok" => Running = {})

\* A signal ends the process whatever it is doing: booting, waiting for the
\* database, serving, draining requests that never end (main.go 70-110).
SignalEndsProcess == signals > 0 ~> status # "up"

\* What container.go 412-414 says: a failure of the admin listener is logged,
\* not fatal.
AdminNeverFatal == status # "panic"

\* What database.go 22-23 says: a database that is still booting does not
\* crash the application before it was tried PingAttempts times.
BootingDatabaseIsRetried ==
    result \in {"connect", "ping"} => attempt = PingAttempts
============================================================================
