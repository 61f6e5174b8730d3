-------------------------- MODULE LifecycleProofs --------------------------
(***************************************************************************)
(* The order in which run starts and Close ends things, for any number of  *)
(* requests, of signals and of pings.                                      *)
(*                                                                         *)
(* The properties speak of the database, the janitor, the handlers and the *)
(* exit; what relates them is how far run has come.  The invariant says,   *)
(* part by part, what each step of run has left behind.                    *)
(***************************************************************************)
EXTENDS Lifecycle, TLAPS

Boot == {"validate", "tracing", "open", "ping", "migrate", "notify", "start"}
Served == result \in {"ok", "server", "shutdown"}
Aborted == result \in {"config", "tracing", "connect", "plugin", "ping", "migrate"}

\* run has a result from its return on, and only a run that served defers.
ResultByStep ==
    /\ main \in Boot \cup {"select", "drain"} => result = "none"
    /\ main \in {"stop", "close", "nil", "tracer", "db"} => Served
    /\ main = "exit" => result # "none"

\* Nothing runs beside a run that is booting or that failed to.
NothingStarted ==
    main \in Boot \/ Aborted =>
        /\ janitor = "none" /\ adminLoop = "none" /\ server = "none"
        /\ \A r \in Requests : request[r] = "none"

\* The pings of a boot are counted.
PingsLeft ==
    /\ main \in {"validate", "tracing", "open"} => attempt = 0
    /\ main = "ping" => attempt < PingAttempts

\* The pool is closed last, and left open by two failures only.
PoolByStep ==
    /\ main \in {"validate", "tracing", "open"} => db = "none"
    /\ db = "closed" => main = "exit"
    /\ main = "exit" /\ db = "open" => result \in {"connect", "migrate"}

\* The deferred stop has run once Close begins.
StoppedBeforeClose ==
    Served /\ main \in {"close", "nil", "tracer", "db", "exit"} => ctxDone

\* A listener that was shut, or that failed, accepts nothing; one of the two
\* holds when run returns.
ListenerByResult ==
    /\ serverShut => server # "serving"
    /\ serverErr => server = "ended"
    /\ main = "drain" \/ result \in {"ok", "shutdown"} => serverShut
    /\ result = "server" => serverErr

\* A run that returns without error found no handler running.
DrainedIfOk ==
    result = "ok" => \A r \in Requests : request[r] # "running"

\* The provider is shut between the drain and the database.
TracerByStep ==
    /\ tracer = "shut" => Served /\ main \in {"db", "exit"}
    /\ Served /\ main \in {"db", "exit"} => tracer # "on"
    /\ lost # {} => result \in {"server", "shutdown"}

\* The admin server is forgotten by Close only, after the drain.
AdminByStep ==
    /\ Served /\ main \in {"tracer", "db", "exit"} => ~ adminServer
    /\ adminLoop = "starting" /\ ~ adminServer =>
          Served /\ main \in {"tracer", "db", "exit"}

\* How the process ended.
StatusByStep ==
    /\ status \in {"ok", "error"} => main = "exit"
    /\ status = "ok" => result = "ok"
    /\ status = "panic" => Served

Inv ==
    /\ TypeOK /\ ResultByStep /\ NothingStarted /\ PingsLeft /\ PoolByStep
    /\ StoppedBeforeClose /\ ListenerByResult /\ DrainedIfOk /\ TracerByStep
    /\ AdminByStep /\ StatusByStep

---------------------------------------------------------------------------
(* The invariant *)

\* Abbreviations of the model and of the parts are always expanded.
USE DEF At, Goto, Return, Fatal, container, signalling, public, Boot, Served, Aborted

LEMMA InitInv == Init => Inv
<1> SUFFICES ASSUME Init PROVE Inv
    OBVIOUS
<1>1. /\ notify \in BOOLEAN /\ ctxDone \in BOOLEAN /\ adminServer \in BOOLEAN
      /\ adminShut \in BOOLEAN /\ serverShut \in BOOLEAN /\ serverErr \in BOOLEAN
    BY Zenon DEF Init
<1>2. TypeOK
    BY LifecycleAssumption, <1>1 DEF Init, TypeOK
<1>3. ResultByStep /\ NothingStarted /\ PingsLeft /\ PoolByStep /\ StoppedBeforeClose
    BY DEF Init, ResultByStep, NothingStarted, PingsLeft, PoolByStep, StoppedBeforeClose
<1>4. ListenerByResult /\ DrainedIfOk /\ TracerByStep /\ AdminByStep /\ StatusByStep
    BY DEF Init, ListenerByResult, DrainedIfOk, TracerByStep, AdminByStep, StatusByStep
<1> QED BY <1>2, <1>3, <1>4 DEF Inv

\* The steps of NewContainer and the start of the goroutines.
LEMMA BootInv ==
    ASSUME Inv,
              Validate \/ InitTracing \/ OpenDatabase \/ Ping \/ Migrate
           \/ NotifyContext \/ StartGoroutines
    PROVE  Inv'
<1>1. CASE Validate
    <2>1. TypeOK'
        BY <1>1 DEF Validate, Inv, TypeOK
    <2>2. TracerByStep'
        BY <1>1 DEF Validate, Inv, TracerByStep, ResultByStep
    <2>3. /\ ResultByStep' /\ NothingStarted' /\ PingsLeft' /\ PoolByStep'
          /\ StoppedBeforeClose' /\ ListenerByResult' /\ DrainedIfOk'
          /\ AdminByStep' /\ StatusByStep'
        BY <1>1 DEF Validate, Inv, ResultByStep, NothingStarted, PingsLeft, PoolByStep,
               StoppedBeforeClose, ListenerByResult, DrainedIfOk, AdminByStep,
               StatusByStep
    <2> QED BY <2>1, <2>2, <2>3 DEF Inv
<1>2. CASE InitTracing
    <2>1. TypeOK'
        BY <1>2 DEF InitTracing, Inv, TypeOK
    <2>2. TracerByStep'
        BY <1>2 DEF InitTracing, Inv, TracerByStep, ResultByStep
    <2>3. /\ ResultByStep' /\ NothingStarted' /\ PingsLeft' /\ PoolByStep'
          /\ StoppedBeforeClose' /\ ListenerByResult' /\ DrainedIfOk'
          /\ AdminByStep' /\ StatusByStep'
        BY <1>2 DEF InitTracing, Inv, ResultByStep, NothingStarted, PingsLeft,
               PoolByStep, StoppedBeforeClose, ListenerByResult, DrainedIfOk,
               AdminByStep, StatusByStep
    <2> QED BY <2>1, <2>2, <2>3 DEF Inv
<1>3. CASE OpenDatabase
    <2>1. TypeOK'
        BY <1>3 DEF OpenDatabase, Inv, TypeOK
    <2>2. TracerByStep'
        BY <1>3 DEF OpenDatabase, Inv, TracerByStep, ResultByStep
    <2>3. PingsLeft'
        BY LifecycleAssumption, <1>3 DEF OpenDatabase, Inv, PingsLeft
    <2>4. /\ ResultByStep' /\ NothingStarted' /\ PoolByStep'
          /\ StoppedBeforeClose' /\ ListenerByResult' /\ DrainedIfOk'
          /\ AdminByStep' /\ StatusByStep'
        BY <1>3 DEF OpenDatabase, Inv, ResultByStep, NothingStarted, PoolByStep,
               StoppedBeforeClose, ListenerByResult, DrainedIfOk, AdminByStep,
               StatusByStep
    <2> QED BY <2>1, <2>2, <2>3, <2>4 DEF Inv
<1>4. CASE Ping
    <2>1. TypeOK'
        BY LifecycleAssumption, <1>4 DEF Ping, Inv, TypeOK, PingsLeft
    <2>2. TracerByStep'
        BY <1>4 DEF Ping, Inv, TracerByStep, ResultByStep
    <2>3. /\ ResultByStep' /\ NothingStarted' /\ PingsLeft' /\ PoolByStep'
          /\ StoppedBeforeClose' /\ ListenerByResult' /\ DrainedIfOk'
          /\ AdminByStep' /\ StatusByStep'
        BY <1>4 DEF Ping, Inv, ResultByStep, NothingStarted, PingsLeft, PoolByStep,
               StoppedBeforeClose, ListenerByResult, DrainedIfOk, AdminByStep,
               StatusByStep
    <2> QED BY <2>1, <2>2, <2>3 DEF Inv
<1>5. CASE Migrate
    <2>1. TypeOK'
        BY <1>5 DEF Migrate, NewAdminServer, Inv, TypeOK
    <2>2. TracerByStep'
        BY <1>5 DEF Migrate, Inv, TracerByStep, ResultByStep
    <2>3. AdminByStep'
        BY <1>5 DEF Migrate, Inv, AdminByStep, NothingStarted
    <2>4. /\ ResultByStep' /\ NothingStarted' /\ PingsLeft' /\ PoolByStep'
          /\ StoppedBeforeClose' /\ ListenerByResult' /\ DrainedIfOk'
          /\ StatusByStep'
        BY <1>5 DEF Migrate, Inv, ResultByStep, NothingStarted, PingsLeft, PoolByStep,
               StoppedBeforeClose, ListenerByResult, DrainedIfOk, StatusByStep
    <2> QED BY <2>1, <2>2, <2>3, <2>4 DEF Inv
<1>6. CASE NotifyContext
    <2>1. notify' \in BOOLEAN
        BY <1>6, Zenon DEF NotifyContext, Inv, TypeOK
    <2>2. TypeOK'
        BY <1>6, <2>1 DEF NotifyContext, Inv, TypeOK
    <2>3. /\ ResultByStep' /\ NothingStarted' /\ PingsLeft' /\ PoolByStep'
          /\ StoppedBeforeClose' /\ ListenerByResult' /\ DrainedIfOk'
          /\ TracerByStep' /\ AdminByStep' /\ StatusByStep'
        BY <1>6 DEF NotifyContext, Inv, ResultByStep, NothingStarted, PingsLeft,
               PoolByStep, StoppedBeforeClose, ListenerByResult, DrainedIfOk,
               TracerByStep, AdminByStep, StatusByStep
    <2> QED BY <2>2, <2>3 DEF Inv
<1>7. CASE StartGoroutines
    <2>1. TypeOK'
        BY <1>7 DEF StartGoroutines, Inv, TypeOK
    <2>2. NothingStarted'
        BY <1>7 DEF StartGoroutines, Inv, NothingStarted, ResultByStep
    <2>3. ListenerByResult'
        BY <1>7 DEF StartGoroutines, Inv, ListenerByResult, NothingStarted
    <2>4. /\ ResultByStep' /\ PingsLeft' /\ PoolByStep' /\ StoppedBeforeClose'
          /\ DrainedIfOk' /\ TracerByStep' /\ AdminByStep' /\ StatusByStep'
        BY <1>7 DEF StartGoroutines, Inv, ResultByStep, PingsLeft, PoolByStep,
               StoppedBeforeClose, DrainedIfOk, TracerByStep, AdminByStep, StatusByStep
    <2> QED BY <2>1, <2>2, <2>3, <2>4 DEF Inv
<1> QED BY <1>1, <1>2, <1>3, <1>4, <1>5, <1>6, <1>7

\* The end of run, with the deferred stop and Close.
LEMMA EndInv ==
    ASSUME Inv,
              SelectServerErr \/ SelectDone \/ Drain \/ Stop \/ CloseAdmin
           \/ ForgetAdmin \/ ShutTracer \/ CloseDatabase \/ Exit
    PROVE  Inv'
<1>1. CASE SelectServerErr
    <2>1. TypeOK'
        BY <1>1 DEF SelectServerErr, Inv, TypeOK
    <2>2. /\ ResultByStep' /\ NothingStarted' /\ PingsLeft' /\ PoolByStep'
          /\ StoppedBeforeClose' /\ ListenerByResult' /\ DrainedIfOk'
          /\ TracerByStep' /\ AdminByStep' /\ StatusByStep'
        BY <1>1 DEF SelectServerErr, Inv, ResultByStep, NothingStarted, PingsLeft,
               PoolByStep, StoppedBeforeClose, ListenerByResult, DrainedIfOk,
               TracerByStep, AdminByStep, StatusByStep
    <2> QED BY <2>1, <2>2 DEF Inv
<1>2. CASE SelectDone
    <2>1. notify' \in BOOLEAN /\ serverShut' \in BOOLEAN
        BY <1>2, Zenon DEF SelectDone, Inv, TypeOK
    <2>2. TypeOK'
        BY <1>2, <2>1 DEF SelectDone, Inv, TypeOK
    <2>3. /\ ResultByStep' /\ NothingStarted' /\ PingsLeft' /\ PoolByStep'
          /\ StoppedBeforeClose' /\ ListenerByResult' /\ DrainedIfOk'
          /\ TracerByStep' /\ AdminByStep' /\ StatusByStep'
        BY <1>2 DEF SelectDone, Inv, ResultByStep, NothingStarted, PingsLeft,
               PoolByStep, StoppedBeforeClose, ListenerByResult, DrainedIfOk,
               TracerByStep, AdminByStep, StatusByStep
    <2> QED BY <2>2, <2>3 DEF Inv
<1>3. CASE Drain
    <2>1. TypeOK'
        BY <1>3 DEF Drain, Inv, TypeOK
    <2>2. TracerByStep'
        BY <1>3 DEF Drain, Running, Inv, TracerByStep, ResultByStep
    <2>3. /\ ResultByStep' /\ NothingStarted' /\ PingsLeft' /\ PoolByStep'
          /\ StoppedBeforeClose' /\ ListenerByResult' /\ DrainedIfOk'
          /\ AdminByStep' /\ StatusByStep'
        BY <1>3 DEF Drain, Running, Inv, ResultByStep, NothingStarted, PingsLeft,
               PoolByStep, StoppedBeforeClose, ListenerByResult, DrainedIfOk,
               AdminByStep, StatusByStep
    <2> QED BY <2>1, <2>2, <2>3 DEF Inv
<1>4. CASE Stop
    <2>1. notify' \in BOOLEAN /\ ctxDone' \in BOOLEAN
        BY <1>4, Zenon DEF Stop, Inv, TypeOK
    <2>2. TypeOK'
        BY <1>4, <2>1 DEF Stop, Inv, TypeOK
    <2>3. /\ ResultByStep' /\ NothingStarted' /\ PingsLeft' /\ PoolByStep'
          /\ StoppedBeforeClose' /\ ListenerByResult' /\ DrainedIfOk'
          /\ TracerByStep' /\ AdminByStep' /\ StatusByStep'
        BY <1>4 DEF Stop, Inv, ResultByStep, NothingStarted, PingsLeft, PoolByStep,
               StoppedBeforeClose, ListenerByResult, DrainedIfOk, TracerByStep,
               AdminByStep, StatusByStep
    <2> QED BY <2>2, <2>3 DEF Inv
<1>5. CASE CloseAdmin
    <2>1. TypeOK'
        BY <1>5 DEF CloseAdmin, Inv, TypeOK
    <2>2. /\ ResultByStep' /\ NothingStarted' /\ PingsLeft' /\ PoolByStep'
          /\ StoppedBeforeClose' /\ ListenerByResult' /\ DrainedIfOk'
          /\ TracerByStep' /\ AdminByStep' /\ StatusByStep'
        BY <1>5 DEF CloseAdmin, Inv, ResultByStep, NothingStarted, PingsLeft,
               PoolByStep, StoppedBeforeClose, ListenerByResult, DrainedIfOk,
               TracerByStep, AdminByStep, StatusByStep
    <2> QED BY <2>1, <2>2 DEF Inv
<1>6. CASE ForgetAdmin
    <2>1. adminServer' \in BOOLEAN
        BY <1>6, Zenon DEF ForgetAdmin, Inv, TypeOK
    <2>2. TypeOK'
        BY <1>6, <2>1 DEF ForgetAdmin, Inv, TypeOK
    <2>3. AdminByStep'
        BY <1>6 DEF ForgetAdmin, Inv, AdminByStep, ResultByStep
    <2>4. /\ ResultByStep' /\ NothingStarted' /\ PingsLeft' /\ PoolByStep'
          /\ StoppedBeforeClose' /\ ListenerByResult' /\ DrainedIfOk'
          /\ TracerByStep' /\ StatusByStep'
        BY <1>6 DEF ForgetAdmin, Inv, ResultByStep, NothingStarted, PingsLeft,
               PoolByStep, StoppedBeforeClose, ListenerByResult, DrainedIfOk,
               TracerByStep, StatusByStep
    <2> QED BY <2>2, <2>3, <2>4 DEF Inv
<1>7. CASE ShutTracer
    <2>1. TypeOK'
        BY <1>7 DEF ShutTracer, Inv, TypeOK
    <2>2. TracerByStep'
        BY <1>7 DEF ShutTracer, Inv, TracerByStep, ResultByStep
    <2>3. /\ ResultByStep' /\ NothingStarted' /\ PingsLeft' /\ PoolByStep'
          /\ StoppedBeforeClose' /\ ListenerByResult' /\ DrainedIfOk'
          /\ AdminByStep' /\ StatusByStep'
        BY <1>7 DEF ShutTracer, Inv, ResultByStep, NothingStarted, PingsLeft,
               PoolByStep, StoppedBeforeClose, ListenerByResult, DrainedIfOk,
               AdminByStep, StatusByStep
    <2> QED BY <2>1, <2>2, <2>3 DEF Inv
<1>8. CASE CloseDatabase
    <2>1. TypeOK'
        BY <1>8 DEF CloseDatabase, Inv, TypeOK
    <2>2. /\ ResultByStep' /\ NothingStarted' /\ PingsLeft' /\ PoolByStep'
          /\ StoppedBeforeClose' /\ ListenerByResult' /\ DrainedIfOk'
          /\ TracerByStep' /\ AdminByStep' /\ StatusByStep'
        BY <1>8 DEF CloseDatabase, Inv, ResultByStep, NothingStarted, PingsLeft,
               PoolByStep, StoppedBeforeClose, ListenerByResult, DrainedIfOk,
               TracerByStep, AdminByStep, StatusByStep
    <2> QED BY <2>1, <2>2 DEF Inv
<1>9. CASE Exit
    <2>1. TypeOK'
        BY <1>9 DEF Exit, Inv, TypeOK
    <2>2. /\ ResultByStep' /\ NothingStarted' /\ PingsLeft' /\ PoolByStep'
          /\ StoppedBeforeClose' /\ ListenerByResult' /\ DrainedIfOk'
          /\ TracerByStep' /\ AdminByStep' /\ StatusByStep'
        BY <1>9 DEF Exit, Inv, ResultByStep, NothingStarted, PingsLeft, PoolByStep,
               StoppedBeforeClose, ListenerByResult, DrainedIfOk, TracerByStep,
               AdminByStep, StatusByStep
    <2> QED BY <2>1, <2>2 DEF Inv
<1> QED BY <1>1, <1>2, <1>3, <1>4, <1>5, <1>6, <1>7, <1>8, <1>9

\* The goroutines that run starts.
LEMMA GoroutineInv ==
    ASSUME Inv,
              Listen \/ AcceptFails \/ AdminListen \/ AdminListenLate
           \/ SweepEnds \/ JanitorSelect
    PROVE  Inv'
<1>1. CASE Listen
    <2>1. serverErr' \in BOOLEAN
        BY <1>1, Zenon DEF Listen, Inv, TypeOK
    <2>2. TypeOK'
        BY <1>1, <2>1 DEF Listen, Inv, TypeOK
    <2>3. /\ ResultByStep' /\ NothingStarted' /\ PingsLeft' /\ PoolByStep'
          /\ StoppedBeforeClose' /\ ListenerByResult' /\ DrainedIfOk'
          /\ TracerByStep' /\ AdminByStep' /\ StatusByStep'
        BY <1>1 DEF Listen, Inv, ResultByStep, NothingStarted, PingsLeft, PoolByStep,
               StoppedBeforeClose, ListenerByResult, DrainedIfOk, TracerByStep,
               AdminByStep, StatusByStep
    <2> QED BY <2>2, <2>3 DEF Inv
<1>2. CASE AcceptFails
    <2>1. serverErr' \in BOOLEAN
        BY <1>2, Zenon DEF AcceptFails, Inv, TypeOK
    <2>2. TypeOK'
        BY <1>2, <2>1 DEF AcceptFails, Inv, TypeOK
    <2>3. /\ ResultByStep' /\ NothingStarted' /\ PingsLeft' /\ PoolByStep'
          /\ StoppedBeforeClose' /\ ListenerByResult' /\ DrainedIfOk'
          /\ TracerByStep' /\ AdminByStep' /\ StatusByStep'
        BY <1>2 DEF AcceptFails, Inv, ResultByStep, NothingStarted, PingsLeft,
               PoolByStep, StoppedBeforeClose, ListenerByResult, DrainedIfOk,
               TracerByStep, AdminByStep, StatusByStep
    <2> QED BY <2>2, <2>3 DEF Inv
<1>3. CASE AdminListen
    <2>1. TypeOK'
        BY <1>3 DEF AdminListen, Inv, TypeOK
    <2>2. /\ ResultByStep' /\ NothingStarted' /\ PingsLeft' /\ PoolByStep'
          /\ StoppedBeforeClose' /\ ListenerByResult' /\ DrainedIfOk'
          /\ TracerByStep' /\ AdminByStep' /\ StatusByStep'
        BY <1>3 DEF AdminListen, Inv, ResultByStep, NothingStarted, PingsLeft,
               PoolByStep, StoppedBeforeClose, ListenerByResult, DrainedIfOk,
               TracerByStep, AdminByStep, StatusByStep
    <2> QED BY <2>1, <2>2 DEF Inv
<1>4. CASE AdminListenLate
    <2>1. TypeOK'
        BY <1>4 DEF AdminListenLate, Inv, TypeOK
    <2>2. StatusByStep'
        BY <1>4 DEF AdminListenLate, Inv, StatusByStep, AdminByStep
    <2>3. /\ ResultByStep' /\ NothingStarted' /\ PingsLeft' /\ PoolByStep'
          /\ StoppedBeforeClose' /\ ListenerByResult' /\ DrainedIfOk'
          /\ TracerByStep' /\ AdminByStep'
        BY <1>4 DEF AdminListenLate, Inv, ResultByStep, NothingStarted, PingsLeft,
               PoolByStep, StoppedBeforeClose, ListenerByResult, DrainedIfOk,
               TracerByStep, AdminByStep
    <2> QED BY <2>1, <2>2, <2>3 DEF Inv
<1>5. CASE SweepEnds
    <2>1. TypeOK'
        BY <1>5 DEF SweepEnds, Inv, TypeOK
    <2>2. /\ ResultByStep' /\ NothingStarted' /\ PingsLeft' /\ PoolByStep'
          /\ StoppedBeforeClose' /\ ListenerByResult' /\ DrainedIfOk'
          /\ TracerByStep' /\ AdminByStep' /\ StatusByStep'
        BY <1>5 DEF SweepEnds, Inv, ResultByStep, NothingStarted, PingsLeft, PoolByStep,
               StoppedBeforeClose, ListenerByResult, DrainedIfOk, TracerByStep,
               AdminByStep, StatusByStep
    <2> QED BY <2>1, <2>2 DEF Inv
<1>6. CASE JanitorSelect
    <2>1. TypeOK'
        BY <1>6 DEF JanitorSelect, Inv, TypeOK
    <2>2. /\ ResultByStep' /\ NothingStarted' /\ PingsLeft' /\ PoolByStep'
          /\ StoppedBeforeClose' /\ ListenerByResult' /\ DrainedIfOk'
          /\ TracerByStep' /\ AdminByStep' /\ StatusByStep'
        BY <1>6 DEF JanitorSelect, Inv, ResultByStep, NothingStarted, PingsLeft,
               PoolByStep, StoppedBeforeClose, ListenerByResult, DrainedIfOk,
               TracerByStep, AdminByStep, StatusByStep
    <2> QED BY <2>1, <2>2 DEF Inv
<1> QED BY <1>1, <1>2, <1>3, <1>4, <1>5, <1>6

\* The handlers.
LEMMA HandlerInv ==
    ASSUME Inv, NEW r \in Requests,
              Accept(r) \/ Finish(r)
    PROVE  Inv'
<1>1. CASE Accept(r)
    <2>1. TypeOK'
        BY <1>1 DEF Accept, Inv, TypeOK
    <2>2. DrainedIfOk'
        BY <1>1 DEF Accept, Inv, DrainedIfOk, ListenerByResult
    <2>3. /\ ResultByStep' /\ NothingStarted' /\ PingsLeft' /\ PoolByStep'
          /\ StoppedBeforeClose' /\ ListenerByResult' /\ TracerByStep'
          /\ AdminByStep' /\ StatusByStep'
        BY <1>1 DEF Accept, Inv, ResultByStep, NothingStarted, PingsLeft, PoolByStep,
               StoppedBeforeClose, ListenerByResult, TracerByStep, AdminByStep,
               StatusByStep
    <2> QED BY <2>1, <2>2, <2>3 DEF Inv
<1>2. CASE Finish(r)
    <2>1. TypeOK'
        BY <1>2 DEF Finish, Inv, TypeOK
    <2>2. TracerByStep'
        BY <1>2 DEF Finish, Inv, TracerByStep, DrainedIfOk
    <2>3. /\ ResultByStep' /\ NothingStarted' /\ PingsLeft' /\ PoolByStep'
          /\ StoppedBeforeClose' /\ ListenerByResult' /\ DrainedIfOk'
          /\ AdminByStep' /\ StatusByStep'
        BY <1>2 DEF Finish, Inv, ResultByStep, NothingStarted, PingsLeft, PoolByStep,
               StoppedBeforeClose, ListenerByResult, DrainedIfOk, AdminByStep,
               StatusByStep
    <2> QED BY <2>1, <2>2, <2>3 DEF Inv
<1> QED BY <1>1, <1>2

\* Signals and the database.
LEMMA EnvironmentInv ==
    ASSUME Inv,
              Signal \/ DatabaseFlips
    PROVE  Inv'
<1>1. CASE Signal
    <2>1. ctxDone' \in BOOLEAN
        BY <1>1, Zenon DEF Signal, Inv, TypeOK
    <2>2. TypeOK'
        BY LifecycleAssumption, <1>1, <2>1 DEF Signal, Inv, TypeOK
    <2>3. /\ ResultByStep' /\ NothingStarted' /\ PingsLeft' /\ PoolByStep'
          /\ StoppedBeforeClose' /\ ListenerByResult' /\ DrainedIfOk'
          /\ TracerByStep' /\ AdminByStep' /\ StatusByStep'
        BY <1>1 DEF Signal, Inv, ResultByStep, NothingStarted, PingsLeft, PoolByStep,
               StoppedBeforeClose, ListenerByResult, DrainedIfOk, TracerByStep,
               AdminByStep, StatusByStep
    <2> QED BY <2>2, <2>3 DEF Inv
<1>2. CASE DatabaseFlips
    <2>1. TypeOK'
        BY <1>2 DEF DatabaseFlips, Inv, TypeOK
    <2>2. /\ ResultByStep' /\ NothingStarted' /\ PingsLeft' /\ PoolByStep'
          /\ StoppedBeforeClose' /\ ListenerByResult' /\ DrainedIfOk'
          /\ TracerByStep' /\ AdminByStep' /\ StatusByStep'
        BY <1>2 DEF DatabaseFlips, Inv, ResultByStep, NothingStarted, PingsLeft,
               PoolByStep, StoppedBeforeClose, ListenerByResult, DrainedIfOk,
               TracerByStep, AdminByStep, StatusByStep
    <2> QED BY <2>1, <2>2 DEF Inv
<1> QED BY <1>1, <1>2

LEMMA StutterInv == Inv /\ UNCHANGED vars => Inv'
BY DEF vars, Inv, TypeOK, ResultByStep, NothingStarted, PingsLeft, PoolByStep,
       StoppedBeforeClose, ListenerByResult, DrainedIfOk, TracerByStep, AdminByStep,
       StatusByStep

LEMMA Invariance == Spec => []Inv
<1>1. Inv /\ [Next]_vars => Inv'
    BY BootInv, EndInv, GoroutineInv, HandlerInv, EnvironmentInv, StutterInv
       DEF Next, Main
<1> QED BY InitInv, <1>1, PTL DEF Spec

---------------------------------------------------------------------------
(* The theorems *)

\* Type correctness; in particular pingWithRetry never pings more than
\* pingAttempts times (database.go 74-105).
THEOREM TypeCorrect == Spec => []TypeOK
<1>1. Inv => TypeOK
    BY DEF Inv
<1> QED BY Invariance, <1>1, PTL

\* However run ends, a janitor that is alive when the database is closed has
\* been told to stop: the deferred stop comes before the deferred Close
\* (main.go 55-73, container.go 348-374).
THEOREM JanitorIsTold == Spec => []JanitorToldBeforeClose
<1>1. Inv => JanitorToldBeforeClose
    BY DEF Inv, TypeOK, PoolByStep, ResultByStep, NothingStarted, StoppedBeforeClose,
           JanitorToldBeforeClose
<1> QED BY Invariance, <1>1, PTL

\* No handler loses the database or its span to Close, for any number of
\* requests, unless the drain was cut or the server failed (main.go 96-110,
\* container.go 302-339).
THEOREM HandlersAreDrained == Spec => []HandlersOutliveContainerOnlyIfCut
<1>1. Inv => HandlersOutliveContainerOnlyIfCut
    BY DEF Inv, TypeOK, PoolByStep, ResultByStep, NothingStarted, DrainedIfOk,
           TracerByStep, HandlersOutliveContainerOnlyIfCut, Running
<1> QED BY Invariance, <1>1, PTL

\* Every exit of run closes what it opened, but for the pool that a failed
\* gorm.Open or Migrate leaves; one without an error, or a panic of the admin
\* goroutine after a run that returned without one, cuts no request (main.go
\* 30-31, database.go 45-77, container.go 139-143 and 302-339).
THEOREM ExitsAreClean == Spec => []ExitIsClean
<1>1. Inv => ExitIsClean
    <2> SUFFICES ASSUME Inv PROVE ExitIsClean
        OBVIOUS
    <2>1. status \in {"ok", "error"} /\ db = "open" => result \in {"connect", "migrate"}
        BY DEF Inv, StatusByStep, PoolByStep
    <2>2. status \in {"ok", "error"} /\ Served =>
              tracer # "on" /\ ~ adminServer /\ server # "serving"
        BY DEF Inv, StatusByStep, TracerByStep, AdminByStep, ListenerByResult
    <2>3. status \in {"ok", "panic"} => Served /\ (result = "ok" => Running = {})
        BY DEF Inv, StatusByStep, DrainedIfOk, Running
    <2> QED BY <2>1, <2>2, <2>3 DEF ExitIsClean
<1> QED BY Invariance, <1>1, PTL
============================================================================
