------------------------------- MODULE Config -------------------------------
(***************************************************************************)
(* The configuration (internal/platform/config.go, config_validate.go):    *)
(* an operator edits the environment and starts the process; NewConfig     *)
(* reads it, replacing what it cannot read by defaults, Validate refuses   *)
(* to go on and names what is wrong, and NewContainer picks the keys.      *)
(* Durations are in seconds, floats in hundredths.                         *)
(***************************************************************************)
EXTENDS Integers

CONSTANT MaxEdits   \* bound: how many variables the operator changes

ASSUME MaxEditsAssumption == MaxEdits \in Nat

VARIABLES
    env,        \* the environment: a text per variable, "" when not set
    edits,
    boot        \* the outcome of the last start and what it reported

vars == <<env, edits, boot>>

---------------------------------------------------------------------------
(* What texts mean: strconv.Atoi, strconv.ParseFloat, time.ParseDuration   *)
(* and net.ParseIP on the texts the operator writes                        *)

\* A function, line by line.
Table(lines) == [x \in {l[1] : l \in lines} |-> (CHOOSE l \in lines : l[1] = x)[2]]

Atoi ==
    Table({<<"-1", -1>>, <<"0", 0>>, <<"2", 2>>, <<"30", 30>>, <<"8080", 8080>>, <<"8081", 8081>>,
           <<"9090", 9090>>, <<"9091", 9091>>, <<"70000", 70000>>})

Float(n) == [nan |-> FALSE, val |-> n]
NaN == [nan |-> TRUE, val |-> 0]
Less(x, y) == ~ x.nan /\ ~ y.nan /\ x.val < y.val    \* false on NaN

ParseFloat ==
    Table({<<"-1", Float(-100)>>, <<"0", Float(0)>>, <<"2", Float(200)>>, <<"0.5", Float(50)>>,
           <<"NaN", NaN>>})

ParseDuration ==
    Table({<<"0", 0>>, <<"-5s", -5>>, <<"1s", 1>>, <<"10s", 10>>, <<"5m", 300>>,
           <<"200h", 720000>>, <<"300h", 1080000>>})

IsLoopbackIP == Table({<<"127.0.0.2", TRUE>>, <<"0.0.0.0", FALSE>>, <<"::1", TRUE>>})

Lower == Table({<<"INFO", "info">>, <<"TEXT", "text">>, <<"Console", "console">>})

ToLower(s) == IF s \in DOMAIN Lower THEN Lower[s] ELSE s

\* strings.Split on commas and TrimSpace, as a set.
SplitCSV ==
    Table({<<"*", {"*"}>>, <<"https://app, *", {"https://app", "*"}>>,
           <<"https://app", {"https://app"}>>, <<"other", {"other"}>>})

---------------------------------------------------------------------------
(* The variables, with the defaults of NewConfig *)

IntDefaults ==
    [SERVER_PORT |-> 8080, DATABASE_MAX_OPEN_CONNS |-> 25, DATABASE_MAX_IDLE_CONNS |-> 5,
     RATE_LIMIT_BURST |-> 40, AUTH_RATE_LIMIT_BURST |-> 5,
     MAX_REQUEST_BODY_BYTES |-> 1048576, ADMIN_PORT |-> 9090]

FloatDefaults ==
    [RATE_LIMIT_RPS |-> Float(2000), AUTH_RATE_LIMIT_RPS |-> Float(20),
     OTEL_TRACES_SAMPLER_ARG |-> Float(100)]

DurationDefaults ==
    [SERVER_READ_TIMEOUT |-> 15, SERVER_WRITE_TIMEOUT |-> 15, SERVER_IDLE_TIMEOUT |-> 60,
     SERVER_SHUTDOWN_TIMEOUT |-> 10, SERVER_REQUEST_TIMEOUT |-> 10,
     DATABASE_CONN_MAX_LIFETIME |-> 300, JWT_ACCESS_TTL |-> 900,
     JWT_REFRESH_TTL |-> 604800, CSRF_TOKEN_TTL |-> 43200,
     REFRESH_TOKEN_PURGE_INTERVAL |-> 3600]

BoolDefaults ==
    [DEV_MODE |-> FALSE, DATABASE_AUTO_MIGRATE |-> TRUE, RATE_LIMIT_ENABLED |-> TRUE,
     METRICS_ENABLED |-> FALSE, PPROF_ENABLED |-> FALSE, OTEL_ENABLED |-> FALSE,
     OTEL_EXPORTER_OTLP_INSECURE |-> TRUE]

StringDefaults(dev) ==
    [SERVER_HOST |-> "", DATABASE_DSN |-> "dev.db", DATABASE_TYPE |-> "sqlite",
     DATABASE_LOG_LEVEL |-> IF dev THEN "info" ELSE "warn",
     LOG_LEVEL |-> IF dev THEN "debug" ELSE "info",
     LOG_FORMAT |-> IF dev THEN "text" ELSE "json", ADMIN_HOST |-> "127.0.0.1",
     OTEL_SERVICE_NAME |-> "clean-arch-go-gin", OTEL_SERVICE_VERSION |-> "dev",
     OTEL_ENVIRONMENT |-> IF dev THEN "development" ELSE "production",
     OTEL_TRACES_EXPORTER |-> "otlp",
     OTEL_EXPORTER_OTLP_ENDPOINT |-> "http://localhost:4318"]

CSVDefaults == [ALLOWED_ORIGINS |-> {"http://localhost:5173"}, TRUSTED_PROXIES |-> {}]

\* The keys the container falls back to, for development.
DevKeys ==
    [JWT_ACCESS_SECRET |-> "devAccess", JWT_REFRESH_SECRET |-> "devRefresh",
     CSRF_SECRET |-> "devCSRF"]

Secrets == DOMAIN DevKeys
Vars == UNION {DOMAIN IntDefaults, DOMAIN FloatDefaults, DOMAIN DurationDefaults,
               DOMAIN BoolDefaults, DOMAIN StringDefaults(FALSE), DOMAIN CSVDefaults, Secrets}

---------------------------------------------------------------------------
(* NewConfig *)

\* getEnvInt, getEnvFloat, getEnvDuration, parseCSVEnv: a text that is not set
\* or cannot be read gives the default.
Parsed(raw, table, default) ==
    IF raw \in DOMAIN table THEN table[raw] ELSE default

getEnvBool(raw, default) ==
    IF raw = "" THEN default ELSE raw \in {"true", "1", "yes"}

getEnv(raw, default) == IF raw = "" THEN default ELSE raw

\* Variant: NewConfig itself falls back to the development keys.
SecretOrDevKey(e, v) == IF e[v] = "" THEN DevKeys[v] ELSE e[v]

\* os.Getenv: secrets have no default.
Secret(e, v) == e[v]

NewConfig(e) ==
    LET strings == StringDefaults(getEnvBool(e["DEV_MODE"], FALSE))
    IN [v \in Vars |->
        CASE v \in DOMAIN IntDefaults -> Parsed(e[v], Atoi, IntDefaults[v])
          [] v \in DOMAIN FloatDefaults -> Parsed(e[v], ParseFloat, FloatDefaults[v])
          [] v \in DOMAIN DurationDefaults -> Parsed(e[v], ParseDuration, DurationDefaults[v])
          [] v \in DOMAIN BoolDefaults -> getEnvBool(e[v], BoolDefaults[v])
          [] v \in DOMAIN CSVDefaults -> Parsed(e[v], SplitCSV, CSVDefaults[v])
          [] v \in {"LOG_LEVEL", "LOG_FORMAT", "OTEL_TRACES_EXPORTER"}
                -> ToLower(getEnv(e[v], strings[v]))
          [] v \in Secrets -> Secret(e, v)
          [] OTHER -> getEnv(e[v], strings[v])]

---------------------------------------------------------------------------
(* Validate: the variables its messages name *)

If(condition, names) == IF condition THEN names ELSE {}

\* The variables whose texts are read again, by the parser they need.
Reread ==
    LET ints == {"SERVER_PORT", "DATABASE_MAX_OPEN_CONNS", "DATABASE_MAX_IDLE_CONNS",
                 "RATE_LIMIT_BURST", "MAX_REQUEST_BODY_BYTES", "ADMIN_PORT"}
        durations == DOMAIN DurationDefaults
    IN [v \in ints \cup durations \cup {"RATE_LIMIT_RPS"} |->
           IF v \in ints THEN DOMAIN Atoi
           ELSE IF v \in durations THEN DOMAIN ParseDuration ELSE DOMAIN ParseFloat]

validateParsing(e) == {v \in DOMAIN Reread : e[v] # "" /\ e[v] \notin Reread[v]}

Ports == 1 .. 65535

validateServer(c) ==
    If(c["SERVER_PORT"] \notin Ports, {"SERVER_PORT"})
    \cup If(c["SERVER_SHUTDOWN_TIMEOUT"] <= 0, {"SERVER_SHUTDOWN_TIMEOUT"})

validateDatabase(c) ==
    If(c["DATABASE_TYPE"] \notin {"sqlite", "postgres"}, {"DATABASE_TYPE"})
    \cup If(c["DATABASE_DSN"] = "", {"DATABASE_DSN"})
    \cup If(c["DATABASE_MAX_OPEN_CONNS"] < 1, {"DATABASE_MAX_OPEN_CONNS"})
    \cup If(c["DATABASE_MAX_IDLE_CONNS"] > c["DATABASE_MAX_OPEN_CONNS"],
            {"DATABASE_MAX_IDLE_CONNS", "DATABASE_MAX_OPEN_CONNS"})

ShortSecrets == {"", "short"}

validateAuth(c) ==
    If(c["JWT_ACCESS_TTL"] <= 0, {"JWT_ACCESS_TTL"})
    \cup If(c["JWT_REFRESH_TTL"] <= c["JWT_ACCESS_TTL"], {"JWT_REFRESH_TTL", "JWT_ACCESS_TTL"})
    \cup If(~ c["DEV_MODE"],
            {v \in Secrets : c[v] \in ShortSecrets}
            \cup If(c["JWT_ACCESS_SECRET"] # "" /\ c["JWT_ACCESS_SECRET"] = c["JWT_REFRESH_SECRET"],
                    {"JWT_ACCESS_SECRET", "JWT_REFRESH_SECRET"})
            \cup If("*" \in c["ALLOWED_ORIGINS"], {"ALLOWED_ORIGINS"}))

validateLog(c) ==
    If(c["LOG_LEVEL"] \notin {"debug", "info", "warn", "warning", "error"}, {"LOG_LEVEL"})
    \cup If(c["LOG_FORMAT"] \notin {"json", "text"}, {"LOG_FORMAT"})

\* strings.Contains on the few endpoints there are.
isLoopbackEndpoint(endpoint) ==
    endpoint \in {"http://localhost:4318", "http://127.0.0.1:4318"}

validateTracing(c) ==
    LET exporter == c["OTEL_TRACES_EXPORTER"]
        endpoint == c["OTEL_EXPORTER_OTLP_ENDPOINT"]
        ratio == c["OTEL_TRACES_SAMPLER_ARG"]
    IN If(c["OTEL_ENABLED"],
          If(exporter \notin {"otlp", "console", "stdout"}, {"OTEL_TRACES_EXPORTER"})
          \cup If(exporter = "otlp" /\ endpoint = "", {"OTEL_EXPORTER_OTLP_ENDPOINT"})
          \cup If(Less(ratio, Float(0)) \/ Less(Float(100), ratio), {"OTEL_TRACES_SAMPLER_ARG"})
          \cup If(c["OTEL_SERVICE_NAME"] = "", {"OTEL_SERVICE_NAME"})
          \cup If(/\ ~ c["DEV_MODE"] /\ c["OTEL_EXPORTER_OTLP_INSECURE"]
                  /\ exporter = "otlp" /\ ~ isLoopbackEndpoint(endpoint),
                  {"OTEL_EXPORTER_OTLP_INSECURE"}))

validateTokenLifetimes(c) ==
    If(c["CSRF_TOKEN_TTL"] <= 0, {"CSRF_TOKEN_TTL"})
    \cup If(c["REFRESH_TOKEN_PURGE_INTERVAL"] < 0, {"REFRESH_TOKEN_PURGE_INTERVAL"})

isLoopbackHost(host) ==
    host \in {"localhost", "127.0.0.1", "::1", "[::1]"} \/ Parsed(host, IsLoopbackIP, FALSE)

\* NewAdminServer builds a listener for either of the two.
HasAdmin(c) == c["METRICS_ENABLED"] \/ c["PPROF_ENABLED"]

validateObservability(c) ==
    If(HasAdmin(c),
       If(c["ADMIN_PORT"] \notin Ports \/ c["ADMIN_PORT"] = c["SERVER_PORT"], {"ADMIN_PORT"})
       \cup If(c["ADMIN_HOST"] = "", {"ADMIN_HOST"})
       \cup If(~ c["DEV_MODE"] /\ c["PPROF_ENABLED"] /\ ~ isLoopbackHost(c["ADMIN_HOST"]),
               {"PPROF_ENABLED", "ADMIN_HOST"}))

\* Variant: what is wrong with the server and the database is told first.
ValidateInStages(e) ==
    LET c == NewConfig(e)
        first == validateParsing(e) \cup validateServer(c) \cup validateDatabase(c)
    IN IF first # {} THEN first
       ELSE validateAuth(c) \cup validateLog(c) \cup validateTracing(c)
            \cup validateObservability(c) \cup validateTokenLifetimes(c)

\* Every problem at once.
Validate(e) ==
    LET c == NewConfig(e)
    IN UNION {validateParsing(e), validateServer(c), validateDatabase(c), validateAuth(c),
              validateLog(c), validateTracing(c), validateObservability(c),
              validateTokenLifetimes(c)}

orDefault(value, fallback) == IF value = "" THEN fallback ELSE value

\* The keys of the services the container builds.
Keys(e) == [v \in Secrets |-> orDefault(NewConfig(e)[v], DevKeys[v])]

---------------------------------------------------------------------------
(* The operator and the process *)

\* What the operator writes: readable and unreadable texts, and the edges.
Texts(v) ==
    CASE v \in DOMAIN IntDefaults -> {"", "abc", "-1", "0", "2", "30", "8080", "9090", "70000"}
      [] v \in DOMAIN FloatDefaults -> {"", "abc", "-1", "0.5", "2", "NaN"}
      [] v \in DOMAIN DurationDefaults -> {"", "10", "0", "-5s", "10s", "200h", "300h"}
      [] v \in DOMAIN BoolDefaults -> {"", "true", "yes", "True", "false"}
      [] v \in Secrets -> {"", "short", "long1", "long2", "long3"}
      [] v = "ALLOWED_ORIGINS" -> {"", "*", "https://app", "https://app, *"}
      [] v = "DATABASE_TYPE" -> {"", "postgres", "mysql"}
      [] v = "LOG_LEVEL" -> {"", "INFO", "trace"}
      [] v = "LOG_FORMAT" -> {"", "TEXT", "xml"}
      [] v = "ADMIN_HOST" -> {"", "localhost", "127.0.0.2", "0.0.0.0", "admin"}
      [] v = "OTEL_TRACES_EXPORTER" -> {"", "Console", "zipkin"}
      [] v = "OTEL_EXPORTER_OTLP_ENDPOINT" -> {"", "http://127.0.0.1:4318", "https://collector"}
      [] OTHER -> {"", "other"}

Set(v) ==
    /\ edits < MaxEdits /\ boot.outcome = "none"
    /\ \E x \in Texts(v) \ {env[v]} : env' = [env EXCEPT ![v] = x]
    /\ edits' = edits + 1
    /\ UNCHANGED boot

\* main: NewConfig, then NewContainer, which validates before anything else.
Start ==
    /\ boot.outcome = "none"
    /\ boot' = [outcome |-> IF Validate(env) = {} THEN "up" ELSE "refused",
                reported |-> Validate(env)]
    /\ UNCHANGED <<env, edits>>

---------------------------------------------------------------------------
Unset == [v \in Vars |-> ""]

Production ==
    [Unset EXCEPT !["JWT_ACCESS_SECRET"] = "long1", !["JWT_REFRESH_SECRET"] = "long2",
                  !["CSRF_SECRET"] = "long3"]

\* Nothing set, development, a plain deployment, one with everything on.
Init ==
    /\ env \in {Unset, [Unset EXCEPT !["DEV_MODE"] = "true"], Production,
                [Production EXCEPT !["METRICS_ENABLED"] = "true", !["PPROF_ENABLED"] = "true",
                                   !["OTEL_ENABLED"] = "true"]}
    /\ edits = 0 /\ boot = [outcome |-> "none", reported |-> {}]

Next == Start \/ \E v \in Vars : Set(v)

Spec == Init /\ [][Next]_vars

---------------------------------------------------------------------------
(* Properties *)

Up == boot.outcome = "up"

\* Type correctness; a process that is up reported nothing.
TypeOK ==
    /\ DOMAIN env = Vars /\ \A v \in Vars : env[v] \in Texts(v)
    /\ edits \in 0 .. MaxEdits
    /\ boot \in [outcome : {"none", "up", "refused"}, reported : SUBSET Vars]
    /\ boot.outcome = "refused" <=> boot.reported # {}

\* What an operator puts right a variable with.
Repair ==
    [Unset EXCEPT !["JWT_ACCESS_SECRET"] = "new1", !["JWT_REFRESH_SECRET"] = "new2",
                  !["CSRF_SECRET"] = "new3", !["SERVER_PORT"] = "8081", !["ADMIN_PORT"] = "9091",
                  !["JWT_ACCESS_TTL"] = "1s", !["JWT_REFRESH_TTL"] = "300h",
                  !["OTEL_EXPORTER_OTLP_INSECURE"] = "false"]

\* What Validate says once every variable it named has been put right.
SecondReport ==
    Validate([v \in Vars |-> IF v \in boot.reported THEN Repair[v] ELSE env[v]])

\* One start finds every problem there is, but for the two rules that compare
\* a variable with one another rule has just refused: the order of the JWT
\* lifetimes and the encryption of the exporter (config_validate.go 24-41).
OnePassButCoupled ==
    boot.outcome = "refused" =>
        SecondReport \subseteq {"JWT_ACCESS_TTL", "JWT_REFRESH_TTL", "OTEL_EXPORTER_OTLP_INSECURE"}

\* One start finds every problem there is (config_validate.go 18-19).
OnePassSuffices ==
    boot.outcome = "refused" => SecondReport = {}

Unreported == {"AUTH_RATE_LIMIT_BURST", "AUTH_RATE_LIMIT_RPS", "OTEL_TRACES_SAMPLER_ARG"}

\* A process that starts runs with what the operator wrote. No number or
\* duration gave way to a default, but for the three variables that are not
\* read again (config_validate.go 43-81); outside development no key gave way
\* to one of those in the source, and the two kinds of JWT have different ones
\* (config_validate.go 132-154, container.go 122-124).
RunsAsWritten ==
    LET c == NewConfig(env)
        asWritten(v, table) ==
            env[v] = "" \/ (env[v] \in DOMAIN table /\ c[v] = table[env[v]])
    IN Up =>
        /\ \A v \in DOMAIN IntDefaults \ Unreported : asWritten(v, Atoi)
        /\ \A v \in DOMAIN FloatDefaults \ Unreported : asWritten(v, ParseFloat)
        /\ \A v \in DOMAIN DurationDefaults : asWritten(v, ParseDuration)
        /\ ~ c["DEV_MODE"] =>
              /\ \A v \in Secrets : Keys(env)[v] = env[v] /\ env[v] \notin ShortSecrets
              /\ Keys(env)["JWT_ACCESS_SECRET"] # Keys(env)["JWT_REFRESH_SECRET"]

\* No text that NewConfig could not read is replaced by a default in silence
\* (config_validate.go 43-44).
DiscardedIsReported ==
    boot.outcome # "none" =>
        \A v \in Vars :
            /\ v \in DOMAIN IntDefaults /\ env[v] # ""
                    => env[v] \in DOMAIN Atoi \/ v \in boot.reported
            /\ v \in DOMAIN FloatDefaults /\ env[v] # ""
                    => env[v] \in DOMAIN ParseFloat \/ v \in boot.reported
            /\ v \in DOMAIN DurationDefaults /\ env[v] # ""
                    => env[v] \in DOMAIN ParseDuration \/ v \in boot.reported

\* A process that traces keeps a fraction of the traces between 0 and 1
\* (README.md 315).
SampleRatioIsFraction ==
    Up /\ NewConfig(env)["OTEL_ENABLED"] =>
        \E n \in 0 .. 100 : NewConfig(env)["OTEL_TRACES_SAMPLER_ARG"] = Float(n)
============================================================================
