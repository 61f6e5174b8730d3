---------------------------- MODULE ConfigProofs ----------------------------
(***************************************************************************)
(* What a start of the process guarantees, and what a refusal tells, after *)
(* any number of edits: for every environment made of the texts.           *)
(***************************************************************************)
EXTENDS Config, TLAPS

---------------------------------------------------------------------------
(* The kinds of variables *)

Ints == {"SERVER_PORT", "DATABASE_MAX_OPEN_CONNS", "DATABASE_MAX_IDLE_CONNS",
         "RATE_LIMIT_BURST", "AUTH_RATE_LIMIT_BURST", "MAX_REQUEST_BODY_BYTES", "ADMIN_PORT"}
Floats == {"RATE_LIMIT_RPS", "AUTH_RATE_LIMIT_RPS", "OTEL_TRACES_SAMPLER_ARG"}
Durations ==
    {"SERVER_READ_TIMEOUT", "SERVER_WRITE_TIMEOUT", "SERVER_IDLE_TIMEOUT",
     "SERVER_SHUTDOWN_TIMEOUT", "SERVER_REQUEST_TIMEOUT", "DATABASE_CONN_MAX_LIFETIME",
     "JWT_ACCESS_TTL", "JWT_REFRESH_TTL", "CSRF_TOKEN_TTL", "REFRESH_TOKEN_PURGE_INTERVAL"}
Bools == {"DEV_MODE", "DATABASE_AUTO_MIGRATE", "RATE_LIMIT_ENABLED", "METRICS_ENABLED",
          "PPROF_ENABLED", "OTEL_ENABLED", "OTEL_EXPORTER_OTLP_INSECURE"}
Lowered == {"LOG_LEVEL", "LOG_FORMAT", "OTEL_TRACES_EXPORTER"}
Plain == {"SERVER_HOST", "DATABASE_DSN", "DATABASE_TYPE", "DATABASE_LOG_LEVEL", "ADMIN_HOST",
          "OTEL_SERVICE_NAME", "OTEL_SERVICE_VERSION", "OTEL_ENVIRONMENT",
          "OTEL_EXPORTER_OTLP_ENDPOINT"}
Lists == {"ALLOWED_ORIGINS", "TRUSTED_PROXIES"}
Keyed == {"JWT_ACCESS_SECRET", "JWT_REFRESH_SECRET", "CSRF_SECRET"}

LEMMA Kinds ==
    /\ DOMAIN IntDefaults = Ints /\ DOMAIN FloatDefaults = Floats
    /\ DOMAIN DurationDefaults = Durations /\ DOMAIN BoolDefaults = Bools
    /\ DOMAIN CSVDefaults = Lists /\ Secrets = Keyed
    /\ \A dev : DOMAIN StringDefaults(dev) = Plain \cup Lowered
<1>1. DOMAIN IntDefaults = Ints
    BY DEF IntDefaults, Ints
<1>2. DOMAIN FloatDefaults = Floats
    BY DEF FloatDefaults, Floats
<1>3. DOMAIN DurationDefaults = Durations
    BY DEF DurationDefaults, Durations
<1>4. DOMAIN BoolDefaults = Bools
    BY DEF BoolDefaults, Bools
<1>5. DOMAIN CSVDefaults = Lists
    BY DEF CSVDefaults, Lists
<1>6. Secrets = Keyed
    BY DEF Secrets, DevKeys, Keyed
<1>7. \A dev : DOMAIN StringDefaults(dev) = Plain \cup Lowered
    BY DEF StringDefaults, Plain, Lowered
<1> QED BY <1>1, <1>2, <1>3, <1>4, <1>5, <1>6, <1>7

LEMMA AllKinds ==
    Vars = UNION {Ints, Floats, Durations, Bools, Lowered, Plain, Lists, Keyed}
<1>1. Vars = UNION {Ints, Floats, Durations, Bools, Plain \cup Lowered, Lists, Keyed}
    BY Kinds, Zenon DEF Vars
<1> QED BY <1>1

\* A variable has one kind.
LEMMA OneKind ==
    /\ Ints \cap (Floats \cup Durations \cup Bools \cup Lists \cup Lowered \cup Keyed \cup Plain) = {}
    /\ Floats \cap (Durations \cup Bools \cup Lists \cup Lowered \cup Keyed \cup Plain) = {}
    /\ Durations \cap (Bools \cup Lists \cup Lowered \cup Keyed \cup Plain) = {}
    /\ Bools \cap (Lists \cup Lowered \cup Keyed \cup Plain) = {}
    /\ Lists \cap (Lowered \cup Keyed \cup Plain) = {}
    /\ Lowered \cap (Keyed \cup Plain) = {} /\ Keyed \cap Plain = {}
BY DEF Ints, Floats, Durations, Bools, Lists, Lowered, Keyed, Plain

\* How NewConfig reads each kind.
LEMMA Values ==
    ASSUME NEW e
    PROVE  /\ \A v \in Ints : NewConfig(e)[v] = Parsed(e[v], Atoi, IntDefaults[v])
           /\ \A v \in Floats : NewConfig(e)[v] = Parsed(e[v], ParseFloat, FloatDefaults[v])
           /\ \A v \in Durations : NewConfig(e)[v] = Parsed(e[v], ParseDuration, DurationDefaults[v])
           /\ \A v \in Bools : NewConfig(e)[v] = getEnvBool(e[v], BoolDefaults[v])
           /\ \A v \in Lists : NewConfig(e)[v] = Parsed(e[v], SplitCSV, CSVDefaults[v])
           /\ \A v \in Keyed : NewConfig(e)[v] = e[v]
           /\ \A v \in Lowered : NewConfig(e)[v] =
                  ToLower(getEnv(e[v], StringDefaults(getEnvBool(e["DEV_MODE"], FALSE))[v]))
           /\ \A v \in Plain : NewConfig(e)[v] =
                  getEnv(e[v], StringDefaults(getEnvBool(e["DEV_MODE"], FALSE))[v])
<1>0. Lowered = {"LOG_LEVEL", "LOG_FORMAT", "OTEL_TRACES_EXPORTER"}
    BY DEF Lowered
<1>1. ASSUME NEW v \in Ints
      PROVE  NewConfig(e)[v] = Parsed(e[v], Atoi, IntDefaults[v])
    <2>1. /\ v \in Vars /\ v \notin Floats /\ v \notin Durations /\ v \notin Bools
          /\ v \notin Lists /\ v \notin Lowered /\ v \notin Keyed /\ v \notin Plain
        BY AllKinds, OneKind
    <2> QED BY <1>0, <2>1, Kinds, Zenon DEF NewConfig
<1>2. ASSUME NEW v \in Floats
      PROVE  NewConfig(e)[v] = Parsed(e[v], ParseFloat, FloatDefaults[v])
    <2>1. /\ v \in Vars /\ v \notin Ints /\ v \notin Durations /\ v \notin Bools
          /\ v \notin Lists /\ v \notin Lowered /\ v \notin Keyed /\ v \notin Plain
        BY AllKinds, OneKind
    <2> QED BY <1>0, <2>1, Kinds, Zenon DEF NewConfig
<1>3. ASSUME NEW v \in Durations
      PROVE  NewConfig(e)[v] = Parsed(e[v], ParseDuration, DurationDefaults[v])
    <2>1. /\ v \in Vars /\ v \notin Ints /\ v \notin Floats /\ v \notin Bools
          /\ v \notin Lists /\ v \notin Lowered /\ v \notin Keyed /\ v \notin Plain
        BY AllKinds, OneKind
    <2> QED BY <1>0, <2>1, Kinds, Zenon DEF NewConfig
<1>4. ASSUME NEW v \in Bools
      PROVE  NewConfig(e)[v] = getEnvBool(e[v], BoolDefaults[v])
    <2>1. /\ v \in Vars /\ v \notin Ints /\ v \notin Floats /\ v \notin Durations
          /\ v \notin Lists /\ v \notin Lowered /\ v \notin Keyed /\ v \notin Plain
        BY AllKinds, OneKind
    <2> QED BY <1>0, <2>1, Kinds, Zenon DEF NewConfig
<1>5. ASSUME NEW v \in Lists
      PROVE  NewConfig(e)[v] = Parsed(e[v], SplitCSV, CSVDefaults[v])
    <2>1. /\ v \in Vars /\ v \notin Ints /\ v \notin Floats /\ v \notin Durations
          /\ v \notin Bools /\ v \notin Lowered /\ v \notin Keyed /\ v \notin Plain
        BY AllKinds, OneKind
    <2> QED BY <1>0, <2>1, Kinds, Zenon DEF NewConfig
<1>6. ASSUME NEW v \in Lowered
      PROVE  NewConfig(e)[v] =
                 ToLower(getEnv(e[v], StringDefaults(getEnvBool(e["DEV_MODE"], FALSE))[v]))
    <2>1. /\ v \in Vars /\ v \notin Ints /\ v \notin Floats /\ v \notin Durations
          /\ v \notin Bools /\ v \notin Lists /\ v \notin Keyed /\ v \notin Plain
        BY AllKinds, OneKind
    <2> QED BY <1>0, <2>1, Kinds, Zenon DEF NewConfig
<1>7. ASSUME NEW v \in Keyed
      PROVE  NewConfig(e)[v] = e[v]
    <2>1. /\ v \in Vars /\ v \notin Ints /\ v \notin Floats /\ v \notin Durations
          /\ v \notin Bools /\ v \notin Lists /\ v \notin Lowered /\ v \notin Plain
        BY AllKinds, OneKind
    <2> QED BY <1>0, <2>1, Kinds, Zenon DEF NewConfig, Secret
<1>8. ASSUME NEW v \in Plain
      PROVE  NewConfig(e)[v] = getEnv(e[v], StringDefaults(getEnvBool(e["DEV_MODE"], FALSE))[v])
    <2>1. /\ v \in Vars /\ v \notin Ints /\ v \notin Floats /\ v \notin Durations
          /\ v \notin Bools /\ v \notin Lists /\ v \notin Lowered /\ v \notin Keyed
        BY AllKinds, OneKind
    <2> QED BY <1>0, <2>1, Kinds, Zenon DEF NewConfig
<1> QED BY <1>1, <1>2, <1>3, <1>4, <1>5, <1>6, <1>7, <1>8

---------------------------------------------------------------------------
(* What texts mean *)

IntTexts == {"", "abc", "-1", "0", "2", "30", "8080", "9090", "70000"}
KeyTexts == {"", "short", "long1", "long2", "long3"}
BoolTexts == {"", "true", "yes", "True", "false"}

LEMMA TextsOfKinds ==
    /\ \A v \in Ints : Texts(v) = IntTexts
    /\ \A v \in Keyed : Texts(v) = KeyTexts
    /\ \A v \in Bools : Texts(v) = BoolTexts
    /\ \A v \in Vars : "" \in Texts(v)
<1> DEFINE Named == {"ALLOWED_ORIGINS", "DATABASE_TYPE", "LOG_LEVEL", "LOG_FORMAT", "ADMIN_HOST",
                     "OTEL_TRACES_EXPORTER", "OTEL_EXPORTER_OTLP_ENDPOINT"}
<1>0. Named \subseteq Lists \cup Lowered \cup Plain
    BY DEF Lists, Lowered, Plain
<1>1. ASSUME NEW v \in Ints PROVE Texts(v) = IntTexts
    <2>1. v \notin Floats /\ v \notin Durations /\ v \notin Bools /\ v \notin Keyed /\ v \notin Named
        BY <1>0, OneKind
    <2> QED BY <2>1, Kinds, Zenon DEF Texts, IntTexts
<1>2. ASSUME NEW v \in Keyed PROVE Texts(v) = KeyTexts
    <2>1. v \notin Ints /\ v \notin Floats /\ v \notin Durations /\ v \notin Bools /\ v \notin Named
        BY <1>0, OneKind
    <2> QED BY <2>1, Kinds, Zenon DEF Texts, KeyTexts
<1>3. ASSUME NEW v \in Bools PROVE Texts(v) = BoolTexts
    <2>1. v \notin Ints /\ v \notin Floats /\ v \notin Durations /\ v \notin Keyed /\ v \notin Named
        BY <1>0, OneKind
    <2> QED BY <2>1, Kinds, Zenon DEF Texts, BoolTexts
<1>4. \A v \in Vars : "" \in Texts(v)
    BY Zenon DEF Texts
<1> QED BY <1>1, <1>2, <1>3, <1>4

LEMMA TableLines ==
    ASSUME NEW lines
    PROVE  /\ DOMAIN Table(lines) = {l[1] : l \in lines}
           /\ \A x \in DOMAIN Table(lines) : \E l \in lines : l[1] = x /\ Table(lines)[x] = l[2]
BY DEF Table

LEMMA AtoiLines ==
    /\ DOMAIN Atoi = {"-1", "0", "2", "30", "8080", "8081", "9090", "9091", "70000"}
    /\ \A t \in DOMAIN Atoi : Atoi[t] \in Int
    /\ Atoi["8081"] = 8081 /\ Atoi["9091"] = 9091
    /\ \A t \in DOMAIN Atoi : Atoi[t] \in {8081, 9091} => t \in {"8081", "9091"}
<1> DEFINE lines ==
               {<<"-1", -1>>, <<"0", 0>>, <<"2", 2>>, <<"30", 30>>, <<"8080", 8080>>,
                <<"8081", 8081>>, <<"9090", 9090>>, <<"9091", 9091>>, <<"70000", 70000>>}
<1>1. Atoi = Table(lines)
    BY DEF Atoi
<1> HIDE DEF lines
<1>2. /\ DOMAIN Atoi = {l[1] : l \in lines}
      /\ \A x \in DOMAIN Atoi : \E l \in lines : l[1] = x /\ Atoi[x] = l[2]
    BY <1>1, TableLines
<1>3. DOMAIN Atoi = {"-1", "0", "2", "30", "8080", "8081", "9090", "9091", "70000"}
    BY <1>2 DEF lines
<1>4. \A t \in DOMAIN Atoi : Atoi[t] \in Int
    BY <1>2 DEF lines
<1>5. Atoi["8081"] = 8081 /\ Atoi["9091"] = 9091
    BY <1>2, <1>3 DEF lines
<1>6. \A t \in DOMAIN Atoi : Atoi[t] \in {8081, 9091} => t \in {"8081", "9091"}
    <2>1. \A l \in lines : l[2] \in {8081, 9091} => l[1] \in {"8081", "9091"}
        BY DEF lines
    <2> QED BY <1>2, <2>1
<1> QED BY <1>3, <1>4, <1>5, <1>6

\* A text that is not set is none that a parser reads.
LEMMA UnsetIsUnread ==
    /\ "" \notin DOMAIN ParseDuration /\ "" \notin DOMAIN ParseFloat
    /\ "" \notin DOMAIN SplitCSV /\ "" \notin DOMAIN Atoi
<1>1. "" \notin DOMAIN ParseDuration
    <2> DEFINE lines == {<<"0", 0>>, <<"-5s", -5>>, <<"1s", 1>>, <<"10s", 10>>, <<"5m", 300>>,
                         <<"200h", 720000>>, <<"300h", 1080000>>}
    <2>1. ParseDuration = Table(lines) /\ \A l \in lines : l[1] # ""
        BY SMT DEF ParseDuration
    <2> HIDE DEF lines
    <2>2. DOMAIN ParseDuration = {l[1] : l \in lines}
        BY <2>1, TableLines
    <2> QED BY <2>1, <2>2
<1>2. "" \notin DOMAIN ParseFloat
    <2> DEFINE lines == {<<"-1", Float(-100)>>, <<"0", Float(0)>>, <<"2", Float(200)>>,
                         <<"0.5", Float(50)>>, <<"NaN", NaN>>}
    <2>1. ParseFloat = Table(lines) /\ \A l \in lines : l[1] # ""
        BY SMT DEF ParseFloat
    <2> HIDE DEF lines
    <2>2. DOMAIN ParseFloat = {l[1] : l \in lines}
        BY <2>1, TableLines
    <2> QED BY <2>1, <2>2
<1>3. "" \notin DOMAIN SplitCSV
    <2> DEFINE lines == {<<"*", {"*"}>>, <<"https://app, *", {"https://app", "*"}>>,
                         <<"https://app", {"https://app"}>>, <<"other", {"other"}>>}
    <2>1. SplitCSV = Table(lines) /\ \A l \in lines : l[1] # ""
        BY SMT DEF SplitCSV
    <2> HIDE DEF lines
    <2>2. DOMAIN SplitCSV = {l[1] : l \in lines}
        BY <2>1, TableLines
    <2> QED BY <2>1, <2>2
<1>4. "" \notin DOMAIN Atoi
    BY AtoiLines, SMT
<1> QED BY <1>1, <1>2, <1>3, <1>4

\* Lower-case texts stay as they are.
LEMMA LowerCase ==
    ASSUME NEW t, t \notin {"INFO", "TEXT", "Console"}
    PROVE  ToLower(t) = t
<1> DEFINE lines == {<<"INFO", "info">>, <<"TEXT", "text">>, <<"Console", "console">>}
<1>1. Lower = Table(lines) /\ \A l \in lines : l[1] \in {"INFO", "TEXT", "Console"}
    BY DEF Lower
<1> HIDE DEF lines
<1>2. DOMAIN Lower = {l[1] : l \in lines}
    BY <1>1, TableLines
<1>3. t \notin DOMAIN Lower
    BY <1>1, <1>2
<1> QED BY <1>3, Zenon DEF ToLower

---------------------------------------------------------------------------
(* The inductive invariant *)

\* The operator writes texts; what was started or refused is what Validate says
\* of the environment, which does not change any more.
Inv ==
    /\ DOMAIN env = Vars /\ \A v \in Vars : env[v] \in Texts(v)
    /\ edits \in 0 .. MaxEdits
    /\ \/ boot = [outcome |-> "none", reported |-> {}]
       \/ boot = [outcome |-> IF Validate(env) = {} THEN "up" ELSE "refused",
                  reported |-> Validate(env)]

LEMMA InitInv ==
    ASSUME Init
    PROVE  Inv
<1>1. edits \in 0 .. MaxEdits /\ boot = [outcome |-> "none", reported |-> {}]
    BY MaxEditsAssumption DEF Init
<1>2. \A v \in Keyed : {"long1", "long2", "long3"} \subseteq Texts(v) /\ v \in Vars
    BY TextsOfKinds, AllKinds DEF KeyTexts
<1>3. \A v \in {"DEV_MODE", "METRICS_ENABLED", "PPROF_ENABLED", "OTEL_ENABLED"} :
          "true" \in Texts(v) /\ v \in Vars
    <2>1. {"DEV_MODE", "METRICS_ENABLED", "PPROF_ENABLED", "OTEL_ENABLED"} \subseteq Bools
        BY DEF Bools
    <2>2. "true" \in BoolTexts
        BY DEF BoolTexts
    <2> QED BY <2>1, <2>2, TextsOfKinds, AllKinds
<1>4. DOMAIN Unset = Vars /\ \A v \in Vars : Unset[v] \in Texts(v)
    BY TextsOfKinds DEF Unset
<1>5. DOMAIN Production = Vars /\ \A v \in Vars : Production[v] \in Texts(v)
    BY <1>2, <1>4 DEF Production, Keyed
<1>6. DOMAIN env = Vars /\ \A v \in Vars : env[v] \in Texts(v)
    BY <1>3, <1>4, <1>5 DEF Init
<1> QED BY <1>1, <1>6 DEF Inv

LEMMA NextInv ==
    ASSUME Inv, [Next]_vars
    PROVE  Inv'
<1>1. ASSUME NEW v \in Vars, Set(v) PROVE Inv'
    <2>1. PICK x \in Texts(v) : env' = [env EXCEPT ![v] = x]
        BY <1>1 DEF Set
    <2>2. DOMAIN env' = Vars /\ \A w \in Vars : env'[w] \in Texts(w)
        BY <2>1 DEF Inv
    <2>3. edits' \in 0 .. MaxEdits
        BY <1>1, MaxEditsAssumption DEF Set, Inv
    <2>4. boot.outcome # "none" => boot.outcome \in {"up", "refused"}
        BY DEF Inv
    <2>5. boot = [outcome |-> "none", reported |-> {}] /\ boot' = boot
        BY <1>1 DEF Set, Inv
    <2> QED BY <2>2, <2>3, <2>5 DEF Inv
<1>2. CASE Start
    <2>1. env' = env /\ edits' = edits
        BY <1>2 DEF Start
    <2>2. boot' = [outcome |-> IF Validate(env) = {} THEN "up" ELSE "refused",
                   reported |-> Validate(env)]
        BY <1>2 DEF Start
    <2> QED BY <2>1, <2>2 DEF Inv
<1>3. CASE UNCHANGED vars
    <2>1. env' = env /\ edits' = edits /\ boot' = boot
        BY <1>3 DEF vars
    <2> QED BY <2>1 DEF Inv
<1> QED BY <1>1, <1>2, <1>3 DEF Next

LEMMA Inductive == Spec => []Inv
<1>1. Init => Inv
    BY InitInv
<1>2. Inv /\ [Next]_vars => Inv'
    BY NextInv
<1> QED BY <1>1, <1>2, PTL DEF Spec

---------------------------------------------------------------------------
(* A process that starts *)

\* What Validate reads again, it reads with the parser of the kind.
LEMMA RereadKinds ==
    /\ \A v \in Ints \ Unreported : v \in DOMAIN Reread /\ Reread[v] = DOMAIN Atoi
    /\ \A v \in Floats \ Unreported : v \in DOMAIN Reread /\ Reread[v] = DOMAIN ParseFloat
    /\ \A v \in Durations : v \in DOMAIN Reread /\ Reread[v] = DOMAIN ParseDuration
    /\ DOMAIN Reread = (Ints \ {"AUTH_RATE_LIMIT_BURST"}) \cup Durations \cup {"RATE_LIMIT_RPS"}
<1> DEFINE ints == {"SERVER_PORT", "DATABASE_MAX_OPEN_CONNS", "DATABASE_MAX_IDLE_CONNS",
                    "RATE_LIMIT_BURST", "MAX_REQUEST_BODY_BYTES", "ADMIN_PORT"}
<1>1. Reread = [v \in ints \cup Durations \cup {"RATE_LIMIT_RPS"} |->
                    IF v \in ints THEN DOMAIN Atoi
                    ELSE IF v \in Durations THEN DOMAIN ParseDuration ELSE DOMAIN ParseFloat]
    BY Kinds, Zenon DEF Reread
<1>2. ints = Ints \ {"AUTH_RATE_LIMIT_BURST"} /\ ints = Ints \ Unreported
    BY DEF Ints, Unreported
<1>3. /\ Floats \ Unreported = {"RATE_LIMIT_RPS"} /\ ints \cap Durations = {}
      /\ "RATE_LIMIT_RPS" \notin ints \cup Durations
    BY DEF Floats, Unreported, Durations
<1> HIDE DEF ints
<1> QED BY <1>1, <1>2, <1>3

\* What an environment in which Validate finds nothing looks like.
LEMMA NothingWrong ==
    ASSUME NEW e, Validate(e) = {}
    PROVE  validateParsing(e) = {} /\ validateAuth(NewConfig(e)) = {}
BY DEF Validate

\* A process that starts runs with the numbers, durations and keys the operator
\* wrote (config_validate.go 43-81 and 132-154, container.go 122-124).
THEOREM StartsAsWritten == Spec => []RunsAsWritten
<1>1. ASSUME Inv PROVE RunsAsWritten
    <2> DEFINE c == NewConfig(env)
    <2>1. SUFFICES ASSUME Up
                   PROVE  /\ \A v \in Ints \ Unreported :
                                env[v] = "" \/ (env[v] \in DOMAIN Atoi /\ c[v] = Atoi[env[v]])
                          /\ \A v \in Floats \ Unreported :
                                env[v] = "" \/ (env[v] \in DOMAIN ParseFloat /\ c[v] = ParseFloat[env[v]])
                          /\ \A v \in Durations :
                                env[v] = "" \/ (env[v] \in DOMAIN ParseDuration
                                                /\ c[v] = ParseDuration[env[v]])
                          /\ ~c["DEV_MODE"] =>
                                /\ \A v \in Keyed : Keys(env)[v] = env[v] /\ env[v] \notin ShortSecrets
                                /\ Keys(env)["JWT_ACCESS_SECRET"] # Keys(env)["JWT_REFRESH_SECRET"]
        BY Kinds, Zenon DEF RunsAsWritten
    <2>2. Validate(env) = {}
        BY <1>1, <2>1 DEF Inv, Up
    <2>3. validateParsing(env) = {} /\ validateAuth(c) = {}
        BY <2>2, NothingWrong
    <2>4. \A v \in DOMAIN Reread : env[v] = "" \/ env[v] \in Reread[v]
        BY <2>3 DEF validateParsing
    <2>5. ASSUME NEW v \in Ints \ Unreported
          PROVE  env[v] = "" \/ (env[v] \in DOMAIN Atoi /\ c[v] = Atoi[env[v]])
        <3>1. c[v] = Parsed(env[v], Atoi, IntDefaults[v])
            BY Values
        <3>2. env[v] = "" \/ env[v] \in DOMAIN Atoi
            BY <2>4, RereadKinds
        <3> QED BY <3>1, <3>2, Zenon DEF Parsed
    <2>6. ASSUME NEW v \in Floats \ Unreported
          PROVE  env[v] = "" \/ (env[v] \in DOMAIN ParseFloat /\ c[v] = ParseFloat[env[v]])
        <3>1. c[v] = Parsed(env[v], ParseFloat, FloatDefaults[v])
            BY Values
        <3>2. env[v] = "" \/ env[v] \in DOMAIN ParseFloat
            BY <2>4, RereadKinds
        <3> QED BY <3>1, <3>2, Zenon DEF Parsed
    <2>7. ASSUME NEW v \in Durations
          PROVE  env[v] = "" \/ (env[v] \in DOMAIN ParseDuration /\ c[v] = ParseDuration[env[v]])
        <3>1. c[v] = Parsed(env[v], ParseDuration, DurationDefaults[v])
            BY Values
        <3>2. env[v] = "" \/ env[v] \in DOMAIN ParseDuration
            BY <2>4, RereadKinds
        <3> QED BY <3>1, <3>2, Zenon DEF Parsed
    <2>8. ASSUME ~c["DEV_MODE"]
          PROVE  /\ \A v \in Keyed : Keys(env)[v] = env[v] /\ env[v] \notin ShortSecrets
                 /\ Keys(env)["JWT_ACCESS_SECRET"] # Keys(env)["JWT_REFRESH_SECRET"]
        <3>1. \A v \in Keyed : c[v] = env[v]
            BY Values
        <3>2. /\ {v \in Secrets : c[v] \in ShortSecrets} = {}
              /\ ~(c["JWT_ACCESS_SECRET"] # "" /\ c["JWT_ACCESS_SECRET"] = c["JWT_REFRESH_SECRET"])
            <4> HIDE DEF c
            <4> QED BY <2>3, <2>8 DEF validateAuth, If
        <3>3. \A v \in Keyed : env[v] \notin ShortSecrets
            BY <3>1, <3>2, Kinds
        <3>4. \A v \in Keyed : Keys(env)[v] = env[v]
            <4>1. \A v \in Keyed : env[v] # ""
                BY <3>3 DEF ShortSecrets
            <4>2. \A v \in Keyed : Keys(env)[v] = orDefault(c[v], DevKeys[v])
                BY Kinds, Zenon DEF Keys
            <4> QED BY <3>1, <4>1, <4>2, Zenon DEF orDefault
        <3>5. "JWT_ACCESS_SECRET" \in Keyed /\ "JWT_REFRESH_SECRET" \in Keyed
            BY DEF Keyed
        <3> HIDE DEF c
        <3> QED BY <3>1, <3>2, <3>3, <3>4, <3>5, Zenon DEF ShortSecrets
    <2> HIDE DEF c
    <2> QED BY <2>5, <2>6, <2>7, <2>8
<1> QED BY <1>1, Inductive, PTL

---------------------------------------------------------------------------
(* A refusal *)

\* The switches that decide which rules apply are never reported.
Switches == {"DEV_MODE", "METRICS_ENABLED", "OTEL_ENABLED"}

\* What each group of rules names.
LEMMA Named ==
    ASSUME NEW c
    PROVE  /\ validateServer(c) \subseteq {"SERVER_PORT", "SERVER_SHUTDOWN_TIMEOUT"}
           /\ validateDatabase(c) \subseteq {"DATABASE_TYPE", "DATABASE_DSN",
                                             "DATABASE_MAX_OPEN_CONNS", "DATABASE_MAX_IDLE_CONNS"}
           /\ validateAuth(c) \subseteq {"JWT_ACCESS_TTL", "JWT_REFRESH_TTL", "ALLOWED_ORIGINS"} \cup Keyed
           /\ validateLog(c) \subseteq {"LOG_LEVEL", "LOG_FORMAT"}
           /\ validateTracing(c) \subseteq {"OTEL_TRACES_EXPORTER", "OTEL_EXPORTER_OTLP_ENDPOINT",
                                            "OTEL_TRACES_SAMPLER_ARG", "OTEL_SERVICE_NAME",
                                            "OTEL_EXPORTER_OTLP_INSECURE"}
           /\ validateObservability(c) \subseteq {"ADMIN_PORT", "ADMIN_HOST", "PPROF_ENABLED"}
           /\ validateTokenLifetimes(c) \subseteq {"CSRF_TOKEN_TTL", "REFRESH_TOKEN_PURGE_INTERVAL"}
<1>1. validateServer(c) \subseteq {"SERVER_PORT", "SERVER_SHUTDOWN_TIMEOUT"}
    BY DEF validateServer, If
<1>2. validateDatabase(c) \subseteq {"DATABASE_TYPE", "DATABASE_DSN",
                                     "DATABASE_MAX_OPEN_CONNS", "DATABASE_MAX_IDLE_CONNS"}
    BY DEF validateDatabase, If
<1>3. validateAuth(c) \subseteq {"JWT_ACCESS_TTL", "JWT_REFRESH_TTL", "ALLOWED_ORIGINS"} \cup Keyed
    BY Kinds DEF validateAuth, If, Keyed
<1>4. validateLog(c) \subseteq {"LOG_LEVEL", "LOG_FORMAT"}
    BY DEF validateLog, If
<1>5. validateTracing(c) \subseteq {"OTEL_TRACES_EXPORTER", "OTEL_EXPORTER_OTLP_ENDPOINT",
                                    "OTEL_TRACES_SAMPLER_ARG", "OTEL_SERVICE_NAME",
                                    "OTEL_EXPORTER_OTLP_INSECURE"}
    BY DEF validateTracing, If
<1>6. validateObservability(c) \subseteq {"ADMIN_PORT", "ADMIN_HOST", "PPROF_ENABLED"}
    BY DEF validateObservability, If
<1>7. validateTokenLifetimes(c) \subseteq {"CSRF_TOKEN_TTL", "REFRESH_TOKEN_PURGE_INTERVAL"}
    BY DEF validateTokenLifetimes, If
<1> QED BY <1>1, <1>2, <1>3, <1>4, <1>5, <1>6, <1>7

\* A report is what the groups name.
LEMMA ReportOf ==
    ASSUME NEW e, NEW c, c = NewConfig(e)
    PROVE  Validate(e) = UNION {validateParsing(e), validateServer(c), validateDatabase(c),
                                validateAuth(c), validateLog(c), validateTracing(c),
                                validateObservability(c), validateTokenLifetimes(c)}
BY Zenon DEF Validate

LEMMA Reportable ==
    ASSUME NEW e
    PROVE  Validate(e) \subseteq Vars \ Switches
<1>1. validateParsing(e) \subseteq Vars \ Switches
    <2>1. Ints \cup Durations \cup {"RATE_LIMIT_RPS"} \subseteq Vars \ Switches
        BY AllKinds DEF Ints, Floats, Durations, Switches
    <2>2. validateParsing(e) \subseteq DOMAIN Reread
        BY DEF validateParsing
    <2> QED BY <2>1, <2>2, RereadKinds
<1>2. {"SERVER_PORT", "SERVER_SHUTDOWN_TIMEOUT", "DATABASE_MAX_OPEN_CONNS", "DATABASE_MAX_IDLE_CONNS",
       "JWT_ACCESS_TTL", "JWT_REFRESH_TTL", "CSRF_TOKEN_TTL", "REFRESH_TOKEN_PURGE_INTERVAL",
       "ADMIN_PORT", "OTEL_TRACES_SAMPLER_ARG"} \subseteq Vars \ Switches
    BY AllKinds DEF Ints, Floats, Durations, Switches
<1>3. {"DATABASE_TYPE", "DATABASE_DSN", "ALLOWED_ORIGINS", "LOG_LEVEL", "LOG_FORMAT",
       "OTEL_TRACES_EXPORTER", "OTEL_EXPORTER_OTLP_ENDPOINT", "OTEL_SERVICE_NAME", "ADMIN_HOST",
       "OTEL_EXPORTER_OTLP_INSECURE", "PPROF_ENABLED"} \cup Keyed \subseteq Vars \ Switches
    BY AllKinds DEF Plain, Lowered, Lists, Bools, Keyed, Switches
<1>4. PICK c : c = NewConfig(e)
    OBVIOUS
<1>5. /\ validateServer(c) \subseteq Vars \ Switches /\ validateDatabase(c) \subseteq Vars \ Switches
      /\ validateAuth(c) \subseteq Vars \ Switches /\ validateLog(c) \subseteq Vars \ Switches
      /\ validateTracing(c) \subseteq Vars \ Switches
      /\ validateObservability(c) \subseteq Vars \ Switches
      /\ validateTokenLifetimes(c) \subseteq Vars \ Switches
    BY <1>2, <1>3, Named
<1> QED BY <1>1, <1>4, <1>5, ReportOf

\* The types, after any number of edits: Validate names variables only, and a
\* start is refused exactly when it names one (config_validate.go 18-41).
THEOREM TypeCorrect == Spec => []TypeOK
<1>1. ASSUME Inv PROVE TypeOK
    <2>1. Validate(env) \subseteq Vars
        BY Reportable
    <2>2. /\ boot \in [outcome : {"none", "up", "refused"}, reported : SUBSET Vars]
          /\ boot.outcome = "refused" <=> boot.reported # {}
        BY <1>1, <2>1 DEF Inv
    <2> QED BY <1>1, <2>2 DEF Inv, TypeOK
<1> QED BY <1>1, Inductive, PTL

\* With what reported variables are put right.
LEMMA Repairs ==
    /\ Repair["SERVER_PORT"] = "8081" /\ Repair["ADMIN_PORT"] = "9091"
    /\ Repair["JWT_ACCESS_SECRET"] = "new1" /\ Repair["JWT_REFRESH_SECRET"] = "new2"
    /\ Repair["CSRF_SECRET"] = "new3"
    /\ \A v \in Vars \ ({"SERVER_PORT", "ADMIN_PORT", "JWT_ACCESS_TTL", "JWT_REFRESH_TTL",
                         "OTEL_EXPORTER_OTLP_INSECURE"} \cup Keyed) : Repair[v] = ""
<1>1. {"SERVER_PORT", "ADMIN_PORT", "JWT_ACCESS_TTL", "JWT_REFRESH_TTL",
       "OTEL_EXPORTER_OTLP_INSECURE", "JWT_ACCESS_SECRET", "JWT_REFRESH_SECRET", "CSRF_SECRET"}
          \subseteq Vars
    BY AllKinds DEF Ints, Durations, Bools, Keyed
<1>2. DOMAIN Unset = Vars /\ \A v \in Vars : Unset[v] = ""
    BY DEF Unset
<1> QED BY <1>1, <1>2 DEF Repair, Keyed

Repaired(e) == [v \in Vars |-> IF v \in Validate(e) THEN Repair[v] ELSE e[v]]

\* What was not reported keeps its value, the rules that apply among it.
LEMMA Kept ==
    ASSUME NEW e
    PROVE  \A v \in Vars \ Validate(e) : NewConfig(Repaired(e))[v] = NewConfig(e)[v]
<1>0. PICK f : f = Repaired(e)
    OBVIOUS
<1>1. \A v \in Vars \ Validate(e) : f[v] = e[v]
    BY <1>0 DEF Repaired
<1>2. f["DEV_MODE"] = e["DEV_MODE"]
    <2>1. "DEV_MODE" \in Vars \ Validate(e)
        BY Reportable, AllKinds DEF Switches, Bools
    <2> QED BY <1>1, <2>1
<1> SUFFICES ASSUME NEW v \in Vars \ Validate(e)
             PROVE  NewConfig(f)[v] = NewConfig(e)[v]
    BY <1>0
<1>3. f[v] = e[v]
    BY <1>1
<1>4. CASE v \in Ints
    <2>1. NewConfig(f)[v] = Parsed(f[v], Atoi, IntDefaults[v])
        BY <1>4, Values
    <2>2. NewConfig(e)[v] = Parsed(e[v], Atoi, IntDefaults[v])
        BY <1>4, Values
    <2> QED BY <1>3, <2>1, <2>2
<1>5. CASE v \in Floats
    <2>1. NewConfig(f)[v] = Parsed(f[v], ParseFloat, FloatDefaults[v])
        BY <1>5, Values
    <2>2. NewConfig(e)[v] = Parsed(e[v], ParseFloat, FloatDefaults[v])
        BY <1>5, Values
    <2> QED BY <1>3, <2>1, <2>2
<1>6. CASE v \in Durations
    <2>1. NewConfig(f)[v] = Parsed(f[v], ParseDuration, DurationDefaults[v])
        BY <1>6, Values
    <2>2. NewConfig(e)[v] = Parsed(e[v], ParseDuration, DurationDefaults[v])
        BY <1>6, Values
    <2> QED BY <1>3, <2>1, <2>2
<1>7. CASE v \in Bools
    <2>1. NewConfig(f)[v] = getEnvBool(f[v], BoolDefaults[v])
        BY <1>7, Values
    <2>2. NewConfig(e)[v] = getEnvBool(e[v], BoolDefaults[v])
        BY <1>7, Values
    <2> QED BY <1>3, <2>1, <2>2
<1>8. CASE v \in Lists
    <2>1. NewConfig(f)[v] = Parsed(f[v], SplitCSV, CSVDefaults[v])
        BY <1>8, Values
    <2>2. NewConfig(e)[v] = Parsed(e[v], SplitCSV, CSVDefaults[v])
        BY <1>8, Values
    <2> QED BY <1>3, <2>1, <2>2
<1>9. CASE v \in Keyed
    <2>1. NewConfig(f)[v] = f[v]
        BY <1>9, Values
    <2>2. NewConfig(e)[v] = e[v]
        BY <1>9, Values
    <2> QED BY <1>3, <2>1, <2>2
<1>10. CASE v \in Lowered
    <2>1. NewConfig(f)[v] = ToLower(getEnv(f[v], StringDefaults(getEnvBool(f["DEV_MODE"], FALSE))[v]))
        BY <1>10, Values
    <2>2. NewConfig(e)[v] = ToLower(getEnv(e[v], StringDefaults(getEnvBool(e["DEV_MODE"], FALSE))[v]))
        BY <1>10, Values
    <2> QED BY <1>2, <1>3, <2>1, <2>2
<1>11. CASE v \in Plain
    <2>1. NewConfig(f)[v] = getEnv(f[v], StringDefaults(getEnvBool(f["DEV_MODE"], FALSE))[v])
        BY <1>11, Values
    <2>2. NewConfig(e)[v] = getEnv(e[v], StringDefaults(getEnvBool(e["DEV_MODE"], FALSE))[v])
        BY <1>11, Values
    <2> QED BY <1>2, <1>3, <2>1, <2>2
<1> QED BY <1>4, <1>5, <1>6, <1>7, <1>8, <1>9, <1>10, <1>11, AllKinds

\* What was reported and is unset now has its default.
LEMMA Defaulted ==
    ASSUME NEW e, NEW v \in Validate(e),
           v \notin {"SERVER_PORT", "ADMIN_PORT", "JWT_ACCESS_TTL", "JWT_REFRESH_TTL",
                     "OTEL_EXPORTER_OTLP_INSECURE"} \cup Keyed
    PROVE  /\ v \in Ints => NewConfig(Repaired(e))[v] = IntDefaults[v]
           /\ v \in Floats => NewConfig(Repaired(e))[v] = FloatDefaults[v]
           /\ v \in Durations => NewConfig(Repaired(e))[v] = DurationDefaults[v]
           /\ v \in Bools => NewConfig(Repaired(e))[v] = BoolDefaults[v]
           /\ v \in Lists => NewConfig(Repaired(e))[v] = CSVDefaults[v]
           /\ v \in Lowered => \E dev :
                  NewConfig(Repaired(e))[v] = ToLower(StringDefaults(dev)[v])
           /\ v \in Plain => \E dev :
                  NewConfig(Repaired(e))[v] = StringDefaults(dev)[v]
<1> DEFINE f == Repaired(e)
<1>1. v \in Vars
    BY Reportable
<1>2. f[v] = ""
    BY <1>1, Repairs DEF Repaired
<1> HIDE DEF f
<1>3. v \in Ints => NewConfig(f)[v] = IntDefaults[v]
    <2>1. v \in Ints => NewConfig(f)[v] = Parsed(f[v], Atoi, IntDefaults[v])
        BY Values
    <2>2. f[v] \notin DOMAIN Atoi
        BY <1>2, UnsetIsUnread
    <2> QED BY <2>1, <2>2, Zenon DEF Parsed
<1>4. v \in Floats => NewConfig(f)[v] = FloatDefaults[v]
    BY <1>2, Values, UnsetIsUnread DEF Parsed
<1>5. v \in Durations => NewConfig(f)[v] = DurationDefaults[v]
    BY <1>2, Values, UnsetIsUnread DEF Parsed
<1>6. v \in Bools => NewConfig(f)[v] = BoolDefaults[v]
    BY <1>2, Values DEF getEnvBool
<1>7. v \in Lists => NewConfig(f)[v] = CSVDefaults[v]
    BY <1>2, Values, UnsetIsUnread DEF Parsed
<1>8. v \in Lowered => \E dev : NewConfig(f)[v] = ToLower(StringDefaults(dev)[v])
    <2>1. v \in Lowered => NewConfig(f)[v] =
              ToLower(getEnv(f[v], StringDefaults(getEnvBool(f["DEV_MODE"], FALSE))[v]))
        BY Values
    <2> QED BY <1>2, <2>1, Zenon DEF getEnv
<1>9. v \in Plain => \E dev : NewConfig(f)[v] = StringDefaults(dev)[v]
    <2>1. v \in Plain => NewConfig(f)[v] =
              getEnv(f[v], StringDefaults(getEnvBool(f["DEV_MODE"], FALSE))[v])
        BY Values
    <2> QED BY <1>2, <2>1, Zenon DEF getEnv
<1> QED BY <1>3, <1>4, <1>5, <1>6, <1>7, <1>8, <1>9 DEF f

---------------------------------------------------------------------------
(* The second report, rule by rule: what was not reported passes as before, *)
(* what was reported passes with what it is put right with                  *)

\* The two rules that compare what another rule may have refused.
Coupled == {"JWT_ACCESS_TTL", "JWT_REFRESH_TTL", "OTEL_EXPORTER_OTLP_INSECURE"}

\* The environment before and after, with what NewConfig reads in them.
Corrected(e, f, c, d) ==
    /\ \A v \in Vars : e[v] \in Texts(v)
    /\ f = Repaired(e) /\ c = NewConfig(e) /\ d = NewConfig(f)

LEMMA SecondParsing ==
    ASSUME NEW e, NEW f, NEW c, NEW d, Corrected(e, f, c, d)
    PROVE  validateParsing(f) \subseteq Coupled
<1> SUFFICES ASSUME NEW v \in DOMAIN Reread, v \notin Coupled
             PROVE  f[v] = "" \/ f[v] \in Reread[v]
    BY DEF validateParsing
<1>1. f = Repaired(e) /\ c = NewConfig(e)
    BY DEF Corrected
<1>2. v \in Vars /\ v \notin Keyed /\ v \notin Bools
    BY RereadKinds, AllKinds, OneKind DEF Floats
<1>3. CASE v \notin Validate(e)
    <2>1. f[v] = e[v]
        BY <1>1, <1>2, <1>3 DEF Repaired
    <2>2. v \notin validateParsing(e)
        BY <1>1, <1>3, ReportOf
    <2> QED BY <2>1, <2>2 DEF validateParsing
<1>4. CASE v \in Validate(e)
    <2>1. f[v] = Repair[v]
        BY <1>1, <1>2, <1>4 DEF Repaired
    <2>2. CASE v \in {"SERVER_PORT", "ADMIN_PORT"}
        <3>1. Reread[v] = DOMAIN Atoi
            BY <2>2, RereadKinds DEF Ints, Unreported
        <3>2. Repair[v] \in {"8081", "9091"}
            BY <2>2, Repairs
        <3>3. {"8081", "9091"} \subseteq DOMAIN Atoi
            BY AtoiLines, SMT
        <3> QED BY <2>1, <3>1, <3>2, <3>3
    <2>3. CASE v \notin {"SERVER_PORT", "ADMIN_PORT"}
        BY <1>2, <2>1, <2>3, Repairs DEF Coupled
    <2> QED BY <2>2, <2>3
<1> QED BY <1>3, <1>4

LEMMA SecondServer ==
    ASSUME NEW e, NEW f, NEW c, NEW d, Corrected(e, f, c, d)
    PROVE  validateServer(d) = {}
<1>1. f = Repaired(e) /\ c = NewConfig(e) /\ d = NewConfig(f)
    BY DEF Corrected
<1>2. validateServer(c) \subseteq Validate(e)
    BY <1>1, ReportOf
<1>3. /\ "SERVER_PORT" \in Ints /\ "SERVER_PORT" \in Vars
      /\ "SERVER_SHUTDOWN_TIMEOUT" \in Durations /\ "SERVER_SHUTDOWN_TIMEOUT" \in Vars
      /\ "SERVER_SHUTDOWN_TIMEOUT" \notin Keyed
    BY AllKinds DEF Ints, Durations, Keyed
<1>4. d["SERVER_PORT"] \in Ports
    <2>1. CASE "SERVER_PORT" \notin Validate(e)
        <3>1. d["SERVER_PORT"] = c["SERVER_PORT"]
            BY <1>1, <1>3, <2>1, Kept
        <3>2. "SERVER_PORT" \notin validateServer(c)
            BY <1>2, <2>1
        <3> QED BY <3>1, <3>2 DEF validateServer, If
    <2>2. CASE "SERVER_PORT" \in Validate(e)
        <3>1. f["SERVER_PORT"] = "8081"
            BY <1>1, <1>3, <2>2, Repairs DEF Repaired
        <3>2. d["SERVER_PORT"] = Parsed(f["SERVER_PORT"], Atoi, IntDefaults["SERVER_PORT"])
            BY <1>1, <1>3, Values
        <3>3. d["SERVER_PORT"] = 8081
            BY <3>1, <3>2, AtoiLines, SMT DEF Parsed
        <3> QED BY <3>3, SMT DEF Ports
    <2> QED BY <2>1, <2>2
<1>5. ~(d["SERVER_SHUTDOWN_TIMEOUT"] <= 0)
    <2>1. CASE "SERVER_SHUTDOWN_TIMEOUT" \notin Validate(e)
        <3>1. d["SERVER_SHUTDOWN_TIMEOUT"] = c["SERVER_SHUTDOWN_TIMEOUT"]
            BY <1>1, <1>3, <2>1, Kept
        <3>2. "SERVER_SHUTDOWN_TIMEOUT" \notin validateServer(c)
            BY <1>2, <2>1
        <3> QED BY <3>1, <3>2 DEF validateServer, If
    <2>2. CASE "SERVER_SHUTDOWN_TIMEOUT" \in Validate(e)
        <3>1. d["SERVER_SHUTDOWN_TIMEOUT"] = DurationDefaults["SERVER_SHUTDOWN_TIMEOUT"]
            BY <1>1, <1>3, <2>2, Defaulted
        <3>2. d["SERVER_SHUTDOWN_TIMEOUT"] = 10
            BY <3>1, SMT DEF DurationDefaults
        <3> QED BY <3>2
    <2> QED BY <2>1, <2>2
<1> QED BY <1>4, <1>5 DEF validateServer, If

LEMMA SecondTokenLifetimes ==
    ASSUME NEW e, NEW f, NEW c, NEW d, Corrected(e, f, c, d)
    PROVE  validateTokenLifetimes(d) = {}
<1>1. f = Repaired(e) /\ c = NewConfig(e) /\ d = NewConfig(f)
    BY DEF Corrected
<1>2. validateTokenLifetimes(c) \subseteq Validate(e)
    BY <1>1, ReportOf
<1>3. {"CSRF_TOKEN_TTL", "REFRESH_TOKEN_PURGE_INTERVAL"} \subseteq (Durations \cap Vars) \ Keyed
    BY AllKinds DEF Durations, Keyed
<1>4. ~(d["CSRF_TOKEN_TTL"] <= 0)
    <2>1. CASE "CSRF_TOKEN_TTL" \notin Validate(e)
        <3>1. d["CSRF_TOKEN_TTL"] = c["CSRF_TOKEN_TTL"]
            BY <1>1, <1>3, <2>1, Kept
        <3>2. "CSRF_TOKEN_TTL" \notin validateTokenLifetimes(c)
            BY <1>2, <2>1
        <3> QED BY <3>1, <3>2 DEF validateTokenLifetimes, If
    <2>2. CASE "CSRF_TOKEN_TTL" \in Validate(e)
        <3>1. d["CSRF_TOKEN_TTL"] = DurationDefaults["CSRF_TOKEN_TTL"]
            BY <1>1, <1>3, <2>2, Defaulted
        <3>2. d["CSRF_TOKEN_TTL"] = 43200
            BY <3>1, SMT DEF DurationDefaults
        <3> QED BY <3>2, SMT
    <2> QED BY <2>1, <2>2
<1>5. ~(d["REFRESH_TOKEN_PURGE_INTERVAL"] < 0)
    <2>1. CASE "REFRESH_TOKEN_PURGE_INTERVAL" \notin Validate(e)
        <3>1. d["REFRESH_TOKEN_PURGE_INTERVAL"] = c["REFRESH_TOKEN_PURGE_INTERVAL"]
            BY <1>1, <1>3, <2>1, Kept
        <3>2. "REFRESH_TOKEN_PURGE_INTERVAL" \notin validateTokenLifetimes(c)
            BY <1>2, <2>1
        <3> QED BY <3>1, <3>2 DEF validateTokenLifetimes, If
    <2>2. CASE "REFRESH_TOKEN_PURGE_INTERVAL" \in Validate(e)
        <3>1. d["REFRESH_TOKEN_PURGE_INTERVAL"] = DurationDefaults["REFRESH_TOKEN_PURGE_INTERVAL"]
            BY <1>1, <1>3, <2>2, Defaulted
        <3>2. d["REFRESH_TOKEN_PURGE_INTERVAL"] = 3600
            BY <3>1, SMT DEF DurationDefaults
        <3> QED BY <3>2, SMT
    <2> QED BY <2>1, <2>2
<1> QED BY <1>4, <1>5 DEF validateTokenLifetimes, If

\* A string variable with a default is never empty.
LEMMA NeverEmpty ==
    ASSUME NEW e,
           NEW v \in {"DATABASE_DSN", "ADMIN_HOST", "OTEL_SERVICE_NAME", "OTEL_EXPORTER_OTLP_ENDPOINT"}
    PROVE  NewConfig(e)[v] # ""
<1>1. v \in Plain
    BY DEF Plain
<1>2. PICK dev : dev = getEnvBool(e["DEV_MODE"], FALSE)
    OBVIOUS
<1>3. NewConfig(e)[v] = getEnv(e[v], StringDefaults(dev)[v])
    BY <1>1, <1>2, Values
<1>4. StringDefaults(dev)[v] # ""
    <2>1. /\ StringDefaults(dev)["DATABASE_DSN"] = "dev.db"
          /\ StringDefaults(dev)["ADMIN_HOST"] = "127.0.0.1"
          /\ StringDefaults(dev)["OTEL_SERVICE_NAME"] = "clean-arch-go-gin"
          /\ StringDefaults(dev)["OTEL_EXPORTER_OTLP_ENDPOINT"] = "http://localhost:4318"
        BY DEF StringDefaults
    <2> QED BY <2>1
<1> QED BY <1>3, <1>4 DEF getEnv

LEMMA SecondDatabase ==
    ASSUME NEW e, NEW f, NEW c, NEW d, Corrected(e, f, c, d)
    PROVE  validateDatabase(d) = {}
<1> DEFINE Open == "DATABASE_MAX_OPEN_CONNS"
           Idle == "DATABASE_MAX_IDLE_CONNS"
<1>1. f = Repaired(e) /\ c = NewConfig(e) /\ d = NewConfig(f)
    BY DEF Corrected
<1>2. validateDatabase(c) \subseteq Validate(e)
    BY <1>1, ReportOf
<1>3. d["DATABASE_DSN"] # ""
    BY <1>1, NeverEmpty
<1>4. d["DATABASE_TYPE"] \in {"sqlite", "postgres"}
    <2>1. "DATABASE_TYPE" \in Plain /\ "DATABASE_TYPE" \in Vars /\ "DATABASE_TYPE" \notin Keyed
        BY AllKinds DEF Plain, Keyed
    <2>2. CASE "DATABASE_TYPE" \notin Validate(e)
        <3>1. d["DATABASE_TYPE"] = c["DATABASE_TYPE"]
            BY <1>1, <2>1, <2>2, Kept
        <3>2. "DATABASE_TYPE" \notin validateDatabase(c)
            BY <1>2, <2>2
        <3> QED BY <3>1, <3>2 DEF validateDatabase, If
    <2>3. CASE "DATABASE_TYPE" \in Validate(e)
        <3>1. PICK dev : d["DATABASE_TYPE"] = StringDefaults(dev)["DATABASE_TYPE"]
            BY <1>1, <2>1, <2>3, Defaulted
        <3> QED BY <3>1 DEF StringDefaults
    <2> QED BY <2>2, <2>3
<1>5. /\ Open \in Ints /\ Open \in Vars /\ Open \notin Keyed
      /\ Idle \in Ints /\ Idle \in Vars /\ Idle \notin Keyed
    BY AllKinds DEF Ints, Keyed
<1>6. IntDefaults[Open] = 25 /\ IntDefaults[Idle] = 5
    BY SMT DEF IntDefaults
<1>7. c[Open] \in Int /\ c[Idle] \in Int
    <2>1. \A v \in Ints : c[v] = Parsed(e[v], Atoi, IntDefaults[v])
        BY <1>1, Values
    <2>2. \A t \in DOMAIN Atoi : Atoi[t] \in Int
        BY AtoiLines, SMT
    <2> QED BY <1>5, <1>6, <2>1, <2>2 DEF Parsed
\* What was not reported has kept its value; what was, has its default.
<1>8. /\ d[Open] = IF Open \in Validate(e) THEN 25 ELSE c[Open]
      /\ d[Idle] = IF Idle \in Validate(e) THEN 5 ELSE c[Idle]
    <2>1. Open \notin Validate(e) => d[Open] = c[Open]
        BY <1>1, <1>5, Kept
    <2>2. Open \in Validate(e) => d[Open] = 25
        BY <1>1, <1>5, <1>6, Defaulted
    <2>3. Idle \notin Validate(e) => d[Idle] = c[Idle]
        BY <1>1, <1>5, Kept
    <2>4. Idle \in Validate(e) => d[Idle] = 5
        BY <1>1, <1>5, <1>6, Defaulted
    <2> QED BY <2>1, <2>2, <2>3, <2>4
<1>9. Open \notin Validate(e) => c[Open] >= 1 /\ c[Idle] <= c[Open]
    <2>1. Open \notin Validate(e) => Open \notin validateDatabase(c)
        BY <1>2
    <2> QED BY <1>7, <2>1 DEF validateDatabase, If
<1>10. Idle \notin Validate(e) => c[Idle] <= c[Open]
    <2>1. Idle \notin Validate(e) => Idle \notin validateDatabase(c)
        BY <1>2
    <2> QED BY <1>7, <2>1 DEF validateDatabase, If
\* A number that cannot be read stands for the default already.
<1>11. \A v \in {Open, Idle} : v \in Validate(e) =>
           c[v] = IntDefaults[v] \/ v \in validateDatabase(c)
    <2>1. ASSUME NEW v \in {Open, Idle}, v \in Validate(e), v \notin validateDatabase(c)
          PROVE  c[v] = IntDefaults[v]
        <3>1. v \in validateParsing(e)
            BY <1>1, <2>1, ReportOf, Named DEF Keyed
        <3>2. e[v] \notin DOMAIN Atoi
            <4>1. Reread[v] = DOMAIN Atoi
                BY RereadKinds DEF Ints, Unreported
            <4> QED BY <3>1, <4>1 DEF validateParsing
        <3>3. c[v] = Parsed(e[v], Atoi, IntDefaults[v])
            <4>1. v \in Ints
                BY <1>5
            <4> QED BY <1>1, <4>1, Values
        <3> QED BY <3>2, <3>3, Zenon DEF Parsed
    <2> QED BY <2>1
<1>12. Open \in validateDatabase(c) => c[Open] < 1 \/ c[Idle] > c[Open]
    BY DEF validateDatabase, If
<1>13. Idle \in validateDatabase(c) => c[Idle] > c[Open]
    BY DEF validateDatabase, If
<1> HIDE DEF Open, Idle
<1>14. ~(d[Open] < 1) /\ ~(d[Idle] > d[Open])
    <2>1. CASE Open \notin Validate(e) /\ Idle \notin Validate(e)
        BY <1>7, <1>8, <1>9, <2>1
    <2>2. CASE Open \in Validate(e) /\ Idle \notin Validate(e)
        <3>1. c[Open] = 25 \/ c[Open] < 1 \/ c[Idle] > c[Open]
            BY <1>6, <1>11, <1>12, <2>2
        <3> QED BY <1>7, <1>8, <1>10, <2>2, <3>1
    <2>3. CASE Open \notin Validate(e) /\ Idle \in Validate(e)
        <3>1. c[Idle] = 5 \/ c[Idle] > c[Open]
            BY <1>6, <1>11, <1>13, <2>3
        <3> QED BY <1>7, <1>8, <1>9, <2>3, <3>1
    <2>4. CASE Open \in Validate(e) /\ Idle \in Validate(e)
        BY <1>8, <2>4
    <2> QED BY <2>1, <2>2, <2>3, <2>4
<1> QED BY <1>3, <1>4, <1>14 DEF validateDatabase, If, Open, Idle

LEMMA SecondAuth ==
    ASSUME NEW e, NEW f, NEW c, NEW d, Corrected(e, f, c, d)
    PROVE  validateAuth(d) \subseteq Coupled
<1> DEFINE Access == "JWT_ACCESS_SECRET"
           Refresh == "JWT_REFRESH_SECRET"
           Origins == "ALLOWED_ORIGINS"
<1>1. f = Repaired(e) /\ c = NewConfig(e) /\ d = NewConfig(f)
    BY DEF Corrected
<1>2. validateAuth(c) \subseteq Validate(e)
    BY <1>1, ReportOf
<1>3. Access \in Keyed /\ Refresh \in Keyed /\ Origins \in Lists /\ Origins \in Vars /\ Origins \notin Keyed
    BY AllKinds DEF Keyed, Lists
<1>4. Keyed \subseteq Vars
    BY AllKinds
<1>5. d["DEV_MODE"] = c["DEV_MODE"]
    <2>1. "DEV_MODE" \in Vars \ Validate(e)
        BY Reportable, AllKinds DEF Switches, Bools
    <2> QED BY <1>1, <2>1, Kept
<1>6. \A v \in Keyed : c[v] = e[v] /\ e[v] \in KeyTexts
    <2>1. \A v \in Keyed : c[v] = e[v]
        BY <1>1, Values
    <2>2. \A v \in Keyed : e[v] \in Texts(v)
        BY <1>4 DEF Corrected
    <2>3. \A v \in Keyed : Texts(v) = KeyTexts
        BY TextsOfKinds
    <2> QED BY <2>1, <2>2, <2>3
<1>7. \A v \in Keyed : d[v] = IF v \in Validate(e) THEN Repair[v] ELSE e[v]
    BY <1>1, <1>4, Values DEF Repaired
<1>8. /\ Repair[Access] = "new1" /\ Repair[Refresh] = "new2"
      /\ \A v \in Keyed : Repair[v] \in {"new1", "new2", "new3"}
    BY Repairs DEF Keyed
<1>9. {"new1", "new2", "new3"} \cap (KeyTexts \cup ShortSecrets) = {}
    BY DEF KeyTexts, ShortSecrets
<1>10. ASSUME ~d["DEV_MODE"]
       PROVE  /\ \A v \in Keyed : d[v] \notin ShortSecrets
              /\ ~(d[Access] # "" /\ d[Access] = d[Refresh])
              /\ ~("*" \in d[Origins])
    <2>1. ~c["DEV_MODE"]
        BY <1>5, <1>10, Zenon
    <2>2. /\ \A v \in Keyed : v \notin Validate(e) => c[v] \notin ShortSecrets
          /\ Access \notin Validate(e) => ~(c[Access] # "" /\ c[Access] = c[Refresh])
          /\ Origins \notin Validate(e) => ~("*" \in c[Origins])
        <3>1. \A v \in Keyed : v \notin validateAuth(c) => c[v] \notin ShortSecrets
            BY <2>1, Kinds DEF validateAuth, If
        <3>2. Access \notin validateAuth(c) => ~(c[Access] # "" /\ c[Access] = c[Refresh])
            BY <2>1 DEF validateAuth, If
        <3>3. Origins \notin validateAuth(c) => ~("*" \in c[Origins])
            BY <2>1 DEF validateAuth, If
        <3> QED BY <1>2, <3>1, <3>2, <3>3
    <2>3. \A v \in Keyed : d[v] \notin ShortSecrets
        BY <1>6, <1>7, <1>8, <1>9, <2>2
    <2>4. ~(d[Access] # "" /\ d[Access] = d[Refresh])
        <3>1. CASE Access \in Validate(e)
            <4>1. d[Access] = "new1"
                BY <1>3, <1>7, <1>8, <3>1
            <4>2. d[Refresh] # "new1"
                <5>1. CASE Refresh \in Validate(e)
                    BY <1>3, <1>7, <1>8, <5>1
                <5>2. CASE Refresh \notin Validate(e)
                    BY <1>3, <1>6, <1>7, <1>9, <5>2
                <5> QED BY <5>1, <5>2
            <4> QED BY <4>1, <4>2
        <3>2. CASE Access \notin Validate(e) /\ Refresh \in Validate(e)
            <4>1. d[Refresh] = "new2"
                BY <1>3, <1>7, <1>8, <3>2
            <4>2. d[Access] # "new2"
                BY <1>3, <1>6, <1>7, <1>9, <3>2
            <4> QED BY <4>1, <4>2
        <3>3. CASE Access \notin Validate(e) /\ Refresh \notin Validate(e)
            BY <1>3, <1>6, <1>7, <2>2, <3>3
        <3> QED BY <3>1, <3>2, <3>3
    <2>5. ~("*" \in d[Origins])
        <3>1. CASE Origins \notin Validate(e)
            BY <1>1, <1>3, <2>2, <3>1, Kept
        <3>2. CASE Origins \in Validate(e)
            <4>1. d[Origins] = CSVDefaults[Origins]
                BY <1>1, <1>3, <3>2, Defaulted
            <4> QED BY <4>1 DEF CSVDefaults
        <3> QED BY <3>1, <3>2
    <2> QED BY <2>3, <2>4, <2>5
<1> QED BY <1>10, Kinds DEF validateAuth, If, Coupled

LEMMA SecondLog ==
    ASSUME NEW e, NEW f, NEW c, NEW d, Corrected(e, f, c, d)
    PROVE  validateLog(d) = {}
<1>1. f = Repaired(e) /\ c = NewConfig(e) /\ d = NewConfig(f)
    BY DEF Corrected
<1>2. validateLog(c) \subseteq Validate(e)
    BY <1>1, ReportOf
<1>3. {"LOG_LEVEL", "LOG_FORMAT"} \subseteq (Lowered \cap Vars) \ Keyed
    BY AllKinds DEF Lowered, Keyed
<1>4. d["LOG_LEVEL"] \in {"debug", "info", "warn", "warning", "error"}
    <2>1. CASE "LOG_LEVEL" \notin Validate(e)
        <3>1. d["LOG_LEVEL"] = c["LOG_LEVEL"]
            BY <1>1, <1>3, <2>1, Kept
        <3>2. "LOG_LEVEL" \notin validateLog(c)
            BY <1>2, <2>1
        <3> QED BY <3>1, <3>2 DEF validateLog, If
    <2>2. CASE "LOG_LEVEL" \in Validate(e)
        <3>1. PICK dev : d["LOG_LEVEL"] = ToLower(StringDefaults(dev)["LOG_LEVEL"])
            BY <1>1, <1>3, <2>2, Defaulted
        <3>2. StringDefaults(dev)["LOG_LEVEL"] \in {"debug", "info"}
            BY DEF StringDefaults
        <3> QED BY <3>1, <3>2, LowerCase
    <2> QED BY <2>1, <2>2
<1>5. d["LOG_FORMAT"] \in {"json", "text"}
    <2>1. CASE "LOG_FORMAT" \notin Validate(e)
        <3>1. d["LOG_FORMAT"] = c["LOG_FORMAT"]
            BY <1>1, <1>3, <2>1, Kept
        <3>2. "LOG_FORMAT" \notin validateLog(c)
            BY <1>2, <2>1
        <3> QED BY <3>1, <3>2 DEF validateLog, If
    <2>2. CASE "LOG_FORMAT" \in Validate(e)
        <3>1. PICK dev : d["LOG_FORMAT"] = ToLower(StringDefaults(dev)["LOG_FORMAT"])
            BY <1>1, <1>3, <2>2, Defaulted
        <3>2. StringDefaults(dev)["LOG_FORMAT"] \in {"text", "json"}
            BY DEF StringDefaults
        <3> QED BY <3>1, <3>2, LowerCase
    <2> QED BY <2>1, <2>2
<1> QED BY <1>4, <1>5 DEF validateLog, If

LEMMA SecondTracing ==
    ASSUME NEW e, NEW f, NEW c, NEW d, Corrected(e, f, c, d)
    PROVE  validateTracing(d) \subseteq Coupled
<1> DEFINE Exporter == "OTEL_TRACES_EXPORTER"
           Ratio == "OTEL_TRACES_SAMPLER_ARG"
           Outside(r) == Less(r, Float(0)) \/ Less(Float(100), r)
<1>1. f = Repaired(e) /\ c = NewConfig(e) /\ d = NewConfig(f)
    BY DEF Corrected
<1>2. validateTracing(c) \subseteq Validate(e)
    BY <1>1, ReportOf
<1>3. /\ Exporter \in Lowered /\ Exporter \in Vars /\ Exporter \notin Keyed
      /\ Ratio \in Floats /\ Ratio \in Vars /\ Ratio \notin Keyed
    BY AllKinds DEF Lowered, Floats, Keyed
<1>4. d["OTEL_ENABLED"] = c["OTEL_ENABLED"]
    <2>1. "OTEL_ENABLED" \in Vars \ Validate(e)
        BY Reportable, AllKinds DEF Switches, Bools
    <2> QED BY <1>1, <2>1, Kept
<1>5. d["OTEL_SERVICE_NAME"] # "" /\ d["OTEL_EXPORTER_OTLP_ENDPOINT"] # ""
    BY <1>1, NeverEmpty
<1>6. ASSUME d["OTEL_ENABLED"]
      PROVE  d[Exporter] \in {"otlp", "console", "stdout"} /\ ~Outside(d[Ratio])
    <2>1. c["OTEL_ENABLED"]
        BY <1>4, <1>6, Zenon
    <2>2. d[Exporter] \in {"otlp", "console", "stdout"}
        <3>1. CASE Exporter \notin Validate(e)
            <4>1. d[Exporter] = c[Exporter]
                BY <1>1, <1>3, <3>1, Kept
            <4>2. Exporter \notin validateTracing(c)
                BY <1>2, <3>1
            <4> QED BY <2>1, <4>1, <4>2 DEF validateTracing, If
        <3>2. CASE Exporter \in Validate(e)
            <4>1. PICK dev : d[Exporter] = ToLower(StringDefaults(dev)[Exporter])
                BY <1>1, <1>3, <3>2, Defaulted
            <4>2. StringDefaults(dev)[Exporter] = "otlp"
                BY DEF StringDefaults
            <4> QED BY <4>1, <4>2, LowerCase
        <3> QED BY <3>1, <3>2
    <2>3. ~Outside(d[Ratio])
        <3>1. CASE Ratio \notin Validate(e)
            <4>1. d[Ratio] = c[Ratio]
                BY <1>1, <1>3, <3>1, Kept
            <4>2. Ratio \notin validateTracing(c)
                BY <1>2, <3>1
            <4> QED BY <2>1, <4>1, <4>2 DEF validateTracing, If
        <3>2. CASE Ratio \in Validate(e)
            <4>1. d[Ratio] = FloatDefaults[Ratio]
                BY <1>1, <1>3, <3>2, Defaulted
            <4>2. d[Ratio] = Float(100)
                BY <4>1, SMT DEF FloatDefaults
            <4> QED BY <4>2 DEF Less, Float
        <3> QED BY <3>1, <3>2
    <2> QED BY <2>2, <2>3
<1> QED BY <1>5, <1>6 DEF validateTracing, If, Coupled

LEMMA SecondObservability ==
    ASSUME NEW e, NEW f, NEW c, NEW d, Corrected(e, f, c, d)
    PROVE  validateObservability(d) = {}
<1> DEFINE Server == "SERVER_PORT"
           Admin == "ADMIN_PORT"
           Pprof == "PPROF_ENABLED"
           Host == "ADMIN_HOST"
<1>1. f = Repaired(e) /\ c = NewConfig(e) /\ d = NewConfig(f)
    BY DEF Corrected
<1>2. validateObservability(c) \subseteq Validate(e)
    BY <1>1, ReportOf
<1>3. /\ Server \in Ints /\ Server \in Vars /\ Admin \in Ints /\ Admin \in Vars
      /\ Pprof \in Bools /\ Pprof \in Vars /\ Pprof \notin Keyed
      /\ Host \in Plain /\ Host \in Vars /\ Host \notin Keyed
    BY AllKinds DEF Ints, Bools, Plain, Keyed
<1>4. d["METRICS_ENABLED"] = c["METRICS_ENABLED"] /\ d["DEV_MODE"] = c["DEV_MODE"]
    <2>1. {"METRICS_ENABLED", "DEV_MODE"} \subseteq Vars \ Validate(e)
        BY Reportable, AllKinds DEF Switches, Bools
    <2> QED BY <1>1, <2>1, Kept
<1>5. Pprof \in Validate(e) => d[Pprof] = FALSE
    <2>1. BoolDefaults[Pprof] = FALSE
        BY DEF BoolDefaults
    <2> QED BY <1>1, <1>3, <2>1, Defaulted
<1>6. Pprof \notin Validate(e) => d[Pprof] = c[Pprof]
    BY <1>1, <1>3, Kept
<1>7. HasAdmin(d) => HasAdmin(c)
    BY <1>4, <1>5, <1>6, Zenon DEF HasAdmin
<1>8. d[Host] # ""
    BY <1>1, NeverEmpty
\* The ports that put right a reported one are nobody's.
<1>9. \A v \in {Server, Admin} : c[v] # 8081 /\ c[v] # 9091
    <2>1. ASSUME NEW v \in {Server, Admin} PROVE c[v] # 8081 /\ c[v] # 9091
        <3>1. c[v] = Parsed(e[v], Atoi, IntDefaults[v])
            <4>1. v \in Ints
                BY <1>3
            <4> QED BY <1>1, <4>1, Values
        <3>2. e[v] \in IntTexts
            BY <1>3, TextsOfKinds DEF Corrected
        <3>3. IntDefaults[v] \in {8080, 9090}
            BY SMT DEF IntDefaults
        <3>4. e[v] \notin {"8081", "9091"}
            BY <3>2 DEF IntTexts
        <3>5. e[v] \in DOMAIN Atoi => Atoi[e[v]] \notin {8081, 9091}
            BY <3>4, AtoiLines, SMT
        <3> QED BY <3>1, <3>3, <3>5, SMT DEF Parsed
    <2> QED BY <2>1
<1>10. /\ Server \notin Validate(e) => d[Server] = c[Server]
       /\ Admin \notin Validate(e) => d[Admin] = c[Admin]
    BY <1>1, <1>3, Kept
<1>11. /\ Server \in Validate(e) => d[Server] = 8081
       /\ Admin \in Validate(e) => d[Admin] = 9091
    <2>1. /\ Server \in Validate(e) => f[Server] = "8081"
          /\ Admin \in Validate(e) => f[Admin] = "9091"
        BY <1>1, <1>3, Repairs DEF Repaired
    <2>2. /\ d[Server] = Parsed(f[Server], Atoi, IntDefaults[Server])
          /\ d[Admin] = Parsed(f[Admin], Atoi, IntDefaults[Admin])
        BY <1>1, <1>3, Values
    <2> QED BY <2>1, <2>2, AtoiLines, SMT DEF Parsed
<1>12. ASSUME HasAdmin(d)
       PROVE  d[Admin] \in Ports /\ d[Admin] # d[Server]
    <2>1. CASE Admin \in Validate(e)
        <3>1. d[Admin] \in Ports
            <4>1. d[Admin] = 9091
                BY <1>11, <2>1
            <4> QED BY <4>1, SMT DEF Ports
        <3>2. d[Admin] # d[Server]
            BY <1>9, <1>10, <1>11, <2>1, SMT
        <3> QED BY <3>1, <3>2
    <2>2. CASE Admin \notin Validate(e)
        <3>1. Admin \notin validateObservability(c) /\ HasAdmin(c)
            BY <1>2, <1>7, <1>12, <2>2
        <3>2. c[Admin] \in Ports /\ c[Admin] # c[Server]
            BY <3>1 DEF validateObservability, If
        <3>3. d[Admin] # d[Server]
            BY <1>9, <1>10, <1>11, <2>2, <3>2, SMT
        <3> QED BY <1>10, <2>2, <3>2, <3>3
    <2> QED BY <2>1, <2>2
<1>13. ~(~d["DEV_MODE"] /\ d[Pprof] /\ ~isLoopbackHost(d[Host]))
    <2>1. SUFFICES ASSUME ~d["DEV_MODE"], d[Pprof]
                   PROVE  isLoopbackHost(d[Host])
        BY Zenon
    <2>2. Pprof \notin Validate(e)
        BY <1>5, <2>1, Zenon
    <2>3. c[Pprof] /\ ~c["DEV_MODE"]
        BY <1>4, <1>6, <2>1, <2>2, Zenon
    <2>4. CASE Host \in Validate(e)
        <3>1. PICK dev : d[Host] = StringDefaults(dev)[Host]
            BY <1>1, <1>3, <2>4, Defaulted
        <3>2. d[Host] = "127.0.0.1"
            BY <3>1 DEF StringDefaults
        <3> QED BY <3>2, Zenon DEF isLoopbackHost
    <2>5. CASE Host \notin Validate(e)
        <3>1. d[Host] = c[Host]
            BY <1>1, <1>3, <2>5, Kept
        <3>2. Host \notin validateObservability(c)
            BY <1>2, <2>5
        <3>3. HasAdmin(c)
            BY <2>3 DEF HasAdmin
        <3>4. isLoopbackHost(c[Host])
            BY <2>3, <3>2, <3>3 DEF validateObservability, If
        <3> QED BY <3>1, <3>4, Zenon
    <2> QED BY <2>4, <2>5
<1> QED BY <1>8, <1>12, <1>13 DEF validateObservability, If

\* One start tells all there is to put right, but for two rules that compare
\* what another one has just refused, for every environment of the texts
\* (config_validate.go 18-41, 120-131 and 216-221).
THEOREM OneRefusalTellsAll == Spec => []OnePassButCoupled
<1>1. ASSUME Inv PROVE OnePassButCoupled
    <2>1. SUFFICES ASSUME boot.outcome = "refused"
                   PROVE  SecondReport \subseteq Coupled
        BY DEF OnePassButCoupled, Coupled
    <2>2. boot.reported = Validate(env)
        BY <1>1, <2>1 DEF Inv
    <2>3. SecondReport = Validate(Repaired(env))
        BY <2>2, Zenon DEF SecondReport, Repaired
    <2>4. PICK f : f = Repaired(env)
        OBVIOUS
    <2>5. PICK c : c = NewConfig(env)
        OBVIOUS
    <2>6. PICK d : d = NewConfig(f)
        OBVIOUS
    <2>7. Corrected(env, f, c, d)
        BY <1>1, <2>4, <2>5, <2>6 DEF Corrected, Inv
    <2>8. /\ validateParsing(f) \subseteq Coupled /\ validateAuth(d) \subseteq Coupled
          /\ validateTracing(d) \subseteq Coupled
        BY <2>7, SecondParsing, SecondAuth, SecondTracing
    <2>9. /\ validateServer(d) = {} /\ validateDatabase(d) = {} /\ validateLog(d) = {}
          /\ validateObservability(d) = {} /\ validateTokenLifetimes(d) = {}
        BY <2>7, SecondServer, SecondDatabase, SecondLog, SecondObservability, SecondTokenLifetimes
    <2>10. Validate(f) \subseteq Coupled
        BY <2>6, <2>8, <2>9, ReportOf
    <2> QED BY <2>3, <2>4, <2>10
<1> QED BY <1>1, Inductive, PTL
============================================================================
