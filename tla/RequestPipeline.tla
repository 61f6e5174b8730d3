-------------------------- MODULE RequestPipeline --------------------------
(***************************************************************************)
(* One request on its way through the chain of middleware to its handler   *)
(* and back: newRouter (internal/di/container.go), the routes              *)
(* (internal/api/router.go), the middleware and the handlers.              *)
(*                                                                         *)
(* A middleware of gin runs its first half, the rest of the chain inside   *)
(* c.Next, and its second half; a panic skips every second half that is    *)
(* not deferred.  What a request carries is chosen where it is looked at.  *)
(* The context may end at any time: the client leaves, or the deadline of  *)
(* the Timeout middleware passes.                                          *)
(***************************************************************************)
EXTENDS Apperr

VARIABLES
    config,     \* what is switched on: metrics, limit, tracing, deadline
    op,         \* the operation asked for
    mode,       \* "down" the chain, in "service", "respond", back "up", "panic"
    at,         \* the position in the chain
    ctx,        \* the request's context: "live" or its error
    bounded,    \* whether it has a deadline
    rid,        \* its correlation id
    passed,     \* the checks it has passed
    outcome,    \* what the service returned, <<>> for success
    answers,    \* what was written: status, id in the body, and by whom
    cookies,    \* "none", "set" or "clear"
    counted, logged,    \* metrics observations and access log lines
    panicked    \* history: whether the request has panicked

vars == <<config, op, mode, at, ctx, bounded, rid, passed, outcome, answers,
          cookies, counted, logged, panicked>>

observed == <<counted, logged, panicked>>

---------------------------------------------------------------------------
(* SetupRoutes, SetupHealthRoutes, SetupFallbacks *)

Ops == {"message", "csrf", "register", "login", "refresh", "me", "sessions",
        "logout", "password", "delete", "getCounter", "incCounter", "live",
        "ready", "noRoute", "wrongMethod"}

Method(o) ==
    CASE o \in {"register", "login", "refresh", "logout", "incCounter"} -> "POST"
      [] o = "password" -> "PATCH"
      [] o = "delete" -> "DELETE"
      [] OTHER -> "GET"

WithAuthLimiter == {"register", "login", "refresh"}
WithAuth == {"me", "sessions", "logout", "password", "delete", "getCounter",
             "incCounter"}
WithCSRF == {"refresh", "logout", "password", "delete", "incCounter"}

When(b, s) == IF b THEN s ELSE <<>>

\* Variant: DELETE /auth/me without the CSRF middleware.
RouteWithoutCSRF(o) ==
    When(o \in WithAuthLimiter, <<"authLimit">>)
        \o When(o \in WithAuth, <<"auth">>)
        \o When(o \in WithCSRF \ {"delete"}, <<"csrf">>)

RouteChain(o) ==
    When(o \in WithAuthLimiter, <<"authLimit">>)
        \o When(o \in WithAuth, <<"auth">>)
        \o When(o \in WithCSRF, <<"csrf">>)

(* newRouter *)

\* Variant: the access log after CORS and the limits.
RouterLogsLate ==
    <<"requestID", "recovery">> \o When(config.metrics, <<"metrics">>)
        \o <<"headers", "cors", "bodyLimit">>
        \o When(config.limit, <<"rateLimit">>) \o <<"accessLog", "timeout">>

NewRouter ==
    <<"requestID", "recovery">> \o When(config.metrics, <<"metrics">>)
        \o <<"accessLog", "headers", "cors", "bodyLimit">>
        \o When(config.limit, <<"rateLimit">>) \o <<"timeout">>

\* gin runs the global middleware for requests without a route as well.
Chain == NewRouter \o RouteChain(op)

Reached(m) == mode = "down" /\ at <= Len(Chain) /\ Chain[at] = m

AtHandler == mode = "down" /\ at = Len(Chain) + 1

---------------------------------------------------------------------------
(* Answers *)

\* c.JSON and AbortWithStatusJSON: write, and go back up the chain.
Write(status, id, by) ==
    /\ answers' = Append(answers, [status |-> status, id |-> id, by |-> by])
    /\ mode' = "up" /\ at' = at - 1

\* A success envelope has no id in its body.
OK(status) == Write(status, "none", "app")

\* Every envelope of a failure is tagged with the id.
WithCorrelation(status) == Write(status, rid, "app")

\* CORS answers without an envelope.
WriteBare(status) == Write(status, "none", "cors")

\* abortWithError of the middleware.
AbortWithError(status) ==
    /\ WithCorrelation(status)
    /\ UNCHANGED <<config, op, ctx, bounded, rid, passed, outcome, cookies,
                   observed>>

\* handler.Fail, the single place where an error becomes a response.
Fail(err) == WithCorrelation(HTTPStatus(err))

---------------------------------------------------------------------------
(* The middleware, first halves *)

Pass ==
    /\ at' = at + 1
    /\ UNCHANGED <<config, op, mode, ctx, outcome, answers, cookies, observed>>

\* resolveRequestID: a valid id of the client, the trace id, a fresh one.
\* Health probes are not traced.
RequestID ==
    /\ Reached("requestID")
    /\ \/ rid' = "client"
       \/ rid' = IF config.tracing /\ op \notin {"live", "ready"} THEN "trace" ELSE "uuid"
    /\ Pass
    /\ UNCHANGED <<bounded, passed>>

\* First halves that let every request go on.
LetThrough(m) ==
    /\ Reached(m)
    /\ Pass
    /\ UNCHANGED <<bounded, rid, passed>>

Recovery == LetThrough("recovery")
Metrics == LetThrough("metrics")
AccessLog == LetThrough("accessLog")
SecurityHeaders == LetThrough("headers")
BodyLimit == LetThrough("bodyLimit")    \* bites when the body is read

\* gin-contrib/cors: a foreign origin, a preflight, or anything else.
Cors ==
    /\ Reached("cors")
    /\ \/ Pass /\ UNCHANGED <<bounded, rid, passed>>
       \/ /\ \E s \in {403, 204} : WriteBare(s)
          /\ UNCHANGED <<config, op, ctx, bounded, rid, passed, outcome,
                         cookies, observed>>

\* The global limiter and that of the credential endpoints (a pass-through
\* when limits are off); which requests pass is in module RateLimiter.
RateLimit ==
    /\ Reached("rateLimit") \/ Reached("authLimit")
    /\ \/ Pass /\ UNCHANGED <<bounded, rid, passed>>
       \/ config.limit /\ AbortWithError(429)

\* A request timeout of 0 is accepted and means none.
Timeout ==
    /\ Reached("timeout")
    /\ bounded' = config.deadline
    /\ Pass
    /\ UNCHANGED <<rid, passed>>

\* Variant: the return after abortWithError is forgotten.
AuthGoesOn ==
    /\ Reached("auth")
    /\ \/ passed' = passed \cup {"auth"} /\ UNCHANGED answers
       \/ UNCHANGED passed
          /\ answers' = Append(answers, [status |-> 401, id |-> rid, by |-> "app"])
    /\ at' = at + 1
    /\ UNCHANGED <<config, op, mode, ctx, bounded, rid, outcome, cookies,
                   observed>>

\* AuthMiddleware: no cookie or a token that does not validate, or the
\* user's id in the context.
Auth ==
    /\ Reached("auth")
    /\ \/ passed' = passed \cup {"auth"} /\ Pass /\ UNCHANGED <<bounded, rid>>
       \/ AbortWithError(401)

\* CSRFMiddleware checks methods that change state.
Csrf ==
    /\ Reached("csrf")
    /\ \/ Method(op) # "GET" /\ AbortWithError(403)
       \/ /\ passed' = IF Method(op) # "GET" THEN passed \cup {"csrf"} ELSE passed
          /\ Pass /\ UNCHANGED <<bounded, rid>>

---------------------------------------------------------------------------
(* The handlers *)

\* Handlers that read the user's id, and those that decode a body.
NeedsUser == {"me", "sessions", "password", "delete"}
BindsJSON == {"register", "login", "password"}

Unmatched == op \in {"noRoute", "wrongMethod"}
NoUser == op \in NeedsUser /\ "auth" \notin passed

\* What a handler refuses by itself: no user (GetUserIDFromContext), no
\* refresh cookie, a body or a window that does not bind.
Refusals ==
    IF NoUser \/ op = "refresh" THEN {WithCause("UNAUTHORIZED", <<"other">>)}
    ELSE IF op \in BindsJSON \cup {"sessions"}
    THEN {WithCause("INVALID_INPUT", <<"other">>)}
    ELSE {}

\* NoRoute answers for both: HandleMethodNotAllowed is not set, so NoMethod
\* never runs.
Prepare ==
    /\ AtHandler
    /\ \/ Unmatched /\ WithCorrelation(404) /\ UNCHANGED passed
       \/ (\E err \in Refusals : Fail(err)) /\ UNCHANGED passed
       \/ /\ ~ Unmatched /\ ~ NoUser
          /\ passed' = passed \cup {"input"}
          /\ mode' = "service" /\ UNCHANGED <<at, answers>>
    /\ UNCHANGED <<config, op, ctx, bounded, rid, outcome, cookies, observed>>

\* What the services answer with: the sentinels of each.
Sentinels ==
    CASE op = "register" -> {"CONFLICT"}
      [] op \in {"login", "refresh", "password"} -> {"UNAUTHORIZED"}
      [] op \in {"me", "delete"} -> {"NOT_FOUND"}
      [] OTHER -> {}

\* Services that check the context themselves return its error as it is, and
\* so does WithinTx when begin or commit fails; everything a repository
\* returns is wrapped by apperr.Internal.
ChecksContext == Ops \ {"message", "csrf", "getCounter", "incCounter"}
InTransaction == {"register", "refresh", "password", "delete"}
UsesRepository == Ops \ {"csrf", "live", "ready"}

ContextError == {ctx} \cap ContextErrors

Failures ==
    {<<s>> : s \in Sentinels}
    \cup (IF op \in ChecksContext THEN {<<e>> : e \in ContextError} ELSE {})
    \cup (IF op \in InTransaction THEN {<<"other">>} ELSE {})
    \cup (IF op \in UsesRepository
            THEN {Internal(<<"other">> \o c) : c \in {<<>>} \cup {<<e>> : e \in ContextError}}
            ELSE {})
    \cup (IF op = "csrf" THEN {Internal(<<"other">>)} ELSE {})

ServiceReturns ==
    /\ mode = "service"
    /\ mode' = "respond"
    /\ outcome' \in {<<>>} \cup Failures
    /\ UNCHANGED <<config, op, at, ctx, bounded, rid, passed, answers, cookies,
                   observed>>

\* Middleware below Recovery, handlers and services may panic until the
\* answer is written.  Recovery does not ask whether it is, and what runs
\* after it, the second halves and gin's rendering, is taken not to panic.
Panics ==
    /\ mode \in {"down", "service", "respond"}
    /\ \E k \in 1 .. (at - 1) : Chain[k] = "recovery"
    /\ mode' = "panic" /\ at' = at - 1 /\ panicked' = TRUE
    /\ UNCHANGED <<config, op, ctx, bounded, rid, passed, outcome, answers,
                   cookies, counted, logged>>

\* The second half of a handler: 2xx and cookies on success, Fail otherwise.
Reply(o, status, c) ==
    /\ mode = "respond" /\ op = o
    /\ \/ outcome = <<>> /\ OK(status) /\ cookies' = c
       \/ outcome # <<>> /\ Fail(outcome) /\ UNCHANGED cookies
    /\ UNCHANGED <<config, op, ctx, bounded, rid, passed, outcome, observed>>

GetMessage == Reply("message", 200, "none")
GetCSRFToken == Reply("csrf", 200, "none")
Register == Reply("register", 201, "set")
Login == Reply("login", 200, "set")
Refresh == Reply("refresh", 200, "set")
GetMe == Reply("me", 200, "none")
ListSessions == Reply("sessions", 200, "none")
ChangePassword == Reply("password", 200, "set")
GetCounter == Reply("getCounter", 200, "none")
IncrementCounter == Reply("incCounter", 200, "none")
CheckLive == Reply("live", 200, "none")

\* Variant: the cookies are cleared before the account is deleted.
DeleteClearsFirst ==
    /\ mode = "respond" /\ op = "delete"
    /\ \/ outcome = <<>> /\ OK(200)
       \/ outcome # <<>> /\ Fail(outcome)
    /\ cookies' = "clear"
    /\ UNCHANGED <<config, op, ctx, bounded, rid, passed, outcome, observed>>

DeleteAccount == Reply("delete", 200, "clear")

\* An error of the revocation is logged; the cookies go in any case.
Logout ==
    /\ mode = "respond" /\ op = "logout"
    /\ OK(200)
    /\ cookies' = "clear"
    /\ UNCHANGED <<config, op, ctx, bounded, rid, passed, outcome, observed>>

\* A dependency that fails, or has no time to answer, degrades the whole.
CheckWithDependencies == {"ok", "degraded"}

\* Readiness: degraded is a 503 of its own, not an error.
Ready ==
    \/ Reply("ready", 200, "none") /\ "ok" \in CheckWithDependencies
    \/ /\ mode = "respond" /\ op = "ready" /\ outcome = <<>>
       /\ "degraded" \in CheckWithDependencies
       /\ WithCorrelation(503)
       /\ UNCHANGED <<config, op, ctx, bounded, rid, passed, outcome, cookies,
                      observed>>

Respond ==
    \/ GetMessage \/ GetCSRFToken \/ Register \/ Login \/ Refresh \/ GetMe
    \/ ListSessions \/ Logout \/ ChangePassword \/ DeleteAccount
    \/ GetCounter \/ IncrementCounter \/ CheckLive \/ Ready

---------------------------------------------------------------------------
(* Second halves *)

Count(m) == counted' = IF m = "metrics" THEN counted + 1 ELSE counted
Log(m) == logged' = IF m = "accessLog" THEN logged + 1 ELSE logged

Unwind ==
    /\ mode = "up"
    /\ \/ at = 0 /\ mode' = "done" /\ UNCHANGED <<at, counted, logged>>
       \/ at > Len(Chain) /\ at' = at - 1 /\ UNCHANGED <<mode, counted, logged>>
       \/ /\ at \in DOMAIN Chain /\ Count(Chain[at]) /\ Log(Chain[at])
          /\ at' = at - 1 /\ UNCHANGED mode
    /\ UNCHANGED <<config, op, ctx, bounded, rid, passed, outcome, answers,
                   cookies, panicked>>

\* Only Recovery has a deferred second half that answers.
Recover ==
    /\ mode = "panic"
    /\ \/ Chain[at] = "recovery" /\ WithCorrelation(500)
       \/ Chain[at] # "recovery" /\ at' = at - 1 /\ UNCHANGED <<mode, answers>>
    /\ UNCHANGED <<config, op, ctx, bounded, rid, passed, outcome, cookies,
                   observed>>

---------------------------------------------------------------------------
(* The context *)

ContextEnds ==
    /\ ctx = "live" /\ mode # "done"
    /\ \/ ctx' = "canceled"
       \/ bounded /\ ctx' = "deadline"
    /\ UNCHANGED <<config, op, mode, at, bounded, rid, passed, outcome,
                   answers, cookies, observed>>

Init ==
    /\ config \in [metrics : BOOLEAN, limit : BOOLEAN, tracing : BOOLEAN,
                   deadline : BOOLEAN]
    /\ op \in Ops
    /\ mode = "down" /\ at = 1 /\ ctx = "live" /\ bounded = FALSE
    /\ rid = "none" /\ passed = {} /\ outcome = <<>> /\ answers = <<>>
    /\ cookies = "none" /\ counted = 0 /\ logged = 0 /\ panicked = FALSE

Step ==
    \/ RequestID \/ Recovery \/ Metrics \/ AccessLog \/ SecurityHeaders
    \/ BodyLimit \/ Cors \/ RateLimit \/ Timeout \/ Auth \/ Csrf
    \/ Prepare \/ ServiceReturns \/ Panics \/ Respond
    \/ Unwind \/ Recover

Next == Step \/ ContextEnds

\* The goroutine of a request runs until it has answered.
Spec == Init /\ [][Next]_vars /\ WF_vars(Step)

---------------------------------------------------------------------------
(* Properties *)

Done == mode = "done"

Answered(status) == \E k \in DOMAIN answers : answers[k].status = status

\* Type correctness.
TypeOK ==
    /\ config \in [metrics : BOOLEAN, limit : BOOLEAN, tracing : BOOLEAN,
                   deadline : BOOLEAN]
    /\ op \in Ops
    /\ mode \in {"down", "service", "respond", "up", "panic", "done"}
    /\ at \in 0 .. Len(Chain) + 1
    /\ ctx \in {"live"} \cup ContextErrors /\ bounded \in BOOLEAN
    /\ rid \in {"none", "client", "trace", "uuid"}
    /\ passed \subseteq {"auth", "csrf", "input"}
    /\ \A k \in DOMAIN outcome : outcome[k] \in Links
    /\ \A k \in DOMAIN answers :
          answers[k] \in [status : {200, 201, 204, 400, 401, 403, 404, 408, 409,
                                   429, 500, 503, 504},
                          id : {"none", "client", "trace", "uuid"},
                          by : {"app", "cors"}]
    /\ cookies \in {"none", "set", "clear"}
    /\ counted \in Nat /\ logged \in Nat /\ panicked \in BOOLEAN

\* A service runs only for requests that may ask for it: with a user where an
\* account is concerned, and with a CSRF token where the request changes
\* state on the strength of a cookie (router.go 38-71).
ServiceOnlyIfAllowed ==
    mode \in {"service", "respond"} =>
        /\ op \notin {"message", "csrf", "register", "login", "refresh", "live",
                      "ready"} => "auth" \in passed
        /\ Method(op) # "GET" /\ op \notin {"register", "login"} =>
              "csrf" \in passed

\* A request is answered in the end and exactly once, whatever ends its
\* context and wherever it panics, and a failure that is not CORS's own answer
\* names in its body the id that leads to the request's log lines, also the
\* 500 of a panic and the refusals of early middleware (respond.go 46-78,
\* middleware/respond.go 15-18, recovery.go 17-32, health.go 61-68).
AnsweredOnce ==
    <>[](/\ Done /\ Len(answers) = 1
         /\ answers[1].by = "app" /\ answers[1].status >= 400 =>
               answers[1].id = rid /\ rid # "none")

\* The responses docs/openapi.yaml lists for an operation; for paths it does
\* not list, what its descriptions of 404 and 405 say.
Documented(o) ==
    CASE o = "message" -> {200, 429, 500, 504}
      [] o = "csrf" -> {200, 429, 500}
      [] o = "register" -> {201, 400, 409, 429, 500, 504}
      [] o = "login" -> {200, 400, 401, 429, 500, 504}
      [] o = "refresh" -> {200, 401, 403, 429, 500, 504}
      [] o = "logout" -> {200, 401, 403, 429, 500}
      [] o = "me" -> {200, 401, 404, 429, 500, 504}
      [] o = "delete" -> {200, 401, 403, 404, 429, 500, 504}
      [] o = "sessions" -> {200, 400, 401, 429, 500, 504}
      [] o = "password" -> {200, 400, 401, 403, 429, 500, 504}
      [] o = "getCounter" -> {200, 401, 429, 500, 504}
      [] o = "incCounter" -> {200, 401, 403, 429, 500, 504}
      [] o = "live" -> {200, 429}
      [] o = "ready" -> {200, 429, 503}
      [] o = "noRoute" -> {404, 429}
      [] o = "wrongMethod" -> {405, 429}

\* Where the code leaves these lists: a client that is gone, a health route
\* cut off by the deadline, a panic, and a method no route has.
Undocumented(status) ==
    \/ status = 408 /\ outcome = <<"canceled">>
    \/ status = 504 /\ outcome = <<"deadline">> /\ op \in {"live", "ready"}
    \/ status = 500 /\ panicked
    \/ status = 404 /\ op = "wrongMethod"

\* The status of an answer is one that docs/openapi.yaml lists for the
\* operation, or CORS's own, or one of the four named above.  And what the end
\* of the context becomes depends on who noticed it: met by the service or the
\* transaction itself it is a 504 (a 408 for a client that is gone), behind a
\* repository's error it is a 500, and there is no 504 without it
\* (apperr.go 126-137, get_counter.service.go 13-17, tx.gorm.go 27-35).
DocumentedStatus ==
    \A k \in DOMAIN answers :
        LET s == answers[k].status
        IN answers[k].by = "app" =>
              /\ s \in Documented(op) \/ Undocumented(s)
              /\ s = 504 => ctx = "deadline"
              /\ \A e \in ContextErrors :
                    Has(outcome, e) /\ op # "logout" /\ ~ panicked =>
                        s = IF outcome # <<e>> THEN 500
                            ELSE IF e = "deadline" THEN 504 ELSE 408

IssuesCookies == {"register", "login", "refresh", "password"}

\* A client's cookies change exactly when the service reported success and the
\* client is told so; Logout clears them in any case (user.go 70, 87, 107,
\* 112-128, 201 and 205-224).
CookiesFollowOutcome ==
    Done =>
        LET worked == \E k \in DOMAIN answers : answers[k].status \in {200, 201}
        IN /\ cookies = "set" <=> op \in IssuesCookies /\ worked
           /\ cookies = "clear" <=> op \in {"delete", "logout"} /\ worked
           /\ worked /\ op # "logout" => outcome = <<>>

\* Every answer is counted and logged once, refusals by middleware included;
\* a panic, wherever it happens, escapes both and is answered with a 500
\* (metrics.go 117-136, access_log.go 16-46, recovery.go 17-32).
ObservedUnlessPanicked ==
    Done => IF panicked
            THEN logged = 0 /\ counted = 0 /\ Answered(500)
            ELSE logged = 1 /\ counted = (IF config.metrics THEN 1 ELSE 0)

\* What container.go 267-268 and access_log.go 11 say: a panicked request is
\* counted with its 500, and every request has exactly one access log line.
EveryRequestObserved ==
    Done => logged = 1 /\ (config.metrics => counted = 1)

\* What timeout.go 13-14 says: the deadline reaches the client as a 504.
DeadlineIs504 ==
    Done /\ Has(outcome, "deadline") /\ op # "logout" => Answered(504)

\* What docs/openapi.yaml 1811-1812 says: a path that exists, but not for
\* this method, is a 405 in the standard envelope.
WrongMethodIs405 ==
    Done /\ op = "wrongMethod" =>
        answers[1].by = "cors" \/ answers[1].status \in {405, 429}

\* What docs/openapi.yaml 1009-1011 says: if the process can answer the
\* liveness probe, the answer is 200 (or the 429 listed beside it).
LiveIs200 ==
    Done /\ op = "live" =>
        answers[1].by = "cors" \/ answers[1].status \in {200, 429}

\* What docs/openapi.yaml 1653-1654 says: the body of a failed readiness
\* probe has no request id.
NotReadyHasNoId ==
    \A k \in DOMAIN answers : answers[k].status = 503 => answers[k].id = "none"
============================================================================
