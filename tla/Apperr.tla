------------------------------- MODULE Apperr ------------------------------
(***************************************************************************)
(* The classification of failures (internal/apperr): an error is the       *)
(* sequence of the links of its chain, outermost first.  A link is the     *)
(* code of an *apperr.Error, one of the two context errors, or something   *)
(* else (a driver error, the text fmt.Errorf adds).                        *)
(***************************************************************************)
EXTENDS Integers, Sequences

Codes == {"INVALID_INPUT", "UNAUTHORIZED", "FORBIDDEN", "NOT_FOUND", "CONFLICT",
          "TOO_MANY_REQUESTS", "TIMEOUT", "UNAVAILABLE", "INTERNAL"}

ContextErrors == {"deadline", "canceled"}

Links == Codes \cup ContextErrors \cup {"other"}

Has(err, l) == \E k \in DOMAIN err : err[k] = l

\* Internal and Wrap hide the cause behind a code.
Internal(cause) == <<"INTERNAL">> \o cause

WithCause(code, cause) == <<code>> \o cause

\* errors.As: the first *Error of the chain decides, whatever it wraps.
From(err) ==
    LET app == {k \in DOMAIN err : err[k] \in Codes}
    IN IF app = {} THEN "none" ELSE err[CHOOSE k \in app : \A j \in app : k <= j]

StatusForCode(c) ==
    CASE c = "INVALID_INPUT" -> 400
      [] c = "UNAUTHORIZED" -> 401
      [] c = "FORBIDDEN" -> 403
      [] c = "NOT_FOUND" -> 404
      [] c = "CONFLICT" -> 409
      [] c = "TOO_MANY_REQUESTS" -> 429
      [] c = "TIMEOUT" -> 504
      [] c = "UNAVAILABLE" -> 503
      [] OTHER -> 500

\* Variant: the deadline is no case of its own.
StatusWithoutDeadline(err) ==
    IF From(err) # "none" THEN StatusForCode(From(err))
    ELSE IF Has(err, "canceled") THEN 408
    ELSE 500

HTTPStatus(err) ==
    IF From(err) # "none" THEN StatusForCode(From(err))
    ELSE IF Has(err, "deadline") THEN 504
    ELSE IF Has(err, "canceled") THEN 408
    ELSE 500
============================================================================
