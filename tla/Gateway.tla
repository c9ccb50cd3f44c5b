------------------------------- MODULE Gateway -------------------------------
(***************************************************************************)
(* The way of an API call through cli/src/server.rs: authentication, rate  *)
(* limiter, extraction of path and body, handler, answer; and back through *)
(* the client of agents/ts-client, with the retries of the orchestrator.   *)
(* Calls of several clients run at once, and an attempt its client has     *)
(* given up may still be under way beside the next one.  What a handler    *)
(* finds in its store is left open here: any of its answers may come.      *)
(***************************************************************************)
EXTENDS Naturals

CONSTANTS
  Call,        \* the calls clients make
  Token,       \* non-empty bearer tokens
  Admin,       \* the tokens that start with "admin:"
  Blank,       \* nothing but white space, as a token or as an API key
  ApiKeys,     \* the entries of the API_KEYS variable
  None,        \* no value
  Rpm,         \* config.rate_limit_rpm; RateLimiter has the limit of zero
  MaxRetries,  \* retries of a call the orchestrator makes
  Asks,        \* bound: the routes and headers that may be asked with in each call
  MaxWindows   \* bound: windows of the limiter that end

VARIABLES
  request,   \* what each call asks for
  client,    \* where the client of each call stands
  tries,     \* withRetry: the current attempt of each call
  attempt,   \* where each attempt stands on the server, and its answer
  unheard,   \* the attempts of each call that timed out
  used,      \* RateLimiter: the count kept for each key
  windows    \* windows that have ended

vars == <<request, client, tries, attempt, unheard, used, windows>>

-----------------------------------------------------------------------------
(* Routes, requests and errors *)

\* The routes with a JSON body, and the others.
Post == {"createSession", "playAction", "createWallet", "walletOperation"}
Get  == {"getSession", "getSessionEvents", "getGameFingerprint", "rlExport",
         "metrics", "health"}
Route == Post \cup Get

\* The calls the orchestrator makes with withRetry.
Retried == {"createSession", "getSession", "playAction"}

\* The Authorization header of a request.
Header == [scheme : {"Bearer", "other"}, token : Token \cup {Blank}] \cup {None}

\* A request is well formed; or its path, query or body does not parse; or its
\* body is JSON of another shape; or it comes without a Content-Type.
Forms == {"good", "garbled", "misshapen", "untyped"}

ASSUME GatewayAssumption ==
  /\ Admin \subseteq Token
  /\ Blank \notin Token
  /\ ApiKeys \subseteq Token \cup {Blank}
  /\ Rpm \in Nat \ {0}
  /\ MaxRetries \in Nat
  /\ MaxWindows \in Nat
  /\ None \notin Nat
  /\ None \notin [route : Route, header : Header, form : Forms]
  /\ Asks \in [Call -> SUBSET [route : Route, header : Header]]

\* The headers in use.
Headers == UNION {{ask.header : ask \in Asks[c]} : c \in Call}

\* The forms that tell requests to a route apart.
Form(r) ==
  CASE r \in Post                 -> Forms
    [] r \in {"metrics", "health"} -> {"good"}
    [] OTHER                      -> {"good", "garbled"}

DomainError == {"NotFound", "InvalidTransition", "WalletLimitExceeded",
                "InvalidInput", "Internal", "RateLimitExceeded"}

\* The code ErrorResponse has for each error.
ErrorCode(e) ==
  CASE e = "NotFound"            -> "NOT_FOUND"
    [] e = "InvalidTransition"   -> "STATE_ERROR"
    [] e = "WalletLimitExceeded" -> "WALLET_LIMIT_EXCEEDED"
    [] e = "InvalidInput"        -> "INVALID_INPUT"
    [] e = "RateLimitExceeded"   -> "RATE_LIMIT"
    [] e = "Internal"            -> "INTERNAL_ERROR"

Status(e) ==
  CASE e = "NotFound"            -> 404
    [] e = "InvalidTransition"   -> 409
    [] e = "WalletLimitExceeded" -> 402
    [] e = "InvalidInput"        -> 400
    [] e = "RateLimitExceeded"   -> 429
    [] e = "Internal"            -> 500

\* HttpError::into_response
HttpError(e) == [status |-> Status(e), code |-> ErrorCode(e)]

\* axum rejects a request before the handler runs, in plain text.
Rejection(form) ==
  [status |-> CASE form = "untyped"   -> 415
                [] form = "misshapen" -> 422
                [] OTHER              -> 400,
   code   |-> None]

\* Created and answered with 201, or 200.
Success(r) == [status |-> IF r \in {"createSession", "createWallet"} THEN 201 ELSE 200,
               code   |-> None]

IsOk(answer) == answer.status < 300

\* The errors each handler can answer with, its store being what it may.  No
\* handler checks its input, and no route ever saves a fingerprint.
Failures(r) ==
  CASE r \in {"getSession", "getSessionEvents", "getGameFingerprint"} -> {"NotFound"}
    [] r = "playAction"      -> {"NotFound", "InvalidTransition"}
    [] r = "walletOperation" -> {"NotFound", "WalletLimitExceeded"}
    [] r = "rlExport"        -> {"Internal"}
    [] OTHER                 -> {}

-----------------------------------------------------------------------------
(* auth.rs *)

\* AppState::with_config: split at commas, trimmed, empty entries left out.
Keys == ApiKeys \ {Blank}

\* The token of a Bearer header, or none.
ParseBearer(h) ==
  IF h # None /\ h.scheme = "Bearer" /\ h.token # Blank THEN h.token ELSE None

\* validate_token: without keys any token will do.
Validate(token) == token # None /\ (Keys = {} \/ token \in Keys)

Role(token) == IF token \in Admin THEN "Admin" ELSE "User"

Authenticates(h) == Validate(ParseBearer(h))

Unauthorized(status) == [status |-> status, code |-> "UNAUTHORIZED"]

-----------------------------------------------------------------------------
Fresh == [at |-> "none", wrote |-> FALSE, answer |-> None]

Init ==
  /\ request = [c \in Call |-> None]
  /\ client = [c \in Call |-> "idle"]
  /\ tries = [c \in Call |-> 0]
  /\ attempt = [c \in Call |-> [k \in 0..MaxRetries |-> Fresh]]
  /\ unheard = [c \in Call |-> {}]
  /\ used = [h \in Headers |-> None]
  /\ windows = 0

(* The client *)

SetAttempt(c, k, new) == attempt' = [attempt EXCEPT ![c][k] = new]

\* One call to DefaultApi.
Ask(c, ask, form) ==
  /\ client[c] = "idle"
  /\ request' = [request EXCEPT ![c] = [route |-> ask.route, header |-> ask.header, form |-> form]]
  /\ client' = [client EXCEPT ![c] = "waiting"]
  /\ SetAttempt(c, 0, [Fresh EXCEPT !.at = "sent"])
  /\ UNCHANGED <<tries, unheard, used, windows>>

\* Mutant: an answer that is no JSON stands for a bad request.
CodeOrInvalid(answer) == IF answer.code = None THEN "INVALID_INPUT" ELSE answer.code

\* handleResponse: the code of the JSON body, or the one it starts from.
Code(answer) == IF answer.code = None THEN "INTERNAL_ERROR" ELSE answer.code

NoRetry == {"WALLET_LIMIT_EXCEEDED", "INVALID_INPUT", "STATE_ERROR", "NOT_FOUND",
            "UNAUTHORIZED"}

\* Mutant: a call that failed is made again without being counted.
RetryForever(c, retryable) ==
  IF retryable /\ request[c].route \in Retried
  THEN /\ tries' = [tries EXCEPT ![c] = 0]
       /\ SetAttempt(c, 0, [Fresh EXCEPT !.at = "sent"])
       /\ UNCHANGED client
  ELSE /\ client' = [client EXCEPT ![c] = "failed"]
       /\ UNCHANGED <<tries, attempt>>

\* Mutant: one retry too many.
RetryOnceMore(c, retryable) ==
  IF retryable /\ request[c].route \in Retried /\ tries[c] <= MaxRetries
  THEN /\ tries' = [tries EXCEPT ![c] = @ + 1]
       /\ SetAttempt(c, tries[c] + 1, [Fresh EXCEPT !.at = "sent"])
       /\ UNCHANGED client
  ELSE /\ client' = [client EXCEPT ![c] = "failed"]
       /\ UNCHANGED <<tries, attempt>>

\* withRetry: the next attempt, or the error is the caller's.
RetryOrFail(c, retryable) ==
  IF retryable /\ request[c].route \in Retried /\ tries[c] < MaxRetries
  THEN /\ tries' = [tries EXCEPT ![c] = @ + 1]
       /\ SetAttempt(c, tries[c] + 1, [Fresh EXCEPT !.at = "sent"])
       /\ UNCHANGED client
  ELSE /\ client' = [client EXCEPT ![c] = "failed"]
       /\ UNCHANGED <<tries, attempt>>

\* The answer to the current attempt arrives.
Hear(c) ==
  LET now == attempt[c][tries[c]]
  IN  /\ client[c] = "waiting"
      /\ now.at = "answered"
      /\ IF IsOk(now.answer)
         THEN /\ client' = [client EXCEPT ![c] = "done"]
              /\ UNCHANGED <<tries, attempt>>
         ELSE RetryOrFail(c, Code(now.answer) \notin NoRetry)
      /\ UNCHANGED <<request, unheard, used, windows>>

\* The timer of withAuth aborts the current attempt; fetch throws.
TimeOut(c) ==
  /\ client[c] = "waiting"
  /\ unheard' = [unheard EXCEPT ![c] = @ \cup {tries[c]}]
  /\ RetryOrFail(c, TRUE)
  /\ UNCHANGED <<request, used, windows>>

-----------------------------------------------------------------------------
(* The server *)

Answer(c, k, answer) ==
  SetAttempt(c, k, [attempt[c][k] EXCEPT !.at = "answered", !.answer = answer])

Pass(c, k, next) == SetAttempt(c, k, [attempt[c][k] EXCEPT !.at = next])

HealthHandler(c, k) ==
  /\ attempt[c][k].at = "sent"
  /\ request[c].route = "health"
  /\ Answer(c, k, Success("health"))
  /\ UNCHANGED <<request, client, tries, unheard, used, windows>>

AuthMiddleware(c, k) ==
  /\ attempt[c][k].at = "sent"
  /\ request[c].route # "health"
  /\ IF Authenticates(request[c].header)
     THEN Pass(c, k, "authorized")
     ELSE Answer(c, k, Unauthorized(401))
  /\ UNCHANGED <<request, client, tries, unheard, used, windows>>

\* The limiter's window for a key ends; the next check starts another.
WindowEnds(h) ==
  /\ windows < MaxWindows
  /\ used[h] # None
  /\ used' = [used EXCEPT ![h] = None]
  /\ windows' = windows + 1
  /\ UNCHANGED <<request, client, tries, attempt, unheard>>

\* Mutant: the limiter sits outside of the authentication.
RateLimitFirst(c, k) ==
  LET h == request[c].header
  IN  /\ attempt[c][k].at = "sent"
      /\ used' = [used EXCEPT ![h] = 1]
      /\ Pass(c, k, "authorized")
      /\ UNCHANGED <<request, client, tries, unheard, windows>>

\* RateLimiter::check by the whole header; RateLimiter has its windows.
RateLimitMiddleware(c, k) ==
  LET h == request[c].header
  IN  /\ attempt[c][k].at = "authorized"
      /\ IF used[h] = None
         THEN /\ used' = [used EXCEPT ![h] = 1]
              /\ Pass(c, k, "admitted")
         ELSE IF used[h] < Rpm
         THEN /\ used' = [used EXCEPT ![h] = @ + 1]
              /\ Pass(c, k, "admitted")
         ELSE /\ Answer(c, k, HttpError("RateLimitExceeded"))
              /\ UNCHANGED used
      /\ UNCHANGED <<request, client, tries, unheard, windows>>

\* Path, Query and Json extractors.
Extract(c, k) ==
  LET form == request[c].form
  IN  /\ attempt[c][k].at = "admitted"
      /\ IF form = "good" THEN Pass(c, k, "extracted")
                          ELSE Answer(c, k, Rejection(form))
      /\ UNCHANGED <<request, client, tries, unheard, used, windows>>

\* A handler returns an error, before it has changed anything.
HandlerFails(c, k) ==
  /\ attempt[c][k].at = "extracted"
  /\ \E e \in Failures(request[c].route) : Answer(c, k, HttpError(e))
  /\ UNCHANGED <<request, client, tries, unheard, used, windows>>

\* A handler that only reads.
HandlerReads(c, k) ==
  /\ attempt[c][k].at = "extracted"
  /\ request[c].route \in {"getSession", "getSessionEvents", "rlExport"}
  /\ Answer(c, k, Success(request[c].route))
  /\ UNCHANGED <<request, client, tries, unheard, used, windows>>

\* The counters, for an admin.  The token has been validated before.
MetricsHandler(c, k) ==
  /\ attempt[c][k].at = "extracted"
  /\ request[c].route = "metrics"
  /\ IF Role(ParseBearer(request[c].header)) = "Admin"
     THEN Answer(c, k, Success("metrics"))
     ELSE Answer(c, k, Unauthorized(403))
  /\ UNCHANGED <<request, client, tries, unheard, used, windows>>

\* A handler writes to its store and answers; a play has its experience still
\* to insert.
HandlerWrites(c, k) ==
  LET r == request[c].route
  IN  /\ attempt[c][k].at = "extracted"
      /\ r \in Post
      /\ SetAttempt(c, k,
           IF r = "playAction"
           THEN [at |-> "recording", wrote |-> TRUE, answer |-> None]
           ELSE [at |-> "answered", wrote |-> TRUE, answer |-> Success(r)])
      /\ UNCHANGED <<request, client, tries, unheard, used, windows>>

\* Mutant: a failed insert is an error like another.
PlayRecordedOrFailed(c, k) ==
  /\ attempt[c][k].at = "recording"
  /\ \E answer \in {Success("playAction"), HttpError("Internal")} : Answer(c, k, answer)
  /\ UNCHANGED <<request, client, tries, unheard, used, windows>>

\* The insert has succeeded or failed; the answer is the same.
PlayRecorded(c, k) ==
  /\ attempt[c][k].at = "recording"
  /\ Answer(c, k, Success("playAction"))
  /\ UNCHANGED <<request, client, tries, unheard, used, windows>>

\* The request is lost on its way; or its client has gone and the handler is
\* dropped while it waits for the database.
Lost(c, k) ==
  /\ \/ attempt[c][k].at = "sent"
     \/ attempt[c][k].at = "recording" /\ k \in unheard[c]
  /\ Pass(c, k, "gone")
  /\ UNCHANGED <<request, client, tries, unheard, used, windows>>

Serve(c, k) ==
  \/ HealthHandler(c, k) \/ AuthMiddleware(c, k) \/ RateLimitMiddleware(c, k)
  \/ Extract(c, k) \/ HandlerFails(c, k) \/ HandlerReads(c, k)
  \/ MetricsHandler(c, k) \/ HandlerWrites(c, k) \/ PlayRecorded(c, k) \/ Lost(c, k)

Next ==
  \/ \E c \in Call :
       \/ \E ask \in Asks[c] : \E form \in Form(ask.route) : Ask(c, ask, form)
       \/ Hear(c)
       \/ TimeOut(c)
       \/ \E k \in 0..MaxRetries : Serve(c, k)
  \/ \E h \in Headers : WindowEnds(h)

\* An attempt is answered or its timer fires.
Fairness == \A c \in Call : WF_vars(Hear(c) \/ TimeOut(c))

Spec == Init /\ [][Next]_vars /\ Fairness

-----------------------------------------------------------------------------
(* Properties *)

AnswerSet == [status : {200, 201, 400, 401, 402, 403, 404, 409, 415, 422, 429, 500},
              code : {"NOT_FOUND", "STATE_ERROR", "WALLET_LIMIT_EXCEEDED",
                      "RATE_LIMIT", "INTERNAL_ERROR", "UNAUTHORIZED", None}]

AttemptSet == [at : {"none", "sent", "authorized", "admitted", "extracted",
                     "recording", "answered", "gone"},
               wrote : BOOLEAN, answer : AnswerSet \cup {None}]

\* The code INVALID_INPUT of the API is never used: no answer has it.
TypeOK ==
  /\ request \in [Call -> [route : Route, header : Headers,
                           form : Forms] \cup {None}]
  /\ client \in [Call -> {"idle", "waiting", "done", "failed"}]
  /\ \A c \in Call : client[c] # "idle" <=> request[c] # None
  /\ tries \in [Call -> 0..MaxRetries]
  /\ attempt \in [Call -> [0..MaxRetries -> AttemptSet]]
  /\ unheard \in [Call -> SUBSET (0..MaxRetries)]
  /\ used \in [Headers -> Nat \cup {None}]
  /\ windows \in Nat

(* An error answer means that its attempt has changed nothing, whichever layer
   or handler it comes from: a play that is done is never reported as failed
   for the sake of its event or experience. *)
ErrorMeansNoEffect ==
  \A c \in Call, k \in 0..MaxRetries :
    LET a == attempt[c][k]
    IN  a.at = "answered" /\ ~IsOk(a.answer) => ~a.wrote

(* A call has its effect twice only by an attempt that timed out: one the client
   heard of is the last one made and does not end in an error. *)
EffectHeardOnce ==
  \A c \in Call, k \in 0..MaxRetries :
    attempt[c][k].wrote /\ k \notin unheard[c] =>
      k = tries[c] /\ client[c] # "failed"

(* The limiter's map has keys of authenticated callers only: requests that are
   refused with 401 neither count nor leave an entry behind. *)
LimiterKnowsOnlyCallers ==
  \A h \in Headers : used[h] # None => Authenticates(h)

(* A request the server cannot read is never carried out, and the orchestrator
   makes it again until its retries are used up: the plain-text rejection looks
   like an internal error to the client. *)
UnreadableRepeatedInVain ==
  \A c \in Call :
    client[c] \in {"done", "failed"} /\ request[c].form # "good" =>
      /\ client[c] = "failed"
      /\ \A k \in 0..MaxRetries : ~attempt[c][k].wrote
      /\ request[c].route \in Retried /\ Authenticates(request[c].header) =>
           tries[c] = MaxRetries

(* Every call comes to an end for its client, whatever is lost or refused. *)
CallsEnd ==
  \A c \in Call : client[c] = "waiting" ~> client[c] \in {"done", "failed"}
=============================================================================
