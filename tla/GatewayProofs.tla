----------------------------- MODULE GatewayProofs -----------------------------
(***************************************************************************)
(* Theorems about Gateway, for any calls, headers, keys and retries.       *)
(***************************************************************************)
EXTENDS Gateway, TLAPS

Attempts == 0..MaxRetries

Accepted(a) == a.at = "answered" /\ IsOk(a.answer)
Rejected(a) == a.at = "answered" /\ ~IsOk(a.answer)

\* The client is done with an attempt and has not given the call up as done.
Past(c, k) == k < tries[c] \/ (k = tries[c] /\ client[c] = "failed")

\* What holds of each attempt: it belongs to a call that was made; it has
\* written only if it is on its way to a good answer; it was rejected, if the
\* client heard of it and went on; and it got past the authentication and the
\* extractors only as they let it.
AttemptInv(c, k) ==
  LET a == attempt[c][k]
  IN  /\ a.at # "none" => client[c] # "idle" /\ k <= tries[c]
      /\ a.wrote => a.at \in {"recording", "gone"} \/ Accepted(a)
      /\ Past(c, k) /\ k \notin unheard[c] => Rejected(a)
      /\ a.at = "authorized" => Authenticates(request[c].header)
      /\ a.wrote \/ a.at \in {"extracted", "recording"} \/ Accepted(a)
           => request[c].form = "good"
      /\ Rejected(a) /\ request[c].form # "good" /\ Authenticates(request[c].header)
           => a.answer.code \in {"RATE_LIMIT", None}
      /\ k = tries[c] /\ client[c] = "done" => Accepted(a)

\* What holds of each call.
CallInv(c) ==
  /\ client[c] = "idle" => tries[c] = 0
  /\ client[c] # "idle" => request[c].form \in Form(request[c].route)
  /\ client[c] = "failed" /\ request[c].form # "good"
       /\ request[c].route \in Retried /\ Authenticates(request[c].header)
       => tries[c] = MaxRetries

IInv ==
  /\ TypeOK
  /\ \A c \in Call : CallInv(c)
  /\ \A c \in Call, k \in Attempts : AttemptInv(c, k)
  /\ LimiterKnowsOnlyCallers

-----------------------------------------------------------------------------
(* The invariant implies the properties *)

LEMMA InvErrors == IInv => ErrorMeansNoEffect
BY DEF IInv, AttemptInv, ErrorMeansNoEffect, Accepted, Attempts

LEMMA InvEffects == IInv => EffectHeardOnce
<1> SUFFICES ASSUME IInv, NEW c \in Call, NEW k \in 0..MaxRetries,
                    attempt[c][k].wrote, k \notin unheard[c]
             PROVE  k = tries[c] /\ client[c] # "failed"
  BY DEF EffectHeardOnce
<1>1. AttemptInv(c, k) /\ tries[c] \in Nat /\ k \in Nat
  BY GatewayAssumption DEF IInv, Attempts, TypeOK
<1>2. ~Rejected(attempt[c][k]) /\ attempt[c][k].at # "none"
  BY <1>1 DEF AttemptInv, Rejected, Accepted
<1>3. k <= tries[c] /\ ~Past(c, k)
  BY <1>1, <1>2 DEF AttemptInv
<1>4. QED
  BY <1>1, <1>3 DEF Past

LEMMA InvForms == IInv => UnreadableRepeatedInVain
<1> SUFFICES ASSUME IInv, NEW c \in Call, client[c] \in {"done", "failed"},
                    request[c].form # "good"
             PROVE  /\ client[c] = "failed"
                    /\ \A k \in 0..MaxRetries : ~attempt[c][k].wrote
                    /\ request[c].route \in Retried /\ Authenticates(request[c].header)
                         => tries[c] = MaxRetries
  BY DEF UnreadableRepeatedInVain
<1>1. CallInv(c) /\ \A k \in 0..MaxRetries : AttemptInv(c, k)
  BY DEF IInv, Attempts
<1>2. tries[c] \in 0..MaxRetries
  BY DEF IInv, TypeOK
<1>3. client[c] # "done"
  BY <1>1, <1>2 DEF AttemptInv
<1>4. \A k \in 0..MaxRetries : ~attempt[c][k].wrote
  BY <1>1 DEF AttemptInv
<1>5. QED
  BY <1>1, <1>3, <1>4 DEF CallInv

-----------------------------------------------------------------------------
(* Types *)

LEMMA ErrorType ==
  /\ \A e \in DomainError \ {"InvalidInput"} :
       HttpError(e) \in AnswerSet /\ ~IsOk(HttpError(e))
  /\ \A r \in Route : Failures(r) \subseteq DomainError \ {"InvalidInput"}
BY DEF DomainError, HttpError, Status, ErrorCode, AnswerSet, IsOk, Failures, Route,
   Post, Get

LEMMA AnswerType ==
  /\ \A r : Success(r) \in AnswerSet /\ IsOk(Success(r))
  /\ \A form : /\ Rejection(form) \in AnswerSet
               /\ ~IsOk(Rejection(form))
               /\ Rejection(form).code = None
  /\ \A status \in {401, 403} : /\ Unauthorized(status) \in AnswerSet
                                /\ ~IsOk(Unauthorized(status))
<1>1. \A r : Success(r) \in AnswerSet /\ IsOk(Success(r))
  BY DEF Success, AnswerSet, IsOk
<1>2. \A form : /\ Rejection(form) \in AnswerSet
               /\ ~IsOk(Rejection(form))
               /\ Rejection(form).code = None
  BY DEF Rejection, AnswerSet, IsOk
<1>3. \A status \in {401, 403} : /\ Unauthorized(status) \in AnswerSet
                                /\ ~IsOk(Unauthorized(status))
  BY DEF Unauthorized, AnswerSet, IsOk
<1>4. QED
  BY <1>1, <1>2, <1>3

LEMMA GatewayInit == Init => IInv
<1> SUFFICES ASSUME Init
             PROVE  IInv
  OBVIOUS
<1>1. 0 \in 0..MaxRetries /\ Fresh \in AttemptSet
  BY GatewayAssumption DEF Fresh, AttemptSet
<1>2. TypeOK
  BY <1>1, GatewayAssumption DEF Init, TypeOK
<1>3. \A c \in Call : CallInv(c)
  BY DEF Init, CallInv
<1>4. \A c \in Call, k \in Attempts : AttemptInv(c, k)
  BY GatewayAssumption DEF Init, AttemptInv, Attempts, Fresh, Past, Accepted, Rejected
<1>5. LimiterKnowsOnlyCallers
  BY DEF Init, LimiterKnowsOnlyCallers
<1>6. QED
  BY <1>2, <1>3, <1>4, <1>5 DEF IInv

-----------------------------------------------------------------------------
(* Steps of the server *)

\* What a server step must see to when it gives an attempt a new value.
Fits(c, a) ==
  /\ a.at # "none"
  /\ a.wrote => a.at \in {"recording", "gone"} \/ Accepted(a)
  /\ a.at = "authorized" => Authenticates(request[c].header)
  /\ a.wrote \/ a.at \in {"extracted", "recording"} \/ Accepted(a)
       => request[c].form = "good"
  /\ Rejected(a) /\ request[c].form # "good" /\ Authenticates(request[c].header)
       => a.answer.code \in {"RATE_LIMIT", None}

LEMMA ServerStep ==
  ASSUME IInv, NEW c \in Call, NEW k \in Attempts, NEW new \in AttemptSet,
         SetAttempt(c, k, new), Fits(c, new),
         attempt[c][k].at \notin {"none", "answered"},
         UNCHANGED <<request, client, tries, unheard>>
  PROVE  /\ attempt' \in [Call -> [0..MaxRetries -> AttemptSet]]
         /\ \A d \in Call : CallInv(d)'
         /\ \A d \in Call, j \in Attempts : AttemptInv(d, j)'
<1>1. attempt \in [Call -> [0..MaxRetries -> AttemptSet]]
  BY DEF IInv, TypeOK
<1>2. attempt' \in [Call -> [0..MaxRetries -> AttemptSet]]
  BY <1>1 DEF SetAttempt, Attempts
<1>3. \A d \in Call : CallInv(d)'
  BY DEF IInv, CallInv
<1>4. ASSUME NEW d \in Call, NEW j \in Attempts
      PROVE  AttemptInv(d, j)'
  <2>1. AttemptInv(d, j)
    BY DEF IInv
  <2>2. CASE d = c /\ j = k
    <3>1. attempt'[d][j] = new
      BY <1>1, <2>2 DEF SetAttempt, Attempts
    <3>2. ~Accepted(attempt[c][k]) /\ ~Rejected(attempt[c][k])
      BY DEF Accepted, Rejected
    <3>3. QED
      BY <2>1, <2>2, <3>1, <3>2 DEF AttemptInv, Fits, Past
  <2>3. CASE ~(d = c /\ j = k)
    <3>1. attempt'[d][j] = attempt[d][j]
      BY <1>1, <2>3 DEF SetAttempt, Attempts
    <3>2. QED
      BY <2>1, <3>1 DEF AttemptInv, Past
  <2>4. QED
    BY <2>2, <2>3
<1>5. QED
  BY <1>2, <1>3, <1>4

LEMMA AnswerStep ==
  ASSUME IInv, NEW c \in Call, NEW k \in Attempts, NEW answer \in AnswerSet,
         Answer(c, k, answer),
         attempt[c][k].at \notin {"none", "answered"},
         IsOk(answer) => request[c].form = "good",
         ~IsOk(answer) => ~attempt[c][k].wrote,
         ~IsOk(answer) /\ request[c].form # "good" /\ Authenticates(request[c].header)
           => answer.code \in {"RATE_LIMIT", None},
         UNCHANGED <<request, client, tries, unheard>>
  PROVE  /\ attempt' \in [Call -> [0..MaxRetries -> AttemptSet]]
         /\ \A d \in Call : CallInv(d)'
         /\ \A d \in Call, j \in Attempts : AttemptInv(d, j)'
<1> DEFINE a == attempt[c][k]
           new == [a EXCEPT !.at = "answered", !.answer = answer]
<1>1. a \in AttemptSet
  <2>1. attempt \in [Call -> [Attempts -> AttemptSet]]
    BY DEF IInv, TypeOK, Attempts
  <2>2. QED
    BY <2>1
<1>2. /\ new \in AttemptSet
      /\ new.at = "answered" /\ new.answer = answer /\ new.wrote = a.wrote
  BY <1>1 DEF AttemptSet
<1>3. SetAttempt(c, k, new)
  BY DEF Answer
<1>4. Accepted(new) <=> IsOk(answer)
  BY <1>2 DEF Accepted
<1>5. Rejected(new) <=> ~IsOk(answer)
  BY <1>2 DEF Rejected
<1> HIDE DEF new
<1>6. Fits(c, new)
  BY <1>2, <1>4, <1>5 DEF Fits
<1>7. QED
  BY <1>2, <1>3, <1>6, ServerStep

LEMMA PassStep ==
  ASSUME IInv, NEW c \in Call, NEW k \in Attempts,
         NEW next \in {"authorized", "admitted", "extracted", "gone"},
         Pass(c, k, next),
         attempt[c][k].at \notin {"none", "answered"},
         attempt[c][k].wrote => next = "gone",
         next = "authorized" => Authenticates(request[c].header),
         next = "extracted" => request[c].form = "good",
         UNCHANGED <<request, client, tries, unheard>>
  PROVE  /\ attempt' \in [Call -> [0..MaxRetries -> AttemptSet]]
         /\ \A d \in Call : CallInv(d)'
         /\ \A d \in Call, j \in Attempts : AttemptInv(d, j)'
<1> DEFINE a == attempt[c][k]
           new == [a EXCEPT !.at = next]
<1>1. a \in AttemptSet
  <2>1. attempt \in [Call -> [Attempts -> AttemptSet]]
    BY DEF IInv, TypeOK, Attempts
  <2>2. QED
    BY <2>1
<1>2. /\ new \in AttemptSet
      /\ new.at = next /\ new.wrote = a.wrote
  BY <1>1 DEF AttemptSet
<1>3. SetAttempt(c, k, new)
  BY DEF Pass
<1>4. ~Accepted(new) /\ ~Rejected(new)
  BY <1>2 DEF Accepted, Rejected
<1>5. a.wrote => request[c].form = "good"
  BY DEF IInv, AttemptInv
<1> HIDE DEF new
<1>6. Fits(c, new)
  BY <1>2, <1>4, <1>5 DEF Fits
<1>7. QED
  BY <1>2, <1>3, <1>6, ServerStep

\* A server step that leaves the limiter alone keeps the whole invariant.
LEMMA Kept ==
  ASSUME IInv, UNCHANGED <<request, client, tries, unheard, used, windows>>,
         attempt' \in [Call -> [0..MaxRetries -> AttemptSet]],
         \A d \in Call : CallInv(d)',
         \A d \in Call, j \in Attempts : AttemptInv(d, j)'
  PROVE  IInv'
<1>1. TypeOK'
  BY DEF IInv, TypeOK
<1>2. LimiterKnowsOnlyCallers'
  BY DEF IInv, LimiterKnowsOnlyCallers
<1>3. QED
  BY <1>1, <1>2 DEF IInv

LEMMA HealthNext ==
  ASSUME IInv, NEW c \in Call, NEW k \in Attempts, HealthHandler(c, k)
  PROVE  IInv'
<1>1. AttemptInv(c, k) /\ CallInv(c)
  BY DEF IInv
<1>2. request[c].form = "good"
  BY <1>1 DEF HealthHandler, AttemptInv, CallInv, Form, Post
<1>3. Success("health") \in AnswerSet /\ IsOk(Success("health"))
  BY AnswerType
<1>4. QED
  BY <1>2, <1>3, AnswerStep, Kept DEF HealthHandler

LEMMA AuthNext ==
  ASSUME IInv, NEW c \in Call, NEW k \in Attempts, AuthMiddleware(c, k)
  PROVE  IInv'
<1>1. ~attempt[c][k].wrote
  BY DEF IInv, AttemptInv, AuthMiddleware, Accepted
<1>2. Unauthorized(401) \in AnswerSet /\ ~IsOk(Unauthorized(401))
  BY AnswerType
<1>3. CASE Authenticates(request[c].header)
  BY <1>1, <1>3, PassStep, Kept DEF AuthMiddleware
<1>4. CASE ~Authenticates(request[c].header)
  BY <1>1, <1>2, <1>4, AnswerStep, Kept DEF AuthMiddleware
<1>5. QED
  BY <1>3, <1>4

LEMMA LimitNext ==
  ASSUME IInv, NEW c \in Call, NEW k \in Attempts, RateLimitMiddleware(c, k)
  PROVE  IInv'
<1> DEFINE h == request[c].header
<1>1. ~attempt[c][k].wrote /\ Authenticates(h)
  BY DEF IInv, AttemptInv, RateLimitMiddleware, Accepted
<1>2. /\ HttpError("RateLimitExceeded") \in AnswerSet
      /\ ~IsOk(HttpError("RateLimitExceeded"))
      /\ HttpError("RateLimitExceeded").code = "RATE_LIMIT"
  BY DEF HttpError, Status, ErrorCode, AnswerSet, IsOk
<1>3. \/ Pass(c, k, "admitted")
      \/ Answer(c, k, HttpError("RateLimitExceeded"))
  BY DEF RateLimitMiddleware
<1>4. /\ attempt' \in [Call -> [0..MaxRetries -> AttemptSet]]
      /\ \A d \in Call : CallInv(d)'
      /\ \A d \in Call, j \in Attempts : AttemptInv(d, j)'
  <2>1. CASE Pass(c, k, "admitted")
    BY <1>1, <2>1, PassStep DEF RateLimitMiddleware
  <2>2. CASE Answer(c, k, HttpError("RateLimitExceeded"))
    BY <1>1, <1>2, <2>2, AnswerStep DEF RateLimitMiddleware
  <2>3. QED
    BY <1>3, <2>1, <2>2
<1>5. used \in [Headers -> Nat \cup {None}]
  BY DEF IInv, TypeOK
<1>6. /\ used' \in [Headers -> Nat \cup {None}]
      /\ \A g \in Headers : g # h => used'[g] = used[g]
  BY <1>5 DEF RateLimitMiddleware
<1>7. TypeOK'
  BY <1>4, <1>6 DEF IInv, TypeOK, RateLimitMiddleware
<1>8. LimiterKnowsOnlyCallers'
  BY <1>1, <1>6 DEF IInv, LimiterKnowsOnlyCallers, Authenticates
<1>9. QED
  BY <1>4, <1>7, <1>8 DEF IInv

\* An attempt that has got as far as its handler.
LEMMA AtHandler ==
  ASSUME IInv, NEW c \in Call, NEW k \in Attempts, attempt[c][k].at = "extracted"
  PROVE  /\ ~attempt[c][k].wrote
         /\ request[c].form = "good"
         /\ request[c].route \in Route
<1>1. AttemptInv(c, k) /\ TypeOK
  BY DEF IInv
<1>2. ~attempt[c][k].wrote /\ request[c].form = "good"
  BY <1>1 DEF AttemptInv, Accepted
<1>3. request[c] # None
  BY <1>1 DEF AttemptInv, TypeOK
<1>4. QED
  BY <1>1, <1>2, <1>3 DEF TypeOK

LEMMA ExtractNext ==
  ASSUME IInv, NEW c \in Call, NEW k \in Attempts, Extract(c, k)
  PROVE  IInv'
<1> DEFINE rejection == Rejection(request[c].form)
<1>1. ~attempt[c][k].wrote
  BY DEF IInv, AttemptInv, Extract, Accepted
<1>2. rejection \in AnswerSet /\ ~IsOk(rejection) /\ rejection.code = None
  BY AnswerType
<1> HIDE DEF rejection
<1>3. CASE request[c].form = "good"
  BY <1>1, <1>3, PassStep, Kept DEF Extract
<1>4. CASE request[c].form # "good"
  BY <1>1, <1>2, <1>4, AnswerStep, Kept DEF Extract, rejection
<1>5. QED
  BY <1>3, <1>4

LEMMA HandlerNext ==
  ASSUME IInv, NEW c \in Call, NEW k \in Attempts,
         HandlerFails(c, k) \/ HandlerReads(c, k) \/ MetricsHandler(c, k)
  PROVE  IInv'
<1>1. /\ attempt[c][k].at = "extracted"
      /\ UNCHANGED <<request, client, tries, unheard, used, windows>>
  BY DEF HandlerFails, HandlerReads, MetricsHandler
<1>2. /\ ~attempt[c][k].wrote
      /\ request[c].form = "good"
      /\ request[c].route \in Route
  BY <1>1, AtHandler
<1>3. PICK answer \in AnswerSet : Answer(c, k, answer)
  <2>1. CASE HandlerFails(c, k)
    BY <1>2, <2>1, ErrorType DEF HandlerFails
  <2>2. CASE HandlerReads(c, k)
    BY <2>2, AnswerType DEF HandlerReads
  <2>3. CASE MetricsHandler(c, k)
    BY <2>3, AnswerType DEF MetricsHandler
  <2>4. QED
    BY <2>1, <2>2, <2>3
<1>4. QED
  BY <1>1, <1>2, <1>3, AnswerStep, Kept

LEMMA WriteNext ==
  ASSUME IInv, NEW c \in Call, NEW k \in Attempts, HandlerWrites(c, k)
  PROVE  IInv'
<1> DEFINE success == Success(request[c].route)
           new == IF request[c].route = "playAction"
                  THEN [at |-> "recording", wrote |-> TRUE, answer |-> None]
                  ELSE [at |-> "answered", wrote |-> TRUE, answer |-> success]
<1>1. attempt[c][k].at = "extracted" /\ SetAttempt(c, k, new)
  BY DEF HandlerWrites
<1>2. request[c].form = "good"
  BY <1>1, AtHandler
<1>3. success \in AnswerSet /\ IsOk(success)
  BY AnswerType
<1> HIDE DEF success
<1>4. new \in AttemptSet
  BY <1>3 DEF AttemptSet
<1>5. new.at = "recording" \/ Accepted(new)
  BY <1>3 DEF Accepted
<1>6. new.at # "none" /\ new.at # "authorized"
  OBVIOUS
<1> HIDE DEF new
<1>7. Fits(c, new)
  BY <1>2, <1>5, <1>6 DEF Fits
<1>8. QED
  BY <1>1, <1>4, <1>7, ServerStep, Kept DEF HandlerWrites

LEMMA RecordedNext ==
  ASSUME IInv, NEW c \in Call, NEW k \in Attempts, PlayRecorded(c, k)
  PROVE  IInv'
<1>1. request[c].form = "good"
  BY DEF IInv, AttemptInv, PlayRecorded
<1>2. Success("playAction") \in AnswerSet /\ IsOk(Success("playAction"))
  BY AnswerType
<1>3. QED
  BY <1>1, <1>2, AnswerStep, Kept DEF PlayRecorded

LEMMA LostNext ==
  ASSUME IInv, NEW c \in Call, NEW k \in Attempts, Lost(c, k)
  PROVE  IInv'
BY PassStep, Kept DEF Lost

LEMMA ServeNext ==
  ASSUME IInv, NEW c \in Call, NEW k \in Attempts, Serve(c, k)
  PROVE  IInv'
BY HealthNext, AuthNext, LimitNext, ExtractNext, HandlerNext, WriteNext,
   RecordedNext, LostNext DEF Serve

-----------------------------------------------------------------------------
(* Steps of the client *)

LEMMA AskNext ==
  ASSUME IInv, NEW c \in Call, NEW ask \in Asks[c], NEW form \in Form(ask.route),
         Ask(c, ask, form)
  PROVE  IInv'
<1> DEFINE new == [Fresh EXCEPT !.at = "sent"]
           req == [route |-> ask.route, header |-> ask.header, form |-> form]
<1>1. /\ new \in AttemptSet /\ new.at = "sent" /\ new.wrote = FALSE
      /\ ~Accepted(new) /\ ~Rejected(new)
  BY DEF Fresh, AttemptSet, Accepted, Rejected
<1>2. ask.route \in Route /\ ask.header \in Headers /\ ask.header \in Header
  BY GatewayAssumption DEF Headers
<1>3. form \in Forms
  BY <1>2 DEF Form, Forms, Route, Post, Get
<1>4. /\ req \in [route : Route, header : Headers,
                  form : Forms]
      /\ req.route = ask.route /\ req.form = form
  BY <1>2, <1>3
<1>5. req # None
  BY <1>2, <1>3, GatewayAssumption
<1>6. /\ request' = [request EXCEPT ![c] = req]
      /\ client' = [client EXCEPT ![c] = "waiting"]
      /\ SetAttempt(c, 0, new)
      /\ client[c] = "idle"
      /\ UNCHANGED <<tries, unheard, used, windows>>
  BY DEF Ask
<1> HIDE DEF new, req
<1>7. TypeOK /\ CallInv(c) /\ 0 \in Attempts /\ Attempts = 0..MaxRetries
  BY GatewayAssumption DEF IInv, Attempts
<1>8. tries[c] = 0 /\ tries \in [Call -> 0..MaxRetries]
  BY <1>6, <1>7 DEF CallInv, TypeOK
<1>9. /\ request' \in [Call -> [route : Route, header : Headers,
                               form : Forms] \cup {None}]
      /\ request'[c] = req
      /\ \A d \in Call \ {c} : request'[d] = request[d]
  BY <1>4, <1>6, <1>7 DEF TypeOK
<1>10. /\ client' \in [Call -> {"idle", "waiting", "done", "failed"}]
       /\ client'[c] = "waiting"
       /\ \A d \in Call \ {c} : client'[d] = client[d]
  BY <1>6, <1>7 DEF TypeOK
<1>11. /\ attempt' \in [Call -> [0..MaxRetries -> AttemptSet]]
       /\ attempt'[c][0] = new
       /\ \A d \in Call, j \in Attempts :
            d # c \/ j # 0 => attempt'[d][j] = attempt[d][j]
  BY <1>1, <1>6, <1>7 DEF TypeOK, SetAttempt
<1>12. TypeOK'
  BY <1>5, <1>6, <1>7, <1>9, <1>10, <1>11 DEF TypeOK
<1>13. ASSUME NEW d \in Call
       PROVE  CallInv(d)'
  <2>1. CASE d = c
    BY <1>4, <1>9, <1>10, <2>1 DEF CallInv
  <2>2. CASE d # c
    BY <1>6, <1>9, <1>10, <2>2 DEF IInv, CallInv
  <2>3. QED
    BY <2>1, <2>2
<1>14. ASSUME NEW d \in Call, NEW j \in Attempts
       PROVE  AttemptInv(d, j)'
  <2>1. AttemptInv(d, j)
    BY DEF IInv
  <2>2. CASE d # c
    BY <1>6, <1>9, <1>10, <1>11, <2>1, <2>2 DEF AttemptInv, Past
  <2>3. CASE d = c /\ j = 0
    BY <1>1, <1>6, <1>8, <1>10, <1>11, <2>3
    DEF AttemptInv, Past, Accepted, Rejected
  <2>4. CASE d = c /\ j # 0
    <3>1. ~(j <= 0) /\ j \in Nat /\ attempt'[c][j] = attempt[c][j]
      BY <1>7, <1>11, <2>4, GatewayAssumption DEF Attempts
    <3>2. attempt[c][j].at = "none" /\ ~attempt[c][j].wrote
      BY <1>6, <1>8, <2>1, <2>4, <3>1 DEF AttemptInv, Accepted
    <3>3. QED
      BY <1>6, <1>8, <1>10, <2>4, <3>1, <3>2
      DEF AttemptInv, Past, Accepted, Rejected
  <2>5. QED
    BY <2>2, <2>3, <2>4
<1>15. LimiterKnowsOnlyCallers'
  BY <1>6 DEF IInv, LimiterKnowsOnlyCallers
<1>16. QED
  BY <1>12, <1>13, <1>14, <1>15 DEF IInv

\* withRetry goes on from an attempt that was rejected or is not waited for any
\* longer.
LEMMA RetryStep ==
  ASSUME IInv, NEW c \in Call, NEW retryable \in BOOLEAN,
         client[c] = "waiting",
         RetryOrFail(c, retryable),
         \/ unheard' = unheard /\ Rejected(attempt[c][tries[c]])
         \/ unheard' = [unheard EXCEPT ![c] = @ \cup {tries[c]}],
         request[c].form # "good" /\ Authenticates(request[c].header) => retryable,
         UNCHANGED <<request, used, windows>>
  PROVE  IInv'
<1> DEFINE new == [Fresh EXCEPT !.at = "sent"]
           now == tries[c]
<1>1. /\ new \in AttemptSet /\ new.at = "sent" /\ new.wrote = FALSE
      /\ ~Accepted(new) /\ ~Rejected(new)
  BY DEF Fresh, AttemptSet, Accepted, Rejected
<1> HIDE DEF new
<1>2. TypeOK /\ CallInv(c) /\ Attempts = 0..MaxRetries
  BY DEF IInv, Attempts
<1>3. now \in Attempts /\ MaxRetries \in Nat /\ Attempts \subseteq Nat
  BY <1>2, GatewayAssumption DEF TypeOK
<1>4. /\ unheard' \in [Call -> SUBSET (0..MaxRetries)]
      /\ \A d \in Call : unheard[d] \subseteq unheard'[d]
      /\ \A d \in Call \ {c} : unheard'[d] = unheard[d]
      /\ now \notin unheard'[c] => Rejected(attempt[c][now])
  <2>1. unheard \in [Call -> SUBSET Attempts]
    BY <1>2 DEF TypeOK
  <2>2. CASE unheard' = unheard /\ Rejected(attempt[c][now])
    BY <1>2, <2>1, <2>2
  <2>3. CASE unheard' = [unheard EXCEPT ![c] = @ \cup {now}]
    <3>1. /\ unheard' \in [Call -> SUBSET Attempts]
          /\ unheard'[c] = unheard[c] \cup {now}
          /\ \A d \in Call \ {c} : unheard'[d] = unheard[d]
      BY <1>3, <2>1, <2>3
    <3>2. QED
      BY <1>2, <3>1
  <2>4. QED
    BY <2>2, <2>3
<1>5. LimiterKnowsOnlyCallers'
  BY DEF IInv, LimiterKnowsOnlyCallers
<1>6. CASE retryable /\ request[c].route \in Retried /\ tries[c] < MaxRetries
  <2>1. /\ tries' = [tries EXCEPT ![c] = @ + 1]
        /\ SetAttempt(c, now + 1, new)
        /\ client' = client
    BY <1>6 DEF RetryOrFail, new
  <2>2. now + 1 \in Attempts
    BY <1>2, <1>3, <1>6
  <2>3. /\ tries' \in [Call -> 0..MaxRetries]
        /\ tries'[c] = now + 1
        /\ \A d \in Call \ {c} : tries'[d] = tries[d]
    BY <1>2, <2>1, <2>2 DEF TypeOK
  <2>4. /\ attempt' \in [Call -> [0..MaxRetries -> AttemptSet]]
        /\ attempt'[c][now + 1] = new
        /\ \A d \in Call, j \in Attempts :
             d # c \/ j # now + 1 => attempt'[d][j] = attempt[d][j]
    BY <1>1, <1>2, <2>1, <2>2 DEF TypeOK, SetAttempt
  <2>5. TypeOK'
    BY <1>2, <1>4, <2>1, <2>3, <2>4 DEF TypeOK
  <2>6. ASSUME NEW d \in Call
        PROVE  CallInv(d)'
    <3>1. CallInv(d)
      BY DEF IInv
    <3>2. CASE d = c
      BY <2>1, <3>1, <3>2 DEF CallInv
    <3>3. CASE d # c
      BY <2>1, <2>3, <3>1, <3>3 DEF CallInv
    <3>4. QED
      BY <3>2, <3>3
  <2>7. ASSUME NEW d \in Call, NEW j \in Attempts
        PROVE  AttemptInv(d, j)'
    <3>1. AttemptInv(d, j)
      BY DEF IInv
    <3>2. CASE d # c
      BY <1>4, <2>1, <2>3, <2>4, <3>1, <3>2 DEF AttemptInv, Past
    <3>3. CASE d = c /\ j = now + 1
      <4>1. now \in Nat
        BY <1>3
      <4> HIDE DEF now
      <4>2. \A n \in Nat : ~(n + 1 < n + 1)
        OBVIOUS
      <4>3. QED
        BY <1>1, <2>1, <2>3, <2>4, <3>3, <4>1, <4>2
        DEF AttemptInv, Past, Accepted, Rejected
    <3>4. CASE d = c /\ j # now + 1
      <4>1. attempt'[c][j] = attempt[c][j] /\ j \in Nat /\ now \in Nat
        BY <1>3, <2>4, <3>4
      <4>2. j <= now => j <= now + 1
        BY <4>1
      <4>3. (j < now + 1) <=> (j < now \/ j = now)
        BY <4>1
      <4>4. j < now + 1 /\ j \notin unheard'[c] => Rejected(attempt[c][j])
        BY <1>4, <3>1, <3>4, <4>3 DEF AttemptInv, Past
      <4>5. QED
        BY <2>1, <2>3, <3>1, <3>4, <4>1, <4>2, <4>4 DEF AttemptInv, Past
    <3>5. QED
      BY <3>2, <3>3, <3>4
  <2>8. QED
    BY <1>5, <2>5, <2>6, <2>7 DEF IInv
<1>7. CASE ~(retryable /\ request[c].route \in Retried /\ tries[c] < MaxRetries)
  <2>1. client' = [client EXCEPT ![c] = "failed"] /\ UNCHANGED <<tries, attempt>>
    BY <1>7 DEF RetryOrFail
  <2>2. /\ client' \in [Call -> {"idle", "waiting", "done", "failed"}]
        /\ client'[c] = "failed"
        /\ \A d \in Call \ {c} : client'[d] = client[d]
    BY <1>2, <2>1 DEF TypeOK
  <2>3. \A d \in Call : client'[d] # "idle" <=> request'[d] # None
    BY <1>2, <2>2 DEF TypeOK
  <2>4. TypeOK'
    BY <1>2, <1>4, <2>1, <2>2, <2>3 DEF TypeOK
  <2>5. ASSUME NEW d \in Call
        PROVE  CallInv(d)'
    <3>1. CallInv(d)
      BY DEF IInv
    <3>2. CASE d = c
      <4>1. ~(now < MaxRetries) => now = MaxRetries
        BY <1>2, <1>3
      <4>2. QED
        BY <1>7, <2>1, <2>2, <3>1, <3>2, <4>1 DEF CallInv
    <3>3. CASE d # c
      BY <2>1, <2>2, <3>1, <3>3 DEF CallInv
    <3>4. QED
      BY <3>2, <3>3
  <2>6. ASSUME NEW d \in Call, NEW j \in Attempts
        PROVE  AttemptInv(d, j)'
    <3>1. AttemptInv(d, j)
      BY DEF IInv
    <3>2. CASE d # c
      BY <1>4, <2>1, <2>2, <3>1, <3>2 DEF AttemptInv, Past
    <3>3. CASE d = c
      BY <1>4, <2>1, <2>2, <3>1, <3>3 DEF AttemptInv, Past
    <3>4. QED
      BY <3>2, <3>3
  <2>7. QED
    BY <1>5, <2>4, <2>5, <2>6 DEF IInv
<1>8. QED
  BY <1>6, <1>7

LEMMA HearNext ==
  ASSUME IInv, NEW c \in Call, Hear(c)
  PROVE  IInv'
<1> DEFINE now == attempt[c][tries[c]]
<1>1. /\ client[c] = "waiting" /\ now.at = "answered"
      /\ UNCHANGED <<request, unheard, used, windows>>
  BY DEF Hear
<1>2. TypeOK /\ tries[c] \in Attempts
  BY DEF IInv, TypeOK, Attempts
<1>3. CASE IsOk(now.answer)
  <2>1. client' = [client EXCEPT ![c] = "done"] /\ UNCHANGED <<tries, attempt>>
    BY <1>3 DEF Hear
  <2>2. /\ client' \in [Call -> {"idle", "waiting", "done", "failed"}]
        /\ client'[c] = "done"
        /\ \A d \in Call \ {c} : client'[d] = client[d]
    BY <1>2, <2>1 DEF TypeOK
  <2>3. \A d \in Call : client'[d] # "idle" <=> request'[d] # None
    BY <1>1, <1>2, <2>2 DEF TypeOK
  <2>4. TypeOK'
    BY <1>1, <1>2, <2>1, <2>2, <2>3 DEF TypeOK
  <2>5. ASSUME NEW d \in Call
        PROVE  CallInv(d)'
    BY <1>1, <2>1, <2>2 DEF IInv, CallInv
  <2>6. ASSUME NEW d \in Call, NEW j \in Attempts
        PROVE  AttemptInv(d, j)'
    <3>1. AttemptInv(d, j)
      BY DEF IInv
    <3>2. CASE d # c
      BY <1>1, <2>1, <2>2, <3>1, <3>2 DEF AttemptInv, Past
    <3>3. CASE d = c
      <4>1. j = tries[c] => Accepted(attempt[c][j])
        BY <1>1, <1>3 DEF Accepted
      <4>2. QED
        BY <1>1, <2>1, <2>2, <3>1, <3>3, <4>1 DEF AttemptInv, Past
    <3>4. QED
      BY <3>2, <3>3
  <2>7. LimiterKnowsOnlyCallers'
    BY <1>1 DEF IInv, LimiterKnowsOnlyCallers
  <2>8. QED
    BY <2>4, <2>5, <2>6, <2>7 DEF IInv
<1>4. CASE ~IsOk(now.answer)
  <2> DEFINE retryable == Code(now.answer) \notin NoRetry
  <2>1. RetryOrFail(c, retryable)
    BY <1>4 DEF Hear
  <2>2. Rejected(now)
    BY <1>1, <1>4 DEF Rejected
  <2>3. AttemptInv(c, tries[c])
    BY <1>2 DEF IInv
  <2>4. request[c].form # "good" /\ Authenticates(request[c].header) => retryable
    BY <2>2, <2>3 DEF AttemptInv, Code, NoRetry
  <2>5. retryable \in BOOLEAN
    OBVIOUS
  <2> HIDE DEF retryable
  <2>6. QED
    BY <1>1, <2>1, <2>2, <2>4, <2>5, RetryStep
<1>5. QED
  BY <1>3, <1>4

LEMMA TimeOutNext ==
  ASSUME IInv, NEW c \in Call, TimeOut(c)
  PROVE  IInv'
BY RetryStep DEF TimeOut

LEMMA WindowEndsNext ==
  ASSUME IInv, NEW h \in Headers, WindowEnds(h)
  PROVE  IInv'
<1>1. UNCHANGED <<request, client, tries, attempt, unheard>>
  BY DEF WindowEnds
<1>2. TypeOK
  BY DEF IInv
<1>3. used' \in [Headers -> Nat \cup {None}] /\ windows' \in Nat
  BY <1>2 DEF WindowEnds, TypeOK
<1>4. TypeOK'
  BY <1>1, <1>2, <1>3 DEF TypeOK
<1>5. \A d \in Call : CallInv(d)'
  BY <1>1 DEF IInv, CallInv
<1>6. \A d \in Call, j \in Attempts : AttemptInv(d, j)'
  BY <1>1 DEF IInv, AttemptInv, Past
<1>7. \A g \in Headers : used'[g] # None => used[g] # None
  BY <1>2 DEF WindowEnds, TypeOK
<1>8. LimiterKnowsOnlyCallers'
  BY <1>7 DEF IInv, LimiterKnowsOnlyCallers
<1>9. QED
  BY <1>4, <1>5, <1>6, <1>8 DEF IInv

LEMMA GatewayNext ==
  ASSUME IInv, [Next]_vars
  PROVE  IInv'
<1>1. CASE UNCHANGED vars
  BY <1>1 DEF vars, IInv, TypeOK, CallInv, AttemptInv, Past, LimiterKnowsOnlyCallers
<1>2. ASSUME NEW c \in Call, NEW k \in 0..MaxRetries, Serve(c, k)
      PROVE  IInv'
  BY <1>2, ServeNext DEF Attempts
<1>3. CASE Next
  BY <1>2, <1>3, AskNext, HearNext, TimeOutNext, WindowEndsNext DEF Next
<1>4. QED
  BY <1>1, <1>3

(* The inductive invariant of attempts and calls, which the gateway's theorems
   follow from. *)
THEOREM GatewayInvariant == Spec => []IInv
BY GatewayInit, GatewayNext, PTL DEF Spec

-----------------------------------------------------------------------------
(* The theorems *)

(* Requests, answers and counts keep their types, and no answer carries the
   code INVALID_INPUT, whatever the routes are asked with (cli/src/server.rs,
   controller/src/error.rs). *)
THEOREM GatewayTypes == Spec => []TypeOK
BY GatewayInvariant, PTL DEF IInv

(* No layer and no handler answers an error after it has changed something. *)
THEOREM ErrorsHaveNoEffect == Spec => []ErrorMeansNoEffect
BY GatewayInvariant, InvErrors, PTL

(* Only an attempt that timed out can have an effect beside the one the client
   heard of: the retries of withRetry repeat nothing by themselves. *)
THEOREM EffectsHeardOnce == Spec => []EffectHeardOnce
BY GatewayInvariant, InvEffects, PTL

(* The map of the rate limiter grows by authenticated callers only. *)
THEOREM OnlyCallers == Spec => []LimiterKnowsOnlyCallers
BY GatewayInvariant, PTL DEF IInv

(* A request the extractors reject is repeated to the last retry, and nothing
   comes of it. *)
THEOREM UnreadableInVain == Spec => []UnreadableRepeatedInVain
BY GatewayInvariant, InvForms, PTL
=============================================================================
