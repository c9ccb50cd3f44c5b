# Verification of the pokemon-rs backend and agents

TLA+ modules for the parts of this repository whose correctness depends on the
order in which things happen: the session handlers of the server, the layers in
front of them, its rate limiter, wallet store and experience export, and the
agents that play sessions through the API and learn from them. TLC checks the
models on small instances; TLAPS proves every safety property of the passing runs
for every value of the constants. Section 3 lists the places we know of where the
code does something else than a doc, a comment or a test says; for two of these
disagreements a run with expectation `violation` shows a shortest behaviour.

## 1. The system

A Rust server (`cli/`, `controller/`) exposes a slot-game session API under
`/v1`. Every request passes an authentication middleware, then the rate limiter,
then one handler. TypeScript agents (`agents/`) and a React console
(`frontend/`) use the API through one hand-written client. Only the experience
store can be backed by Postgres; everything else is in the memory of the process.

| Part | State it keeps | Operations | Interacts by |
|---|---|---|---|
| state engine (`state_engine`) | none: a table of moves | `transition(from, to)`; staying put is always accepted | called by the session manager |
| session manager (`game_session_manager`) | none | `create_session`, `get_session`, `transition_session` (read, check, write) | calls the session store |
| session store (`persistence_metrics`) | id to session, under one mutex | `create`, `get_by_id`, `update_state` | shared by all handlers |
| HTTP handlers (`cli/src/server.rs`) | locals of each request | create session, play action, get session, list events, export, wallets, metrics | await the stores; several run at once |
| lifecycle counters (`metrics.rs`) | three atomic counters | bump, snapshot | bumped by handlers |
| gameplay event store (`event_store.rs`) | list of events, under one lock | `insert`, `list_by_session` sorted by whole seconds | handlers |
| experience store (`rl_feedback_loop/store.rs`) | experiences, in memory or in `rl_store` | `insert_experience`, `list_by_session` | handlers; export |
| reward, export (`rl_feedback_loop`) | none | `compute_reward`, pagination | handlers |
| wallet store (`persistence_metrics`) | id to balance, limit, spent, under one mutex | `create`, `apply_operation` | wallet handlers; **not** gameplay |
| rate limiter (`ratelimit.rs`) | key to window start and count, under one lock | `check`, `retry_after_seconds` | middleware |
| authentication (`auth.rs`) | the set of API keys | parse, validate, role | middleware, metrics handler |
| fingerprinter | game id to fingerprint | statistics over outcomes; a store no route fills | one read-only handler |
| simulator human proxy | none | delays and stakes from random samples | nothing calls it |
| configuration, start (`main.rs`, `config.rs`) | environment | chooses the stores | constructs the state |
| orchestrator (`game_interaction_orchestrator`) | the session id, retry counts, breaker, steps | `orchestrate`, `runStep`, `withRetry` | API calls; timeouts |
| strategic planner, profiles | none | `plan`, delays and stakes | called by `infer` |
| RL model runner | epsilon, profile, episode | `infer`, `adaptProfile`, training loop, JSONL export | calls the orchestrator |
| TypeScript client | none | one `fetch` per call, abort after a timeout | agents, console |
| console (`frontend/src/pages`) | React state of each page | selections, calls, answers | API client |
| migrations, scripts, docs, CI | | | |

What is hard in it:

* **Two handlers, one session.** A move is a read, a check and a write in
  separate lock acquisitions, preceded by another read for the experience record
  and followed by a counter, an event and an experience.
* **Partial completion.** The experience insert may fail or be cut off by a client
  that goes away, and a restart of the process may fall between any two steps. A
  restart keeps Postgres and loses the memory.
* **Lost and late calls.** The agent aborts a call after a timeout and retries it;
  the server may have carried it out, or may do so later.
* **Layers.** Authentication, limiter, extractors and handler each answer errors of
  their own; the client turns an answer into a code and the code into a retry.
* **Windows, limits, zeros** in the rate limiter and the wallets, and two lock
  acquisitions for one refused request.
* **Pages of a growing list**, whose rows a database stamps when a statement
  starts and shows when it commits.
* **Learning.** Rewards, stakes and their bounds feed back into each other over
  episodes, each of which one refused action may end.
* **Endings.** A request that must be answered; an agent that must stop.

`PROJECT.json` lists each hazard with its line and the properties that cover it,
or why none does.

## 2. Modules

| Module | Models | Uses |
|---|---|---|
| `StateEngine` | `state_engine/mod.rs`; the gameplay actions and their target states | |
| `SessionLifecycle` | what the session API promises: created once, moved along the table, forgotten by a restart (abstract) | `StateEngine` |
| `SessionService` | create and play handlers over session store, counters, event store and experience store | `StateEngine`; `SessionLifecycle` by refinement |
| `Gateway` | every route from the client's call through authentication, limiter, extractors and handler to the answer, and the client's retries | |
| `RateLimiter` | `ratelimit.rs` and its middleware | |
| `WalletStore` | `InMemoryWalletStore` and the wallet handlers | |
| `ExperienceExport` | both experience stores and the paginated export over them | |
| `Orchestrator` | `orchestrate` with planner, policy, retries and breaker over a lossy network | `StateEngine` |
| `Reward` | `reward.rs` and what the play handler feeds it | |
| `Training` | the training loop: episodes, exploration, adaptation of stakes | `StateEngine`, `Reward` |
| `Fingerprint` | the extraction of a game fingerprint | |
| `Simulator` | the stakes of the human proxy, and a fingerprint of the game it plays | `Fingerprint` |
| `MC...` | the same modules with the symmetry sets and the sets of inputs of the runs | |
| `...Proofs` | theorems | the module they are about, `TLAPS` |

Operators named `...Hasty`, `...Uncounted`, `...Unsorted` and the like, marked
"Mutant" in their comment, are wrong versions of the definition below them. No
specification uses them: they are there to check that each property notices a
plausible bug.

### SessionService

Each element of `Request` is one HTTP request. `pc[r]` is where its handler
stands and `local[r]` are its variables. A step is one access to shared state:

| Action | Code |
|---|---|
| `CreateSession`, `CountCreated` | `GameSessionManager::create_session`; `record_session_created` and the 201 |
| `PlayLookup`, `PlayNotFound` | the handler's own `get_session` (`prev_state`) |
| `CheckMove`, `RefuseMove` | `transition_session`: second read and `transition()`; 409 |
| `WriteState` | `update_state`, a blind overwrite under the lock |
| `CountAndStamp` | the counter, then result, reward and the event with `Utc::now()` |
| `LogEvent` | `event_store.insert` |
| `LogExperience`, `LoseExperience`, `Disconnect` | `rl_store.insert_experience`: stored, failed (warning, still 200), or the future dropped with the statement done or not |
| `Restart` | a new process: `main` builds empty in-memory stores |
| `Tick` | the wall clock |

`Tick` never goes backwards and never while a step runs. A client can name a
session once the answer with its id has arrived (`MayAsk`). With
`Exclusive = TRUE` it also waits for each answer before it asks for that session
again, which is what the orchestrator does when no call times out; with `FALSE` any
number of requests for a session run at once, which is what the API admits.
With in-memory stores a handler never awaits anything that suspends, so only
`Postgres = TRUE` has `LoseExperience` and `Disconnect`; the threads of the
runtime interleave in both cases. Rewards, payouts, amounts and symbols are left
out: no property here depends on them (`Reward` has them). No branch of
`update_state` for a missing session is needed, because nothing removes sessions
from a running process.

### Gateway

Each element of `Call` is one call a client makes, and `attempt[c][k]` its
`k`-th attempt on the server; attempts that timed out run on beside later ones.

| Action | Code |
|---|---|
| `Ask` | a method of `DefaultApi`: route, `Authorization` header, and a request that is well formed, garbled, JSON of another shape, or a body without `Content-Type` |
| `HealthHandler` | the one route outside of the middlewares |
| `AuthMiddleware` | `parse_bearer_token`, `validate_token`; 401 |
| `RateLimitMiddleware`, `WindowEnds` | `check` with the whole header as key; 429 (`RateLimiter` has its clock) |
| `Extract` | the `Path`, `Query` and `Json` extractors of axum, whose rejections (400, 422, 415) are plain text |
| `HandlerFails`, `HandlerReads`, `MetricsHandler`, `HandlerWrites`, `PlayRecorded` | the handlers: an error before any change, or a change and its answer; a play inserts its experience after the write, and answers 200 either way |
| `Lost` | a request that never arrives; a handler dropped at its one await once its client has gone |
| `Hear`, `TimeOut` | `handleResponse` and the abort of `withAuth`, each followed by `withRetry` (`RetryOrFail`) |

What a store holds is left open: a handler may give any answer its code has
(`Failures`). `HttpError`, `Status` and `ErrorCode` are `into_response` and
`ErrorResponse`. `Authorization` headers are a scheme and a token; keys are those
of `API_KEYS` without blank entries. axum itself is modelled from how the
handlers use it.

### RateLimiter

`Entry`, `Expired`, `Full` are the three looks of `check` at its entry;
`AdmitInNewWindow`, `AdmitInWindow` and `Refuse` are its three outcomes, one step
under the write lock. `AnswerRefused` is the second acquisition, in
`retry_after_seconds`. A refused client waits as long as told and asks again, or
gives up. Time is counted in ticks, several to the second, because
`retry_after_seconds` truncates to seconds. Lock poisoning is left out: no code
panics while it holds the lock.

### WalletStore

One step per request, since each runs under one acquisition of the mutex.
Amounts and limits are integers of either sign, the code's floats in the smallest
unit: neither the handlers nor the store look at a sign. Currencies are
ignored as the store ignores them. `books` is a history of what creation, credits
and debits of either sign did, against which balances are compared; it begins
anew when a wallet is created over another. The only thing modelled outside the
code is midnight (`NextDay`), which the store does not notice. What holds for any
signs is less than a ledger of amounts above zero would promise, and is what the
properties state: the books balance; positive debits take no more than the limit
and what negative debits brought back; and no debit overdraws a wallet, so that
only a negative opening balance or negative credits do.

### ExperienceExport

`rows[s]` are the stored experiences of a session in the order they became
visible, `stmt[w]` an insert under way. `Init` chooses the store as `main` and
`config.rs` do, from the variables that are set (`HasDatabase`). In memory an
insert is one step (`InsertInMemory`) without a `created_at`; in Postgres
`StartInsert` takes the stamp and `CommitInsert` or `FailInsert` ends it, in any
order. `Listings` are the orders `list_by_session` may return, `Page` the clamps
and the slice of `export_experiences`. `ReadPage` asks from where the last page
ended until a page is empty, which is what `limit` and `offset` are for; the
repository's own callers read a single page.

### Orchestrator

`phase` is the call the agent is making (`create`, `get`, `play`, `export`) or
how it ended; `explore` is the policy the run is given (TRUE: epsilon above 0, any
action may be drawn). An answered call is `Created`, `Got`, `Played`, `PlayRefused` (409),
`NotFound` (404) or `Exported`. A call that fails is `CallFails` (request lost, or
429/500), `CreateUnheard` and `PlayUnheard` (done, answer lost), or `PlayDelayed`
(given up before the server saw it; `StrayArrives` is its late arrival).
`RetryOrThrow` is `withRetry`. The server side is the agent's session, one request
at a time: a retry overlapping its predecessor inside two handlers is
the subject of `SessionService`. The module takes the `api` it is given as one
whose requests the server understands.

### Reward and Training

`Reward` counts money in cents and a likeness in tenths, so that every term of
the formula is an integer: `Components`, `SumReward` and `RewardSafe` are the
functions the server uses, `ComputeReward` the validating one only tests call,
`PlayReward` the call in the play handler with its defaults.

In `Training` an episode is `Play` steps on one session until `EpisodeOver`,
then `FinishEpisode`: export, `adaptProfile`, JSONL file, next session; or
`WriteFails`, where the file cannot be written and the loop ends. `Infer`
abstracts epsilon to what it permits: only random actions in the first episode,
random or planned ones after that. `Refused` and `CallFails` are the errors that
leave `orchestrate` and the loop. `Factor` and `Scaled` are the mean, the clamp
and `toFixed(2)` in exact arithmetic; a stake exactly between two cents may be
rounded either way.

### Fingerprint and Simulator

`Fingerprint` keeps ratios as fractions, the volatility as its square, and a
signature as the symbols that are hashed. `Simulator` spins with
`NextStake` and saves a fingerprint of the rows so far now and then (`Spin`,
`Save`); it is the only module whose driver is not in the repository, since
nothing but tests calls either component.

## 3. Runs

All runs bound requests, clocks, faults and restarts in the configuration;
`CHECK_DEADLOCK FALSE` is set where all requests may be done, the clock at its
last tick or the agent finished.

| Run | Bounds | Shows |
|---|---|---|
| `SessionsConcurrent` | 2 sessions, 4 requests with any overlap, in memory, 3 instants of 1/2 s, 1 restart | `NoShortcutToCompleted`, `StateIsExplained`, `LogsAgree`, `CountersCoverSessions`, `ListingSkewBelowASecond`, `TypeOK` |
| `SessionsSerial` | 2 sessions, 5 requests, clients wait, in memory, 3 instants, 1 restart | `ImplementsLifecycle`, `CompletedIsFinal`, `ExperiencesFormTrajectory`, `ListingReplaysGame` |
| `SessionsFinish` | 1 session, 4 requests, clients wait, Postgres, 1 restart, fairness | `RequestsFinish`, `ExperiencesAreLegalMoves` |
| `Gateway` | 1 call of any route by a user, of the metrics by an admin, of a play by a stranger or nobody; 1 read of a session beside it under the same key; 4 forms of a request, 1 retry each, limit 2, 1 window that ends, fairness | `ErrorMeansNoEffect`, `EffectHeardOnce`, `LimiterKnowsOnlyCallers`, `UnreadableRepeatedInVain`, `CallsEnd`, `TypeOK` |
| `Limiter` | 2 callers, 1 key, limit 2, window 4 ticks of 1/2 s, 14 instants | `AtMostTwoWindowsWorth`, `CountIsExact`, `RetryAfterHonest`, `TypeOK` |
| `Wallets` | 2 wallets, amounts and limits -1..2, 5 requests, 2 days | `BooksBalance`, `SpendingWithinLimit`, `NoDebitOverdraws` |
| `Export` | 2 sessions, 4 inserts, limits 0 and 3 over pages of at most 2, 3 instants, 1 restart, both stores | `PagesAreTheLog`, `NothingStoredIsMissed`, `RepeatsOnlyAfterLateCommit`, `TypeOK` |
| `Agent` | 2 retries, 4 steps, 4 faults, 1 restart, any policy, fairness | `GivesUpOnlyAfterRetries`, `EffectsAccounted`, `Ends`, `TypeOK` |
| `Training` | all three profiles, stakes 0.50 and 10.00, likeness 0 and 1, window 2, 3 steps, 3 episodes, fairness | `OnlyRecentBetsShrinkStakes`, `ModestGrowth`, `TrainingEnds`, `TypeOK` |
| `Simulator` | 52 spins of each profile, the extreme samples, 4 rows of 0 to 2 symbols, 3 rows recorded, signatures of 3 symbols | `MixedStakesJump`, `CalmIffUniform`, `SignatureSettles` |

Why these bounds are enough to be interesting. A create, a bet, a spin and a
cash-out reach every state a session can have, with every overlap of three plays
in `SessionsConcurrent`, and the fifth request of the serial runs meets a
Completed session. The second session tells per-session from global counting.
In `Gateway` two calls with two attempts each make four requests for a key whose
limit is two, so that the limit, its end and both retries occur, and an abandoned
attempt overlaps its successor. Three windows let a limiter window follow another
and expire. Four inserts in `Export` give a session two pages and a row that
commits behind them, and leave one for the other session; a limit of 0 and one
above the maximum meet both clamps. Five requests in `Wallets` are enough to create
a wallet, bring back allowance by a negative debit, take it, revoke a credit and
try another debit; -1 is enough for each sign, and a limit of -1 for one that is
passed before anything is spent. Four faults exhaust the two retries of one
call and leave one for another. An episode of three steps in `Training` holds a
window of two and a step that is forgotten; the second episode starts from
adapted stakes with planned actions, the third from stakes adapted twice. In
`Simulator` 52 spins are two full changes of strategy and a third begun. Where a
theorem of section 4 states the same property, it does not depend on the bounds.

### Where code and documentation disagree

Two disagreements have a run that TLC must find violated:

| Run | Property | Behaviour |
|---|---|---|
| `SessionsCompletedReopens` | `CompletedIsFinal` | two handlers check against Evaluating, one writes Completed, the other writes Playing over it |
| `WalletsNextDay` | `RefusedOnlyWhenExhausted` | yesterday's spending counts today |

More that we know of, without a run of their own:

* "All sessions pass through" Probing (`docs/INTEGRATION_GUIDE.md:206-209`): no
  session does. The table of moves has the state, but no action asks for it
  (`Target` in `StateEngine`). Nor are the triggers of that guide those of the
  code: it has `PlaceBet` lead from Initialized to Probing, `Spin` from
  Probing to Playing, `CashOut` from Playing to Evaluating, and any state
  to Completed by a wallet limit or the breaker (lines 213-220). In the code a
  bet asks for Playing, a spin for Evaluating, a cash-out for Completed, whatever
  the state, and the server ends no session itself. `NoShortcutToCompleted`
  states the order the code's table gives, and with it that Probing is never visited.
* The guide adds a completion bonus of 0.1 for reaching Completed to the reward
  (`docs/INTEGRATION_GUIDE.md:154,162`), `reward.rs` one of 1.0 for an episode that
  ends with a payout. Neither is ever granted: the play handler computes each
  reward with `done` false, and nothing is paid out (`RewardSafe` and `Payout` in
  `Reward`). Hence the bound of `ModestGrowth`: 1.5% and not 15%.
* Amounts are documented to be at least 0 (`openapi.yaml:62`); nothing enforces it
  (`server.rs:319-336`, `persistence_metrics/mod.rs:91-104`). A credit of -100 takes
  a balance below zero, a limit of -1 is exceeded before anything is
  spent, and after a debit of -100 one of 200 passes a limit of 100. The
  properties of `WalletStore` state what is left.
* When two plays of a session overlap, the state an experience starts from
  (`prev` in `SessionService`) may be older than the one the move was made from, and
  the pair need not be a move of the table; with waiting clients it always is
  (`ExperiencesAreLegalMoves`, which `SessionsFinish` checks for them).
* `event_store.rs:38` promises events "ordered by timestamp ascending". They are
  sorted by whole seconds, so two events of one second stay in the order they
  were stored in: `ListingSkewBelowASecond` is what holds.
* The planner spins until `maxSteps`: no planned episode completes, although
  `docs/INTEGRATION_GUIDE.md:145` expects a final state of `Completed` for a clean one.
* The breaker "stops after N consecutive failures" (`orchestrator.ts:144`), but
  the first step that fails for good ends the run: it never counts past one.
* "Stakes are always bounded" to a floor and a ceiling (`adapt.ts:19`); the code
  applies the floor to `minBet` and the ceiling to `maxBet` only, so a `maxBet` can
  fall below the floor and `minBet` rise above the ceiling after enough
  episodes. `TypeOK` of `Training` states the half that holds, and is proved.
* A malformed body is to be answered with `INVALID_INPUT`
  (`docs/INTEGRATION_GUIDE.md:227`); no answer ever has that code
  (`TypeOK` of `Gateway`, proved). The extractors reject the body in plain text, which
  the client takes for an internal error and repeats.
* Each POST of `agents/ts-client` loses the `Content-Type` it sets
  (`index.ts:241`), so that a server that insists on one answers 415. The form
  `untyped` in `Gateway` is that request; `UnreadableRepeatedInVain` is what becomes of it.
* `HUMAN_LIKENESS_WEIGHT` is read but never used; the weight is the constant of
  `reward.rs`. The two reward functions there differ by seven tenths of the likeness.
* A limit of zero admits one request per window, and twice the limit passes
  around a window's end (`Cap` and the factor in `AtMostTwoWindowsWorth`).
* Creating over a wallet forgets what was spent (`Create`), and sessions are gone
  after a restart (`Forgotten` in `SessionLifecycle`). A play whose answer is lost is
  repeated and carried out again (`unheard` in `EffectsAccounted`).
* A reader of a Postgres log may be given a row twice, when one that started
  earlier commits late (`RepeatsOnlyAfterLateCommit`), and may miss one among rows
  of the same instant (`StampsDiffer`).

### Fairness

`RequestsFinish` assumes weak fairness of each handler's steps: the runtime polls
a task that can run, no lock is held across an await, and a database statement
returns or fails. It assumes nothing of clients, clock or restarts. `CallsEnd` and
`Ends` assume weak fairness of a call ending one way or another: `withAuth` arms a
timer for each request, so an attempt is answered or aborted. Neither assumes
that the server makes a step or a call ever succeeds, nor that late plays arrive.
`TrainingEnds` assumes that the loop goes on, which is the same assumption with
calls as steps.

## 4. Proofs

Each theorem holds for all values of the constants that satisfy the module's
`ASSUME`: any sets of sessions, requests, calls and clients, any clock, limits and
retries. The assumptions say that the bounds are numbers and that `None` is not a
value; `GatewayAssumption` adds that a limit is not zero, which is `RateLimiter`'s
case, `TrainingAssumption` that profiles and random bets lie within the limits of
`adapt.ts`, and `SimulatorAssumption` that rows are sequences of symbols.

| Theorem | States | By |
|---|---|---|
| `SessionServiceProofs!TypeCorrect` | `TypeOK` | inductive on its own |
| `SessionServiceProofs!StagesInOrder` | `NoShortcutToCompleted` | what a handler has read, in `prev` and `cur`, is a state the session has visited; so a checked move, however stale, extends the visited states in order |
| `SessionServiceProofs!StatesExplained` | `StateIsExplained` | a handler past its write is logged or on its way there, and the last writer of a state is one of them |
| `SessionServiceProofs!ListingSkew` | `ListingSkewBelowASecond` | arithmetic of truncated seconds over well-typed events |
| `SessionServiceProofs!LogsAlwaysAgree` | `LogsAgree` | `LogInv`: a running handler belongs to the process that serves it, and each log holds exactly the plays whose handlers have reached it, as many entries as plays, so that none is there twice |
| `SessionServiceProofs!CountersAlwaysCover` | `CountersCoverSessions` | `CountInv`: in each state the counter and the handlers on their way to bump it are at least as many as the sessions the store holds there |
| `SessionServiceProofs!SerialExperiences`, `SerialCompletedIsFinal`, `SerialImplementsLifecycle` | the same properties that fail without waiting clients | at most one handler per session is between its first read and its answer, so what it has read is still the session's state when it writes; under that invariant `WriteState` is a `Move` of the lifecycle, `CreateSession` a `Create`, `Restart` a `Restart` and every other step a stutter |
| `SessionServiceProofs!SerialListingReplays` | `ListingReplaysGame`, for waiting clients | `EventsChain`: among the events of a session each was accepted in the state the one before it left; `StampsAscend`: they are in the order of their stamps, so that sorting by whole seconds, being stable, moves none of a session past another |
| `SessionServiceProofs!SerialTrajectories` | `ExperiencesFormTrajectory`, for waiting clients and a store in memory | `ExperiencesChain`: the same for experiences, with the play that is between its write and its experience as the one missing link |
| `GatewayProofs!GatewayTypes`, `ErrorsHaveNoEffect`, `EffectsHeardOnce`, `OnlyCallers`, `UnreadableInVain` | the invariants of the run `Gateway` | `AttemptInv`: an attempt has written only if it is on its way to a good answer, was rejected if its client heard of it and went on, and is past authentication or extractors only as these let it; `CallInv`: when a call has failed, its retries are used up or its code forbids them |
| `RateLimiterProofs!TwoWindowsWorth` | `AtMostTwoWindowsWorth` | admitted requests carry the start of their window; starts lie a window apart, so a span of a window's length meets at most two of them, each with at most the limit |
| `RateLimiterProofs!CountsAreExact` | `CountIsExact` | the same invariant: the last `count` admitted requests, and no others, carry the start of the current window |
| `RateLimiterProofs!RetryAfterIsHonest` | `RetryAfterHonest` | the entry a refused caller met is the entry whose age is measured unless another request has been admitted since; truncating the age rounds the wait up |
| `WalletStoreProofs!BooksAlwaysBalance`, `SpendingStaysWithinLimit`, `DebitsNeverOverdraw` | `BooksBalance`, `SpendingWithinLimit`, `NoDebitOverdraws` | `WalletInv`, the three together with the types: `NoDebitOverdraws` rests on nothing but the check of the balance, which leaves one that is not negative whatever the sign of the debit; `SpendingWithinLimit` on the counter being what the books say debits took, which is why the check of the one bounds the other. Amounts need only be integers |
| `ExperienceExportProofs!PagesContinueTheLog` | `PagesAreTheLog` | inductive with the types: in memory rows only grow at their end, and a page begins where the pages before it ended |
| `ExperienceExportProofs!NothingIsMissed`, `RepeatsHaveALateCommit` | `NothingStoredIsMissed`, `RepeatsOnlyAfterLateCommit` | `ListingPlaces`: where stamps differ, a row's place in any ordered listing is the number of rows inserted before it. `PlaceInv`: places only move up, by rows that commit late, so a row the reader has not been given is still ahead of its offset, and one it is given again was pushed there |
| `ExperienceExportProofs!PagesMakeProgress` | a page has at most `MaxLimit` rows and is empty only at the end | arithmetic of the clamps |
| `TrainingProofs!StakesOnlyCost`, `RewardsPartByLikeness` | a play's reward is at most the bonus less its stake; how far the two reward functions differ | arithmetic of the clamps |
| `TrainingProofs!TrainingTypes`, `GrowthIsModest`, `OnlyRecentBetsCount` | `TypeOK`, `ModestGrowth`, `OnlyRecentBetsShrinkStakes` | `TrainingInv`: each experience carries the reward of its play; so a total over a window is at most the bonus of its steps, and is not negative without bets; the rounding of `adaptProfile` keeps these bounds |
| `OrchestratorProofs!NeverRefused` | `GivesUpOnlyAfterRetries` | `Planned`: the session, the action about to be played and the late plays under way fit each other: a bet is accepted everywhere the session can be, a spin everywhere but in Initialized, and no late play leads back there |
| `OrchestratorProofs!RetriesAccounted` | `EffectsAccounted` | plays not heard of plus late plays never exceed failed calls |
| `SimulatorProofs!MixedNeverStartsLow` | `MixedStakesJump` | an aggressive phase begins at the twentieth spin at the earliest, in the third tier |
| `SimulatorProofs!SignaturesSettle` | `SignatureSettles` | putting one more row behind the others leaves the first symbols as they are; a full signature in the store is that of the rows recorded by now |
| `SimulatorProofs!CalmIsUniform` | `CalmIffUniform` | the occurrences of all symbols add up to the symbols that showed; a sum of squares is zero only if each is, and equal numerators are the total divided by the symbols |

`TypeCorrect` of `RateLimiterProofs` and `OrchestratorProofs` and `ExportTypes`
are the types these rest on. `Exclusive` is the hypothesis of
the `Serial...` theorems: no request is sent about a session while another one
about it is unanswered, which is what the orchestrator does.

None of these properties is inductive as it stands except where said; the
strengthenings are `IInv`-style conjunctions defined in each proof
module, each part with a comment. Each property was checked by TLC before it was
proved, and so were the strengthenings of the harder ones.

Some of these theorems rest on facts about data of any size: the total of an
episode's rewards, rows put together, sums over the symbols of a game, the
rows ordered by a query. The library's induction theorems take a
predicate as a parameter, which the provers cannot instantiate. Each of these
lemmas is an induction by a least counterexample instead: the set of numbers, or
of subsets of a finite set, for which the statement fails has a least element if
it has any (`LeastOf`, `LeastSubset`), and that one contradicts the equation of
the recursive function. That the equation of `TotalReward`, `FlattenSeq` or
`MapThenSumSet` has a solution at all is proved in the same way.

Left to TLC: the liveness properties (`RequestsFinish`, `CallsEnd`, `Ends`,
`TrainingEnds`), which need fairness and `ENABLED` and which the prover does not
handle; and `ExperiencesFormTrajectory` for a store in Postgres, which does not
hold there: a failed insert leaves a gap.

## 5. What could follow

1. `Orchestrator` over `SessionService` instead of one atomic session, so that a
   retry overlaps its predecessor inside two handlers.
2. A proof that the readers of `ExperienceExport` implement a reader of one
   snapshot when no insert is under way.

## 6. Not modelled, and why

* **Console** (`frontend/`): React components that show the answer of the last
  request. Their one race, two selections whose answers arrive in the other
  order (`SessionsPage.tsx:119`), is listed as a hazard.
* **Migrations**: declarative SQL; the server writes only `rl_store`.
* **Offline training script**: one export request around a third-party library.
* **Delays and breaks of the human proxy and of the profiles**: the former are
  samples of real-valued distributions nothing calls; the latter only set the pace of an
  agent and its likeness, which `Training` leaves open within its range.
* **Rounding of floats** in wallets and rewards: amounts are integers here.
* **`role_allowed` and `log_unauthorized`**: nothing calls them. JSONL records and
  `rewardVariance`: nothing reads them.
* **A wallet charged for a spin**: the play handler has no reference to a wallet, so
  there is no state of both to relate; the guide's statement is listed as a hazard.
* Parsing of the remaining configuration, logging, JSON shapes, containers and CI
  build and start the system but hold no state of it.
