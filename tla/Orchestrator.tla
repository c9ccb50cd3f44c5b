---------------------------- MODULE Orchestrator ----------------------------
(***************************************************************************)
(* The agent of agents/game_interaction_orchestrator: orchestrate() plays  *)
(* one session through the API, with retries, a circuit breaker and a      *)
(* bound on its steps.  The agent has one call in flight.  The network may *)
(* lose a request or an answer, and a request the client has given up on   *)
(* after its timeout may still reach the server later.  The server is the  *)
(* session of the agent, one request at a time; how handlers interleave    *)
(* is the subject of SessionService.                                       *)
(***************************************************************************)
EXTENDS StateEngine, Naturals, FiniteSets

CONSTANTS
  None,         \* no value
  MaxRetries,   \* retries of one call
  Threshold,    \* circuitBreakerThreshold
  MaxSteps,     \* maxSteps
  MaxFaults,    \* bound: failed calls
  MaxRestarts   \* bound: restarts of the server

ASSUME OrchestratorAssumption ==
  /\ None \notin GameState \cup Action
  /\ MaxRetries \in Nat
  /\ Threshold \in Nat \ {0}
  /\ MaxSteps \in Nat
  /\ MaxFaults \in Nat
  /\ MaxRestarts \in Nat

VARIABLES
  explore,   \* options.policy: TRUE if it may take a random action
  phase,     \* the call the agent is making, or how it ended
  attempt,   \* withRetry: retries of the call so far
  action,    \* the action it is about to play
  observed,  \* the state in the last play response
  steps,     \* play steps done
  failures,  \* CircuitBreaker.failures
  session,   \* server: the state of the agent's session
  stray,     \* network: plays given up by the client, not yet served
  applied,   \* history: plays the server has carried out
  orphans,   \* history: sessions created whose id never arrived
  unheard,   \* history: plays whose answer the agent does not have
  faults,    \* failed calls so far
  restarts   \* restarts of the server so far

agent   == <<phase, attempt, action, observed, steps, failures>>
server  == <<session, applied, orphans>>
network == <<stray, unheard, faults>>
vars    == <<agent, server, network, restarts, explore>>

Calls == {"create", "get", "play", "export"}

Init ==
  /\ explore \in BOOLEAN
  /\ phase = "create"
  /\ attempt = 0
  /\ action = None
  /\ observed = None
  /\ steps = 0
  /\ failures = 0
  /\ session = None
  /\ stray = [a \in Action |-> 0]
  /\ applied = 0
  /\ orphans = 0
  /\ unheard = 0
  /\ faults = 0
  /\ restarts = 0

-----------------------------------------------------------------------------
(* The agent *)

\* Mutant: the planner spins before it has bet.
PlanHasty(state) ==
  CASE state = "Idle"      -> "PlaceBet"
    [] state = "Completed" -> "CashOut"
    [] OTHER               -> "Spin"

\* The planner's next action for a session in a state.
Plan(state) ==
  CASE state \in {"Idle", "Initialized"}               -> "PlaceBet"
    [] state \in {"Probing", "Playing", "Evaluating"}  -> "Spin"
    [] state = "Completed"                            -> "CashOut"

\* infer: with an exploring policy any action may be drawn.
Infer(state) == IF explore THEN Action ELSE {Plan(state)}

IsOpen(n) == n >= Threshold

\* The loop ends when the session is done, the circuit open (recordSuccess has
\* just reset it), or after MaxSteps; the first step is taken in any case.
LoopEnds(state, n) == state = "Completed" \/ IsOpen(0) \/ n >= MaxSteps

\* The call has returned: on to the next one.
Proceed(next) ==
  /\ phase' = next
  /\ attempt' = 0

\* The agent throws; inside the loop the circuit breaker counts it first.
Throw ==
  /\ phase' = "failed"
  /\ failures' = IF steps > 0 THEN failures + 1 ELSE failures
  /\ UNCHANGED <<attempt, action, observed, steps>>

\* Mutant: one retry too many.
RetryOnceMoreOrThrow ==
  IF phase = "export"
  THEN /\ phase' = "finished"
       /\ UNCHANGED <<attempt, action, observed, steps, failures>>
  ELSE IF attempt <= MaxRetries
  THEN /\ attempt' = attempt + 1
       /\ UNCHANGED <<phase, action, observed, steps, failures>>
  ELSE Throw

\* A call failed in a way worth a retry.  The export is tried once, and its
\* failure is not the agent's.
RetryOrThrow ==
  IF phase = "export"
  THEN /\ phase' = "finished"
       /\ UNCHANGED <<attempt, action, observed, steps, failures>>
  ELSE IF attempt < MaxRetries
  THEN /\ attempt' = attempt + 1
       /\ UNCHANGED <<phase, action, observed, steps, failures>>
  ELSE Throw

-----------------------------------------------------------------------------
(* Calls that are answered *)

Created ==
  /\ phase = "create"
  /\ Proceed("get")
  /\ session' = "Initialized"
  /\ UNCHANGED <<action, observed, steps, failures, applied, orphans,
                 network, restarts, explore>>

\* The agent decides on what it sees now, and waits like a human would
\* before it plays.
Got ==
  /\ phase = "get"
  /\ session # None
  /\ Proceed("play")
  /\ action' \in Infer(session)
  /\ UNCHANGED <<observed, steps, failures, server, network, restarts, explore>>

\* The server carries out a play if the state engine allows it.
Carry(a) ==
  /\ session # None
  /\ Transition(session, Target(a))
  /\ session' = Target(a)
  /\ applied' = applied + 1
  /\ UNCHANGED orphans

\* Mutant: the step is not counted.
PlayedUncounted ==
  /\ phase = "play"
  /\ Carry(action)
  /\ observed' = Target(action)
  /\ steps' = steps
  /\ failures' = 0
  /\ Proceed(IF LoopEnds(Target(action), steps + 1) THEN "export" ELSE "get")
  /\ UNCHANGED <<action, network, restarts, explore>>

Played ==
  /\ phase = "play"
  /\ Carry(action)
  /\ observed' = Target(action)
  /\ steps' = steps + 1
  /\ failures' = 0
  /\ Proceed(IF LoopEnds(Target(action), steps + 1) THEN "export" ELSE "get")
  /\ UNCHANGED <<action, network, restarts, explore>>

\* Mutant: the agent looks again and plans anew.
PlayRefusedReplans ==
  /\ phase = "play"
  /\ session # None
  /\ ~Transition(session, Target(action))
  /\ Proceed("get")
  /\ UNCHANGED <<action, observed, steps, failures, server, network,
                 restarts, explore>>

\* 409 STATE_ERROR is not retried.
PlayRefused ==
  /\ phase = "play"
  /\ session # None
  /\ ~Transition(session, Target(action))
  /\ Throw
  /\ UNCHANGED <<server, network, restarts, explore>>

\* 404 NOT_FOUND is not retried: the server has forgotten the session.
NotFound ==
  /\ phase \in {"get", "play"}
  /\ session = None
  /\ Throw
  /\ UNCHANGED <<server, network, restarts, explore>>

Exported ==
  /\ phase = "export"
  /\ phase' = "finished"
  /\ UNCHANGED <<attempt, action, observed, steps, failures, server,
                 network, restarts, explore>>

-----------------------------------------------------------------------------
(* Calls that fail *)

Fault ==
  /\ phase \in Calls
  /\ faults < MaxFaults
  /\ faults' = faults + 1
  /\ RetryOrThrow

\* The request is lost, or answered 429 or 500.
CallFails ==
  /\ Fault
  /\ UNCHANGED <<server, stray, unheard, restarts, explore>>

\* The server has done it, but the answer does not arrive in time.
CreateUnheard ==
  /\ phase = "create"
  /\ Fault
  /\ orphans' = orphans + 1
  /\ UNCHANGED <<session, applied, stray, unheard, restarts, explore>>

PlayUnheard ==
  /\ phase = "play"
  /\ Fault
  /\ Carry(action)
  /\ unheard' = unheard + 1
  /\ UNCHANGED <<stray, restarts, explore>>

\* The client gives up before the server has seen the play.
PlayDelayed ==
  /\ phase = "play"
  /\ Fault
  /\ stray' = [stray EXCEPT ![action] = @ + 1]
  /\ UNCHANGED <<server, unheard, restarts, explore>>

\* ... which carries it out now, or refuses it.
StrayArrives(a) ==
  /\ stray[a] > 0
  /\ stray' = [stray EXCEPT ![a] = @ - 1]
  /\ IF session # None /\ Transition(session, Target(a))
     THEN Carry(a) /\ unheard' = unheard + 1
     ELSE UNCHANGED <<server, unheard>>
  /\ UNCHANGED <<agent, faults, restarts, explore>>

ServerRestarts ==
  /\ restarts < MaxRestarts
  /\ restarts' = restarts + 1
  /\ session' = None
  /\ UNCHANGED <<agent, applied, orphans, network, explore>>

Answer == Created \/ Got \/ Played \/ PlayRefused \/ NotFound \/ Exported

EndCall == Answer \/ CallFails \/ CreateUnheard \/ PlayUnheard \/ PlayDelayed

Next ==
  \/ EndCall
  \/ \E a \in Action : StrayArrives(a)
  \/ ServerRestarts

Spec == Init /\ [][Next]_vars

\* Every call ends: the server answers it or the client's timer fires.
FairSpec == Spec /\ WF_vars(EndCall)

-----------------------------------------------------------------------------
(* Properties *)

TypeOK ==
  /\ explore \in BOOLEAN
  /\ phase \in Calls \cup {"finished", "failed"}
  /\ attempt \in 0..MaxRetries
  /\ action \in Action \cup {None}
  /\ observed \in GameState \cup {None}
  /\ steps \in Nat
  /\ failures \in Nat
  /\ session \in GameState \cup {None}
  /\ stray \in [Action -> Nat]
  /\ applied \in Nat
  /\ orphans \in Nat
  /\ unheard \in Nat
  /\ faults \in Nat
  /\ restarts \in Nat

(* Whatever calls fail and whenever late ones arrive, the agent that follows
   its planner never has an action refused: it gives up only after more calls
   have failed, of whatever step, than one of them has retries, or when the
   server has lost its session. *)
GivesUpOnlyAfterRetries ==
  ~explore /\ phase = "failed" => faults > MaxRetries \/ restarts > 0

(* The plays the server has carried out are the steps the agent counts and
   those it has not heard of, and every one of the latter costs a failed call:
   retries repeat no more than what failed. *)
EffectsAccounted ==
  /\ applied = steps + unheard
  /\ unheard <= faults

(* The agent comes to an end. *)
Ends == <>(phase \in {"finished", "failed"})
=============================================================================
