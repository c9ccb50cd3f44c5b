------------------------- MODULE OrchestratorProofs -------------------------
(***************************************************************************)
(* Theorems about Orchestrator for any number of retries, steps, faults    *)
(* and restarts.                                                           *)
(***************************************************************************)
EXTENDS Orchestrator, TLAPS

\* The planner and the server agree on where the session can be: only bets and
\* spins are ever sent, and whichever late ones arrive, what the agent is
\* about to play is a move from where the session is.
Planned ==
  ~explore =>
    /\ session \in {None, "Initialized", "Playing", "Evaluating"}
    /\ stray["CashOut"] = 0
    /\ phase = "play" =>
         /\ action \in {"PlaceBet", "Spin"}
         /\ session # None => Transition(session, Target(action))

\* An agent that retries has seen as many failures, one that has a session id
\* and no session has seen a restart.
Reasons ==
  /\ phase # "failed" => attempt <= faults
  /\ phase # "create" /\ phase \in Calls /\ session = None => restarts > 0
  /\ GivesUpOnlyAfterRetries

\* Plays the server has yet to see have cost a failed call, too.
Late ==
  /\ phase = "play" => action \in Action
  /\ unheard + stray["PlaceBet"] + stray["Spin"] + stray["CashOut"] <= faults

AgentInv == TypeOK /\ Planned /\ Reasons /\ Late /\ applied = steps + unheard

LEMMA AgentInit == Init => AgentInv
BY OrchestratorAssumption
   DEF Init, AgentInv, TypeOK, Planned, Reasons, GivesUpOnlyAfterRetries,
       Late, Calls, GameState, Action

\* What the actions ask for, and from where the state engine accepts it.
LEMMA TargetState == \A a \in Action : Target(a) \in GameState
BY DEF Action, Target, GameState

LEMMA BetsAndSpins ==
  /\ Target("PlaceBet") = "Playing"
  /\ Target("Spin") = "Evaluating"
  /\ \A s \in {"Initialized", "Playing", "Evaluating"} :
       /\ Transition(s, Target("PlaceBet"))
       /\ Transition(s, Target("Spin")) => s # "Initialized"
  /\ \A s \in {"Playing", "Evaluating"} : Transition(s, Target("Spin"))
BY DEF Target, Transition, ALLOWED

\* Without exploration the planner only bets or spins, and what it proposes is
\* a move from where the session is.
LEMMA PlansAreMoves ==
  \A s \in {"Initialized", "Playing", "Evaluating"} :
    Plan(s) \in {"PlaceBet", "Spin"} /\ Transition(s, Target(Plan(s)))
<1>1. Plan("Initialized") = "PlaceBet" /\ Plan("Playing") = "Spin"
      /\ Plan("Evaluating") = "Spin"
  BY DEF Plan
<1> QED
  BY <1>1, BetsAndSpins

LEMMA InferActs == \A s \in GameState : Infer(s) \subseteq Action
<1>1. \A s \in GameState : Plan(s) \in Action
  BY DEF Plan, GameState, Action
<1> QED
  BY <1>1 DEF Infer

LEMMA NoneIsNoState == None \notin GameState /\ None \notin Action
BY OrchestratorAssumption

\* A play carried out for a session that satisfies Planned leaves it so,
\* whichever play it was: the agent's own one, or a late one.
LEMMA CarryKeepsPlan ==
  ASSUME AgentInv, NEW a \in Action, Carry(a), ~explore,
         a \in {"PlaceBet", "Spin"}
  PROVE  /\ session' \in {"Playing", "Evaluating"}
         /\ \A b \in {"PlaceBet", "Spin"} :
              Transition(session, Target(b)) => Transition(session', Target(b))
<1>1. session' = Target(a)
  BY DEF Carry
<1>2. session \in {"Initialized", "Playing", "Evaluating"}
  BY DEF AgentInv, Planned, Carry
<1> QED
  BY <1>1, <1>2, BetsAndSpins

LEMMA CarryType ==
  ASSUME AgentInv, NEW a \in Action, Carry(a)
  PROVE  session' \in GameState /\ applied' = applied + 1 /\ orphans' = orphans
BY TargetState DEF Carry

\* A play that reaches the server was a bet or a spin when nobody explores.
LEMMA PlaysPlanned ==
  ASSUME AgentInv, phase = "play"
  PROVE  action \in Action /\ (~explore => action \in {"PlaceBet", "Spin"})
BY DEF AgentInv, Planned, Late

LEMMA Counting ==
  ASSUME NEW x \in Nat, NEW y \in Nat, NEW z \in Nat, NEW w \in Nat,
         NEW f \in Nat, x + y + z + w <= f
  PROVE  /\ x + 1 + y + z + w <= f + 1
         /\ x + (y + 1) + z + w <= f + 1
         /\ x + y + (z + 1) + w <= f + 1
         /\ x + y + z + (w + 1) <= f + 1
         /\ y > 0 => x + 1 + (y - 1) + z + w <= f /\ x + (y - 1) + z + w <= f
         /\ z > 0 => x + 1 + y + (z - 1) + w <= f /\ x + y + (z - 1) + w <= f
         /\ w > 0 => x + 1 + y + z + (w - 1) <= f /\ x + y + z + (w - 1) <= f
         /\ x + y + z + w <= f + 1
OBVIOUS

\* A call that fails: what becomes of the agent.
LEMMA FaultKeeps ==
  ASSUME AgentInv, Fault
  PROVE  /\ phase' \in {phase, "finished", "failed"}
         /\ phase' = "finished" => phase = "export"
         /\ attempt' \in 0..MaxRetries
         /\ phase' # "failed" => attempt' <= faults'
         /\ phase' = "failed" => faults' > MaxRetries
         /\ failures' \in Nat
         /\ faults' = faults + 1 /\ faults' \in Nat
         /\ UNCHANGED <<action, observed, steps>>
<1> USE OrchestratorAssumption
<1>1. /\ attempt \in 0..MaxRetries /\ MaxRetries \in Nat /\ faults \in Nat
      /\ failures \in Nat
      /\ attempt <= faults
      /\ faults' = faults + 1 /\ phase \in Calls
  BY DEF AgentInv, TypeOK, Reasons, Fault, Calls
<1>2. CASE phase = "export"
  BY <1>1, <1>2 DEF Fault, RetryOrThrow
<1>3. CASE phase # "export" /\ attempt < MaxRetries
  BY <1>1, <1>3 DEF Fault, RetryOrThrow, Calls
<1>4. CASE phase # "export" /\ ~(attempt < MaxRetries)
  <2>1. Throw
    BY <1>4 DEF Fault, RetryOrThrow
  <2> QED
    BY <1>1, <1>4, <2>1 DEF Throw
<1> QED
  BY <1>2, <1>3, <1>4

LEMMA AgentNext ==
  ASSUME AgentInv, [Next]_vars
  PROVE  AgentInv'
<1> USE OrchestratorAssumption, NoneIsNoState
<1>0. /\ TypeOK
      /\ Planned
      /\ Reasons
      /\ Late
      /\ applied = steps + unheard
  BY DEF AgentInv
<1>1. CASE Created
  <2>1. TypeOK'
    BY <1>0, <1>1
       DEF Created, Proceed, TypeOK, network, Calls, GameState
  <2>2. Planned' /\ Reasons' /\ Late' /\ (applied = steps + unheard)'
    BY <1>0, <1>1
       DEF Created, Proceed, TypeOK, Planned, Reasons, Late, network, Calls,
           GivesUpOnlyAfterRetries, GameState
  <2> QED
    BY <2>1, <2>2 DEF AgentInv
<1>2. CASE Got
  <2>1. session \in GameState /\ action' \in Infer(session)
    BY <1>0, <1>2 DEF Got, TypeOK
  <2>2. action' \in Action
    BY <2>1, InferActs
  <2>3. TypeOK'
    BY <1>0, <1>2, <2>2 DEF Got, Proceed, TypeOK, network, server, Calls
  <2>4. ASSUME ~explore
        PROVE  /\ action' \in {"PlaceBet", "Spin"}
               /\ Transition(session, Target(action'))
    <3>1. session \in {"Initialized", "Playing", "Evaluating"}
      BY <1>0, <2>1, <2>4 DEF Planned
    <3>2. action' = Plan(session)
      BY <2>1, <2>4 DEF Infer
    <3> QED
      BY <3>1, <3>2, PlansAreMoves
  <2>5. Planned'
    BY <1>0, <1>2, <2>4 DEF Got, Proceed, Planned, network, server
  <2>6. Reasons' /\ Late' /\ (applied = steps + unheard)'
    BY <1>0, <1>2, <2>2
       DEF Got, Proceed, TypeOK, Reasons, Late, network, server, Calls,
           GivesUpOnlyAfterRetries
  <2> QED
    BY <2>3, <2>5, <2>6 DEF AgentInv
<1>3. CASE Played
  <2>1. /\ action \in Action
        /\ ~explore => action \in {"PlaceBet", "Spin"}
        /\ Carry(action)
    BY <1>3, PlaysPlanned DEF Played
  <2>2. /\ session' \in GameState /\ applied' = applied + 1 /\ orphans' = orphans
        /\ Target(action) \in GameState
    BY <2>1, CarryType, TargetState
  <2>3. /\ phase' \in {"export", "get"} /\ attempt' = 0
        /\ observed' = Target(action) /\ steps' = steps + 1 /\ failures' = 0
        /\ UNCHANGED <<action, stray, unheard, faults, restarts, explore>>
    BY <1>3 DEF Played, Proceed, network
  <2>4. TypeOK'
    BY <1>0, <2>2, <2>3 DEF TypeOK, Calls
  <2>5. Planned'
    BY <1>0, <2>1, <2>3, CarryKeepsPlan DEF Planned
  <2>6. Reasons' /\ Late' /\ (applied = steps + unheard)'
    BY <1>0, <2>2, <2>3
       DEF TypeOK, Reasons, Late, Calls, GivesUpOnlyAfterRetries
  <2> QED
    BY <2>4, <2>5, <2>6 DEF AgentInv
<1>4. CASE PlayRefused
  <2>1. explore
    BY <1>0, <1>4 DEF PlayRefused, Planned
  <2>2. /\ phase' = "failed" /\ failures' \in Nat
        /\ UNCHANGED <<attempt, action, observed, steps, server, network,
                       restarts, explore>>
    BY <1>0, <1>4 DEF PlayRefused, Throw, TypeOK
  <2>3. TypeOK'
    BY <1>0, <2>2 DEF TypeOK, server, network
  <2> QED
    BY <1>0, <2>1, <2>2, <2>3
       DEF AgentInv, Planned, Reasons, Late, server, network, Calls,
           GivesUpOnlyAfterRetries
<1>5. CASE NotFound
  <2>1. /\ phase' = "failed" /\ failures' \in Nat
        /\ phase \in {"get", "play"} /\ session = None
        /\ UNCHANGED <<attempt, action, observed, steps, server, network,
                       restarts, explore>>
    BY <1>0, <1>5 DEF NotFound, Throw, TypeOK
  <2>2. restarts > 0
    BY <1>0, <2>1 DEF Reasons, Calls
  <2>3. TypeOK'
    BY <1>0, <2>1 DEF TypeOK, server, network
  <2> QED
    BY <1>0, <2>1, <2>2, <2>3
       DEF AgentInv, Planned, Reasons, Late, server, network, Calls,
           GivesUpOnlyAfterRetries
<1>6. CASE Exported
  <2>1. /\ phase' = "finished"
        /\ UNCHANGED <<attempt, action, observed, steps, failures, server,
                       network, restarts, explore>>
        /\ phase = "export"
    BY <1>6 DEF Exported
  <2>2. TypeOK'
    BY <1>0, <2>1 DEF TypeOK, server, network
  <2> QED
    BY <1>0, <2>1, <2>2
       DEF AgentInv, Planned, Reasons, Late, server, network, Calls,
           GivesUpOnlyAfterRetries
<1>7. CASE CallFails
  <2>1. Fault /\ UNCHANGED <<server, stray, unheard, restarts, explore>>
    BY <1>7 DEF CallFails
  <2>2. TypeOK'
    BY <1>0, <2>1, FaultKeeps DEF TypeOK, server, Calls
  <2>3. Planned'
    BY <1>0, <2>1, FaultKeeps DEF Planned, server
  <2>4. Reasons'
    BY <1>0, <2>1, FaultKeeps
       DEF TypeOK, Reasons, server, Calls, GivesUpOnlyAfterRetries
  <2>5. Late'
    BY <1>0, <2>1, FaultKeeps DEF TypeOK, Late, Action
  <2>6. (applied = steps + unheard)'
    BY <1>0, <2>1, FaultKeeps DEF server
  <2> QED
    BY <2>2, <2>3, <2>4, <2>5, <2>6 DEF AgentInv
<1>8. CASE CreateUnheard
  <2>1. /\ phase = "create" /\ Fault /\ orphans' = orphans + 1
        /\ UNCHANGED <<session, applied, stray, unheard, restarts, explore>>
    BY <1>8 DEF CreateUnheard
  <2>2. TypeOK'
    BY <1>0, <2>1, FaultKeeps DEF TypeOK, Calls
  <2>3. Planned'
    BY <1>0, <2>1, FaultKeeps DEF Planned
  <2>4. Reasons'
    BY <1>0, <2>1, FaultKeeps
       DEF TypeOK, Reasons, Calls, GivesUpOnlyAfterRetries
  <2>5. Late'
    BY <1>0, <2>1, FaultKeeps DEF TypeOK, Late, Action
  <2>6. (applied = steps + unheard)'
    BY <1>0, <2>1, FaultKeeps
  <2> QED
    BY <2>2, <2>3, <2>4, <2>5, <2>6 DEF AgentInv
<1>9. CASE PlayUnheard
  <2>1. /\ phase = "play" /\ Fault /\ Carry(action)
        /\ unheard' = unheard + 1 /\ UNCHANGED <<stray, restarts, explore>>
    BY <1>9 DEF PlayUnheard
  <2>2. action \in Action /\ (~explore => action \in {"PlaceBet", "Spin"})
    BY <2>1, PlaysPlanned
  <2>3. session' \in GameState /\ applied' = applied + 1 /\ orphans' = orphans
    BY <2>1, <2>2, CarryType
  <2>4. TypeOK'
    BY <1>0, <2>1, <2>3, FaultKeeps DEF TypeOK, Calls
  <2>5. Planned'
    <3>1. ~explore => session' \in {"Playing", "Evaluating"}
                      /\ Transition(session', Target(action))
      BY <2>1, <2>2, CarryKeepsPlan DEF Carry
    <3> QED
      BY <1>0, <2>1, <2>2, <3>1, FaultKeeps DEF Planned
  <2>6. Reasons'
    BY <1>0, <2>1, <2>3, FaultKeeps
       DEF TypeOK, Reasons, Calls, GivesUpOnlyAfterRetries
  <2>7. Late'
    BY <1>0, <2>1, <2>2, FaultKeeps, Counting DEF TypeOK, Late, Action
  <2>8. (applied = steps + unheard)'
    BY <1>0, <2>1, <2>3, FaultKeeps DEF TypeOK
  <2> QED
    BY <2>4, <2>5, <2>6, <2>7, <2>8 DEF AgentInv
<1>10. CASE PlayDelayed
  <2>1. /\ phase = "play" /\ Fault
        /\ stray' = [stray EXCEPT ![action] = @ + 1]
        /\ UNCHANGED <<session, applied, orphans, unheard, restarts, explore>>
    BY <1>10 DEF PlayDelayed, server
  <2>2. action \in Action /\ (~explore => action \in {"PlaceBet", "Spin"})
    BY <2>1, PlaysPlanned
  <2>3. TypeOK'
    BY <1>0, <2>1, <2>2, FaultKeeps DEF TypeOK, Calls
  <2>4. Planned'
    BY <1>0, <2>1, <2>2, FaultKeeps DEF TypeOK, Planned, Action
  <2>5. Reasons'
    BY <1>0, <2>1, FaultKeeps
       DEF TypeOK, Reasons, Calls, GivesUpOnlyAfterRetries
  <2>6. Late'
    <3>1. /\ stray["PlaceBet"] \in Nat /\ stray["Spin"] \in Nat
          /\ stray["CashOut"] \in Nat /\ unheard \in Nat /\ faults \in Nat
      BY <1>0 DEF TypeOK, Action
    <3>2. action' \in Action /\ unheard' = unheard /\ faults' = faults + 1
      BY <2>1, <2>2, FaultKeeps
    <3>3. CASE action = "PlaceBet"
      BY <1>0, <2>1, <3>1, <3>2, <3>3, Counting DEF TypeOK, Late, Action
    <3>4. CASE action = "Spin"
      BY <1>0, <2>1, <3>1, <3>2, <3>4, Counting DEF TypeOK, Late, Action
    <3>5. CASE action = "CashOut"
      BY <1>0, <2>1, <3>1, <3>2, <3>5, Counting DEF TypeOK, Late, Action
    <3> QED
      BY <2>2, <3>3, <3>4, <3>5 DEF Action
  <2>7. (applied = steps + unheard)'
    BY <1>0, <2>1, FaultKeeps
  <2> QED
    BY <2>3, <2>4, <2>5, <2>6, <2>7 DEF AgentInv
<1>11. ASSUME NEW a \in Action, StrayArrives(a)
       PROVE  AgentInv'
  <2>1. /\ stray[a] > 0
        /\ stray' = [stray EXCEPT ![a] = @ - 1]
        /\ UNCHANGED <<phase, attempt, action, observed, steps, failures,
                       faults, restarts, explore>>
    BY <1>11 DEF StrayArrives, agent
  <2>2. \/ Carry(a) /\ unheard' = unheard + 1
        \/ UNCHANGED <<session, applied, orphans, unheard>>
    BY <1>11 DEF StrayArrives, server
  <2>3. /\ stray["PlaceBet"] \in Nat /\ stray["Spin"] \in Nat
        /\ stray["CashOut"] \in Nat /\ unheard \in Nat /\ faults \in Nat
        /\ applied \in Nat /\ steps \in Nat
    BY <1>0 DEF TypeOK, Action
  <2>4. stray' \in [Action -> Nat] /\ unheard' \in Nat /\ applied' \in Nat
        /\ orphans' \in Nat /\ session' \in GameState \cup {None}
        /\ (applied = steps + unheard)'
    BY <1>0, <2>1, <2>2, <2>3, CarryType DEF TypeOK
  <2>5. TypeOK'
    BY <1>0, <2>1, <2>4 DEF TypeOK
  <2>6. ~explore => a \in {"PlaceBet", "Spin"}
    BY <1>0, <2>1, <2>3 DEF Planned, Action
  <2>7. Planned'
    <3>1. ~explore => stray'["CashOut"] = 0
      BY <1>0, <2>1, <2>6 DEF TypeOK, Planned, Action
    <3>2. CASE Carry(a)
      <4>1. session # None
        BY <3>2 DEF Carry
      <4> QED
        BY <1>0, <2>1, <2>6, <3>1, <3>2, <4>1, CarryKeepsPlan DEF Planned
    <3>3. CASE session' = session
      BY <1>0, <2>1, <3>1, <3>3 DEF Planned
    <3> QED
      BY <2>2, <3>2, <3>3
  <2>8. Reasons'
    <3>1. session' = None => session = None
      BY <2>2, CarryType
    <3> QED
      BY <1>0, <2>1, <3>1 DEF Reasons, GivesUpOnlyAfterRetries
  <2>9. Late'
    <3>1. unheard' \in {unheard, unheard + 1}
      BY <2>2
    <3>2. CASE a = "PlaceBet"
      BY <1>0, <2>1, <2>3, <3>1, <3>2, Counting DEF TypeOK, Late, Action
    <3>3. CASE a = "Spin"
      BY <1>0, <2>1, <2>3, <3>1, <3>3, Counting DEF TypeOK, Late, Action
    <3>4. CASE a = "CashOut"
      BY <1>0, <2>1, <2>3, <3>1, <3>4, Counting DEF TypeOK, Late, Action
    <3> QED
      BY <3>2, <3>3, <3>4 DEF Action
  <2> QED
    BY <2>4, <2>5, <2>7, <2>8, <2>9 DEF AgentInv
<1>12. CASE ServerRestarts
  <2>1. /\ restarts' = restarts + 1 /\ session' = None
        /\ UNCHANGED <<phase, attempt, action, observed, steps, failures,
                       applied, orphans, stray, unheard, faults, explore>>
    BY <1>12 DEF ServerRestarts, agent, network
  <2>2. TypeOK'
    BY <1>0, <2>1 DEF TypeOK
  <2>3. restarts \in Nat
    BY <1>0 DEF TypeOK
  <2> QED
    BY <1>0, <2>1, <2>2, <2>3
       DEF AgentInv, Planned, Reasons, Late, GivesUpOnlyAfterRetries
<1>13. CASE UNCHANGED vars
  BY <1>0, <1>13
     DEF vars, agent, server, network, AgentInv, TypeOK, Planned, Reasons, Late,
         GivesUpOnlyAfterRetries
<1> QED
  BY <1>1, <1>2, <1>3, <1>4, <1>5, <1>6, <1>7, <1>8, <1>9, <1>10, <1>11,
     <1>12, <1>13
     DEF Next, EndCall, Answer

LEMMA AgentAlways == Spec => []AgentInv
BY AgentInit, AgentNext, PTL DEF Spec

-----------------------------------------------------------------------------

\* The state of agent, network and server is well-typed for any bounds.
THEOREM TypeCorrect == Spec => []TypeOK
<1>1. AgentInv => TypeOK
  BY DEF AgentInv
<1> QED
  BY <1>1, AgentAlways, PTL

\* An agent that follows its planner gives up only after more calls have
\* failed than one of them has retries, or after a restart of the server: however many late bets
\* and spins reach the session between what it read and what it plays, the
\* play is still a move the state engine accepts.
THEOREM NeverRefused == Spec => []GivesUpOnlyAfterRetries
<1>1. AgentInv => GivesUpOnlyAfterRetries
  BY DEF AgentInv, Reasons
<1> QED
  BY <1>1, AgentAlways, PTL

\* Every play the server carried out is a step the agent counts or was paid
\* for by a failed call, for any number of retries and late arrivals.
THEOREM RetriesAccounted == Spec => []EffectsAccounted
<1>1. AgentInv => EffectsAccounted
  <2> SUFFICES ASSUME AgentInv PROVE EffectsAccounted
    OBVIOUS
  <2>1. /\ stray["PlaceBet"] \in Nat /\ stray["Spin"] \in Nat
        /\ stray["CashOut"] \in Nat /\ unheard \in Nat /\ faults \in Nat
    BY DEF AgentInv, TypeOK, Action
  <2> QED
    BY <2>1 DEF AgentInv, Late, EffectsAccounted
<1> QED
  BY <1>1, AgentAlways, PTL
=============================================================================
