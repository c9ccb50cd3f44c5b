----------------------------- MODULE StateEngine -----------------------------
(***************************************************************************)
(* The pure state machine of controller/src/state_engine/mod.rs: the six   *)
(* states of a game session, the table of moves, and the check that every  *)
(* state change is supposed to go through; and the gameplay actions with   *)
(* the states the play handler of cli/src/server.rs takes them to.         *)
(***************************************************************************)

GameState ==
  {"Idle", "Initialized", "Probing", "Playing", "Evaluating", "Completed"}

\* The table of moves as the source lists it.
ALLOWED ==
  [ Idle        |-> {"Initialized"},
    Initialized |-> {"Probing", "Playing"},
    Probing     |-> {"Playing"},
    Playing     |-> {"Evaluating"},
    Evaluating  |-> {"Playing", "Completed"},
    Completed   |-> {} ]

\* Mutant: no early exit; a session may be cashed out before any spin.
TransitionShortcut(from, to) ==
  from = to \/ to \in ALLOWED[from] \/ (from = "Initialized" /\ to = "Completed")

\* transition(from, to) returns Ok(to) exactly when this holds; staying put
\* is always accepted.
Transition(from, to) == from = to \/ to \in ALLOWED[from]

Action == {"PlaceBet", "Spin", "CashOut"}

\* The state each action asks for.
Target(a) ==
  CASE a = "PlaceBet" -> "Playing"
    [] a = "Spin"     -> "Evaluating"
    [] a = "CashOut"  -> "Completed"
=============================================================================
