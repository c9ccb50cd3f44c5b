-------------------------- MODULE SessionLifecycle --------------------------
(***************************************************************************)
(* What the session API promises: a session is created once, in state      *)
(* Initialized, then moves only along the table of the state engine, one   *)
(* move at a time.  Sessions live in the memory of the server process: a   *)
(* restart forgets all of them and none comes back.                        *)
(***************************************************************************)
EXTENDS StateEngine

CONSTANT Session      \* session ids (UUIDs) the service may hand out

VARIABLE state        \* state[s]: "Absent", a GameState, or "Forgotten"

LifecycleState == GameState \cup {"Absent", "Forgotten"}

TypeOK == state \in [Session -> LifecycleState]

Init == state = [s \in Session |-> "Absent"]

Create(s) ==
  /\ state[s] = "Absent"
  /\ state' = [state EXCEPT ![s] = "Initialized"]

Move(s, to) ==
  /\ state[s] \in GameState
  /\ Transition(state[s], to)
  /\ state' = [state EXCEPT ![s] = to]

Restart ==
  state' = [s \in Session |->
              IF state[s] \in GameState THEN "Forgotten" ELSE state[s]]

Next ==
  \/ \E s \in Session : Create(s)
  \/ \E s \in Session, to \in GameState : Move(s, to)
  \/ Restart

Spec == Init /\ [][Next]_state
=============================================================================
