--------------------------- MODULE SessionService ---------------------------
(***************************************************************************)
(* The session side of the server: the create-session and play-action      *)
(* handlers of cli/src/server.rs running concurrently over the in-memory   *)
(* session store, the lifecycle counters, the gameplay event store and the *)
(* experience store.                                                       *)
(*                                                                         *)
(* A handler is a process.  Each of its accesses to shared state (one lock *)
(* acquisition, one atomic increment, one database statement) is a step;   *)
(* what it computes between two accesses is part of the later one.  Each   *)
(* element of Request is one HTTP request and runs at most one handler.    *)
(***************************************************************************)
EXTENDS StateEngine, Naturals, Sequences, FiniteSets

CONSTANTS
  Session,         \* the UUIDs Uuid::new_v4 may return
  Request,         \* the requests clients may send
  None,            \* no value
  Exclusive,       \* TRUE: a client has one request per session in flight
  Postgres,        \* TRUE: experiences go to Postgres; FALSE: to memory
  TicksPerSecond,  \* clock ticks in one second
  MaxClock,        \* bound: last tick of the wall clock
  MaxRestarts      \* bound: restarts of the server process

ASSUME ServiceAssumption ==
  /\ None \notin GameState \cup Session \cup {"PlaceBet", "Spin", "CashOut"}
  /\ Exclusive \in BOOLEAN
  /\ Postgres \in BOOLEAN
  /\ TicksPerSecond \in Nat \ {0}
  /\ MaxClock \in Nat
  /\ MaxRestarts \in Nat

VARIABLES
  sessions,     \* InMemorySessionStore: the state of each stored session
  metrics,      \* SessionMetrics: the three lifecycle counters
  events,       \* InMemoryEventStore: gameplay events in insertion order
  experiences,  \* the experience store, in insertion order
  pc,           \* where the handler of each request stands
  local,        \* the handler's own variables
  clock,        \* the wall clock, in ticks
  restarts,     \* how often the process has been restarted
  issued,       \* ids handed out so far (v4 UUIDs do not repeat)
  visited       \* history: the states each stored session has been in

store == <<sessions, issued, visited>>
logs  == <<events, experiences>>
env   == <<clock, restarts>>
vars  == <<sessions, metrics, events, experiences, pc, local,
           clock, restarts, issued, visited>>

\* A play handler between its first read and its answer.
PlayPoint == {"found", "checked", "written", "stamped", "logged"}
Running   == PlayPoint \cup {"created"}
Finished  == {"answered", "rejected", "dropped"}
Point     == {"new"} \cup Running \cup Finished

Counter   == {"created", "playing", "completed"}
NoMetrics == [c \in Counter |-> 0]

\* A handler's locals when it starts on session s.
Locals(s, a, prev, epoch) ==
  [session |-> s, action |-> a, prev |-> prev, cur |-> None,
   stamp |-> 0, epoch |-> epoch]

Init ==
  /\ sessions = [s \in Session |-> None]
  /\ metrics = NoMetrics
  /\ events = <<>>
  /\ experiences = <<>>
  /\ pc = [r \in Request |-> "new"]
  /\ local = [r \in Request |-> Locals(None, None, None, 0)]
  /\ clock = 0
  /\ restarts = 0
  /\ issued = {}
  /\ visited = [s \in Session |-> {}]

Goto(r, from, to) ==
  /\ pc[r] = from
  /\ pc' = [pc EXCEPT ![r] = to]

-----------------------------------------------------------------------------
(* POST /sessions *)

\* The manager stores a fresh session in state Initialized.
CreateSession(r, s) ==
  /\ Goto(r, "new", "created")
  /\ s \notin issued
  /\ issued' = issued \cup {s}
  /\ sessions' = [sessions EXCEPT ![s] = "Initialized"]
  /\ visited' = [visited EXCEPT ![s] = {"Initialized"}]
  /\ local' = [local EXCEPT ![r] = Locals(s, None, None, restarts)]
  /\ UNCHANGED <<metrics, logs, env>>

\* The handler counts the session and answers 201 with its id.
CountCreated(r) ==
  /\ Goto(r, "created", "answered")
  /\ metrics' = [metrics EXCEPT !["created"] = @ + 1]
  /\ UNCHANGED <<store, logs, local, env>>

-----------------------------------------------------------------------------
(* POST /sessions/{id}/action *)

\* A client names a session only after the answer that told it the id, and an
\* exclusive client only after the answer to its last request for it.
MayAsk(s) ==
  \A q \in Request :
    local[q].session = s =>
      IF Exclusive THEN pc[q] \notin Running ELSE pc[q] # "created"

\* Mutant: the handler finds the session but keeps nothing of it.
PlayLookupForgets(r, s, a) ==
  /\ Goto(r, "new", "found")
  /\ MayAsk(s)
  /\ sessions[s] # None
  /\ local' = [local EXCEPT ![r] = Locals(s, a, None, restarts)]
  /\ UNCHANGED <<store, metrics, logs, env>>

\* First read: the handler remembers the state for the experience record.
PlayLookup(r, s, a) ==
  /\ Goto(r, "new", "found")
  /\ MayAsk(s)
  /\ sessions[s] # None
  /\ local' = [local EXCEPT ![r] = Locals(s, a, sessions[s], restarts)]
  /\ UNCHANGED <<store, metrics, logs, env>>

\* First read finds nothing: 404.
PlayNotFound(r, s, a) ==
  /\ Goto(r, "new", "rejected")
  /\ MayAsk(s)
  /\ sessions[s] = None
  /\ local' = [local EXCEPT ![r] = Locals(s, a, None, restarts)]
  /\ UNCHANGED <<store, metrics, logs, env>>

\* Mutant: the manager takes any move.
CheckMoveUnchecked(r) ==
  LET from == sessions[local[r].session]
  IN  /\ Goto(r, "found", "checked")
      /\ from # None
      /\ local' = [local EXCEPT ![r].cur = from]
      /\ UNCHANGED <<store, metrics, logs, env>>

\* transition_session reads the session again and consults the state engine.
CheckMove(r) ==
  LET from == sessions[local[r].session]
  IN  /\ Goto(r, "found", "checked")
      /\ from # None
      /\ Transition(from, Target(local[r].action))
      /\ local' = [local EXCEPT ![r].cur = from]
      /\ UNCHANGED <<store, metrics, logs, env>>

\* Mutant: no answer to a move refused in the first state.
RefuseMoveHangs(r) ==
  LET from == sessions[local[r].session]
  IN  /\ Goto(r, "found", "rejected")
      /\ from \notin {None, "Initialized"}
      /\ ~Transition(from, Target(local[r].action))
      /\ UNCHANGED <<store, metrics, logs, local, env>>

\* The state engine refuses the move: 409 with code STATE_ERROR.
RefuseMove(r) ==
  LET from == sessions[local[r].session]
  IN  /\ Goto(r, "found", "rejected")
      /\ from # None
      /\ ~Transition(from, Target(local[r].action))
      /\ UNCHANGED <<store, metrics, logs, local, env>>

\* update_state overwrites whatever the session's state is by now.
WriteState(r) ==
  LET s  == local[r].session
      to == Target(local[r].action)
  IN  /\ Goto(r, "checked", "written")
      /\ sessions[s] # None
      /\ sessions' = [sessions EXCEPT ![s] = to]
      /\ visited' = [visited EXCEPT ![s] = @ \cup {to}]
      /\ UNCHANGED <<metrics, logs, local, env, issued>>

\* Mutant: bets are not counted.
CounterOfNoBets(to) == IF to = "Completed" THEN {"completed"} ELSE {}

\* The counter that entering a state bumps, if any.
CounterOf(to) ==
  IF to = "Playing" THEN {"playing"}
  ELSE IF to = "Completed" THEN {"completed"} ELSE {}

\* The handler bumps a counter, computes the result and the reward, and
\* stamps the event with the time.
CountAndStamp(r) ==
  /\ Goto(r, "written", "stamped")
  /\ metrics' = [c \in Counter |->
       IF c \in CounterOf(Target(local[r].action)) THEN metrics[c] + 1
       ELSE metrics[c]]
  /\ local' = [local EXCEPT ![r].stamp = clock]
  /\ UNCHANGED <<store, logs, env>>

Event(r) ==
  [request |-> r, session |-> local[r].session,
   action |-> local[r].action, stamp |-> local[r].stamp]

\* Mutant: the insert fails silently for a bet.
LogEventUnlessBet(r) ==
  /\ Goto(r, "stamped", "logged")
  /\ events' = IF local[r].action = "PlaceBet" THEN events
               ELSE Append(events, Event(r))
  /\ UNCHANGED <<store, metrics, experiences, local, env>>

\* The event is appended; its action type is one the store accepts.
LogEvent(r) ==
  /\ Goto(r, "stamped", "logged")
  /\ events' = Append(events, Event(r))
  /\ UNCHANGED <<store, metrics, experiences, local, env>>

\* Mutant: the two states swapped.
ExperienceSwapped(r) ==
  LET to == Target(local[r].action)
  IN  [request |-> r, session |-> local[r].session, state |-> to,
       action |-> local[r].action, next |-> local[r].prev,
       done |-> to = "Completed"]

\* Mutant: the state captured only after the move.
ExperienceAfterMove(r) ==
  LET to == Target(local[r].action)
  IN  [request |-> r, session |-> local[r].session, state |-> to,
       action |-> local[r].action, next |-> to, done |-> to = "Completed"]

\* Experience::new with the state of the first read and the state written.
Experience(r) ==
  LET to == Target(local[r].action)
  IN  [request |-> r, session |-> local[r].session, state |-> local[r].prev,
       action |-> local[r].action, next |-> to, done |-> to = "Completed"]

\* The experience is stored and the handler answers 200.
LogExperience(r) ==
  /\ Goto(r, "logged", "answered")
  /\ experiences' = Append(experiences, Experience(r))
  /\ UNCHANGED <<store, metrics, events, local, env>>

\* The database statement fails: a warning is logged, the answer is still 200.
LoseExperience(r) ==
  /\ Postgres
  /\ Goto(r, "logged", "answered")
  /\ UNCHANGED <<store, metrics, logs, local, env>>

\* The client goes away while the statement is pending: the handler is
\* dropped, whether or not the database has executed the statement.
Disconnect(r) ==
  /\ Postgres
  /\ Goto(r, "logged", "dropped")
  /\ \/ experiences' = Append(experiences, Experience(r))
     \/ UNCHANGED experiences
  /\ UNCHANGED <<store, metrics, events, local, env>>

-----------------------------------------------------------------------------
(* The environment *)

Tick ==
  /\ clock < MaxClock
  /\ clock' = clock + 1
  /\ UNCHANGED <<store, metrics, logs, pc, local, restarts>>

\* The process stops and starts again: every in-memory store is new, the
\* requests in progress get no answer, only Postgres keeps what it has.
Restart ==
  /\ restarts < MaxRestarts
  /\ restarts' = restarts + 1
  /\ sessions' = [s \in Session |-> None]
  /\ visited' = [s \in Session |-> {}]
  /\ metrics' = NoMetrics
  /\ events' = <<>>
  /\ experiences' = IF Postgres THEN experiences ELSE <<>>
  /\ pc' = [r \in Request |-> IF pc[r] \in Running THEN "dropped" ELSE pc[r]]
  /\ UNCHANGED <<local, clock, issued>>

Step(r) ==
  \/ CountCreated(r)
  \/ CheckMove(r)
  \/ RefuseMove(r)
  \/ WriteState(r)
  \/ CountAndStamp(r)
  \/ LogEvent(r)
  \/ LogExperience(r)
  \/ LoseExperience(r)
  \/ Disconnect(r)

Arrive(r) ==
  \E s \in Session :
    \/ CreateSession(r, s)
    \/ \E a \in Action : PlayLookup(r, s, a) \/ PlayNotFound(r, s, a)

Next ==
  \/ \E r \in Request : Arrive(r) \/ Step(r)
  \/ Tick
  \/ Restart

Spec == Init /\ [][Next]_vars

\* The runtime keeps polling a handler that can run: no lock is held across
\* an await, and a database statement succeeds or fails in the end.
FairSpec == Spec /\ \A r \in Request : WF_vars(Step(r))

-----------------------------------------------------------------------------
(* Properties *)

LocalType ==
  [session : Session \cup {None}, action : Action \cup {None},
   prev : GameState \cup {None}, cur : GameState \cup {None},
   stamp : Nat, epoch : Nat]

EventType ==
  [request : Request, session : Session, action : Action, stamp : Nat]

ExperienceType ==
  [request : Request, session : Session, state : GameState,
   action : Action, next : GameState, done : BOOLEAN]

TypeOK ==
  /\ sessions \in [Session -> GameState \cup {None}]
  /\ metrics \in [Counter -> Nat]
  /\ events \in Seq(EventType)
  /\ experiences \in Seq(ExperienceType)
  /\ pc \in [Request -> Point]
  /\ local \in [Request -> LocalType]
  /\ clock \in Nat
  /\ restarts \in Nat
  /\ issued \subseteq Session
  /\ visited \in [Session -> SUBSET GameState]

-----------------------------------------------------------------------------
(* What holds however the requests interleave *)

InOrder(V) ==
  /\ V \cap {"Idle", "Probing"} = {}
  /\ V # {} => "Initialized" \in V
  /\ "Evaluating" \in V => "Playing" \in V
  /\ "Completed" \in V => "Evaluating" \in V

(* Handlers race on update_state and may move a session backwards, but no race
   takes a shortcut: it has been Playing before it is ever Evaluating, and
   Evaluating before it is ever Completed.  Probing, which the guide has every
   session pass, is no action's target: no session ever visits it. *)
NoShortcutToCompleted ==
  \A s \in Session :
    /\ InOrder(visited[s])
    /\ sessions[s] # None => sessions[s] \in visited[s]

IsPlay(r) == local[r].action # None

\* Requests handled by the running process.
Current(r) == pc[r] # "new" /\ local[r].epoch = restarts

Logged(r) == \E i \in DOMAIN events : events[i].request = r

(* Every state a client can see was asked for: a session that has left
   Initialized is in the state of some accepted action, and that action is in
   the event log or its handler is about to put it there. *)
StateIsExplained ==
  \A s \in Session : sessions[s] \notin {None, "Initialized"} =>
    \E r \in Request :
      /\ local[r].session = s
      /\ IsPlay(r)
      /\ Target(local[r].action) = sessions[s]
      /\ pc[r] \in {"written", "stamped"} \/ Logged(r)

Quiet == \A r \in Request : pc[r] \notin Running

Requests(log) == {log[i].request : i \in DOMAIN log}

(* When nothing is in flight, the actions answered 200 by this process are the
   requests in its event log, once each, and an in-memory experience store
   holds the same requests. *)
LogsAgree ==
  Quiet =>
    LET answered == {r \in Request : Current(r) /\ IsPlay(r) /\ pc[r] = "answered"}
    IN  /\ answered \subseteq Requests(events)
        /\ Len(events) = Cardinality(Requests(events))
        /\ ~Postgres => /\ Requests(events) = answered
                        /\ Requests(experiences) = answered
                        /\ Len(experiences) = Len(events)

InState(st) == {s \in Session : sessions[s] = st}

(* When nothing is in flight, the counters account for what the store holds:
   one creation for every stored session, at least one completion for each
   Completed session and one bet for each Playing one. *)
CountersCoverSessions ==
  Quiet =>
    /\ metrics["created"] = Cardinality({s \in Session : sessions[s] # None})
    /\ metrics["completed"] >= Cardinality(InState("Completed"))
    /\ metrics["playing"] >= Cardinality(InState("Playing"))

\* The order of list_by_session: by whole second, then by insertion.
Second(e) == e.stamp \div TicksPerSecond

\* Mutant: the list left in insertion order.
ListedBeforeUnsorted(i, j) == i < j

\* Mutant: a sort that is not stable.
ListedBeforeUnstable(i, j) ==
  \/ Second(events[i]) < Second(events[j])
  \/ Second(events[i]) = Second(events[j]) /\ i > j

ListedBefore(i, j) ==
  \/ Second(events[i]) < Second(events[j])
  \/ Second(events[i]) = Second(events[j]) /\ i < j

SameSession(log, i, j) == log[i].session = log[j].session

(* Two events of a session listed in the wrong order are less than a second
   apart, however late the handler of the older one got to the store. *)
ListingSkewBelowASecond ==
  \A i, j \in DOMAIN events :
    SameSession(events, i, j) /\ ListedBefore(i, j) =>
      events[i].stamp < events[j].stamp + TicksPerSecond

(* Every request a handler takes on is finished: answered, refused, or cut
   off by a disconnect or a restart. *)
RequestsFinish ==
  \A r \in Request : pc[r] \in Running ~> pc[r] \in Finished

-----------------------------------------------------------------------------
(* What holds when a client waits for each answer before it asks again *)

\* A session as the API shows it: absent, in a state, or lost in a restart.
lifecycle ==
  [s \in Session |-> IF sessions[s] # None THEN sessions[s]
                     ELSE IF s \in issued THEN "Forgotten" ELSE "Absent"]

SL == INSTANCE SessionLifecycle WITH state <- lifecycle

(* The handlers, the manager and the store together implement the promised
   lifecycle: no stored state changes except along the state engine. *)
ImplementsLifecycle == SL!Spec

(* state_engine gives Completed no successor: when clients wait for their
   answers, a session that has been Completed is Completed for as long as the
   process runs.  When they do not, two handlers that race can reopen it. *)
CompletedIsFinal ==
  \A s \in Session : "Completed" \in visited[s] => sessions[s] = "Completed"

(* Each experience records a move the state engine allows. *)
ExperiencesAreLegalMoves ==
  \A i \in DOMAIN experiences :
    Transition(experiences[i].state, experiences[i].next)

NextOfSession(i, j) ==
  /\ i < j
  /\ SameSession(experiences, i, j)
  /\ \A k \in (i + 1)..(j - 1) : ~SameSession(experiences, i, k)

(* The experiences of a session form one trajectory: the first starts in
   Initialized, each starts where the one before it ended, and when nothing is
   in flight the last ends where the session is. *)
ExperiencesFormTrajectory ==
  \A i \in DOMAIN experiences :
    LET e == experiences[i]
        before == {j \in DOMAIN experiences : NextOfSession(j, i)}
        after  == {j \in DOMAIN experiences : NextOfSession(i, j)}
    IN  /\ before = {} => e.state = "Initialized"
        /\ \A j \in before : experiences[j].next = e.state
        /\ after = {} /\ Quiet => sessions[e.session] = e.next

(* The listing of a session replays its game, although it knows only whole
   seconds: each listed action was accepted in the state the one listed just
   before it left. *)
ListingReplaysGame ==
  \A i, j \in DOMAIN events :
    SameSession(events, i, j) /\ ListedBefore(i, j) =>
      \/ Transition(Target(events[i].action), Target(events[j].action))
      \/ \E k \in DOMAIN events : /\ SameSession(events, i, k)
                                 /\ ListedBefore(i, k)
                                 /\ ListedBefore(k, j)
=============================================================================
