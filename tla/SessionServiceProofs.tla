------------------------ MODULE SessionServiceProofs ------------------------
(***************************************************************************)
(* Theorems about SessionService for any sets of sessions and requests,    *)
(* any clock and any number of restarts.                                   *)
(***************************************************************************)
EXTENDS SessionService, FiniteSetTheorems, Integers, TLAPS

-----------------------------------------------------------------------------
(* The state engine *)

\* Every action asks for a state the API can reach.
LEMMA TargetStates ==
  ASSUME NEW a \in Action
  PROVE  Target(a) \in {"Playing", "Evaluating", "Completed"}
BY DEF Action, Target

\* A move of the state engine into one of the three target states starts in
\* that state or in one the table lists before it.
LEMMA Predecessors ==
  ASSUME NEW from \in GameState, NEW to, Transition(from, to)
  PROVE  /\ to \in GameState
         /\ to = "Evaluating" => from \in {"Playing", "Evaluating"}
         /\ to = "Completed" => from \in {"Evaluating", "Completed"}
         /\ from = "Completed" => to = "Completed"
BY DEF Transition, ALLOWED, GameState

-----------------------------------------------------------------------------
(* Type correctness *)

\* The locals a handler relies on are set when it needs them.
LocalsSet ==
  \A r \in Request :
    /\ pc[r] \in Running => local[r].session \in Session
    /\ pc[r] \in PlayPoint => /\ local[r].action \in Action
                              /\ local[r].prev \in GameState
    /\ pc[r] \in {"checked", "written", "stamped", "logged"} =>
         local[r].cur \in GameState

Typed == TypeOK /\ LocalsSet

\* A step leaves alone what each request is about and what it read first.
SameRequests ==
  \A q \in Request :
    /\ local'[q].session = local[q].session
    /\ local'[q].action = local[q].action
    /\ local'[q].prev = local[q].prev
    /\ local'[q].epoch = local[q].epoch

LEMMA SetCur ==
  ASSUME local \in [Request -> LocalType], NEW r \in Request,
         NEW x \in GameState, local' = [local EXCEPT ![r].cur = x]
  PROVE  /\ local' \in [Request -> LocalType]
         /\ SameRequests
         /\ \A q \in Request : local'[q].stamp = local[q].stamp
         /\ \A q \in Request :
              local'[q].cur = IF q = r THEN x ELSE local[q].cur
<1>1. local' \in [Request -> LocalType]
  BY DEF LocalType
<1>2. SameRequests
  BY DEF LocalType, SameRequests
<1>3. ASSUME NEW q \in Request
      PROVE  local'[q].stamp = local[q].stamp
  BY DEF LocalType
<1>4. ASSUME NEW q \in Request
      PROVE  local'[q].cur = IF q = r THEN x ELSE local[q].cur
  BY DEF LocalType
<1>5. QED
  BY <1>1, <1>2, <1>3, <1>4

LEMMA SetStamp ==
  ASSUME local \in [Request -> LocalType], NEW r \in Request,
         NEW x \in Nat, local' = [local EXCEPT ![r].stamp = x]
  PROVE  /\ local' \in [Request -> LocalType]
         /\ SameRequests
         /\ \A q \in Request : local'[q].cur = local[q].cur
         /\ \A q \in Request :
              local'[q].stamp = IF q = r THEN x ELSE local[q].stamp
<1>1. local' \in [Request -> LocalType]
  BY DEF LocalType
<1>2. SameRequests
  BY DEF LocalType, SameRequests
<1>3. ASSUME NEW q \in Request
      PROVE  local'[q].cur = local[q].cur
  BY DEF LocalType
<1>4. ASSUME NEW q \in Request
      PROVE  local'[q].stamp = IF q = r THEN x ELSE local[q].stamp
  BY DEF LocalType
<1>5. QED
  BY <1>1, <1>2, <1>3, <1>4

LEMMA AppendType ==
  ASSUME NEW S, NEW log \in Seq(S), NEW e \in S, NEW new,
         new = Append(log, e) \/ new = log
  PROVE  new \in Seq(S)
OBVIOUS

LEMMA TypedInit == Init => Typed
BY ServiceAssumption
   DEF Init, Typed, TypeOK, LocalsSet, Locals, Counter, NoMetrics, Point, Running,
       PlayPoint, Finished, EventType, ExperienceType, LocalType

LEMMA TypedNext == Typed /\ [Next]_vars => Typed'
<1> SUFFICES ASSUME Typed, [Next]_vars PROVE Typed'
  OBVIOUS
<1> USE ServiceAssumption DEF Typed, TypeOK, LocalsSet, Goto, store, logs, env,
        Point, Running, PlayPoint, Finished, EventType, ExperienceType, LocalType
<1>1. ASSUME NEW r \in Request, NEW s \in Session, CreateSession(r, s)
      PROVE  Typed'
  BY <1>1 DEF CreateSession, GameState, Locals
<1>2. ASSUME NEW r \in Request, CountCreated(r)
      PROVE  Typed'
  BY <1>2 DEF CountCreated, Counter
<1>3. ASSUME NEW r \in Request, NEW s \in Session, NEW a \in Action,
             PlayLookup(r, s, a)
      PROVE  Typed'
  BY <1>3 DEF PlayLookup, Locals
<1>4. ASSUME NEW r \in Request, NEW s \in Session, NEW a \in Action,
             PlayNotFound(r, s, a)
      PROVE  Typed'
  BY <1>4 DEF PlayNotFound, Locals
<1>5. ASSUME NEW r \in Request, CheckMove(r)
      PROVE  Typed'
  <2> DEFINE from == sessions[local[r].session]
  <2>1. from \in GameState
    BY <1>5 DEF CheckMove
  <2>2. /\ local' \in [Request -> LocalType]
        /\ SameRequests
        /\ \A q \in Request :
             local'[q].cur = IF q = r THEN from ELSE local[q].cur
    <3>1. local' = [local EXCEPT ![r].cur = from]
      BY <1>5 DEF CheckMove
    <3>2. local \in [Request -> LocalType]
      OBVIOUS
    <3> HIDE DEF LocalType, from
    <3>3. QED
      BY <2>1, <3>1, <3>2, SetCur
  <2>3. /\ pc[r] = "found" /\ pc' = [pc EXCEPT ![r] = "checked"]
        /\ UNCHANGED <<store, metrics, logs, env>>
    BY <1>5 DEF CheckMove
  <2>4. TypeOK'
    BY <2>2, <2>3
  <2>5. LocalsSet'
    BY <2>1, <2>2, <2>3 DEF SameRequests
  <2>6. QED
    BY <2>4, <2>5
<1>6. ASSUME NEW r \in Request, RefuseMove(r)
      PROVE  Typed'
  BY <1>6 DEF RefuseMove
<1>7. ASSUME NEW r \in Request, WriteState(r)
      PROVE  Typed'
  <2>1. Target(local[r].action) \in GameState
    BY <1>7, TargetStates DEF WriteState, GameState
  <2>2. QED
    BY <1>7, <2>1 DEF WriteState
<1>8. ASSUME NEW r \in Request, CountAndStamp(r)
      PROVE  Typed'
  <2>1. metrics' \in [Counter -> Nat]
    BY <1>8 DEF CountAndStamp
  <2>2. /\ local' \in [Request -> LocalType]
        /\ SameRequests
        /\ \A q \in Request : local'[q].cur = local[q].cur
    <3>1. local' = [local EXCEPT ![r].stamp = clock]
      BY <1>8 DEF CountAndStamp
    <3>2. QED
      BY <3>1, SetStamp
  <2>3. /\ pc[r] = "written" /\ pc' = [pc EXCEPT ![r] = "stamped"]
        /\ UNCHANGED <<store, logs, env>>
    BY <1>8 DEF CountAndStamp
  <2>4. TypeOK'
    BY <2>1, <2>2, <2>3
  <2>5. LocalsSet'
    BY <2>2, <2>3 DEF SameRequests
  <2>6. QED
    BY <2>4, <2>5
<1>9. ASSUME NEW r \in Request, LogEvent(r)
      PROVE  Typed'
  <2>1. Event(r) \in EventType
    BY <1>9 DEF LogEvent, Event
  <2>2. QED
    BY <1>9, <2>1 DEF LogEvent
<1>10. ASSUME NEW r \in Request, pc[r] = "logged"
       PROVE  Experience(r) \in ExperienceType
  <2>1. Target(local[r].action) \in GameState
    BY <1>10, TargetStates DEF GameState
  <2>2. QED
    BY <1>10, <2>1 DEF Experience
<1>11. ASSUME NEW r \in Request, LogExperience(r)
       PROVE  Typed'
  BY <1>10, <1>11 DEF LogExperience
<1>12. ASSUME NEW r \in Request, LoseExperience(r)
       PROVE  Typed'
  BY <1>12 DEF LoseExperience
<1>13. ASSUME NEW r \in Request, Disconnect(r)
       PROVE  Typed'
  <2>1. experiences' \in Seq(ExperienceType)
    <3>1. Experience(r) \in ExperienceType
      BY <1>10, <1>13 DEF Disconnect
    <3>2. \/ experiences' = Append(experiences, Experience(r))
          \/ experiences' = experiences
      BY <1>13 DEF Disconnect
    <3>3. experiences \in Seq(ExperienceType)
      OBVIOUS
    <3>4. QED
      BY <3>1, <3>2, <3>3, AppendType
  <2>2. /\ pc[r] = "logged" /\ pc' = [pc EXCEPT ![r] = "dropped"]
        /\ UNCHANGED <<store, metrics, events, local, env>>
    BY <1>13 DEF Disconnect
  <2>3. QED
    BY <2>1, <2>2
<1>14. CASE Tick
  BY <1>14 DEF Tick
<1>15. CASE Restart
  <2>1. /\ metrics' \in [Counter -> Nat]
        /\ events' = <<>>
        /\ experiences' \in {experiences, <<>>}
    BY <1>15 DEF Restart, NoMetrics, Counter
  <2>2. pc' \in [Request -> Point]
    BY <1>15 DEF Restart
  <2>3. QED
    BY <1>15, <2>1, <2>2 DEF Restart
<1>16. CASE UNCHANGED vars
  BY <1>16 DEF vars
<1>17. QED
  BY <1>1, <1>2, <1>3, <1>4, <1>5, <1>6, <1>7, <1>8, <1>9, <1>11, <1>12,
     <1>13, <1>14, <1>15, <1>16 DEF Next, Step, Arrive

(* Every variable keeps its type, in every behaviour of the service. *)
THEOREM TypeCorrect == Spec => []TypeOK
<1>1. Typed => TypeOK
  BY DEF Typed
<1>2. QED
  BY TypedInit, TypedNext, <1>1, PTL DEF Spec

-----------------------------------------------------------------------------
(* Stages *)

\* What a handler has read, its session has been; only ids that were handed
\* out have a session or a handler.
ReadsAreReal ==
  /\ \A s \in Session : sessions[s] # None => s \in issued
  /\ \A r \in Request :
       /\ pc[r] \in Running => local[r].session \in issued
       /\ pc[r] \in PlayPoint => local[r].prev \in visited[local[r].session]
       /\ pc[r] = "checked" =>
            /\ local[r].cur \in visited[local[r].session]
            /\ Transition(local[r].cur, Target(local[r].action))

StageInv == Typed /\ NoShortcutToCompleted /\ ReadsAreReal

\* Adding a state that the engine allows after a visited one keeps the order.
LEMMA InOrderGrows ==
  ASSUME NEW V \in SUBSET GameState, InOrder(V), NEW from \in V,
         NEW a \in Action, Transition(from, Target(a))
  PROVE  InOrder(V \cup {Target(a)})
<1>1. Target(a) \in {"Playing", "Evaluating", "Completed"}
  BY TargetStates
<1>2. /\ Target(a) = "Evaluating" => from \in {"Playing", "Evaluating"}
      /\ Target(a) = "Completed" => from \in {"Evaluating", "Completed"}
  BY Predecessors
<1>3. QED
  BY <1>1, <1>2 DEF InOrder

LEMMA StageInit == Init => StageInv
<1> SUFFICES ASSUME Init PROVE StageInv
  OBVIOUS
<1>1. Typed
  BY TypedInit
<1>2. NoShortcutToCompleted
  BY DEF Init, NoShortcutToCompleted, InOrder
<1>3. ReadsAreReal
  BY DEF Init, ReadsAreReal, Running, PlayPoint
<1>4. QED
  BY <1>1, <1>2, <1>3 DEF StageInv

\* A step that leaves the store and the locals alone, and takes handlers only
\* to points that assume nothing new, keeps the invariant.
LEMMA StageKept ==
  ASSUME StageInv, Typed', UNCHANGED store,
         \A q \in Request :
           /\ local'[q].session = local[q].session
           /\ local'[q].action = local[q].action
           /\ local'[q].prev = local[q].prev
           /\ pc'[q] = "checked" => pc[q] = "checked" /\ local'[q].cur = local[q].cur
           /\ pc'[q] \in PlayPoint => pc[q] \in PlayPoint
           /\ pc'[q] \in Running => pc[q] \in Running
  PROVE  StageInv'
<1>1. NoShortcutToCompleted'
  BY DEF StageInv, NoShortcutToCompleted, store
<1>2. ReadsAreReal'
  BY DEF StageInv, ReadsAreReal, store
<1>3. QED
  BY <1>1, <1>2 DEF StageInv

LEMMA StageNext == StageInv /\ [Next]_vars => StageInv'
<1> SUFFICES ASSUME StageInv, [Next]_vars PROVE StageInv'
  OBVIOUS
<1>0. Typed /\ Typed'
  BY TypedNext DEF StageInv
<1> USE <1>0 DEF Goto, Running, PlayPoint
<1>1. ASSUME NEW r \in Request, NEW s \in Session, CreateSession(r, s)
      PROVE  StageInv'
  <2>1. NoShortcutToCompleted'
    BY <1>1 DEF CreateSession, StageInv, NoShortcutToCompleted, InOrder, Typed, TypeOK
  <2>2. ReadsAreReal'
    BY <1>1 DEF CreateSession, StageInv, ReadsAreReal, Typed, TypeOK, Locals
  <2>3. QED
    BY <2>1, <2>2 DEF StageInv
<1>2. ASSUME NEW r \in Request, CountCreated(r)
      PROVE  StageInv'
  BY <1>2, StageKept DEF CountCreated, Typed, TypeOK
<1>3. ASSUME NEW r \in Request, NEW s \in Session, NEW a \in Action,
             PlayLookup(r, s, a)
      PROVE  StageInv'
  <2>1. NoShortcutToCompleted'
    BY <1>3 DEF PlayLookup, StageInv, NoShortcutToCompleted, store
  <2>2. ReadsAreReal'
    BY <1>3 DEF PlayLookup, StageInv, ReadsAreReal, NoShortcutToCompleted, Typed,
                TypeOK, Locals, store
  <2>3. QED
    BY <2>1, <2>2 DEF StageInv
<1>4. ASSUME NEW r \in Request, NEW s \in Session, NEW a \in Action,
             PlayNotFound(r, s, a)
      PROVE  StageInv'
  <2>1. NoShortcutToCompleted'
    BY <1>4 DEF PlayNotFound, StageInv, NoShortcutToCompleted, store
  <2>2. ReadsAreReal'
    BY <1>4 DEF PlayNotFound, StageInv, ReadsAreReal, Typed, TypeOK, Locals, store
  <2>3. QED
    BY <2>1, <2>2 DEF StageInv
<1>5. ASSUME NEW r \in Request, CheckMove(r)
      PROVE  StageInv'
  <2> DEFINE from == sessions[local[r].session]
  <2>1. /\ local[r].session \in Session
        /\ from \in GameState
        /\ from \in visited[local[r].session]
        /\ Transition(from, Target(local[r].action))
    BY <1>5 DEF CheckMove, Typed, TypeOK, LocalsSet, StageInv, NoShortcutToCompleted
  <2>2. /\ SameRequests
        /\ \A q \in Request :
             local'[q].cur = IF q = r THEN from ELSE local[q].cur
    <3>1. local' = [local EXCEPT ![r].cur = from] /\ local \in [Request -> LocalType]
      BY <1>5 DEF CheckMove, Typed, TypeOK
    <3> HIDE DEF from
    <3>2. QED
      BY <2>1, <3>1, SetCur
  <2>3. /\ pc[r] = "found" /\ pc' = [pc EXCEPT ![r] = "checked"]
        /\ UNCHANGED store
    BY <1>5 DEF CheckMove
  <2>4. NoShortcutToCompleted'
    BY <2>3 DEF StageInv, NoShortcutToCompleted, store
  <2>5. ReadsAreReal'
    BY <2>1, <2>2, <2>3 DEF StageInv, ReadsAreReal, store, SameRequests, Typed, TypeOK
  <2>6. QED
    BY <2>4, <2>5 DEF StageInv
<1>6. ASSUME NEW r \in Request, RefuseMove(r)
      PROVE  StageInv'
  BY <1>6, StageKept DEF RefuseMove, Typed, TypeOK
<1>7. ASSUME NEW r \in Request, WriteState(r)
      PROVE  StageInv'
  <2> DEFINE s  == local[r].session
             to == Target(local[r].action)
  <2>1. /\ s \in Session
        /\ s \in issued
        /\ local[r].action \in Action
        /\ local[r].cur \in visited[s]
        /\ Transition(local[r].cur, to)
        /\ visited[s] \in SUBSET GameState
    BY <1>7 DEF WriteState, Typed, TypeOK, LocalsSet, StageInv, ReadsAreReal
  <2>2. InOrder(visited[s] \cup {to})
    BY <2>1, InOrderGrows DEF StageInv, NoShortcutToCompleted
  <2>3. /\ sessions' = [sessions EXCEPT ![s] = to]
        /\ visited' = [visited EXCEPT ![s] = @ \cup {to}]
        /\ UNCHANGED <<local, issued>>
        /\ pc[r] = "checked" /\ pc' = [pc EXCEPT ![r] = "written"]
    BY <1>7 DEF WriteState
  <2> HIDE DEF s, to
  <2>4. NoShortcutToCompleted'
    BY <2>1, <2>2, <2>3 DEF StageInv, NoShortcutToCompleted, Typed, TypeOK
  <2>5. ReadsAreReal'
    BY <2>1, <2>3 DEF StageInv, ReadsAreReal, Typed, TypeOK, LocalsSet
  <2>6. QED
    BY <2>4, <2>5 DEF StageInv
<1>8. ASSUME NEW r \in Request, CountAndStamp(r)
      PROVE  StageInv'
  <2>1. /\ SameRequests
        /\ \A q \in Request : local'[q].cur = local[q].cur
    <3>1. /\ local' = [local EXCEPT ![r].stamp = clock]
          /\ local \in [Request -> LocalType]
          /\ clock \in Nat
      BY <1>8 DEF CountAndStamp, Typed, TypeOK
    <3>2. QED
      BY <3>1, SetStamp
  <2>2. /\ pc[r] = "written" /\ pc' = [pc EXCEPT ![r] = "stamped"]
        /\ UNCHANGED store
    BY <1>8 DEF CountAndStamp
  <2>3. QED
    BY <2>1, <2>2, StageKept DEF SameRequests, Typed, TypeOK
<1>9. ASSUME NEW r \in Request,
             LogEvent(r) \/ LogExperience(r) \/ LoseExperience(r) \/ Disconnect(r)
      PROVE  StageInv'
  <2>1. /\ UNCHANGED <<store, local>>
        /\ pc[r] \in {"stamped", "logged"}
        /\ pc' \in {[pc EXCEPT ![r] = p] : p \in {"logged", "answered", "dropped"}}
        /\ pc[r] = "logged" => pc'[r] # "logged"
    BY <1>9 DEF LogEvent, LogExperience, LoseExperience, Disconnect, Typed, TypeOK
  <2>2. QED
    BY <2>1, StageKept DEF Typed, TypeOK
<1>10. CASE Tick
  BY <1>10, StageKept DEF Tick
<1>11. CASE Restart
  <2>1. NoShortcutToCompleted'
    BY <1>11 DEF Restart, NoShortcutToCompleted, InOrder
  <2>2. ReadsAreReal'
    BY <1>11 DEF Restart, ReadsAreReal, Typed, TypeOK
  <2>3. QED
    BY <2>1, <2>2 DEF StageInv
<1>12. CASE UNCHANGED vars
  BY <1>12, StageKept DEF vars, store
<1>13. QED
  BY <1>1, <1>2, <1>3, <1>4, <1>5, <1>6, <1>7, <1>8, <1>9, <1>10, <1>11,
     <1>12 DEF Next, Step, Arrive

(* However handlers interleave, no session is Completed without a bet and a
   spin: update_state overwrites, but every target was checked against a state the
   session really had. *)
THEOREM StagesInOrder == Spec => []NoShortcutToCompleted
<1>1. StageInv => NoShortcutToCompleted
  BY DEF StageInv
<1>2. QED
  BY StageInit, StageNext, <1>1, PTL DEF Spec

-----------------------------------------------------------------------------
(* Every visible state has its action *)

\* The log holds requests that have started, about the session they started on.
ExplainedInv ==
  /\ Typed
  /\ StateIsExplained
  /\ \A i \in DOMAIN events : pc[events[i].request] # "new"

LEMMA LoggedRequests ==
  ASSUME Typed
  PROVE  \A i \in DOMAIN events : events[i].request \in Request
<1>1. \A i \in DOMAIN events : events[i] \in EventType
  BY DEF Typed, TypeOK
<1>2. QED
  BY <1>1 DEF EventType

\* A step that keeps the store, the requests' identity, the log's entries and
\* the handlers that have written keeps the explanation of every state.
LEMMA ExplainedKept ==
  ASSUME ExplainedInv, Typed',
         \A s \in Session : sessions'[s] = sessions[s],
         \A q \in Request :
           pc[q] # "new" => /\ local'[q].session = local[q].session
                            /\ local'[q].action = local[q].action
                            /\ pc'[q] # "new"
                            /\ pc[q] \in {"written", "stamped"} =>
                                 pc'[q] \in {"written", "stamped"} \/ Logged(q)',
         \A q \in Request : Logged(q) => Logged(q)',
         \A i \in DOMAIN events' : pc'[events'[i].request] # "new"
  PROVE  ExplainedInv'
<1> SUFFICES ASSUME NEW s \in Session, sessions'[s] \notin {None, "Initialized"}
             PROVE  \E r \in Request :
                      /\ local'[r].session = s
                      /\ IsPlay(r)'
                      /\ Target(local'[r].action) = sessions'[s]
                      /\ pc'[r] \in {"written", "stamped"} \/ Logged(r)'
  BY DEF ExplainedInv, StateIsExplained
<1>1. PICK r \in Request :
        /\ local[r].session = s
        /\ IsPlay(r)
        /\ Target(local[r].action) = sessions[s]
        /\ pc[r] \in {"written", "stamped"} \/ Logged(r)
  BY DEF ExplainedInv, StateIsExplained
<1>2. pc[r] # "new"
  BY <1>1 DEF ExplainedInv, Logged
<1>3. /\ local'[r].session = s
      /\ local'[r].action = local[r].action
      /\ pc'[r] \in {"written", "stamped"} \/ Logged(r)'
  BY <1>1, <1>2
<1>4. QED
  BY <1>1, <1>3 DEF IsPlay

LEMMA ExplainedInit == Init => ExplainedInv
<1> SUFFICES ASSUME Init PROVE ExplainedInv
  OBVIOUS
<1>1. Typed
  BY TypedInit
<1>2. StateIsExplained
  BY DEF Init, StateIsExplained
<1>3. QED
  BY <1>1, <1>2 DEF ExplainedInv, Init

LEMMA ExplainedNext == ExplainedInv /\ [Next]_vars => ExplainedInv'
<1> SUFFICES ASSUME ExplainedInv, [Next]_vars PROVE ExplainedInv'
  OBVIOUS
<1>0. Typed /\ Typed'
  BY TypedNext DEF ExplainedInv
<1> USE <1>0 DEF Goto
<1>1. ASSUME NEW r \in Request, NEW s \in Session, CreateSession(r, s)
      PROVE  ExplainedInv'
  <2>1. /\ sessions' = [sessions EXCEPT ![s] = "Initialized"]
        /\ pc[r] = "new" /\ pc' = [pc EXCEPT ![r] = "created"]
        /\ local' = [local EXCEPT ![r] = Locals(s, None, None, restarts)]
        /\ events' = events
    BY <1>1 DEF CreateSession, logs
  <2>2. \A q \in Request : Logged(q)' <=> Logged(q)
    BY <2>1 DEF Logged
  <2>3. \A i \in DOMAIN events' : pc'[events'[i].request] # "new"
    BY <2>1 DEF ExplainedInv, Typed, TypeOK, EventType
  <2>4. ASSUME NEW t \in Session, sessions'[t] \notin {None, "Initialized"}
        PROVE  \E q \in Request :
                 /\ local'[q].session = t
                 /\ IsPlay(q)'
                 /\ Target(local'[q].action) = sessions'[t]
                 /\ pc'[q] \in {"written", "stamped"} \/ Logged(q)'
    <3>1. t # s /\ sessions'[t] = sessions[t]
      BY <2>1, <2>4 DEF Typed, TypeOK
    <3>2. PICK q \in Request :
            /\ local[q].session = t
            /\ IsPlay(q)
            /\ Target(local[q].action) = sessions[t]
            /\ pc[q] \in {"written", "stamped"} \/ Logged(q)
      BY <2>4, <3>1 DEF ExplainedInv, StateIsExplained
    <3>3. pc[q] # "new"
      BY <3>2 DEF ExplainedInv, Logged
    <3>4. q # r /\ local'[q] = local[q] /\ pc'[q] = pc[q]
      BY <2>1, <3>3 DEF Typed, TypeOK
    <3>5. QED
      BY <2>2, <3>1, <3>2, <3>4 DEF IsPlay
  <2>5. QED
    BY <2>3, <2>4 DEF ExplainedInv, StateIsExplained
<1>2. ASSUME NEW r \in Request,
             CountCreated(r) \/ RefuseMove(r) \/ LogExperience(r)
               \/ LoseExperience(r) \/ Disconnect(r)
      PROVE  ExplainedInv'
  <2>1. /\ UNCHANGED <<sessions, local, events>>
        /\ pc[r] \notin {"new", "written", "stamped"}
        /\ \E p \in Finished : pc' = [pc EXCEPT ![r] = p]
    BY <1>2 DEF CountCreated, RefuseMove, LogExperience, LoseExperience,
                Disconnect, store, logs, Finished
  <2>2. \A q \in Request : Logged(q)' <=> Logged(q)
    BY <2>1 DEF Logged
  <2>3. \A q \in Request : pc[q] # "new" => pc'[q] # "new"
    BY <2>1 DEF Typed, TypeOK, Finished
  <2>4. \A i \in DOMAIN events' : pc'[events'[i].request] # "new"
    BY <2>1, <2>3 DEF ExplainedInv, Typed, TypeOK, EventType
  <2>5. \A q \in Request : pc[q] \in {"written", "stamped"} => pc'[q] = pc[q]
    BY <2>1 DEF Typed, TypeOK
  <2>6. QED
    BY <2>1, <2>2, <2>3, <2>4, <2>5, ExplainedKept
<1>3. ASSUME NEW r \in Request, NEW s \in Session, NEW a \in Action,
             PlayLookup(r, s, a) \/ PlayNotFound(r, s, a)
      PROVE  ExplainedInv'
  <2>1. /\ UNCHANGED <<sessions, events>>
        /\ pc[r] = "new"
        /\ \E p \in Point \ {"new"} : pc' = [pc EXCEPT ![r] = p]
        /\ \E v : local' = [local EXCEPT ![r] = v]
    BY <1>3 DEF PlayLookup, PlayNotFound, store, logs, Point, Running,
                PlayPoint, Finished
  <2>2. \A q \in Request : Logged(q)' <=> Logged(q)
    BY <2>1 DEF Logged
  <2>3. /\ pc'[r] # "new"
        /\ \A q \in Request : q # r => pc'[q] = pc[q] /\ local'[q] = local[q]
    BY <2>1 DEF Typed, TypeOK
  <2>4. \A i \in DOMAIN events' : pc'[events'[i].request] # "new"
    BY <2>1, <2>3 DEF ExplainedInv, Typed, TypeOK, EventType
  <2>5. QED
    BY <2>1, <2>2, <2>3, <2>4, ExplainedKept
<1>4. ASSUME NEW r \in Request, CheckMove(r) \/ CountAndStamp(r)
      PROVE  ExplainedInv'
  <2>1. /\ UNCHANGED <<sessions, events>>
        /\ \/ pc[r] = "found" /\ pc' = [pc EXCEPT ![r] = "checked"]
           \/ pc[r] = "written" /\ pc' = [pc EXCEPT ![r] = "stamped"]
    BY <1>4 DEF CheckMove, CountAndStamp, store, logs
  <2>2. SameRequests
    <3>1. CASE CheckMove(r)
      <4>1. /\ local' = [local EXCEPT ![r].cur = sessions[local[r].session]]
            /\ local \in [Request -> LocalType]
            /\ sessions[local[r].session] \in GameState
        BY <3>1 DEF CheckMove, Typed, TypeOK, LocalsSet, Running, PlayPoint
      <4> DEFINE from == sessions[local[r].session]
      <4> HIDE DEF from
      <4>2. QED
        BY <4>1, SetCur DEF from
    <3>2. CASE CountAndStamp(r)
      BY <3>2, SetStamp DEF CountAndStamp, Typed, TypeOK
    <3>3. QED
      BY <1>4, <3>1, <3>2
  <2>3. \A q \in Request : Logged(q)' <=> Logged(q)
    BY <2>1 DEF Logged
  <2>4. \A q \in Request :
          /\ pc[q] # "new" => pc'[q] # "new"
          /\ pc[q] \in {"written", "stamped"} => pc'[q] \in {"written", "stamped"}
    BY <2>1 DEF Typed, TypeOK
  <2>5. \A i \in DOMAIN events' : pc'[events'[i].request] # "new"
    <3>1. \A i \in DOMAIN events : events[i].request \in Request
      BY LoggedRequests
    <3>2. QED
      BY <2>1, <2>4, <3>1 DEF ExplainedInv
  <2>6. QED
    <3>1. \A q \in Request : /\ local'[q].session = local[q].session
                             /\ local'[q].action = local[q].action
      BY <2>2 DEF SameRequests
    <3>2. \A t \in Session : sessions'[t] = sessions[t]
      BY <2>1
    <3>3. QED
      BY <2>3, <2>4, <2>5, <3>1, <3>2, ExplainedKept
<1>5. ASSUME NEW r \in Request, WriteState(r)
      PROVE  ExplainedInv'
  <2> DEFINE s  == local[r].session
             to == Target(local[r].action)
  <2>1. /\ sessions' = [sessions EXCEPT ![s] = to]
        /\ UNCHANGED <<local, events>>
        /\ pc[r] = "checked" /\ pc' = [pc EXCEPT ![r] = "written"]
        /\ s \in Session
        /\ local[r].action \in Action
    BY <1>5 DEF WriteState, logs, Typed, LocalsSet, Running, PlayPoint
  <2>2. \A q \in Request : Logged(q)' <=> Logged(q)
    BY <2>1 DEF Logged
  <2>3. \A i \in DOMAIN events' : pc'[events'[i].request] # "new"
    BY <2>1 DEF ExplainedInv, Typed, TypeOK, EventType
  <2>4. ASSUME NEW t \in Session, sessions'[t] \notin {None, "Initialized"}
        PROVE  \E q \in Request :
                 /\ local'[q].session = t
                 /\ IsPlay(q)'
                 /\ Target(local'[q].action) = sessions'[t]
                 /\ pc'[q] \in {"written", "stamped"} \/ Logged(q)'
    <3>1. CASE t = s
      <4>1. /\ local'[r].session = t
            /\ IsPlay(r)'
            /\ Target(local'[r].action) = sessions'[t]
            /\ pc'[r] = "written"
        BY <2>1, <3>1, ServiceAssumption DEF IsPlay, Action, Typed, TypeOK
      <4>2. QED
        BY <4>1
    <3>2. CASE t # s
      <4>1. sessions'[t] = sessions[t]
        BY <2>1, <3>2 DEF Typed, TypeOK
      <4>2. PICK q \in Request :
              /\ local[q].session = t
              /\ IsPlay(q)
              /\ Target(local[q].action) = sessions[t]
              /\ pc[q] \in {"written", "stamped"} \/ Logged(q)
        BY <2>4, <4>1 DEF ExplainedInv, StateIsExplained
      <4>3. q # r /\ local'[q] = local[q] /\ pc'[q] = pc[q]
        BY <2>1, <3>2, <4>2 DEF Typed, TypeOK
      <4>4. QED
        BY <2>2, <4>1, <4>2, <4>3 DEF IsPlay
    <3>3. QED
      BY <3>1, <3>2
  <2>5. QED
    BY <2>3, <2>4 DEF ExplainedInv, StateIsExplained
<1>6. ASSUME NEW r \in Request, LogEvent(r)
      PROVE  ExplainedInv'
  <2>1. /\ UNCHANGED <<sessions, local>>
        /\ events' = Append(events, Event(r))
        /\ events \in Seq(EventType)
        /\ pc[r] = "stamped" /\ pc' = [pc EXCEPT ![r] = "logged"]
        /\ Event(r).request = r
    BY <1>6 DEF LogEvent, store, Typed, TypeOK, Event
  <2> DEFINE e == Event(r)
  <2>2. /\ DOMAIN events' = 1..(Len(events) + 1)
        /\ DOMAIN events = 1..Len(events)
        /\ \A i \in DOMAIN events : events'[i] = events[i]
        /\ events'[Len(events) + 1] = e
        /\ Len(events) \in Nat
    <3> HIDE DEF e
    <3>1. QED
      BY <2>1 DEF e
  <2>3. Logged(r)'
    <3> HIDE DEF e
    <3>1. events'[Len(events) + 1].request = r
      BY <2>1, <2>2 DEF e
    <3>2. Len(events) + 1 \in DOMAIN events'
      BY <2>2
    <3>3. QED
      BY <3>1, <3>2 DEF Logged
  <2>4. \A q \in Request : Logged(q) => Logged(q)'
    BY <2>2 DEF Logged
  <2>5. \A q \in Request : /\ pc[q] # "new" => pc'[q] # "new"
                           /\ q # r => pc'[q] = pc[q]
                           /\ pc'[r] # "new"
    BY <2>1 DEF Typed, TypeOK
  <2>6. ASSUME NEW i \in DOMAIN events' PROVE pc'[events'[i].request] # "new"
    <3>1. CASE i \in DOMAIN events
      <4>1. events'[i] = events[i] /\ events[i] \in EventType
        BY <2>1, <2>2, <3>1
      <4>2. events[i].request \in Request /\ pc[events[i].request] # "new"
        BY <3>1, <4>1 DEF ExplainedInv, EventType
      <4>3. QED
        BY <2>5, <4>1, <4>2
    <3>2. CASE i \notin DOMAIN events
      <4>1. events'[i] = e
        BY <2>2, <3>2
      <4>2. QED
        BY <2>1, <2>5, <4>1
    <3>3. QED
      BY <3>1, <3>2
  <2>7. QED
    <3>1. ASSUME NEW q \in Request
          PROVE  pc[q] \in {"written", "stamped"} =>
                   pc'[q] \in {"written", "stamped"} \/ Logged(q)'
      BY <2>3, <2>5
    <3>2. QED
      BY <2>1, <2>4, <2>5, <2>6, <3>1, ExplainedKept
<1>7. CASE Tick
  <2>1. UNCHANGED <<sessions, local, events, pc>>
    BY <1>7 DEF Tick, store, logs
  <2>2. \A q \in Request : Logged(q)' <=> Logged(q)
    BY <2>1 DEF Logged
  <2>3. QED
    BY <2>1, <2>2, ExplainedKept DEF ExplainedInv
<1>8. CASE Restart
  <2>1. StateIsExplained'
    BY <1>8 DEF Restart, StateIsExplained
  <2>2. QED
    BY <1>8, <2>1 DEF ExplainedInv, Restart
<1>9. CASE UNCHANGED vars
  <2>1. UNCHANGED <<sessions, local, events, pc>>
    BY <1>9 DEF vars
  <2>2. \A q \in Request : Logged(q)' <=> Logged(q)
    BY <2>1 DEF Logged
  <2>3. QED
    BY <2>1, <2>2, ExplainedKept DEF ExplainedInv
<1>10. QED
  BY <1>1, <1>2, <1>3, <1>4, <1>5, <1>6, <1>7, <1>8, <1>9
     DEF Next, Step, Arrive

(* Every state a client can see belongs to an accepted action that is logged
   or about to be: no write goes unrecorded while the process runs. *)
THEOREM StatesExplained == Spec => []StateIsExplained
<1>1. ExplainedInv => StateIsExplained
  BY DEF ExplainedInv
<1>2. QED
  BY ExplainedInit, ExplainedNext, <1>1, PTL DEF Spec

-----------------------------------------------------------------------------
(* The listing of a session's events *)

\* What truncating a division loses is less than the divisor.
LEMMA DivBounds ==
  ASSUME NEW a \in Nat, NEW n \in Nat \ {0}
  PROVE  /\ a \div n \in Nat
         /\ n * (a \div n) <= a
         /\ a < n * (a \div n) + n
OBVIOUS

LEMMA TimesMonotone ==
  ASSUME NEW p \in Nat, NEW q \in Nat, NEW n \in Nat, p <= q
  PROVE  n * p <= n * q
OBVIOUS

\* Two times in the same whole second, or in ascending ones, are at most a
\* second out of order.
LEMMA SameSecondSkew ==
  ASSUME NEW a \in Nat, NEW b \in Nat, NEW n \in Nat \ {0},
         a \div n <= b \div n
  PROVE  a < b + n
<1> DEFINE x == a \div n
           y == b \div n
<1>1. x \in Nat /\ y \in Nat /\ x <= y /\ a < n * x + n /\ n * y <= b
  BY DivBounds
<1> HIDE DEF x, y
<1>2. n * x <= n * y
  BY <1>1, TimesMonotone
<1>3. n * x \in Nat /\ n * y \in Nat
  BY <1>1
<1>4. QED
  BY <1>1, <1>2, <1>3

(* However many ticks a second has, and however late a handler reaches the
   event store, the listing is at most a second out of order. *)
THEOREM ListingSkew == Spec => []ListingSkewBelowASecond
<1>1. TypeOK => ListingSkewBelowASecond
  <2> SUFFICES ASSUME TypeOK, NEW i \in DOMAIN events, NEW j \in DOMAIN events,
                      SameSession(events, i, j), ListedBefore(i, j)
               PROVE  events[i].stamp < events[j].stamp + TicksPerSecond
    BY DEF ListingSkewBelowASecond
  <2>1. events[i] \in EventType /\ events[j] \in EventType
    BY DEF TypeOK
  <2>2. events[i].stamp \in Nat /\ events[j].stamp \in Nat
    BY <2>1 DEF EventType
  <2>3. TicksPerSecond \in Nat \ {0}
    BY ServiceAssumption
  <2>4. Second(events[i]) <= Second(events[j])
    <3>1. Second(events[i]) \in Nat /\ Second(events[j]) \in Nat
      BY <2>2, <2>3, DivBounds DEF Second
    <3>2. QED
      BY <3>1 DEF ListedBefore
  <2>5. QED
    BY <2>2, <2>3, <2>4, SameSecondSkew DEF Second
<1>2. QED
  BY TypeCorrect, <1>1, PTL

-----------------------------------------------------------------------------
(* Logs *)

\* The plays of this process that have an event, and those whose answer says
\* that all is done.
Placed(r) ==
  /\ Current(r)
  /\ IsPlay(r)
  /\ pc[r] \in {"logged", "answered"} \/ (Postgres /\ pc[r] = "dropped")

Done(r) == Current(r) /\ IsPlay(r) /\ pc[r] = "answered"

\* Each request of a log is in it once.
Counted(log) ==
  IsFiniteSet(Requests(log)) /\ Cardinality(Requests(log)) = Len(log)

\* Handlers that run belong to this process, and so do those that were dropped
\* by a client that went away; each log has the plays it should have, once.
LogInv ==
  /\ Typed
  /\ \A r \in Request :
       /\ local[r].epoch <= restarts
       /\ pc[r] \in Running => local[r].epoch = restarts
       /\ pc[r] = "created" => local[r].action = None
       /\ ~Postgres /\ pc[r] = "dropped" => local[r].epoch # restarts
  /\ Counted(events)
  /\ Requests(events) = {r \in Request : Placed(r)}
  /\ ~Postgres => /\ Counted(experiences)
                  /\ Requests(experiences) = {r \in Request : Done(r)}

LEMMA EmptyLog == Requests(<<>>) = {} /\ Counted(<<>>)
<1>1. Requests(<<>>) = {}
  BY DEF Requests
<1>2. QED
  BY <1>1, FS_EmptySet DEF Counted

LEMMA LogGrows ==
  ASSUME NEW S, NEW log \in Seq(S), NEW e \in S
  PROVE  /\ Requests(Append(log, e)) = Requests(log) \cup {e.request}
         /\ Counted(log) /\ e.request \notin Requests(log) => Counted(Append(log, e))
<1> DEFINE n == Len(log)
           longer == Append(log, e)
<1>1. /\ n \in Nat /\ DOMAIN log = 1..n
      /\ DOMAIN longer = 1..(n + 1) /\ Len(longer) = n + 1
      /\ \A i \in 1..n : longer[i] = log[i]
      /\ longer[n + 1] = e
  OBVIOUS
<1> HIDE DEF n, longer
<1>2. Requests(longer) = Requests(log) \cup {e.request}
  <2>1. ASSUME NEW i \in DOMAIN longer
        PROVE  longer[i].request \in Requests(log) \cup {e.request}
    BY <1>1, <2>1 DEF Requests
  <2>2. \A i \in DOMAIN log : log[i].request \in Requests(longer)
    BY <1>1 DEF Requests
  <2>3. e.request \in Requests(longer)
    BY <1>1 DEF Requests
  <2>4. QED
    BY <2>1, <2>2, <2>3 DEF Requests
<1>3. ASSUME Counted(log), e.request \notin Requests(log)
      PROVE  Counted(longer)
  <2>1. IsFiniteSet(Requests(log)) /\ Cardinality(Requests(log)) = n
    BY <1>3 DEF Counted, n
  <2>2. /\ IsFiniteSet(Requests(log) \cup {e.request})
        /\ Cardinality(Requests(log) \cup {e.request}) = n + 1
    BY <1>3, <2>1, FS_AddElement
  <2>3. QED
    BY <1>1, <1>2, <2>2 DEF Counted
<1>4. QED
  BY <1>2, <1>3 DEF longer

LEMMA LogInit == Init => LogInv
<1> SUFFICES ASSUME Init PROVE LogInv
  OBVIOUS
<1>1. \A r \in Request : ~Placed(r) /\ ~Done(r)
  BY DEF Init, Placed, Done, Current
<1>2. \A r \in Request : /\ local[r].epoch = restarts /\ local[r].epoch <= restarts
                         /\ local[r].action = None /\ pc[r] = "new"
  BY DEF Init, Locals
<1>3. events = <<>> /\ experiences = <<>>
  BY DEF Init
<1>4. QED
  BY <1>1, <1>2, <1>3, TypedInit, EmptyLog DEF LogInv

\* A step that logs nothing and changes no request's standing.
LEMMA LogKept ==
  ASSUME LogInv, Typed', UNCHANGED logs,
         \A q \in Request :
           /\ local'[q].epoch <= restarts'
           /\ pc'[q] \in Running => local'[q].epoch = restarts'
           /\ pc'[q] = "created" => local'[q].action = None
           /\ ~Postgres /\ pc'[q] = "dropped" => local'[q].epoch # restarts'
           /\ Placed(q)' <=> Placed(q)
           /\ Done(q)' <=> Done(q)
  PROVE  LogInv'
<1>1. {r \in Request : Placed(r)}' = {r \in Request : Placed(r)}
  OBVIOUS
<1>2. {r \in Request : Done(r)}' = {r \in Request : Done(r)}
  OBVIOUS
<1>3. /\ Requests(events)' = Requests(events) /\ Counted(events)' = Counted(events)
      /\ Requests(experiences)' = Requests(experiences)
      /\ Counted(experiences)' = Counted(experiences)
  BY DEF logs
<1>4. QED
  BY <1>1, <1>2, <1>3 DEF LogInv

\* A play handler takes a step that neither logs an event nor ends in an answer.
LEMMA LogPasses ==
  ASSUME LogInv, Typed', UNCHANGED <<logs, restarts>>, SameRequests,
         NEW r \in Request, pc[r] \in PlayPoint \ {"logged"},
         NEW p \in (PlayPoint \ {"logged"}) \cup {"rejected"},
         pc' = [pc EXCEPT ![r] = p]
  PROVE  LogInv'
<1>1. \A q \in Request : pc'[q] = IF q = r THEN p ELSE pc[q]
  BY DEF LogInv, Typed, TypeOK
<1>2. \A q \in Request : IsPlay(q)' <=> IsPlay(q)
  BY DEF SameRequests, IsPlay
<1>3. \A q \in Request : Current(q)' <=> Current(q)
  BY <1>1 DEF SameRequests, Current, PlayPoint
<1>4. \A q \in Request : (Placed(q)' <=> Placed(q)) /\ (Done(q)' <=> Done(q))
  BY <1>1, <1>2, <1>3 DEF Placed, Done, PlayPoint
<1>5. \A q \in Request :
        /\ local'[q].epoch <= restarts'
        /\ pc'[q] \in Running => local'[q].epoch = restarts'
        /\ pc'[q] = "created" => local'[q].action = None
        /\ ~Postgres /\ pc'[q] = "dropped" => local'[q].epoch # restarts'
  BY <1>1 DEF LogInv, SameRequests, Running, PlayPoint
<1>6. QED
  BY <1>4, <1>5, LogKept

\* A handler starts on a request, or refuses it at once: no log has it yet.
LEMMA LogStarts ==
  ASSUME LogInv, Typed', UNCHANGED <<logs, restarts>>,
         NEW r \in Request, pc[r] = "new", NEW p \in {"created", "found", "rejected"},
         pc' = [pc EXCEPT ![r] = p],
         NEW s, NEW a, NEW prev, p = "created" => a = None,
         local' = [local EXCEPT ![r] = Locals(s, a, prev, restarts)]
  PROVE  LogInv'
<1>1. \A q \in Request : pc'[q] = IF q = r THEN p ELSE pc[q]
  BY DEF LogInv, Typed, TypeOK
<1>2. \A q \in Request :
        local'[q] = IF q = r THEN Locals(s, a, prev, restarts) ELSE local[q]
  BY DEF LogInv, Typed, TypeOK
<1>3. local'[r].epoch = restarts /\ local'[r].action = a /\ restarts \in Nat
  BY <1>2 DEF Locals, LogInv, Typed, TypeOK
<1>4. ~Placed(r) /\ ~Done(r) /\ ~Placed(r)' /\ ~Done(r)'
  BY <1>1 DEF Placed, Done, Current
<1>5. \A q \in Request : q # r => (Placed(q)' <=> Placed(q)) /\ (Done(q)' <=> Done(q))
  BY <1>1, <1>2 DEF Placed, Done, Current, IsPlay
<1>6. \A q \in Request :
        /\ local'[q].epoch <= restarts'
        /\ pc'[q] \in Running => local'[q].epoch = restarts'
        /\ pc'[q] = "created" => local'[q].action = None
        /\ ~Postgres /\ pc'[q] = "dropped" => local'[q].epoch # restarts'
  <2>1. ASSUME NEW q \in Request, q # r
        PROVE  local'[q] = local[q] /\ pc'[q] = pc[q]
    BY <1>1, <1>2, <2>1
  <2>2. QED
    BY <1>1, <1>3, <2>1 DEF LogInv
<1>7. QED
  BY <1>4, <1>5, <1>6, LogKept

\* A handler gets past the event store or the experience store.
LEMMA LogMoves ==
  ASSUME LogInv, Typed', UNCHANGED <<local, restarts>>,
         NEW r \in Request, NEW p, pc' = [pc EXCEPT ![r] = p],
         \/ /\ pc[r] = "stamped" /\ p = "logged"
            /\ events' = Append(events, Event(r)) /\ UNCHANGED experiences
         \/ /\ pc[r] = "logged" /\ p = "answered"
            /\ experiences' = Append(experiences, Experience(r)) /\ UNCHANGED events
         \/ /\ pc[r] = "logged" /\ p \in {"answered", "dropped"}
            /\ Postgres /\ UNCHANGED events
  PROVE  LogInv'
<1>1. \A q \in Request : pc'[q] = IF q = r THEN p ELSE pc[q]
  BY DEF LogInv, Typed, TypeOK
<1>2. IsPlay(r) /\ Current(r) /\ (p # "new" => Current(r)')
  BY <1>1, ServiceAssumption
     DEF LogInv, Typed, LocalsSet, Running, PlayPoint, IsPlay, Current, Action
<1>3. \A q \in Request : q # r => (Placed(q)' <=> Placed(q)) /\ (Done(q)' <=> Done(q))
  BY <1>1 DEF Placed, Done, Current, IsPlay
<1>4. \A q \in Request :
        /\ local'[q].epoch <= restarts'
        /\ pc'[q] \in Running => local'[q].epoch = restarts'
        /\ pc'[q] = "created" => local'[q].action = None
        /\ ~Postgres /\ pc'[q] = "dropped" => local'[q].epoch # restarts'
  BY <1>1 DEF LogInv, Running, PlayPoint
<1>5. Typed /\ IsPlay(r)' = IsPlay(r)
  BY DEF LogInv, IsPlay
<1>6. CASE /\ pc[r] = "stamped" /\ p = "logged"
           /\ events' = Append(events, Event(r)) /\ UNCHANGED experiences
  <2>1. ~Placed(r) /\ Placed(r)' /\ ~Done(r) /\ ~Done(r)'
    BY <1>1, <1>2, <1>5, <1>6 DEF Placed, Done
  <2>2. Event(r) \in EventType /\ Event(r).request = r /\ events \in Seq(EventType)
    BY <1>5, <1>6 DEF Event, EventType, Typed, TypeOK, LocalsSet, LocalType,
                       Running, PlayPoint
  <2>3. /\ Requests(events') = Requests(events) \cup {r}
        /\ Counted(events')
    BY <1>6, <2>1, <2>2, LogGrows DEF LogInv
  <2>4. Requests(events)' = {q \in Request : Placed(q)'}
    BY <1>3, <2>1, <2>3 DEF LogInv, Requests
  <2>5. Requests(experiences)' = Requests(experiences)
        /\ (Counted(experiences) => Counted(experiences)')
    BY <1>6 DEF Requests, Counted
  <2>6. {q \in Request : Done(q)'} = {q \in Request : Done(q)}
    BY <1>3, <2>1
  <2>7. QED
    BY <1>4, <2>3, <2>4, <2>5, <2>6 DEF LogInv, Counted, Requests
<1>7. CASE /\ pc[r] = "logged" /\ UNCHANGED events
           /\ p \in {"answered", "dropped"}
           /\ Postgres \/ (p = "answered"
                           /\ experiences' = Append(experiences, Experience(r)))
  <2>1. Placed(r) /\ Placed(r)'
    BY <1>1, <1>2, <1>5, <1>7 DEF Placed
  <2>2. {q \in Request : Placed(q)'} = {q \in Request : Placed(q)}
    BY <1>3, <2>1
  <2>3. /\ Counted(events)'
        /\ Requests(events)' = {q \in Request : Placed(q)'}
    BY <1>7, <2>2 DEF LogInv, Counted, Requests
  <2>4. ASSUME ~Postgres
        PROVE  /\ Counted(experiences)'
               /\ Requests(experiences)' = {q \in Request : Done(q)'}
    <3>1. ~Done(r) /\ Done(r)'
      BY <1>1, <1>2, <1>5, <1>7, <2>4 DEF Done
    <3>2. Experience(r) \in ExperienceType /\ experiences \in Seq(ExperienceType)
      <4>1. Target(local[r].action) \in GameState
        BY <1>5, <1>7, TargetStates DEF Typed, LocalsSet, PlayPoint, GameState
      <4>2. QED
        BY <1>5, <1>7, <4>1 DEF Experience, ExperienceType, Typed, TypeOK,
                                LocalsSet, LocalType, Running, PlayPoint
    <3>3. Experience(r).request = r
      BY DEF Experience
    <3>4. /\ Requests(experiences') = Requests(experiences) \cup {r}
          /\ Counted(experiences')
      <4>1. Counted(experiences) /\ r \notin Requests(experiences)
        BY <2>4, <3>1 DEF LogInv
      <4>2. experiences' = Append(experiences, Experience(r))
        BY <1>7, <2>4
      <4>3. QED
        BY <3>2, <3>3, <4>1, <4>2, LogGrows
    <3>5. QED
      BY <1>3, <2>4, <3>1, <3>4 DEF LogInv, Requests, Counted
  <2>5. QED
    BY <1>4, <2>3, <2>4 DEF LogInv
<1>8. QED
  BY <1>6, <1>7

LEMMA LogNext == LogInv /\ [Next]_vars => LogInv'
<1> SUFFICES ASSUME LogInv, [Next]_vars PROVE LogInv'
  OBVIOUS
<1>0. Typed /\ Typed'
  BY TypedNext DEF LogInv
<1>1. ASSUME NEW r \in Request, NEW s \in Session, CreateSession(r, s)
      PROVE  LogInv'
  BY <1>0, <1>1, LogStarts DEF CreateSession, Goto, env, logs
<1>2. ASSUME NEW r \in Request, NEW s \in Session, NEW a \in Action,
             PlayLookup(r, s, a) \/ PlayNotFound(r, s, a)
      PROVE  LogInv'
  <2>1. CASE PlayLookup(r, s, a)
    BY <1>0, <2>1, LogStarts DEF PlayLookup, Goto, env, logs
  <2>2. CASE PlayNotFound(r, s, a)
    BY <1>0, <2>2, LogStarts DEF PlayNotFound, Goto, env, logs
  <2>3. QED
    BY <1>2, <2>1, <2>2
<1>3. ASSUME NEW r \in Request, CountCreated(r)
      PROVE  LogInv'
  <2>1. /\ UNCHANGED <<logs, local, restarts>>
        /\ pc[r] = "created"
        /\ \A q \in Request : pc'[q] = IF q = r THEN "answered" ELSE pc[q]
    BY <1>0, <1>3 DEF CountCreated, Goto, env, Typed, TypeOK
  <2>2. ~IsPlay(r) /\ ~IsPlay(r)'
    BY <2>1 DEF LogInv, IsPlay
  <2>3. \A q \in Request : (Placed(q)' <=> Placed(q)) /\ (Done(q)' <=> Done(q))
    BY <2>1, <2>2 DEF Placed, Done, Current, IsPlay
  <2>4. \A q \in Request :
          /\ local'[q].epoch <= restarts'
          /\ pc'[q] \in Running => local'[q].epoch = restarts'
          /\ pc'[q] = "created" => local'[q].action = None
          /\ ~Postgres /\ pc'[q] = "dropped" => local'[q].epoch # restarts'
    BY <2>1 DEF LogInv, Running, PlayPoint
  <2>5. QED
    BY <1>0, <2>1, <2>3, <2>4, LogKept
<1>4. ASSUME NEW r \in Request, CheckMove(r)
      PROVE  LogInv'
  <2> DEFINE from == sessions[local[r].session]
  <2>1. /\ pc[r] = "found" /\ pc' = [pc EXCEPT ![r] = "checked"]
        /\ local' = [local EXCEPT ![r].cur = from]
        /\ from \in GameState /\ local \in [Request -> LocalType]
        /\ UNCHANGED <<logs, restarts>>
    BY <1>0, <1>4 DEF CheckMove, Goto, env, Typed, TypeOK, LocalsSet, Running, PlayPoint
  <2> HIDE DEF from
  <2>2. SameRequests
    BY <2>1, SetCur
  <2>3. QED
    BY <1>0, <2>1, <2>2, LogPasses DEF PlayPoint
<1>5. ASSUME NEW r \in Request, RefuseMove(r) \/ WriteState(r)
      PROVE  LogInv'
  <2>1. /\ UNCHANGED <<logs, local, restarts>>
        /\ \/ pc[r] = "found" /\ pc' = [pc EXCEPT ![r] = "rejected"]
           \/ pc[r] = "checked" /\ pc' = [pc EXCEPT ![r] = "written"]
    BY <1>5 DEF RefuseMove, WriteState, Goto, env
  <2>2. SameRequests
    BY <2>1 DEF SameRequests
  <2>3. QED
    BY <1>0, <2>1, <2>2, LogPasses DEF PlayPoint
<1>6. ASSUME NEW r \in Request, CountAndStamp(r)
      PROVE  LogInv'
  <2>1. /\ pc[r] = "written" /\ pc' = [pc EXCEPT ![r] = "stamped"]
        /\ local' = [local EXCEPT ![r].stamp = clock]
        /\ local \in [Request -> LocalType] /\ clock \in Nat
        /\ UNCHANGED <<logs, restarts>>
    BY <1>0, <1>6 DEF CountAndStamp, Goto, env, Typed, TypeOK
  <2>2. SameRequests
    BY <2>1, SetStamp
  <2>3. QED
    BY <1>0, <2>1, <2>2, LogPasses DEF PlayPoint
<1>7. ASSUME NEW r \in Request,
             LogEvent(r) \/ LogExperience(r) \/ LoseExperience(r) \/ Disconnect(r)
      PROVE  LogInv'
  <2>1. UNCHANGED <<local, restarts>>
    BY <1>7 DEF LogEvent, LogExperience, LoseExperience, Disconnect, env
  <2>2. CASE LogEvent(r)
    BY <1>0, <2>1, <2>2, LogMoves DEF LogEvent, Goto
  <2>3. CASE LogExperience(r)
    BY <1>0, <2>1, <2>3, LogMoves DEF LogExperience, Goto
  <2>4. CASE LoseExperience(r)
    BY <1>0, <2>1, <2>4, LogMoves DEF LoseExperience, Goto, logs
  <2>5. CASE Disconnect(r)
    BY <1>0, <2>1, <2>5, LogMoves DEF Disconnect, Goto
  <2>6. QED
    BY <1>7, <2>2, <2>3, <2>4, <2>5
<1>8. CASE Tick \/ UNCHANGED vars
  <2>1. UNCHANGED <<logs, pc, local, restarts>>
    BY <1>8 DEF Tick, vars, logs
  <2>2. \A q \in Request : (Placed(q)' <=> Placed(q)) /\ (Done(q)' <=> Done(q))
    BY <2>1 DEF Placed, Done, Current, IsPlay
  <2>3. QED
    BY <1>0, <2>1, <2>2, LogKept DEF LogInv
<1>9. CASE Restart
  <2>1. /\ restarts' = restarts + 1 /\ restarts \in Nat
        /\ events' = <<>> /\ (~Postgres => experiences' = <<>>)
        /\ UNCHANGED local
        /\ \A q \in Request : pc'[q] \notin Running
    BY <1>0, <1>9 DEF Restart, Typed, TypeOK, Running, PlayPoint
  <2>2. \A q \in Request : local[q].epoch \in Nat /\ local[q].epoch <= restarts
    BY <1>0 DEF LogInv, Typed, TypeOK, LocalType
  <2>3. \A q \in Request : /\ local'[q].epoch <= restarts'
                           /\ local'[q].epoch # restarts'
    BY <2>1, <2>2
  <2>4. \A q \in Request : ~Placed(q)' /\ ~Done(q)'
    BY <2>3 DEF Placed, Done, Current
  <2>5. /\ Counted(events)'
        /\ Requests(events)' = {q \in Request : Placed(q)'}
    BY <2>1, <2>4, EmptyLog DEF Counted, Requests
  <2>6. ASSUME ~Postgres
        PROVE  /\ Counted(experiences)'
               /\ Requests(experiences)' = {q \in Request : Done(q)'}
    BY <2>1, <2>4, <2>6, EmptyLog DEF Counted, Requests
  <2>7. \A q \in Request : pc'[q] # "created"
    BY <2>1 DEF Running
  <2>8. QED
    BY <1>0, <2>1, <2>3, <2>5, <2>6, <2>7 DEF LogInv
<1>10. QED
  BY <1>1, <1>2, <1>3, <1>4, <1>5, <1>6, <1>7, <1>8, <1>9 DEF Next, Step, Arrive

(* However handlers interleave, fail or are cut off, once all is quiet the event
   log has each play that was answered, once, and so has an experience store
   that is in memory. *)
THEOREM LogsAlwaysAgree == Spec => []LogsAgree
<1>1. LogInv => LogsAgree
  <2> SUFFICES ASSUME LogInv, Quiet PROVE LogsAgree
    BY DEF LogsAgree
  <2> DEFINE answered == {r \in Request : Current(r) /\ IsPlay(r) /\ pc[r] = "answered"}
  <2>1. answered = {r \in Request : Done(r)}
    BY DEF Done
  <2>2. answered \subseteq Requests(events)
    BY DEF LogInv, Placed
  <2>3. ~Postgres => Requests(events) = answered
    <3>1. \A r \in Request : pc[r] # "logged"
      BY DEF Quiet, Running, PlayPoint
    <3>2. ~Postgres => \A r \in Request : Placed(r) <=> Done(r)
      BY <3>1 DEF Placed, Done
    <3>3. QED
      BY <2>1, <3>2 DEF LogInv
  <2>4. /\ Len(events) = Cardinality(Requests(events))
        /\ ~Postgres => /\ Requests(experiences) = answered
                        /\ Len(experiences) = Cardinality(answered)
    BY <2>1 DEF LogInv, Counted
  <2>5. QED
    BY <2>2, <2>3, <2>4 DEF LogsAgree
<1>2. QED
  BY LogInit, LogNext, <1>1, PTL DEF Spec

-----------------------------------------------------------------------------
(* Counters *)

Stored == {s \in Session : sessions[s] # None}

\* The creations that are not counted yet, and the plays that have entered a
\* state and are not counted yet.
Creating     == {r \in Request : pc[r] = "created"}
Entering(st) == {r \in Request : pc[r] = "written" /\ Target(local[r].action) = st}

CounterFor(st) == IF st = "Playing" THEN "playing" ELSE "completed"

\* A counter, with the requests that are about to bump it, covers the sessions
\* in its state.
Covered(st) ==
  /\ IsFiniteSet(InState(st))
  /\ IsFiniteSet(Entering(st))
  /\ Cardinality(InState(st)) <= metrics[CounterFor(st)] + Cardinality(Entering(st))

CreatedCovered ==
  /\ IsFiniteSet(Stored)
  /\ IsFiniteSet(Creating)
  /\ metrics["created"] + Cardinality(Creating) = Cardinality(Stored)

CountInv ==
  /\ StageInv
  /\ CreatedCovered
  /\ \A st \in {"Playing", "Completed"} : Covered(st)

LEMMA NothingCounted ==
  ASSUME Stored = {}, Creating = {}, metrics = NoMetrics,
         \A st \in {"Playing", "Completed"} : InState(st) = {} /\ Entering(st) = {}
  PROVE  CreatedCovered /\ \A st \in {"Playing", "Completed"} : Covered(st)
<1>1. IsFiniteSet({}) /\ Cardinality({}) = 0
  BY FS_EmptySet
<1>2. metrics["created"] = 0 /\ \A st \in {"Playing", "Completed"} : metrics[CounterFor(st)] = 0
  BY DEF NoMetrics, Counter, CounterFor
<1>3. QED
  BY <1>1, <1>2 DEF CreatedCovered, Covered

LEMMA CountInit == Init => CountInv
<1> SUFFICES ASSUME Init PROVE CountInv
  OBVIOUS
<1>1. Stored = {} /\ Creating = {} /\ metrics = NoMetrics
  BY DEF Init, Stored, Creating
<1>2. \A st \in {"Playing", "Completed"} : InState(st) = {} /\ Entering(st) = {}
  <2>1. None \notin GameState
    BY ServiceAssumption
  <2>2. \A s \in Session : sessions[s] = None
    BY DEF Init
  <2>3. \A r \in Request : pc[r] = "new"
    BY DEF Init
  <2>4. QED
    BY <2>1, <2>2, <2>3 DEF InState, Entering, GameState
<1>3. QED
  BY <1>1, <1>2, StageInit, NothingCounted DEF CountInv

\* A step that counts nothing and enters no state.
LEMMA CreatedKept ==
  ASSUME CreatedCovered, metrics'["created"] = metrics["created"],
         Stored' = Stored, Creating' = Creating
  PROVE  CreatedCovered'
BY DEF CreatedCovered

LEMMA CoveredKept ==
  ASSUME NEW st, Covered(st), metrics'[CounterFor(st)] = metrics[CounterFor(st)],
         Entering(st)' = Entering(st), InState(st)' \subseteq InState(st),
         metrics[CounterFor(st)] \in Nat
  PROVE  Covered(st)'
<1>1. /\ IsFiniteSet(InState(st)')
      /\ Cardinality(InState(st)') <= Cardinality(InState(st))
  BY FS_Subset DEF Covered
<1>2. /\ Cardinality(InState(st)) \in Nat /\ Cardinality(InState(st)') \in Nat
      /\ Cardinality(Entering(st)) \in Nat
  BY <1>1, FS_CardinalityType DEF Covered
<1>3. QED
  BY <1>1, <1>2 DEF Covered

\* A step of a handler from a point to another, neither of which counts.
LEMMA CountPasses ==
  ASSUME CountInv, StageInv', UNCHANGED <<metrics, sessions>>,
         NEW r \in Request, NEW p,
         pc[r] \notin {"created", "written"}, p \notin {"created", "written"},
         pc' = [pc EXCEPT ![r] = p],
         \A q \in Request : q # r => local'[q].action = local[q].action
  PROVE  CountInv'
<1>1. \A q \in Request : pc'[q] = IF q = r THEN p ELSE pc[q]
  BY DEF CountInv, StageInv, Typed, TypeOK
<1>2. Stored' = Stored /\ Creating' = Creating
  BY <1>1 DEF Stored, Creating
<1>3. ASSUME NEW st \in {"Playing", "Completed"}
      PROVE  Covered(st)'
  <2>1. InState(st)' = InState(st)
    BY DEF InState
  <2>2. Entering(st)' = Entering(st)
    BY <1>1 DEF Entering
  <2>3. metrics[CounterFor(st)] \in Nat
    BY DEF CountInv, StageInv, Typed, TypeOK, CounterFor, Counter
  <2>4. QED
    BY <2>1, <2>2, <2>3, CoveredKept DEF CountInv
<1>4. CreatedCovered'
  BY <1>2, CreatedKept DEF CountInv
<1>5. QED
  BY <1>3, <1>4 DEF CountInv

\* A handler writes a state: it is counted next.
LEMMA CountEnters ==
  ASSUME CountInv, StageInv', NEW r \in Request, WriteState(r)
  PROVE  CountInv'
<1> DEFINE s  == local[r].session
           to == Target(local[r].action)
<1>1. /\ s \in Session /\ sessions[s] # None /\ to \in GameState
      /\ sessions \in [Session -> GameState \cup {None}]
      /\ sessions' = [sessions EXCEPT ![s] = to]
      /\ pc[r] = "checked" /\ UNCHANGED <<metrics, local>>
  BY TargetStates DEF WriteState, Goto, CountInv, StageInv, Typed, TypeOK, LocalsSet,
                      Running, PlayPoint, GameState
<1>2. \A q \in Request : pc'[q] = IF q = r THEN "written" ELSE pc[q]
  BY DEF WriteState, Goto, CountInv, StageInv, Typed, TypeOK
<1>3. None \notin GameState
  BY ServiceAssumption
<1>4. Target(local[r].action) = to
  OBVIOUS
<1> HIDE DEF s, to
<1>5. \A z \in Session : sessions'[z] = IF z = s THEN to ELSE sessions[z]
  BY <1>1
<1>6. CreatedCovered'
  <2>1. Stored' = Stored
    BY <1>1, <1>3, <1>5 DEF Stored
  <2>2. Creating' = Creating
    BY <1>1, <1>2 DEF Creating
  <2>3. QED
    BY <1>1, <2>1, <2>2, CreatedKept DEF CountInv
<1>7. ASSUME NEW st \in {"Playing", "Completed"}
      PROVE  Covered(st)'
  <2>1. Covered(st) /\ metrics[CounterFor(st)] \in Nat
    BY DEF CountInv, StageInv, Typed, TypeOK, CounterFor, Counter
  <2>2. CASE to # st
    <3>1. InState(st)' \subseteq InState(st)
      BY <1>5, <2>2 DEF InState
    <3>2. Entering(st)' = Entering(st)
      BY <1>1, <1>2, <1>4, <2>2 DEF Entering
    <3>3. QED
      BY <1>1, <2>1, <3>1, <3>2, CoveredKept
  <2>3. CASE to = st
    <3>1. InState(st)' = InState(st) \cup {s}
      BY <1>1, <1>5, <2>3 DEF InState
    <3>2. Entering(st)' = Entering(st) \cup {r} /\ r \notin Entering(st)
      BY <1>1, <1>2, <1>4, <2>3 DEF Entering
    <3>3. /\ IsFiniteSet(InState(st)')
          /\ Cardinality(InState(st)') <= Cardinality(InState(st)) + 1
      <4>1. Cardinality(InState(st)) \in Nat
        BY <2>1, FS_CardinalityType DEF Covered
      <4>2. IsFiniteSet(InState(st))
        BY <2>1 DEF Covered
      <4>3. /\ IsFiniteSet(InState(st) \cup {s})
            /\ Cardinality(InState(st) \cup {s})
                 = IF s \in InState(st) THEN Cardinality(InState(st))
                   ELSE Cardinality(InState(st)) + 1
        BY <4>2, FS_AddElement
      <4>4. QED
        BY <3>1, <4>1, <4>3
    <3>4. /\ IsFiniteSet(Entering(st)')
          /\ Cardinality(Entering(st)') = Cardinality(Entering(st)) + 1
      BY <2>1, <3>2, FS_AddElement DEF Covered
    <3>5. /\ Cardinality(InState(st)) \in Nat /\ Cardinality(Entering(st)) \in Nat
          /\ Cardinality(InState(st)') \in Nat
      BY <2>1, <3>3, FS_CardinalityType DEF Covered
    <3>6. metrics'[CounterFor(st)] = metrics[CounterFor(st)]
      BY <1>1
    <3>7. QED
      BY <2>1, <3>3, <3>4, <3>5, <3>6 DEF Covered
  <2>4. QED
    BY <2>2, <2>3
<1>8. QED
  BY <1>6, <1>7 DEF CountInv

\* A handler bumps the counter of the state it has entered.
LEMMA CountBumps ==
  ASSUME CountInv, StageInv', NEW r \in Request, CountAndStamp(r)
  PROVE  CountInv'
<1> DEFINE to == Target(local[r].action)
<1>1. /\ pc[r] = "written" /\ UNCHANGED sessions
      /\ \A q \in Request : pc'[q] = IF q = r THEN "stamped" ELSE pc[q]
      /\ metrics \in [Counter -> Nat]
      /\ \A c \in Counter :
           metrics'[c] = IF c \in CounterOf(to) THEN metrics[c] + 1 ELSE metrics[c]
  BY DEF CountAndStamp, Goto, store, CountInv, StageInv, Typed, TypeOK
<1>2. \A q \in Request : local'[q].action = local[q].action
  <2>1. /\ local' = [local EXCEPT ![r].stamp = clock]
        /\ local \in [Request -> LocalType] /\ clock \in Nat
    BY DEF CountAndStamp, CountInv, StageInv, Typed, TypeOK
  <2>2. QED
    BY <2>1, SetStamp DEF SameRequests
<1>3. Target(local[r].action) = to
  OBVIOUS
<1> HIDE DEF to
<1>4. CreatedCovered'
  <2>1. Stored' = Stored /\ Creating' = Creating
    BY <1>1 DEF Stored, Creating
  <2>2. metrics'["created"] = metrics["created"]
    BY <1>1 DEF CounterOf, Counter
  <2>3. QED
    BY <2>1, <2>2, CreatedKept DEF CountInv
<1>5. ASSUME NEW st \in {"Playing", "Completed"}
      PROVE  Covered(st)'
  <2>1. Covered(st) /\ metrics[CounterFor(st)] \in Nat /\ CounterFor(st) \in Counter
    BY DEF CountInv, StageInv, Typed, TypeOK, CounterFor, Counter
  <2>2. InState(st)' = InState(st)
    BY <1>1 DEF InState
  <2>3. CASE to # st
    <3>1. metrics'[CounterFor(st)] = metrics[CounterFor(st)]
      BY <1>1, <2>1, <2>3 DEF CounterFor, CounterOf
    <3>2. Entering(st)' = Entering(st)
      BY <1>1, <1>2, <1>3, <2>3 DEF Entering
    <3>3. QED
      BY <2>1, <2>2, <3>1, <3>2, CoveredKept
  <2>4. CASE to = st
    <3>1. metrics'[CounterFor(st)] = metrics[CounterFor(st)] + 1
      BY <1>1, <2>1, <2>4 DEF CounterFor, CounterOf
    <3>2. Entering(st)' = Entering(st) \ {r} /\ r \in Entering(st)
      BY <1>1, <1>2, <1>3, <2>4 DEF Entering
    <3>3. /\ IsFiniteSet(Entering(st)')
          /\ Cardinality(Entering(st)') = Cardinality(Entering(st)) - 1
      BY <2>1, <3>2, FS_RemoveElement DEF Covered
    <3>4. Cardinality(InState(st)) \in Nat /\ Cardinality(Entering(st)) \in Nat
      BY <2>1, FS_CardinalityType DEF Covered
    <3>5. QED
      BY <2>1, <2>2, <3>1, <3>3, <3>4 DEF Covered
  <2>5. QED
    BY <2>3, <2>4
<1>6. QED
  BY <1>4, <1>5 DEF CountInv

LEMMA CountNext == CountInv /\ [Next]_vars => CountInv'
<1> SUFFICES ASSUME CountInv, [Next]_vars PROVE CountInv'
  OBVIOUS
<1>0. StageInv /\ StageInv' /\ Typed /\ ReadsAreReal
  BY StageNext DEF CountInv, StageInv
<1>1. ASSUME NEW r \in Request, NEW s \in Session, CreateSession(r, s)
      PROVE  CountInv'
  <2>1. /\ pc[r] = "new" /\ sessions[s] = None /\ UNCHANGED metrics
        /\ \A z \in Session : sessions'[z] = IF z = s THEN "Initialized" ELSE sessions[z]
        /\ \A q \in Request : pc'[q] = IF q = r THEN "created" ELSE pc[q]
        /\ \A q \in Request : q # r => local'[q] = local[q]
    BY <1>0, <1>1 DEF CreateSession, Goto, Typed, TypeOK, ReadsAreReal
  <2>2. None \notin GameState /\ "Initialized" \in GameState
    BY ServiceAssumption DEF GameState
  <2>3. CreatedCovered'
    <3>1. Stored' = Stored \cup {s} /\ s \notin Stored
      BY <2>1, <2>2 DEF Stored
    <3>2. Creating' = Creating \cup {r} /\ r \notin Creating
      BY <2>1 DEF Creating
    <3>3. /\ IsFiniteSet(Stored') /\ Cardinality(Stored') = Cardinality(Stored) + 1
          /\ IsFiniteSet(Creating') /\ Cardinality(Creating') = Cardinality(Creating) + 1
      BY <3>1, <3>2, FS_AddElement DEF CountInv, CreatedCovered
    <3>4. /\ Cardinality(Stored) \in Nat /\ Cardinality(Creating) \in Nat
          /\ metrics["created"] \in Nat
      BY <1>0, FS_CardinalityType DEF CountInv, CreatedCovered, Typed, TypeOK, Counter
    <3>5. QED
      BY <2>1, <3>3, <3>4 DEF CountInv, CreatedCovered
  <2>4. ASSUME NEW st \in {"Playing", "Completed"}
        PROVE  Covered(st)'
    <3>1. InState(st)' = InState(st)
      BY <2>1, <2>2 DEF InState, GameState
    <3>2. Entering(st)' = Entering(st)
      BY <2>1 DEF Entering
    <3>3. metrics[CounterFor(st)] \in Nat
      BY <1>0 DEF Typed, TypeOK, CounterFor, Counter
    <3>4. QED
      BY <2>1, <3>1, <3>2, <3>3, CoveredKept DEF CountInv
  <2>5. QED
    BY <1>0, <2>3, <2>4 DEF CountInv
<1>2. ASSUME NEW r \in Request, CountCreated(r)
      PROVE  CountInv'
  <2>1. /\ pc[r] = "created" /\ UNCHANGED <<sessions, local>>
        /\ metrics \in [Counter -> Nat]
        /\ metrics' = [metrics EXCEPT !["created"] = @ + 1]
        /\ \A q \in Request : pc'[q] = IF q = r THEN "answered" ELSE pc[q]
    BY <1>0, <1>2 DEF CountCreated, Goto, store, Typed, TypeOK
  <2>2. CreatedCovered'
    <3>1. Stored' = Stored
      BY <2>1 DEF Stored
    <3>2. Creating' = Creating \ {r} /\ r \in Creating
      BY <2>1 DEF Creating
    <3>3. IsFiniteSet(Creating') /\ Cardinality(Creating') = Cardinality(Creating) - 1
      BY <3>2, FS_RemoveElement DEF CountInv, CreatedCovered
    <3>4. /\ Cardinality(Stored) \in Nat /\ Cardinality(Creating) \in Nat
          /\ metrics["created"] \in Nat /\ metrics'["created"] = metrics["created"] + 1
      BY <2>1, FS_CardinalityType DEF CountInv, CreatedCovered, Counter
    <3>5. QED
      BY <3>1, <3>3, <3>4 DEF CountInv, CreatedCovered
  <2>3. ASSUME NEW st \in {"Playing", "Completed"}
        PROVE  Covered(st)'
    <3>1. InState(st)' = InState(st) /\ Entering(st)' = Entering(st)
      BY <2>1 DEF InState, Entering
    <3>2. /\ metrics[CounterFor(st)] \in Nat
          /\ metrics'[CounterFor(st)] = metrics[CounterFor(st)]
      BY <2>1 DEF CounterFor, Counter
    <3>3. QED
      BY <3>1, <3>2, CoveredKept DEF CountInv
  <2>4. QED
    BY <1>0, <2>2, <2>3 DEF CountInv
<1>3. ASSUME NEW r \in Request, NEW s \in Session, NEW a \in Action,
             PlayLookup(r, s, a) \/ PlayNotFound(r, s, a)
      PROVE  CountInv'
  <2>1. /\ pc[r] = "new" /\ UNCHANGED <<metrics, sessions>>
        /\ pc' \in {[pc EXCEPT ![r] = p] : p \in {"found", "rejected"}}
        /\ \A q \in Request : q # r => local'[q].action = local[q].action
    BY <1>0, <1>3 DEF PlayLookup, PlayNotFound, Goto, store, Typed, TypeOK
  <2>2. QED
    BY <1>0, <2>1, CountPasses
<1>4. ASSUME NEW r \in Request, CheckMove(r)
      PROVE  CountInv'
  <2>1. /\ pc[r] = "found" /\ pc' = [pc EXCEPT ![r] = "checked"]
        /\ UNCHANGED <<metrics, sessions>>
        /\ \A q \in Request : q # r => local'[q] = local[q]
    BY <1>0, <1>4 DEF CheckMove, Goto, store, Typed, TypeOK
  <2>2. QED
    BY <1>0, <2>1, CountPasses
<1>5. ASSUME NEW r \in Request,
             \/ RefuseMove(r) \/ LogEvent(r)
             \/ LogExperience(r) \/ LoseExperience(r) \/ Disconnect(r)
      PROVE  CountInv'
  <2>1. /\ pc[r] \in {"found", "stamped", "logged"}
        /\ pc' \in {[pc EXCEPT ![r] = p] :
                      p \in {"rejected", "logged", "answered", "dropped"}}
        /\ UNCHANGED <<metrics, sessions, local>>
    BY <1>5 DEF RefuseMove, LogEvent, LogExperience, LoseExperience, Disconnect,
                Goto, store
  <2>2. QED
    BY <1>0, <2>1, CountPasses
<1>6. CASE Tick \/ UNCHANGED vars
  <2>1. UNCHANGED <<metrics, sessions, pc, local>>
    BY <1>6 DEF Tick, vars, store
  <2>2. /\ Stored' = Stored /\ Creating' = Creating
        /\ \A st : InState(st)' = InState(st) /\ Entering(st)' = Entering(st)
    BY <2>1 DEF Stored, Creating, InState, Entering
  <2>3. QED
    BY <1>0, <2>1, <2>2 DEF CountInv, CreatedCovered, Covered
<1>7. CASE Restart
  <2>1. /\ metrics' = NoMetrics
        /\ \A s \in Session : sessions'[s] = None
        /\ \A q \in Request : pc'[q] \notin Running
    BY <1>0, <1>7 DEF Restart, Typed, TypeOK, Running, PlayPoint
  <2>2. None \notin GameState
    BY ServiceAssumption
  <2>3. /\ Stored' = {} /\ Creating' = {}
        /\ \A st \in {"Playing", "Completed"} : InState(st)' = {} /\ Entering(st)' = {}
    BY <2>1, <2>2 DEF Stored, Creating, InState, Entering, GameState, Running, PlayPoint
  <2>4. IsFiniteSet({}) /\ Cardinality({}) = 0
    BY FS_EmptySet
  <2>5. metrics'["created"] = 0
        /\ \A st \in {"Playing", "Completed"} : metrics'[CounterFor(st)] = 0
    BY <2>1 DEF NoMetrics, Counter, CounterFor
  <2>6. QED
    BY <1>0, <2>3, <2>4, <2>5 DEF CountInv, CreatedCovered, Covered
<1>8. QED
  BY <1>0, <1>1, <1>2, <1>3, <1>4, <1>5, <1>6, <1>7, CountEnters, CountBumps
     DEF Next, Step, Arrive

(* However handlers race over the states, once all is quiet the counters account
   for what the store holds: for any number of sessions and requests. *)
THEOREM CountersAlwaysCover == Spec => []CountersCoverSessions
<1>1. CountInv => CountersCoverSessions
  <2> SUFFICES ASSUME CountInv, Quiet PROVE CountersCoverSessions
    BY DEF CountersCoverSessions
  <2>1. Creating = {} /\ \A st : Entering(st) = {}
    BY DEF Quiet, Creating, Entering, Running, PlayPoint
  <2>2. Cardinality({}) = 0
    BY FS_EmptySet
  <2>3. metrics["created"] = Cardinality({s \in Session : sessions[s] # None})
    BY <2>1, <2>2 DEF CountInv, StageInv, Typed, TypeOK, Counter, CreatedCovered, Stored
  <2>4. ASSUME NEW st \in {"Playing", "Completed"}
        PROVE  Cardinality(InState(st)) <= metrics[CounterFor(st)]
    <3>1. Covered(st) /\ metrics[CounterFor(st)] \in Nat
      BY DEF CountInv, StageInv, Typed, TypeOK, Counter, CounterFor
    <3>2. Cardinality(InState(st)) <= metrics[CounterFor(st)] + 0
      BY <2>1, <2>2, <3>1 DEF Covered
    <3>3. QED
      BY <3>1, <3>2
  <2>5. /\ Cardinality(InState("Playing")) \in Nat
        /\ Cardinality(InState("Completed")) \in Nat
    BY FS_CardinalityType DEF CountInv, Covered
  <2>6. metrics["playing"] \in Nat /\ metrics["completed"] \in Nat
    BY DEF CountInv, StageInv, Typed, TypeOK, Counter
  <2>7. QED
    BY <2>3, <2>4, <2>5, <2>6 DEF CountersCoverSessions, CounterFor
<1>2. QED
  BY CountInit, CountNext, <1>1, PTL DEF Spec

-----------------------------------------------------------------------------
(* What holds for clients that wait for each answer before they send the next
   request about the same session, as the orchestrator does: the session
   lifecycle as specified. *)

\* At most one handler works on a session.
OneHandler ==
  \A q, r \in Request :
    q # r /\ pc[q] \in Running /\ pc[r] \in Running =>
      local[q].session # local[r].session

\* So what a handler read is still true, and its move is legal from there.
ReadsAreFresh ==
  \A r \in Request :
    /\ pc[r] \in {"found", "checked"} =>
         local[r].prev = sessions[local[r].session]
    /\ pc[r] = "checked" => local[r].cur = sessions[local[r].session]
    /\ pc[r] \in {"checked", "written", "stamped", "logged"} =>
         Transition(local[r].prev, Target(local[r].action))

SerialInv ==
  StageInv /\ OneHandler /\ ReadsAreFresh /\ CompletedIsFinal
    /\ ExperiencesAreLegalMoves

LEMMA SerialInit == Init => SerialInv
<1> SUFFICES ASSUME Init PROVE SerialInv
  OBVIOUS
<1>1. StageInv
  BY StageInit
<1>2. OneHandler /\ ReadsAreFresh
  BY DEF Init, OneHandler, ReadsAreFresh, Running, PlayPoint
<1>3. CompletedIsFinal /\ ExperiencesAreLegalMoves
  BY DEF Init, CompletedIsFinal, ExperiencesAreLegalMoves
<1>4. QED
  BY <1>1, <1>2, <1>3 DEF SerialInv

\* A step that leaves the store and the experiences alone and takes no handler
\* to a point that assumes something new keeps the invariant.
LEMMA SerialKept ==
  ASSUME SerialInv, StageInv', UNCHANGED <<store, experiences>>,
         \A q \in Request :
           /\ local'[q].session = local[q].session
           /\ local'[q].action = local[q].action
           /\ local'[q].prev = local[q].prev
           /\ pc'[q] \in {"found", "checked"} =>
                pc'[q] = pc[q] /\ local'[q].cur = local[q].cur
           /\ pc'[q] \in {"written", "stamped", "logged"} =>
                pc[q] \in {"written", "stamped", "logged"}
           /\ pc'[q] \in Running => pc[q] \in Running
  PROVE  SerialInv'
<1>1. OneHandler'
  BY DEF SerialInv, OneHandler
<1>2. ReadsAreFresh'
  BY DEF SerialInv, ReadsAreFresh, store
<1>3. CompletedIsFinal' /\ ExperiencesAreLegalMoves'
  BY DEF SerialInv, CompletedIsFinal, ExperiencesAreLegalMoves, store
<1>4. QED
  BY <1>1, <1>2, <1>3 DEF SerialInv

LEMMA SerialNext ==
  ASSUME Exclusive, SerialInv, [Next]_vars
  PROVE  SerialInv'
<1>0. /\ StageInv /\ StageInv'
      /\ Typed /\ Typed'
  BY StageNext DEF SerialInv, StageInv
<1> USE <1>0 DEF Goto
<1>1. ASSUME NEW r \in Request, NEW s \in Session, CreateSession(r, s)
      PROVE  SerialInv'
  <2>1. /\ pc[r] = "new" /\ pc' = [pc EXCEPT ![r] = "created"]
        /\ local' = [local EXCEPT ![r] = Locals(s, None, None, restarts)]
        /\ sessions' = [sessions EXCEPT ![s] = "Initialized"]
        /\ visited' = [visited EXCEPT ![s] = {"Initialized"}]
        /\ experiences' = experiences
        /\ s \notin issued
    BY <1>1 DEF CreateSession, logs
  <2>2. \A q \in Request : pc[q] \in Running => local[q].session # s
    BY <2>1 DEF StageInv, ReadsAreReal
  <2>3. \A q \in Request : q # r => pc'[q] = pc[q] /\ local'[q] = local[q]
    BY <2>1 DEF Typed, TypeOK
  <2>4. pc'[r] = "created" /\ local'[r].session = s
    BY <2>1 DEF Typed, TypeOK, Locals
  <2>5. OneHandler'
    BY <2>2, <2>3, <2>4 DEF SerialInv, OneHandler
  <2>6. \A q \in Request : pc'[q] \in {"found", "checked"} =>
          q # r /\ sessions'[local[q].session] = sessions[local[q].session]
    BY <2>1, <2>2, <2>3, <2>4
       DEF Typed, TypeOK, LocalsSet, Running, PlayPoint
  <2>7. ReadsAreFresh'
    BY <2>3, <2>4, <2>6 DEF SerialInv, ReadsAreFresh
  <2>8. CompletedIsFinal'
    BY <2>1 DEF SerialInv, CompletedIsFinal, Typed, TypeOK
  <2>9. ExperiencesAreLegalMoves'
    BY <2>1 DEF SerialInv, ExperiencesAreLegalMoves
  <2>10. QED
    BY <2>5, <2>7, <2>8, <2>9 DEF SerialInv
<1>2. ASSUME NEW r \in Request,
             CountCreated(r) \/ RefuseMove(r) \/ LogEvent(r) \/ LoseExperience(r)
      PROVE  SerialInv'
  <2>1. /\ UNCHANGED <<store, experiences, local>>
        /\ \/ pc[r] = "stamped" /\ pc' = [pc EXCEPT ![r] = "logged"]
           \/ \E p \in Finished : pc' = [pc EXCEPT ![r] = p]
    BY <1>2 DEF CountCreated, RefuseMove, LogEvent, LoseExperience, logs, Finished
  <2>2. QED
    BY <2>1, SerialKept DEF Typed, TypeOK, Finished, Running, PlayPoint
<1>3. ASSUME NEW r \in Request, NEW s \in Session, NEW a \in Action,
             PlayLookup(r, s, a)
      PROVE  SerialInv'
  <2>1. /\ pc[r] = "new" /\ pc' = [pc EXCEPT ![r] = "found"]
        /\ local' = [local EXCEPT ![r] = Locals(s, a, sessions[s], restarts)]
        /\ UNCHANGED <<sessions, visited, experiences>>
    BY <1>3 DEF PlayLookup, logs, store
  <2>2. \A q \in Request : pc[q] \in Running => local[q].session # s
    BY <1>3 DEF PlayLookup, MayAsk
  <2>3. \A q \in Request : q # r => pc'[q] = pc[q] /\ local'[q] = local[q]
    BY <2>1 DEF Typed, TypeOK
  <2>4. /\ pc'[r] = "found" /\ local'[r].session = s
        /\ local'[r].prev = sessions[s]
    BY <2>1 DEF Typed, TypeOK, Locals
  <2>5. OneHandler'
    BY <2>2, <2>3, <2>4 DEF SerialInv, OneHandler
  <2>6. ReadsAreFresh'
    BY <2>1, <2>3, <2>4 DEF SerialInv, ReadsAreFresh
  <2>7. CompletedIsFinal' /\ ExperiencesAreLegalMoves'
    BY <2>1 DEF SerialInv, CompletedIsFinal, ExperiencesAreLegalMoves
  <2>8. QED
    BY <2>5, <2>6, <2>7 DEF SerialInv
<1>4. ASSUME NEW r \in Request, NEW s \in Session, NEW a \in Action,
             PlayNotFound(r, s, a)
      PROVE  SerialInv'
  <2>1. /\ pc[r] = "new" /\ pc' = [pc EXCEPT ![r] = "rejected"]
        /\ \E v : local' = [local EXCEPT ![r] = v]
        /\ UNCHANGED <<sessions, visited, experiences>>
    BY <1>4 DEF PlayNotFound, logs, store
  <2>2. /\ pc'[r] = "rejected"
        /\ \A q \in Request : q # r => pc'[q] = pc[q] /\ local'[q] = local[q]
    BY <2>1 DEF Typed, TypeOK
  <2>3. OneHandler'
    BY <2>2 DEF SerialInv, OneHandler, Running, PlayPoint
  <2>4. ReadsAreFresh'
    BY <2>1, <2>2 DEF SerialInv, ReadsAreFresh
  <2>5. CompletedIsFinal' /\ ExperiencesAreLegalMoves'
    BY <2>1 DEF SerialInv, CompletedIsFinal, ExperiencesAreLegalMoves
  <2>6. QED
    BY <2>3, <2>4, <2>5 DEF SerialInv
<1>5. ASSUME NEW r \in Request, CheckMove(r)
      PROVE  SerialInv'
  <2> DEFINE from == sessions[local[r].session]
  <2>1. /\ pc[r] = "found" /\ pc' = [pc EXCEPT ![r] = "checked"]
        /\ local' = [local EXCEPT ![r].cur = from]
        /\ UNCHANGED <<sessions, visited, experiences>>
        /\ Transition(from, Target(local[r].action))
        /\ from \in GameState
        /\ local \in [Request -> LocalType]
        /\ local[r].prev = from
    BY <1>5 DEF CheckMove, logs, store, Typed, TypeOK, LocalsSet, Running,
                PlayPoint, SerialInv, ReadsAreFresh
  <2>2. /\ SameRequests
        /\ \A q \in Request :
             local'[q].cur = IF q = r THEN from ELSE local[q].cur
    <3>1. from \in GameState /\ local \in [Request -> LocalType]
          /\ local' = [local EXCEPT ![r].cur = from]
      BY <2>1
    <3> HIDE DEF from
    <3>2. QED
      BY <3>1, SetCur
  <2>3. \A q \in Request : pc'[q] = IF q = r THEN "checked" ELSE pc[q]
    BY <2>1 DEF Typed, TypeOK
  <2>4. OneHandler'
    <3> HIDE DEF from
    <3>1. /\ pc[r] \in Running
          /\ \A q \in Request : pc'[q] \in Running => pc[q] \in Running
      BY <2>1, <2>3 DEF Running, PlayPoint
    <3>2. QED
      BY <2>2, <3>1 DEF SerialInv, OneHandler, SameRequests
  <2>5. ReadsAreFresh'
    BY <2>1, <2>2, <2>3 DEF SerialInv, ReadsAreFresh, SameRequests
  <2>6. CompletedIsFinal' /\ ExperiencesAreLegalMoves'
    BY <2>1 DEF SerialInv, CompletedIsFinal, ExperiencesAreLegalMoves
  <2>7. QED
    BY <2>4, <2>5, <2>6 DEF SerialInv
<1>6. ASSUME NEW r \in Request, WriteState(r)
      PROVE  SerialInv'
  <2> DEFINE s  == local[r].session
             to == Target(local[r].action)
  <2>1. /\ pc[r] = "checked" /\ pc' = [pc EXCEPT ![r] = "written"]
        /\ sessions' = [sessions EXCEPT ![s] = to]
        /\ visited' = [visited EXCEPT ![s] = @ \cup {to}]
        /\ UNCHANGED <<local, experiences>>
        /\ s \in Session
        /\ sessions[s] \in GameState
        /\ Transition(sessions[s], to)
    BY <1>6 DEF WriteState, logs, Typed, TypeOK, LocalsSet, Running, PlayPoint,
                SerialInv, ReadsAreFresh
  <2>2. \A q \in Request : pc'[q] = IF q = r THEN "written" ELSE pc[q]
    BY <2>1 DEF Typed, TypeOK
  <2>3. \A q \in Request :
          q # r /\ pc[q] \in Running => local[q].session # s
    BY <2>1 DEF SerialInv, OneHandler, Running, PlayPoint
  <2>4. OneHandler'
    BY <2>1, <2>2 DEF SerialInv, OneHandler, Running, PlayPoint
  <2>5. \A q \in Request : pc'[q] \in {"found", "checked"} =>
          q # r /\ sessions'[local[q].session] = sessions[local[q].session]
    BY <2>1, <2>2, <2>3 DEF Typed, TypeOK, LocalsSet, Running, PlayPoint
  <2>6. ReadsAreFresh'
    BY <2>1, <2>2, <2>5 DEF SerialInv, ReadsAreFresh
  <2>7. sessions[s] = "Completed" => to = "Completed"
    BY <2>1, Predecessors
  <2>8. CompletedIsFinal'
    <3> HIDE DEF s, to
    <3>1. QED
      BY <2>1, <2>7 DEF SerialInv, CompletedIsFinal, Typed, TypeOK
  <2>9. ExperiencesAreLegalMoves'
    BY <2>1 DEF SerialInv, ExperiencesAreLegalMoves
  <2>10. QED
    BY <2>4, <2>6, <2>8, <2>9 DEF SerialInv
<1>7. ASSUME NEW r \in Request, CountAndStamp(r)
      PROVE  SerialInv'
  <2>1. /\ pc[r] = "written" /\ pc' = [pc EXCEPT ![r] = "stamped"]
        /\ local' = [local EXCEPT ![r].stamp = clock]
        /\ UNCHANGED <<store, experiences>>
        /\ local \in [Request -> LocalType]
        /\ clock \in Nat
    BY <1>7 DEF CountAndStamp, logs, Typed, TypeOK
  <2>2. /\ SameRequests
        /\ \A q \in Request : local'[q].cur = local[q].cur
    BY <2>1, SetStamp
  <2>3. QED
    BY <2>1, <2>2, SerialKept
       DEF SameRequests, Typed, TypeOK, Running, PlayPoint
<1>8. ASSUME NEW r \in Request, LogExperience(r) \/ Disconnect(r)
      PROVE  SerialInv'
  <2>1. /\ pc[r] = "logged"
        /\ \E p \in Finished : pc' = [pc EXCEPT ![r] = p]
        /\ UNCHANGED <<sessions, visited, local>>
        /\ \/ experiences' = Append(experiences, Experience(r))
           \/ experiences' = experiences
    BY <1>8 DEF LogExperience, Disconnect, store, Finished
  <2>2. \A q \in Request : IF q = r THEN pc'[q] \in Finished ELSE pc'[q] = pc[q]
    BY <2>1 DEF Typed, TypeOK
  <2>3. OneHandler'
    BY <2>1, <2>2 DEF SerialInv, OneHandler, Finished, Running, PlayPoint
  <2>4. ReadsAreFresh'
    BY <2>1, <2>2 DEF SerialInv, ReadsAreFresh, Finished
  <2>5. CompletedIsFinal'
    BY <2>1 DEF SerialInv, CompletedIsFinal
  <2>6. /\ Experience(r).state = local[r].prev
        /\ Experience(r).next = Target(local[r].action)
    BY DEF Experience
  <2>7. Transition(Experience(r).state, Experience(r).next)
    BY <2>1, <2>6 DEF SerialInv, ReadsAreFresh
  <2>8. ExperiencesAreLegalMoves'
    <3> DEFINE e == Experience(r)
    <3>1. CASE experiences' = Append(experiences, e)
      <4> HIDE DEF e
      <4>1. experiences \in Seq(ExperienceType)
        BY DEF Typed, TypeOK
      <4>2. /\ DOMAIN experiences' = 1..(Len(experiences) + 1)
            /\ DOMAIN experiences = 1..Len(experiences)
            /\ \A i \in DOMAIN experiences : experiences'[i] = experiences[i]
            /\ experiences'[Len(experiences) + 1] = e
            /\ Len(experiences) \in Nat
        BY <3>1, <4>1
      <4>3. Transition(e.state, e.next)
        BY <2>7 DEF e
      <4>4. QED
        BY <4>2, <4>3 DEF SerialInv, ExperiencesAreLegalMoves
    <3>2. CASE experiences' = experiences
      BY <3>2 DEF SerialInv, ExperiencesAreLegalMoves
    <3>3. QED
      BY <2>1, <3>1, <3>2
  <2>9. QED
    BY <2>3, <2>4, <2>5, <2>8 DEF SerialInv
<1>9. CASE Tick
  BY <1>9, SerialKept DEF Tick, logs
<1>10. CASE Restart
  <2>1. OneHandler' /\ ReadsAreFresh'
    BY <1>10 DEF Restart, OneHandler, ReadsAreFresh, Typed, TypeOK, Running,
                 PlayPoint
  <2>2. CompletedIsFinal'
    BY <1>10 DEF Restart, CompletedIsFinal
  <2>3. ExperiencesAreLegalMoves'
    BY <1>10 DEF Restart, SerialInv, ExperiencesAreLegalMoves
  <2>4. QED
    BY <2>1, <2>2, <2>3 DEF SerialInv
<1>11. CASE UNCHANGED vars
  BY <1>11, SerialKept DEF vars, store
<1>12. QED
  BY <1>1, <1>2, <1>3, <1>4, <1>5, <1>6, <1>7, <1>8, <1>9, <1>10, <1>11
     DEF Next, Step, Arrive

LEMMA SerialAlways == ASSUME Exclusive PROVE Spec => []SerialInv
<1>1. SerialInv /\ [Next]_vars => SerialInv'
  BY SerialNext
<1>2. QED
  BY SerialInit, <1>1, PTL DEF Spec

(* With exclusive clients every stored experience is a move of the state
   engine, whatever is lost to disconnects and restarts. *)
THEOREM SerialExperiences ==
  ASSUME Exclusive PROVE Spec => []ExperiencesAreLegalMoves
<1>1. SerialInv => ExperiencesAreLegalMoves
  BY DEF SerialInv
<1>2. QED
  BY SerialAlways, <1>1, PTL

(* With exclusive clients a session that has been Completed is Completed. *)
THEOREM SerialCompletedIsFinal ==
  ASSUME Exclusive PROVE Spec => []CompletedIsFinal
<1>1. SerialInv => CompletedIsFinal
  BY DEF SerialInv
<1>2. QED
  BY SerialAlways, <1>1, PTL

-----------------------------------------------------------------------------
(* The refinement *)

LEMMA LifecycleInit == Init => SL!Init
BY DEF Init, SL!Init, lifecycle

\* A step that changes neither the stored sessions nor the ids is a stutter.
LEMMA LifecycleStutters ==
  ASSUME UNCHANGED <<sessions, issued>>
  PROVE  UNCHANGED lifecycle
BY DEF lifecycle

LEMMA LifecycleNext ==
  ASSUME SerialInv, SerialInv', [Next]_vars
  PROVE  [SL!Next]_lifecycle
<1> USE DEF Goto
<1>0. Typed /\ Typed' /\ ReadsAreReal /\ ReadsAreFresh
  BY DEF SerialInv, StageInv
<1>1. ASSUME NEW r \in Request, NEW s \in Session, CreateSession(r, s)
      PROVE  SL!Next
  <2>1. /\ sessions' = [sessions EXCEPT ![s] = "Initialized"]
        /\ issued' = issued \cup {s}
        /\ s \notin issued
        /\ sessions[s] = None
    BY <1>0, <1>1 DEF CreateSession, ReadsAreReal
  <2>2. lifecycle[s] = "Absent"
    BY <2>1 DEF lifecycle
  <2>3. lifecycle' = [lifecycle EXCEPT ![s] = "Initialized"]
    BY <1>0, <2>1, ServiceAssumption DEF lifecycle, Typed, TypeOK, GameState
  <2>4. SL!Create(s)
    BY <2>2, <2>3 DEF SL!Create
  <2>5. QED
    BY <2>4 DEF SL!Next
<1>2. ASSUME NEW r \in Request, WriteState(r)
      PROVE  SL!Next
  <2> DEFINE s  == local[r].session
             to == Target(local[r].action)
  <2>1. /\ sessions' = [sessions EXCEPT ![s] = to]
        /\ issued' = issued
        /\ s \in Session
        /\ sessions[s] \in GameState
        /\ sessions[s] # None
        /\ Transition(sessions[s], to)
        /\ to \in GameState
    BY <1>0, <1>2, TargetStates, ServiceAssumption
       DEF WriteState, Typed, TypeOK, LocalsSet, Running, PlayPoint,
           ReadsAreFresh, GameState
  <2> HIDE DEF s, to
  <2>2. lifecycle[s] = sessions[s]
    BY <2>1 DEF lifecycle
  <2>3. lifecycle' = [lifecycle EXCEPT ![s] = to]
    BY <1>0, <2>1, ServiceAssumption DEF lifecycle, Typed, TypeOK
  <2>4. SL!Transition(lifecycle[s], to) /\ lifecycle[s] \in SL!GameState
    BY <2>1, <2>2 DEF SL!Transition, Transition, SL!ALLOWED, ALLOWED,
                      SL!GameState, GameState
  <2>5. SL!Move(s, to)
    BY <2>3, <2>4 DEF SL!Move
  <2>6. QED
    BY <2>1, <2>5 DEF SL!Next, SL!GameState, GameState
<1>3. CASE Restart
  <2>1. /\ sessions' = [s \in Session |-> None]
        /\ issued' = issued
    BY <1>3 DEF Restart
  <2>2. \A s \in Session : lifecycle'[s] = IF s \in issued THEN "Forgotten" ELSE "Absent"
    BY <2>1 DEF lifecycle
  <2>3. \A s \in Session :
          lifecycle[s] = IF sessions[s] # None THEN sessions[s]
                         ELSE IF s \in issued THEN "Forgotten" ELSE "Absent"
    BY DEF lifecycle
  <2>4. \A s \in Session : sessions[s] # None => s \in issued /\ sessions[s] \in GameState
    BY <1>0 DEF ReadsAreReal, Typed, TypeOK
  <2>5. \A s \in Session :
          lifecycle'[s] = IF lifecycle[s] \in SL!GameState THEN "Forgotten"
                          ELSE lifecycle[s]
    BY <2>2, <2>3, <2>4 DEF SL!GameState, GameState
  <2>6. lifecycle' = [s \in Session |->
                        IF lifecycle[s] \in SL!GameState THEN "Forgotten"
                        ELSE lifecycle[s]]
    BY <2>5 DEF lifecycle
  <2>7. QED
    BY <2>6 DEF SL!Next, SL!Restart
<1>4. ASSUME NEW r \in Request,
             \/ CountCreated(r) \/ CheckMove(r) \/ RefuseMove(r)
             \/ CountAndStamp(r) \/ LogEvent(r) \/ LogExperience(r)
             \/ LoseExperience(r) \/ Disconnect(r)
      PROVE  UNCHANGED lifecycle
  BY <1>4, LifecycleStutters
     DEF CountCreated, CheckMove, RefuseMove, CountAndStamp, LogEvent,
         LogExperience, LoseExperience, Disconnect, store
<1>5. ASSUME NEW r \in Request, NEW s \in Session, NEW a \in Action,
             PlayLookup(r, s, a) \/ PlayNotFound(r, s, a)
      PROVE  UNCHANGED lifecycle
  BY <1>5, LifecycleStutters DEF PlayLookup, PlayNotFound, store
<1>6. CASE Tick
  BY <1>6, LifecycleStutters DEF Tick, store
<1>7. CASE UNCHANGED vars
  BY <1>7, LifecycleStutters DEF vars
<1>8. QED
  BY <1>1, <1>2, <1>3, <1>4, <1>5, <1>6, <1>7 DEF Next, Step, Arrive

(* With exclusive clients the handlers, the manager and the store together
   implement the abstract session lifecycle. *)
THEOREM SerialImplementsLifecycle ==
  ASSUME Exclusive PROVE Spec => ImplementsLifecycle
<1>1. SerialInv /\ SerialInv' /\ [Next]_vars => [SL!Next]_lifecycle
  BY LifecycleNext
<1>2. QED
  BY LifecycleInit, SerialAlways, <1>1, PTL DEF Spec, ImplementsLifecycle, SL!Spec

-----------------------------------------------------------------------------
(* The logs of a session, if clients wait for their answers *)

\* A handler at one of the points P works on session s.
Pending(P, r, s) == pc[r] \in P /\ local[r].session = s

\* The next entry about s in a log to which handlers at the points P have yet
\* to add is a move from state st: the state that a pending handler began
\* with, or the one the session is in.
Awaits(P, s, st) ==
  /\ \A r \in Request : Pending(P, r, s) => local[r].prev = st
  /\ (\A r \in Request : ~Pending(P, r, s)) => sessions[s] = st

Unlogged   == {"written", "stamped"}               \* not in the event log yet
Unrecorded == {"written", "stamped", "logged"}     \* not an experience yet

LastOfSession(log, i) == \A j \in DOMAIN log : SameSession(log, i, j) => j <= i

\* What has been written is still there when it is logged.
Settled ==
  \A r \in Request : pc[r] \in Unrecorded =>
    sessions[local[r].session] = Target(local[r].action)

\* Each event of a session leaves it where the next one found it, ...
EventsChain ==
  /\ \A i \in DOMAIN events :
       /\ events[i].session \in issued
       /\ LastOfSession(events, i) =>
            Awaits(Unlogged, events[i].session, Target(events[i].action))
  /\ \A i, j \in DOMAIN events :
       SameSession(events, i, j) /\ i < j =>
         \/ Transition(Target(events[i].action), Target(events[j].action))
         \/ \E k \in DOMAIN events : SameSession(events, i, k) /\ i < k /\ k < j

\* ... and is stamped no later than the next one.
StampsAscend ==
  /\ \A r \in Request : pc[r] = "stamped" => local[r].stamp <= clock
  /\ \A i \in DOMAIN events :
       /\ events[i].stamp <= clock
       /\ \A r \in Request : Pending({"stamped"}, r, events[i].session) =>
            events[i].stamp <= local[r].stamp
  /\ \A i, j \in DOMAIN events :
       SameSession(events, i, j) /\ i < j => events[i].stamp <= events[j].stamp

ReplayInv == SerialInv /\ Settled /\ EventsChain /\ StampsAscend

\* Each experience of a session starts where the one before it ended.
ExperiencesChain ==
  /\ \A i \in DOMAIN experiences :
       /\ experiences[i].session \in issued
       /\ LastOfSession(experiences, i) =>
            Awaits(Unrecorded, experiences[i].session, experiences[i].next)
       /\ \/ experiences[i].state = "Initialized"
          \/ \E j \in DOMAIN experiences : SameSession(experiences, i, j) /\ j < i
  /\ \A i, j \in DOMAIN experiences :
       NextOfSession(i, j) => experiences[i].next = experiences[j].state
  /\ \A s \in Session :
       sessions[s] # None /\ (\A i \in DOMAIN experiences : experiences[i].session # s)
         => Awaits(Unrecorded, s, "Initialized")

TrajectoryInv == SerialInv /\ Settled /\ ExperiencesChain

-----------------------------------------------------------------------------
(* Which steps matter to the logs *)

LEMMA UnloggedPoints ==
  /\ Unlogged \subseteq Unrecorded
  /\ Unrecorded \subseteq Running
  /\ \A p \in Finished \cup {"new", "created", "found", "checked"} : p \notin Unrecorded
BY DEF Unlogged, Unrecorded, Running, PlayPoint, Finished

\* A step after which the same handlers are pending in the same sessions.
LEMMA AwaitsSame ==
  ASSUME NEW P, NEW s, NEW st, Awaits(P, s, st), sessions'[s] = sessions[s],
         \A q \in Request :
           /\ Pending(P, q, s)' <=> Pending(P, q, s)
           /\ Pending(P, q, s) => local'[q].prev = local[q].prev
  PROVE  Awaits(P, s, st)'
BY DEF Awaits

\* A step that leaves the events alone.
LEMMA EventsKept ==
  ASSUME EventsChain, UNCHANGED events, issued \subseteq issued',
         \A s \in issued : \A st :
           Awaits(Unlogged, s, st) => Awaits(Unlogged, s, st)'
  PROVE  EventsChain'
<1>1. ASSUME NEW i \in DOMAIN events', LastOfSession(events, i)'
      PROVE  Awaits(Unlogged, events[i].session, Target(events[i].action))'
  <2>1. PICK s, st : s = events[i].session /\ st = Target(events[i].action)
    OBVIOUS
  <2>2. s \in issued /\ Awaits(Unlogged, s, st)
    BY <1>1, <2>1 DEF EventsChain, LastOfSession, SameSession
  <2>3. Awaits(Unlogged, s, st)'
    BY <2>2
  <2>4. s = events'[i].session /\ st = Target(events'[i].action)
    BY <2>1
  <2>5. QED
    BY <2>3, <2>4 DEF Awaits, Pending
<1>2. QED
  BY <1>1 DEF EventsChain, SameSession

\* A step that leaves the experiences alone.
LEMMA ExperiencesKept ==
  ASSUME ExperiencesChain, UNCHANGED experiences, issued \subseteq issued',
         \A s \in issued : \A st :
           Awaits(Unrecorded, s, st) => Awaits(Unrecorded, s, st)',
         \A s \in Session : sessions'[s] # None /\ s \notin issued =>
           Awaits(Unrecorded, s, "Initialized")',
         \A s \in issued : sessions'[s] # None => sessions[s] # None
  PROVE  ExperiencesChain'
<1>1. ASSUME NEW i \in DOMAIN experiences', LastOfSession(experiences, i)'
      PROVE  Awaits(Unrecorded, experiences[i].session, experiences[i].next)'
  <2>1. PICK s, st : s = experiences[i].session /\ st = experiences[i].next
    OBVIOUS
  <2>2. s \in issued /\ Awaits(Unrecorded, s, st)
    BY <1>1, <2>1 DEF ExperiencesChain, LastOfSession, SameSession
  <2>3. Awaits(Unrecorded, s, st)'
    BY <2>2
  <2>4. s = experiences'[i].session /\ st = experiences'[i].next
    BY <2>1
  <2>5. QED
    BY <2>3, <2>4 DEF Awaits, Pending
<1>2. ASSUME NEW s \in Session, sessions'[s] # None,
             \A i \in DOMAIN experiences' : experiences'[i].session # s
      PROVE  Awaits(Unrecorded, s, "Initialized")'
  <2>1. CASE s \in issued
    BY <1>2, <2>1 DEF ExperiencesChain
  <2>2. CASE s \notin issued
    BY <1>2, <2>2
  <2>3. QED
    BY <2>1, <2>2
<1>3. QED
  BY <1>1, <1>2 DEF ExperiencesChain, SameSession, NextOfSession

\* A step of a handler that is pending neither before nor after, or no step of
\* a handler at all.
Calm ==
  /\ UNCHANGED <<sessions, issued, logs>>
  /\ clock <= clock'
  /\ \A q \in Request :
       \/ pc'[q] = pc[q] /\ local'[q] = local[q]
       \/ pc'[q] \notin Unrecorded /\ pc[q] \notin Unrecorded

LEMMA CalmAwaits ==
  ASSUME Calm, NEW P \in SUBSET Unrecorded, NEW s, NEW st, Awaits(P, s, st)
  PROVE  Awaits(P, s, st)'
BY AwaitsSame DEF Calm, Pending

LEMMA CalmKeeps ==
  ASSUME Typed, Typed', Settled, Calm
  PROVE  /\ Settled'
         /\ EventsChain => EventsChain'
         /\ StampsAscend => StampsAscend'
         /\ ExperiencesChain => ExperiencesChain'
<1>1. Settled'
  BY DEF Settled, Calm
<1>2. /\ \A s, st : Awaits(Unlogged, s, st) => Awaits(Unlogged, s, st)'
      /\ \A s, st : Awaits(Unrecorded, s, st) => Awaits(Unrecorded, s, st)'
  BY CalmAwaits, UnloggedPoints
<1>3. EventsChain => EventsChain'
  BY <1>2, EventsKept DEF Calm, logs
<1>4. ASSUME ExperiencesChain
      PROVE  ExperiencesChain'
  <2>1. ASSUME NEW s \in Session, sessions'[s] # None, s \notin issued
        PROVE  Awaits(Unrecorded, s, "Initialized")'
    BY <1>2, <1>4, <2>1 DEF Calm, ExperiencesChain
  <2>2. QED
    BY <1>2, <1>4, <2>1, ExperiencesKept DEF Calm, logs
<1>5. ASSUME StampsAscend
      PROVE  StampsAscend'
  <2>1. \A r \in Request : pc'[r] = "stamped" => pc[r] = "stamped" /\ local'[r] = local[r]
    BY DEF Calm, Unrecorded
  <2>2. /\ clock \in Nat /\ clock' \in Nat /\ clock <= clock'
        /\ events' = events
        /\ \A i \in DOMAIN events : events[i].stamp \in Nat
        /\ \A r \in Request : local[r].stamp \in Nat
    <3>1. \A i \in DOMAIN events : events[i] \in EventType
      BY DEF Typed, TypeOK
    <3>2. \A r \in Request : local[r] \in LocalType
      BY DEF Typed, TypeOK
    <3>3. QED
      BY <3>1, <3>2 DEF Calm, logs, Typed, TypeOK, EventType, LocalType
  <2>3. \A r \in Request : pc'[r] = "stamped" => local'[r].stamp <= clock'
    BY <1>5, <2>1, <2>2 DEF StampsAscend
  <2>4. ASSUME NEW i \in DOMAIN events'
        PROVE  /\ events'[i].stamp <= clock'
               /\ \A r \in Request : Pending({"stamped"}, r, events[i].session)' =>
                    events'[i].stamp <= local'[r].stamp
    BY <1>5, <2>1, <2>2 DEF StampsAscend, Pending
  <2>5. QED
    BY <1>5, <2>2, <2>3, <2>4 DEF StampsAscend, SameSession
<1>6. QED
  BY <1>1, <1>3, <1>4, <1>5

-----------------------------------------------------------------------------
(* What each of the other steps does to the logs *)

LEMMA CreateKeeps ==
  ASSUME SerialInv, Typed', Settled, NEW r \in Request, NEW s \in Session,
         CreateSession(r, s)
  PROVE  /\ Settled'
         /\ EventsChain => EventsChain'
         /\ StampsAscend => StampsAscend'
         /\ ExperiencesChain => ExperiencesChain'
<1>1. /\ pc[r] = "new" /\ s \notin issued /\ issued' = issued \cup {s}
      /\ UNCHANGED <<events, experiences, clock>>
      /\ \A t \in Session : sessions'[t] = IF t = s THEN "Initialized" ELSE sessions[t]
      /\ \A q \in Request : pc'[q] = IF q = r THEN "created" ELSE pc[q]
      /\ \A q \in Request : q # r => local'[q] = local[q]
  BY DEF CreateSession, Goto, logs, env, SerialInv, StageInv, Typed, TypeOK
<1>2. \A q \in Request : pc[q] \in Unrecorded \/ pc'[q] \in Unrecorded =>
        /\ q # r
        /\ local[q].session \in Session
        /\ local[q].session # s
  BY <1>1, UnloggedPoints DEF SerialInv, StageInv, ReadsAreReal, Typed, LocalsSet
<1>3. Settled'
  BY <1>1, <1>2 DEF Settled
<1>4. ASSUME NEW P \in SUBSET Unrecorded, NEW t \in issued, NEW st, Awaits(P, t, st)
      PROVE  Awaits(P, t, st)'
  <2>1. t \in Session /\ t # s
    BY <1>1, <1>4 DEF SerialInv, StageInv, Typed, TypeOK
  <2>2. \A q \in Request : /\ Pending(P, q, t)' <=> Pending(P, q, t)
                           /\ Pending(P, q, t) => local'[q].prev = local[q].prev
    BY <1>1, <1>2, <1>4 DEF Pending
  <2>3. QED
    BY <1>1, <1>4, <2>1, <2>2, AwaitsSame
<1>5. Awaits(Unrecorded, s, "Initialized")'
  <2>1. \A q \in Request : ~Pending(Unrecorded, q, s)'
    BY <1>1, <1>2 DEF Pending
  <2>2. QED
    BY <1>1, <2>1 DEF Awaits
<1>6. EventsChain => EventsChain'
  BY <1>1, <1>4, UnloggedPoints, EventsKept
<1>7. ExperiencesChain => ExperiencesChain'
  <2>1. \A t \in Session : sessions'[t] # None /\ t \notin issued => t = s
    BY <1>1 DEF SerialInv, StageInv, ReadsAreReal
  <2>2. issued \subseteq Session
    BY DEF SerialInv, StageInv, Typed, TypeOK
  <2>3. QED
    BY <1>1, <1>4, <1>5, <2>1, <2>2, ExperiencesKept
<1>8. StampsAscend => StampsAscend'
  <2>1. \A q \in Request : pc'[q] = "stamped" => pc[q] = "stamped" /\ local'[q] = local[q]
    BY <1>1
  <2>2. QED
    BY <1>1, <2>1 DEF StampsAscend, Pending, SameSession
<1>9. QED
  BY <1>3, <1>6, <1>7, <1>8

LEMMA WriteKeeps ==
  ASSUME SerialInv, Typed', Settled, NEW r \in Request, WriteState(r)
  PROVE  /\ Settled'
         /\ EventsChain => EventsChain'
         /\ StampsAscend => StampsAscend'
         /\ ExperiencesChain => ExperiencesChain'
<1> DEFINE s == local[r].session
<1>1. /\ pc[r] = "checked" /\ s \in Session
      /\ UNCHANGED <<events, experiences, clock, local, issued>>
      /\ \A t \in Session :
           sessions'[t] = IF t = s THEN Target(local[r].action) ELSE sessions[t]
      /\ \A q \in Request : pc'[q] = IF q = r THEN "written" ELSE pc[q]
      /\ sessions[s] # None
  BY DEF WriteState, Goto, logs, env, SerialInv, StageInv, Typed, TypeOK, LocalsSet,
         Running, PlayPoint
<1>2. local[r].prev = sessions[s]
  BY <1>1 DEF SerialInv, ReadsAreFresh
<1>3. \A q \in Request : q # r /\ pc[q] \in Unrecorded =>
        local[q].session \in Session /\ local[q].session # s
  BY <1>1, UnloggedPoints
     DEF SerialInv, OneHandler, Running, PlayPoint, StageInv, Typed, LocalsSet
<1>4. \A q \in Request : pc'[q] \in Unrecorded /\ q # r => pc[q] \in Unrecorded
  BY <1>1
<1> HIDE DEF s
<1>5. Settled'
  BY <1>1, <1>3, <1>4 DEF Settled, s
<1>6. ASSUME NEW P \in SUBSET Unrecorded, "written" \in P,
             NEW t \in Session, NEW st, Awaits(P, t, st)
      PROVE  Awaits(P, t, st)'
  <2>0. "checked" \notin P
    BY UnloggedPoints, <1>6
  <2>1. CASE t = s
    <3>1. \A q \in Request : ~Pending(P, q, s)
      BY <1>1, <1>3, <1>6, <2>0 DEF Pending
    <3>2. st = local[r].prev
      BY <1>2, <1>6, <2>1, <3>1 DEF Awaits
    <3>3. Pending(P, r, t)'
      BY <1>1, <1>6, <2>1 DEF Pending, s
    <3>4. \A q \in Request : Pending(P, q, t)' => q = r
      BY <1>1, <2>1, <3>1 DEF Pending
    <3>5. QED
      BY <1>1, <3>2, <3>3, <3>4 DEF Awaits
  <2>2. CASE t # s
    <3>1. \A q \in Request : /\ Pending(P, q, t)' <=> Pending(P, q, t)
                             /\ Pending(P, q, t) => local'[q].prev = local[q].prev
      BY <1>1, <2>0, <2>2 DEF Pending, s
    <3>2. QED
      BY <1>1, <1>6, <2>2, <3>1, AwaitsSame
  <2>3. QED
    BY <2>1, <2>2
<1>7. issued \subseteq Session
  BY DEF SerialInv, StageInv, Typed, TypeOK
<1>8. EventsChain => EventsChain'
  <2>1. \A t \in issued : \A st : Awaits(Unlogged, t, st) => Awaits(Unlogged, t, st)'
    BY <1>6, <1>7, UnloggedPoints DEF Unlogged
  <2>2. QED
    BY <1>1, <2>1, EventsKept
<1>9. ExperiencesChain => ExperiencesChain'
  <2>1. \A t \in issued : \A st : Awaits(Unrecorded, t, st) => Awaits(Unrecorded, t, st)'
    BY <1>6, <1>7 DEF Unrecorded
  <2>2. \A t \in Session : sessions'[t] # None => sessions[t] # None /\ t \in issued
    BY <1>1 DEF SerialInv, StageInv, ReadsAreReal
  <2>3. QED
    BY <1>1, <1>7, <2>1, <2>2, ExperiencesKept
<1>10. StampsAscend => StampsAscend'
  <2>1. \A q \in Request : pc'[q] = "stamped" => pc[q] = "stamped" /\ local'[q] = local[q]
    BY <1>1
  <2>2. QED
    BY <1>1, <2>1 DEF StampsAscend, Pending, SameSession
<1>11. QED
  BY <1>5, <1>8, <1>9, <1>10

LEMMA Appended ==
  ASSUME NEW S, NEW log \in Seq(S), NEW e, NEW longer, longer = Append(log, e)
  PROVE  /\ Len(log) \in Nat
         /\ DOMAIN log = 1..Len(log)
         /\ DOMAIN longer = 1..(Len(log) + 1)
         /\ \A i \in DOMAIN log : longer[i] = log[i]
         /\ longer[Len(log) + 1] = e
OBVIOUS

LEMMA StampKeeps ==
  ASSUME SerialInv, Typed', Settled, NEW r \in Request, CountAndStamp(r)
  PROVE  /\ Settled'
         /\ EventsChain => EventsChain'
         /\ StampsAscend => StampsAscend'
         /\ ExperiencesChain => ExperiencesChain'
<1>1. /\ pc[r] = "written"
      /\ UNCHANGED <<events, experiences, clock, sessions, issued>>
      /\ \A q \in Request : pc'[q] = IF q = r THEN "stamped" ELSE pc[q]
      /\ local \in [Request -> LocalType] /\ clock \in Nat
      /\ local' = [local EXCEPT ![r].stamp = clock]
  <2>1. /\ pc[r] = "written" /\ pc' = [pc EXCEPT ![r] = "stamped"]
        /\ UNCHANGED <<events, experiences, clock, sessions, issued>>
        /\ local' = [local EXCEPT ![r].stamp = clock]
    BY DEF CountAndStamp, Goto, logs, store, env
  <2>2. pc \in [Request -> Point] /\ local \in [Request -> LocalType] /\ clock \in Nat
    BY DEF SerialInv, StageInv, Typed, TypeOK
  <2>3. \A q \in Request : pc'[q] = IF q = r THEN "stamped" ELSE pc[q]
    BY <2>1, <2>2
  <2>4. QED
    BY <2>1, <2>2, <2>3
<1>2. /\ SameRequests
      /\ \A q \in Request : local'[q].stamp = IF q = r THEN clock ELSE local[q].stamp
  BY <1>1, SetStamp
<1>3. Settled'
  BY <1>1, <1>2 DEF Settled, SameRequests, Unrecorded
<1>4. ASSUME NEW P, "written" \in P, "stamped" \in P, NEW t, NEW st, Awaits(P, t, st)
      PROVE  Awaits(P, t, st)'
  <2>1. \A q \in Request : /\ Pending(P, q, t)' <=> Pending(P, q, t)
                           /\ local'[q].prev = local[q].prev
    BY <1>1, <1>2, <1>4 DEF Pending, SameRequests
  <2>2. QED
    BY <1>1, <1>4, <2>1, AwaitsSame
<1>5. EventsChain => EventsChain'
  BY <1>1, <1>4, EventsKept DEF Unlogged
<1>6. ExperiencesChain => ExperiencesChain'
  <2>1. \A t : \A st : Awaits(Unrecorded, t, st) => Awaits(Unrecorded, t, st)'
    BY <1>4 DEF Unrecorded
  <2>2. \A t \in Session : sessions[t] # None => t \in issued
    BY DEF SerialInv, StageInv, ReadsAreReal
  <2>3. QED
    BY <1>1, <2>1, <2>2, ExperiencesKept
<1>7. ASSUME StampsAscend
      PROVE  StampsAscend'
  <2>1. \A q \in Request : q # r /\ pc'[q] = "stamped" => pc[q] = "stamped"
    BY <1>1
  <2>2. \A q \in Request : pc'[q] = "stamped" => local'[q].stamp <= clock
    BY <1>1, <1>2, <1>7, <2>1 DEF StampsAscend
  <2>3. ASSUME NEW i \in DOMAIN events, NEW q \in Request,
               Pending({"stamped"}, q, events[i].session)'
        PROVE  events[i].stamp <= local'[q].stamp
    BY <1>1, <1>2, <1>7, <2>1, <2>3 DEF StampsAscend, Pending, SameRequests
  <2>4. QED
    BY <1>1, <1>7, <2>2, <2>3 DEF StampsAscend, SameSession
<1>8. QED
  BY <1>3, <1>5, <1>6, <1>7

\* The handler that has done its work on s leaves: the log ends where s is.
LEMMA LeavesAwaits ==
  ASSUME OneHandler, Settled, NEW r \in Request, NEW P \in SUBSET Unrecorded,
         pc[r] \in Unrecorded, pc'[r] \notin P,
         UNCHANGED <<sessions, local>>, \A q \in Request : q # r => pc'[q] = pc[q]
  PROVE  /\ Awaits(P, local[r].session, Target(local[r].action))'
         /\ \A s, st : s # local[r].session /\ Awaits(P, s, st) => Awaits(P, s, st)'
<1>1. \A q \in Request : q # r /\ pc[q] \in Unrecorded =>
        local[q].session # local[r].session
  BY UnloggedPoints DEF OneHandler
<1>2. \A q \in Request : ~Pending(P, q, local[r].session)'
  BY <1>1 DEF Pending
<1>3. Awaits(P, local[r].session, Target(local[r].action))'
  BY <1>2 DEF Awaits, Pending, Settled
<1>4. ASSUME NEW s, NEW st, s # local[r].session, Awaits(P, s, st)
      PROVE  Awaits(P, s, st)'
  <2>1. \A q \in Request : Pending(P, q, s)' <=> Pending(P, q, s)
    BY <1>4 DEF Pending
  <2>2. QED
    BY <1>4, <2>1, AwaitsSame
<1>5. QED
  BY <1>3, <1>4

LEMMA LogEventKeeps ==
  ASSUME SerialInv, Typed', Settled, NEW r \in Request, LogEvent(r)
  PROVE  /\ Settled'
         /\ EventsChain => EventsChain'
         /\ StampsAscend => StampsAscend'
         /\ ExperiencesChain => ExperiencesChain'
<1> DEFINE s == local[r].session
           n == Len(events)
<1>1. /\ pc[r] = "stamped"
      /\ UNCHANGED <<experiences, clock, sessions, issued, local>>
      /\ \A q \in Request : pc'[q] = IF q = r THEN "logged" ELSE pc[q]
      /\ events' = Append(events, Event(r))
      /\ events \in Seq(EventType)
      /\ s \in issued
  BY DEF LogEvent, Goto, store, env, SerialInv, StageInv, Typed, TypeOK,
         ReadsAreReal, Running, PlayPoint
<1>2. /\ n \in Nat /\ DOMAIN events = 1..n /\ DOMAIN events' = 1..(n + 1)
      /\ \A i \in DOMAIN events : events'[i] = events[i]
      /\ events'[n + 1] = Event(r)
  BY <1>1, Appended
<1>3. /\ Event(r).session = s
      /\ Event(r).action = local[r].action
      /\ Event(r).stamp = local[r].stamp
  BY DEF Event
<1>4. /\ Awaits(Unlogged, s, Target(local[r].action))'
      /\ \A t, st : t # s /\ Awaits(Unlogged, t, st) => Awaits(Unlogged, t, st)'
  BY <1>1, LeavesAwaits, UnloggedPoints DEF Unlogged, Unrecorded, SerialInv
<1>5. \A q \in Request : q # r /\ pc[q] \in Unrecorded => local[q].session # s
  BY <1>1, UnloggedPoints DEF SerialInv, OneHandler, Unrecorded
<1>6. Transition(local[r].prev, Target(local[r].action))
  BY <1>1 DEF SerialInv, ReadsAreFresh
<1> HIDE DEF s, n
<1>7. Settled'
  BY <1>1 DEF Settled, Unrecorded
<1>8. ASSUME EventsChain
      PROVE  EventsChain'
  <2>1. ASSUME NEW i \in 1..(n + 1)
        PROVE  /\ events'[i].session \in issued'
               /\ LastOfSession(events, i)' =>
                    Awaits(Unlogged, events[i].session, Target(events[i].action))'
    <3>1. CASE i = n + 1
      <4>1. events'[i].session = s /\ events'[i].action = local[r].action
        BY <1>2, <1>3, <3>1
      <4>2. s' = s /\ local'[r].action = local[r].action
        BY <1>1 DEF s
      <4>3. Awaits(Unlogged, events[i].session, Target(events[i].action))'
        BY <1>4, <4>1, <4>2 DEF Awaits, Pending
      <4>4. QED
        BY <1>1, <4>1, <4>3
    <3>2. CASE i \in DOMAIN events /\ events[i].session = s
      <4>1. ~LastOfSession(events, i)'
        BY <1>2, <1>3, <3>2 DEF LastOfSession, SameSession
      <4>2. QED
        BY <1>1, <1>2, <1>8, <3>2, <4>1 DEF EventsChain
    <3>3. CASE i \in DOMAIN events /\ events[i].session # s
      <4>1. LastOfSession(events, i)' => LastOfSession(events, i)
        BY <1>2, <3>3 DEF LastOfSession, SameSession
      <4>2. LastOfSession(events, i) =>
              Awaits(Unlogged, events[i].session, Target(events[i].action))
        BY <1>8, <3>3 DEF EventsChain
      <4>3. ASSUME LastOfSession(events, i)
            PROVE  Awaits(Unlogged, events[i].session, Target(events[i].action))'
        <5>1. PICK t, st : t = events[i].session /\ st = Target(events[i].action)
          OBVIOUS
        <5>2. Awaits(Unlogged, t, st)'
          BY <1>4, <3>3, <4>2, <4>3, <5>1
        <5>3. t = events'[i].session /\ st = Target(events'[i].action)
          BY <1>2, <3>3, <5>1
        <5>4. QED
          BY <5>2, <5>3 DEF Awaits, Pending
      <4>4. QED
        BY <1>1, <1>2, <1>8, <3>3, <4>1, <4>3 DEF EventsChain
    <3>4. QED
      BY <1>2, <3>1, <3>2, <3>3
  <2>2. ASSUME NEW i \in 1..(n + 1), NEW j \in 1..(n + 1),
               SameSession(events', i, j), i < j
        PROVE  \/ Transition(Target(events'[i].action), Target(events'[j].action))
               \/ \E k \in DOMAIN events' : SameSession(events', i, k) /\ i < k /\ k < j
    <3>1. CASE j \in DOMAIN events
      BY <1>2, <1>8, <2>2, <3>1 DEF EventsChain, SameSession
    <3>2. CASE j = n + 1
      <4>1. i \in DOMAIN events /\ events[i].session = s
        BY <1>2, <1>3, <2>2, <3>2 DEF SameSession
      <4>2. CASE LastOfSession(events, i)
        <5>1. Awaits(Unlogged, s, Target(events[i].action))
          BY <1>8, <4>1, <4>2 DEF EventsChain
        <5>2. local[r].prev = Target(events[i].action)
          BY <1>1, <5>1 DEF Awaits, Pending, Unlogged, s
        <5>3. QED
          BY <1>2, <1>3, <1>6, <3>2, <4>1, <5>2
      <4>3. CASE ~LastOfSession(events, i)
        <5>1. PICK k \in DOMAIN events : SameSession(events, i, k) /\ ~(k <= i)
          BY <4>3 DEF LastOfSession
        <5>2. k \in DOMAIN events' /\ SameSession(events', i, k) /\ i < k /\ k < j
          BY <1>2, <3>2, <4>1, <5>1 DEF SameSession
        <5>3. QED
          BY <5>2
      <4>4. QED
        BY <4>2, <4>3
    <3>3. QED
      BY <1>2, <3>1, <3>2
  <2>3. QED
    BY <1>2, <2>1, <2>2 DEF EventsChain, SameSession
<1>9. ASSUME StampsAscend
      PROVE  StampsAscend'
  <2>1. \A q \in Request : pc'[q] = "stamped" => q # r /\ pc[q] = "stamped"
    BY <1>1
  <2>2. ASSUME NEW i \in 1..(n + 1)
        PROVE  /\ events'[i].stamp <= clock'
               /\ \A q \in Request : Pending({"stamped"}, q, events[i].session)' =>
                    events'[i].stamp <= local'[q].stamp
    <3>1. CASE i = n + 1
      <4>1. events'[i].session = s /\ events'[i].stamp = local[r].stamp
        BY <1>2, <1>3, <3>1
      <4>2. \A q \in Request : ~Pending({"stamped"}, q, events[i].session)'
        BY <1>1, <1>5, <2>1, <4>1 DEF Pending, Unrecorded
      <4>3. local[r].stamp <= clock /\ clock' = clock
        BY <1>1, <1>9 DEF StampsAscend
      <4>4. QED
        BY <4>1, <4>2, <4>3
    <3>2. CASE i \in DOMAIN events
      BY <1>1, <1>2, <1>9, <2>1, <3>2 DEF StampsAscend, Pending
    <3>3. QED
      BY <1>2, <3>1, <3>2
  <2>3. ASSUME NEW i \in 1..(n + 1), NEW j \in 1..(n + 1),
               SameSession(events', i, j), i < j
        PROVE  events'[i].stamp <= events'[j].stamp
    <3>1. CASE j \in DOMAIN events
      BY <1>2, <1>9, <2>3, <3>1 DEF StampsAscend, SameSession
    <3>2. CASE j = n + 1
      BY <1>1, <1>2, <1>3, <1>9, <2>3, <3>2 DEF StampsAscend, SameSession, Pending, s
    <3>3. QED
      BY <1>2, <3>1, <3>2
  <2>4. QED
    BY <1>1, <1>2, <1>9, <2>1, <2>2, <2>3 DEF StampsAscend, SameSession
<1>10. ExperiencesChain => ExperiencesChain'
  <2>1. ASSUME NEW t, NEW st, Awaits(Unrecorded, t, st)
        PROVE  Awaits(Unrecorded, t, st)'
    <3>1. \A q \in Request : Pending(Unrecorded, q, t)' <=> Pending(Unrecorded, q, t)
      BY <1>1 DEF Pending, Unrecorded
    <3>2. QED
      BY <1>1, <2>1, <3>1, AwaitsSame
  <2>2. \A t \in Session : sessions[t] # None => t \in issued
    BY DEF SerialInv, StageInv, ReadsAreReal
  <2>3. QED
    BY <1>1, <2>1, <2>2, ExperiencesKept
<1>11. QED
  BY <1>7, <1>8, <1>9, <1>10

LEMMA AnswerKeeps ==
  ASSUME SerialInv, Settled, NEW r \in Request,
         LogExperience(r) \/ LoseExperience(r) \/ Disconnect(r)
  PROVE  /\ Settled'
         /\ EventsChain => EventsChain'
         /\ StampsAscend => StampsAscend'
<1>1. /\ pc[r] = "logged"
      /\ UNCHANGED <<events, clock, sessions, issued, local>>
      /\ \E p \in Finished : pc' = [pc EXCEPT ![r] = p]
  BY DEF LogExperience, LoseExperience, Disconnect, Goto, store, logs, env, Finished
<1>2. pc'[r] \in Finished /\ \A q \in Request : q # r => pc'[q] = pc[q]
  BY <1>1 DEF SerialInv, StageInv, Typed, TypeOK
<1>3. \A q \in Request : pc'[q] \in Unrecorded => q # r
  BY <1>2, UnloggedPoints
<1>4. Settled'
  BY <1>1, <1>2, <1>3 DEF Settled
<1>5. ASSUME NEW t, NEW st, Awaits(Unlogged, t, st)
      PROVE  Awaits(Unlogged, t, st)'
  <2>1. \A q \in Request : Pending(Unlogged, q, t)' <=> Pending(Unlogged, q, t)
    BY <1>1, <1>2, <1>3 DEF Pending, Unlogged, Unrecorded
  <2>2. QED
    BY <1>1, <1>5, <2>1, AwaitsSame
<1>6. EventsChain => EventsChain'
  BY <1>1, <1>5, EventsKept
<1>7. StampsAscend => StampsAscend'
  <2>1. \A q \in Request : pc'[q] = "stamped" => pc[q] = "stamped"
    BY <1>2, <1>3 DEF Unrecorded
  <2>2. QED
    BY <1>1, <2>1 DEF StampsAscend, Pending, SameSession
<1>8. QED
  BY <1>4, <1>6, <1>7

LEMMA LogExperienceKeeps ==
  ASSUME SerialInv, Settled, ExperiencesChain, NEW r \in Request, LogExperience(r)
  PROVE  ExperiencesChain'
<1> DEFINE s == local[r].session
           n == Len(experiences)
<1>1. /\ pc[r] = "logged"
      /\ UNCHANGED <<sessions, issued, local>>
      /\ \A q \in Request : pc'[q] = IF q = r THEN "answered" ELSE pc[q]
      /\ experiences' = Append(experiences, Experience(r))
      /\ experiences \in Seq(ExperienceType)
      /\ s \in issued /\ s \in Session
  BY DEF LogExperience, Goto, store, SerialInv, StageInv, Typed, TypeOK, LocalsSet,
         ReadsAreReal, Running, PlayPoint
<1>2. /\ n \in Nat /\ DOMAIN experiences = 1..n /\ DOMAIN experiences' = 1..(n + 1)
      /\ \A i \in DOMAIN experiences : experiences'[i] = experiences[i]
      /\ experiences'[n + 1] = Experience(r)
  BY <1>1, Appended
<1>3. /\ Experience(r).session = s
      /\ Experience(r).state = local[r].prev
      /\ Experience(r).next = Target(local[r].action)
  BY DEF Experience
<1>4. /\ Awaits(Unrecorded, s, Target(local[r].action))'
      /\ \A t, st : t # s /\ Awaits(Unrecorded, t, st) => Awaits(Unrecorded, t, st)'
  BY <1>1, LeavesAwaits DEF Unrecorded, SerialInv
<1>5. /\ s' = s /\ local'[r].action = local[r].action
      /\ sessions[s] # None
      /\ \A st : Awaits(Unrecorded, s, st) => local[r].prev = st
  <2>1. sessions[s] = Target(local[r].action)
    BY <1>1 DEF Settled, Unrecorded
  <2>2. Target(local[r].action) # None
    BY <1>1, TargetStates, ServiceAssumption
       DEF GameState, SerialInv, StageInv, Typed, LocalsSet, PlayPoint
  <2>3. QED
    BY <1>1, <2>1, <2>2 DEF Awaits, Pending, Unrecorded
<1> HIDE DEF s, n
<1>6. ASSUME NEW i \in 1..(n + 1), LastOfSession(experiences, i)'
      PROVE  Awaits(Unrecorded, experiences[i].session, experiences[i].next)'
  <2>1. CASE i = n + 1
    <3>1. /\ experiences'[i].session = s
          /\ experiences'[i].next = Target(local[r].action)
      BY <1>2, <1>3, <2>1
    <3>2. QED
      BY <1>4, <1>5, <3>1 DEF Awaits, Pending
  <2>2. CASE i \in DOMAIN experiences
    <3>1. PICK t, st : t = experiences[i].session /\ st = experiences[i].next
      OBVIOUS
    <3>2. LastOfSession(experiences, i) /\ t # s
      BY <1>2, <1>3, <1>6, <2>2, <3>1 DEF LastOfSession, SameSession
    <3>3. Awaits(Unrecorded, t, st)
      BY <2>2, <3>1, <3>2 DEF ExperiencesChain
    <3>4. Awaits(Unrecorded, t, st)'
      BY <1>4, <3>2, <3>3
    <3>5. t = experiences'[i].session /\ st = experiences'[i].next
      BY <1>2, <2>2, <3>1
    <3>6. QED
      BY <3>4, <3>5 DEF Awaits, Pending
  <2>3. QED
    BY <1>2, <2>1, <2>2
<1>7. ASSUME NEW i \in 1..(n + 1)
      PROVE  /\ experiences'[i].session \in issued
             /\ \/ experiences'[i].state = "Initialized"
                \/ \E j \in 1..(n + 1) : SameSession(experiences', i, j) /\ j < i
  <2>1. CASE i = n + 1
    <3>1. CASE \A j \in DOMAIN experiences : experiences[j].session # s
      <4>1. Awaits(Unrecorded, s, "Initialized")
        BY <1>1, <1>5, <3>1 DEF ExperiencesChain
      <4>2. QED
        BY <1>1, <1>2, <1>3, <1>5, <2>1, <4>1
    <3>2. ASSUME NEW j \in DOMAIN experiences, experiences[j].session = s
          PROVE  \E k \in 1..(n + 1) : SameSession(experiences', i, k) /\ k < i
      <4>1. j \in 1..(n + 1) /\ j < i
        BY <1>2, <2>1
      <4>2. SameSession(experiences', i, j)
        BY <1>2, <1>3, <2>1, <3>2 DEF SameSession
      <4>3. QED
        BY <4>1, <4>2
    <3>3. experiences'[i].session \in issued
      BY <1>1, <1>2, <1>3, <2>1
    <3>4. QED
      BY <3>1, <3>2, <3>3
  <2>2. CASE i \in DOMAIN experiences
    <3>1. /\ experiences[i].session \in issued
          /\ \/ experiences[i].state = "Initialized"
             \/ \E j \in DOMAIN experiences : SameSession(experiences, i, j) /\ j < i
      BY <2>2 DEF ExperiencesChain
    <3>2. QED
      BY <1>2, <2>2, <3>1 DEF SameSession
  <2>3. QED
    BY <1>2, <2>1, <2>2
<1>8. ASSUME NEW i \in 1..(n + 1), NEW j \in 1..(n + 1), NextOfSession(i, j)'
      PROVE  experiences'[i].next = experiences'[j].state
  <2>1. /\ i < j /\ experiences'[i].session = experiences'[j].session
        /\ \A k \in (i + 1)..(j - 1) : experiences'[i].session # experiences'[k].session
    BY <1>8 DEF NextOfSession, SameSession
  <2>2. CASE j \in DOMAIN experiences
    <3>1. i \in DOMAIN experiences /\ \A k \in (i + 1)..(j - 1) : k \in DOMAIN experiences
      BY <1>2, <2>1, <2>2
    <3>2. NextOfSession(i, j)
      BY <1>2, <2>1, <2>2, <3>1 DEF NextOfSession, SameSession
    <3>3. QED
      BY <1>2, <2>2, <3>1, <3>2 DEF ExperiencesChain
  <2>3. CASE j = n + 1
    <3>1. i \in DOMAIN experiences /\ experiences[i].session = s
      BY <1>2, <1>3, <2>1, <2>3
    <3>2. ASSUME NEW k \in DOMAIN experiences, experiences[k].session = s
          PROVE  k <= i
      <4>1. SUFFICES ASSUME ~(k <= i) PROVE FALSE
        OBVIOUS
      <4>2. k \in (i + 1)..(j - 1)
        BY <1>2, <2>3, <3>1, <4>1
      <4>3. QED
        BY <1>2, <2>1, <3>1, <3>2, <4>2
    <3>3. LastOfSession(experiences, i)
      BY <3>1, <3>2 DEF LastOfSession, SameSession
    <3>4. Awaits(Unrecorded, s, experiences[i].next)
      BY <3>1, <3>3 DEF ExperiencesChain
    <3>5. QED
      BY <1>2, <1>3, <1>5, <2>3, <3>1, <3>4
  <2>4. QED
    BY <1>2, <2>2, <2>3
<1>9. ASSUME NEW t \in Session, sessions'[t] # None,
             \A i \in 1..(n + 1) : experiences'[i].session # t
      PROVE  Awaits(Unrecorded, t, "Initialized")'
  <2>1. /\ t # s /\ sessions[t] # None
        /\ \A i \in DOMAIN experiences : experiences[i].session # t
    BY <1>1, <1>2, <1>3, <1>9
  <2>2. Awaits(Unrecorded, t, "Initialized")
    BY <2>1 DEF ExperiencesChain
  <2>3. QED
    BY <1>4, <2>1, <2>2
<1>10. QED
  BY <1>1, <1>2, <1>6, <1>7, <1>8, <1>9 DEF ExperiencesChain

LEMMA RestartKeeps ==
  ASSUME Typed, Restart
  PROVE  Settled' /\ EventsChain' /\ StampsAscend' /\ (~Postgres => ExperiencesChain')
<1>1. /\ events' = <<>> /\ (~Postgres => experiences' = <<>>)
      /\ \A q \in Request : pc'[q] \notin Running
      /\ \A s \in Session : sessions'[s] = None
  BY DEF Restart, Typed, TypeOK, Running, PlayPoint
<1>2. \A q \in Request : pc'[q] \notin Unrecorded
  BY <1>1, UnloggedPoints
<1>3. Settled'
  BY <1>2 DEF Settled
<1>4. EventsChain' /\ StampsAscend'
  BY <1>1, <1>2 DEF EventsChain, StampsAscend, Unrecorded
<1>5. ~Postgres => ExperiencesChain'
  BY <1>1 DEF ExperiencesChain
<1>6. QED
  BY <1>3, <1>4, <1>5

\* The other steps are calm.
LEMMA CalmSteps ==
  ASSUME Typed, Typed', [Next]_vars
  PROVE  \/ \E r \in Request :
              \/ \E s \in Session : CreateSession(r, s)
              \/ WriteState(r)
              \/ CountAndStamp(r)
              \/ LogEvent(r)
              \/ LogExperience(r)
              \/ LoseExperience(r)
              \/ Disconnect(r)
         \/ Restart
         \/ Calm
<1> USE DEF Goto
<1>1. pc \in [Request -> Point] /\ local \in [Request -> LocalType] /\ clock \in Nat
  BY DEF Typed, TypeOK
<1>2. ASSUME NEW r \in Request, NEW p \in Finished \cup {"new", "created", "found", "checked"},
             pc[r] \notin Unrecorded, pc' = [pc EXCEPT ![r] = p],
             \A q \in Request : q # r => local'[q] = local[q],
             UNCHANGED <<sessions, issued, logs, clock>>
      PROVE  Calm
  BY <1>1, <1>2, UnloggedPoints DEF Calm
<1>3. ASSUME NEW r \in Request, CountCreated(r) \/ RefuseMove(r)
      PROVE  Calm
  <2>1. /\ pc[r] \in {"created", "found"}
        /\ \E p \in {"answered", "rejected"} : pc' = [pc EXCEPT ![r] = p]
        /\ UNCHANGED <<local, sessions, issued, logs, clock>>
    BY <1>3 DEF CountCreated, RefuseMove, store, env
  <2>2. QED
    BY <1>2, <2>1 DEF Unrecorded, Finished
<1>4. ASSUME NEW r \in Request, NEW s \in Session, NEW a \in Action,
             PlayLookup(r, s, a) \/ PlayNotFound(r, s, a)
      PROVE  Calm
  <2>1. /\ pc[r] = "new"
        /\ \E p \in {"found", "rejected"} : pc' = [pc EXCEPT ![r] = p]
        /\ \E v : local' = [local EXCEPT ![r] = v]
        /\ UNCHANGED <<sessions, issued, logs, clock>>
    BY <1>4 DEF PlayLookup, PlayNotFound, store, env
  <2>2. \A q \in Request : q # r => local'[q] = local[q]
    BY <1>1, <2>1
  <2>3. QED
    BY <1>2, <2>1, <2>2 DEF Unrecorded, Finished
<1>5. ASSUME NEW r \in Request, CheckMove(r)
      PROVE  Calm
  <2>1. /\ pc[r] = "found" /\ pc' = [pc EXCEPT ![r] = "checked"]
        /\ \E v : local' = [local EXCEPT ![r].cur = v]
        /\ UNCHANGED <<sessions, issued, logs, clock>>
    BY <1>5 DEF CheckMove, store, env
  <2>2. \A q \in Request : q # r => local'[q] = local[q]
    BY <1>1, <2>1
  <2>3. QED
    BY <1>2, <2>1, <2>2 DEF Unrecorded
<1>6. CASE Tick
  BY <1>1, <1>6 DEF Tick, Calm, store, logs
<1>7. CASE UNCHANGED vars
  BY <1>1, <1>7 DEF vars, Calm, logs
<1>8. QED
  BY <1>3, <1>4, <1>5, <1>6, <1>7 DEF Next, Step, Arrive

LEMMA ReplayNext ==
  ASSUME Exclusive, ReplayInv, [Next]_vars
  PROVE  ReplayInv'
<1>1. /\ SerialInv /\ SerialInv' /\ Typed /\ Typed'
      /\ Settled /\ EventsChain /\ StampsAscend
  BY SerialNext DEF ReplayInv, SerialInv, StageInv
<1>2. Settled' /\ EventsChain' /\ StampsAscend'
  <2>1. CASE Restart
    BY <1>1, <2>1, RestartKeeps
  <2>2. CASE Calm
    BY <1>1, <2>2, CalmKeeps
  <2>3. ASSUME NEW r \in Request, NEW s \in Session, CreateSession(r, s)
        PROVE  Settled' /\ EventsChain' /\ StampsAscend'
    BY <1>1, <2>3, CreateKeeps
  <2>4. ASSUME NEW r \in Request, WriteState(r)
        PROVE  Settled' /\ EventsChain' /\ StampsAscend'
    BY <1>1, <2>4, WriteKeeps
  <2>5. ASSUME NEW r \in Request, CountAndStamp(r)
        PROVE  Settled' /\ EventsChain' /\ StampsAscend'
    BY <1>1, <2>5, StampKeeps
  <2>6. ASSUME NEW r \in Request, LogEvent(r)
        PROVE  Settled' /\ EventsChain' /\ StampsAscend'
    BY <1>1, <2>6, LogEventKeeps
  <2>7. ASSUME NEW r \in Request, LogExperience(r) \/ LoseExperience(r) \/ Disconnect(r)
        PROVE  Settled' /\ EventsChain' /\ StampsAscend'
    BY <1>1, <2>7, AnswerKeeps
  <2>8. QED
    BY <1>1, <2>1, <2>2, <2>3, <2>4, <2>5, <2>6, <2>7, CalmSteps
<1>3. QED
  BY <1>1, <1>2 DEF ReplayInv

LEMMA TrajectoryNext ==
  ASSUME Exclusive, ~Postgres, TrajectoryInv, [Next]_vars
  PROVE  TrajectoryInv'
<1>1. /\ SerialInv /\ SerialInv' /\ Typed /\ Typed'
      /\ Settled /\ ExperiencesChain
  BY SerialNext DEF TrajectoryInv, SerialInv, StageInv
<1>2. Settled' /\ ExperiencesChain'
  <2>1. CASE Restart
    BY <1>1, <2>1, RestartKeeps
  <2>2. CASE Calm
    BY <1>1, <2>2, CalmKeeps
  <2>3. ASSUME NEW r \in Request, NEW s \in Session, CreateSession(r, s)
        PROVE  Settled' /\ ExperiencesChain'
    BY <1>1, <2>3, CreateKeeps
  <2>4. ASSUME NEW r \in Request, WriteState(r)
        PROVE  Settled' /\ ExperiencesChain'
    BY <1>1, <2>4, WriteKeeps
  <2>5. ASSUME NEW r \in Request, CountAndStamp(r)
        PROVE  Settled' /\ ExperiencesChain'
    BY <1>1, <2>5, StampKeeps
  <2>6. ASSUME NEW r \in Request, LogEvent(r)
        PROVE  Settled' /\ ExperiencesChain'
    BY <1>1, <2>6, LogEventKeeps
  <2>7. ASSUME NEW r \in Request, LogExperience(r)
        PROVE  Settled' /\ ExperiencesChain'
    BY <1>1, <2>7, AnswerKeeps, LogExperienceKeeps
  <2>8. \A r \in Request : ~LoseExperience(r) /\ ~Disconnect(r)
    BY DEF LoseExperience, Disconnect
  <2>9. QED
    BY <1>1, <2>1, <2>2, <2>3, <2>4, <2>5, <2>6, <2>7, <2>8, CalmSteps
<1>3. QED
  BY <1>1, <1>2 DEF TrajectoryInv

LEMMA LogsInit == Init => ReplayInv /\ TrajectoryInv
<1> SUFFICES ASSUME Init PROVE ReplayInv /\ TrajectoryInv
  OBVIOUS
<1>1. \A r \in Request : pc[r] \notin Unrecorded /\ pc[r] # "stamped"
  BY DEF Init, Unrecorded
<1>2. events = <<>> /\ experiences = <<>> /\ \A s \in Session : sessions[s] = None
  BY DEF Init
<1>3. Settled
  BY <1>1 DEF Settled
<1>4. EventsChain /\ StampsAscend /\ ExperiencesChain
  BY <1>1, <1>2 DEF EventsChain, StampsAscend, ExperiencesChain
<1>5. QED
  BY <1>3, <1>4, SerialInit DEF ReplayInv, TrajectoryInv

-----------------------------------------------------------------------------
(* Listing and trajectory *)

LEMMA DivMonotone ==
  ASSUME NEW a \in Nat, NEW b \in Nat, NEW n \in Nat \ {0}, a <= b
  PROVE  a \div n <= b \div n
<1> DEFINE x == a \div n
           y == b \div n
<1>1. x \in Nat /\ y \in Nat /\ n * x <= a /\ b < n * y + n
  BY DivBounds
<1> HIDE DEF x, y
<1>2. SUFFICES ASSUME y + 1 <= x PROVE FALSE
  BY <1>1 DEF x, y
<1>3. n * (y + 1) <= n * x
  BY <1>1, <1>2, TimesMonotone
<1>4. n * (y + 1) = n * y + n /\ n * y \in Nat /\ n * x \in Nat
  BY <1>1
<1>5. QED
  BY <1>1, <1>3, <1>4

\* In a session whose stamps ascend the listing is the log.
LEMMA ListedInLogOrder ==
  ASSUME Typed, StampsAscend, NEW i \in DOMAIN events, NEW j \in DOMAIN events,
         SameSession(events, i, j)
  PROVE  ListedBefore(i, j) <=> i < j
<1>1. /\ events[i].stamp \in Nat /\ events[j].stamp \in Nat
      /\ i \in Nat /\ j \in Nat
  <2>1. events[i] \in EventType /\ events[j] \in EventType /\ events \in Seq(EventType)
    BY DEF Typed, TypeOK
  <2>2. QED
    BY <2>1 DEF EventType
<1>2. TicksPerSecond \in Nat \ {0}
  BY ServiceAssumption
<1>3. Second(events[i]) \in Nat /\ Second(events[j]) \in Nat
  BY <1>1, <1>2, DivBounds DEF Second
<1>4. /\ i < j => Second(events[i]) <= Second(events[j])
      /\ j < i => Second(events[j]) <= Second(events[i])
  BY <1>1, <1>2, DivMonotone DEF StampsAscend, SameSession, Second
<1>5. QED
  BY <1>1, <1>3, <1>4 DEF ListedBefore

(* With exclusive clients the listing of a session, although it is sorted by
   whole seconds, replays the game: whatever other sessions do in between, and
   however long a handler takes from its write to its event. *)
THEOREM SerialListingReplays ==
  ASSUME Exclusive PROVE Spec => []ListingReplaysGame
<1>1. ReplayInv => ListingReplaysGame
  <2> SUFFICES ASSUME ReplayInv, NEW i \in DOMAIN events, NEW j \in DOMAIN events,
                      SameSession(events, i, j), ListedBefore(i, j)
               PROVE  \/ Transition(Target(events[i].action), Target(events[j].action))
                      \/ \E k \in DOMAIN events : /\ SameSession(events, i, k)
                                                 /\ ListedBefore(i, k)
                                                 /\ ListedBefore(k, j)
    BY DEF ListingReplaysGame
  <2>1. Typed /\ StampsAscend /\ EventsChain
    BY DEF ReplayInv, SerialInv, StageInv
  <2>2. i < j
    BY <2>1, ListedInLogOrder
  <2>3. ASSUME NEW k \in DOMAIN events, SameSession(events, i, k), i < k, k < j
        PROVE  ListedBefore(i, k) /\ ListedBefore(k, j)
    <3>1. SameSession(events, k, j)
      BY <2>3 DEF SameSession
    <3>2. QED
      BY <2>1, <2>3, <3>1, ListedInLogOrder
  <2>4. QED
    BY <2>1, <2>2, <2>3 DEF EventsChain
<1>2. ReplayInv /\ [Next]_vars => ReplayInv'
  BY ReplayNext
<1>3. QED
  BY LogsInit, <1>1, <1>2, PTL DEF Spec

\* A nonempty set of numbers has a least one and, within bounds, a greatest one.
LEMMA LeastOf ==
  ASSUME NEW T \in SUBSET Nat, T # {}
  PROVE  \E m \in T : \A k \in T : m <= k
<1> DEFINE R == OpToRel(<, Nat)
<1>1. IsWellFoundedOn(R, Nat)
  BY NatLessThanWellFounded, Zenon
<1>2. \A k, m \in T : k < m => <<k, m>> \in R
  BY DEF OpToRel
<1> HIDE DEF R
<1>3. PICK m \in T : \A k \in T : ~ (<<k, m>> \in R)
  BY <1>1, WFMin
<1>4. \A k \in T : ~ (k < m) /\ k \in Nat /\ m \in Nat
  BY <1>2, <1>3
<1>5. QED
  BY <1>4

LEMMA GreatestOf ==
  ASSUME NEW n \in Nat, NEW T \in SUBSET (0..n), T # {}
  PROVE  \E m \in T : \A k \in T : k <= m
<1> DEFINE gaps == {n - k : k \in T}
<1>1. gaps \in SUBSET Nat /\ gaps # {}
  <2>1. \A k \in T : k \in 0..n
    OBVIOUS
  <2>2. \A k \in T : n - k \in Nat
    BY <2>1
  <2>3. QED
    BY <2>2
<1>2. PICK g \in gaps : \A k \in gaps : g <= k
  BY <1>1, LeastOf
<1>3. QED
  BY <1>2

(* With exclusive clients and the store in memory the experiences of a session
   are one trajectory from Initialized to the state the session is in. *)
THEOREM SerialTrajectories ==
  ASSUME Exclusive, ~Postgres PROVE Spec => []ExperiencesFormTrajectory
<1>1. TrajectoryInv => ExperiencesFormTrajectory
  <2> SUFFICES ASSUME TrajectoryInv, NEW i \in DOMAIN experiences
               PROVE  LET e == experiences[i]
                          before == {j \in DOMAIN experiences : NextOfSession(j, i)}
                          after  == {j \in DOMAIN experiences : NextOfSession(i, j)}
                      IN  /\ before = {} => e.state = "Initialized"
                          /\ \A j \in before : experiences[j].next = e.state
                          /\ after = {} /\ Quiet => sessions[e.session] = e.next
    BY DEF ExperiencesFormTrajectory
  <2>1. ExperiencesChain /\ experiences \in Seq(ExperienceType)
    BY DEF TrajectoryInv, SerialInv, StageInv, Typed, TypeOK
  <2>2. PICK n \in Nat : DOMAIN experiences = 1..n
    BY <2>1
  <2>3. i \in Nat
    BY <2>2
  <2>4. ASSUME \A j \in DOMAIN experiences : ~NextOfSession(j, i)
        PROVE  experiences[i].state = "Initialized"
    <3> DEFINE T == {j \in DOMAIN experiences : SameSession(experiences, i, j) /\ j < i}
    <3>1. T = {}
      <4>1. SUFFICES ASSUME T # {} PROVE FALSE
        OBVIOUS
      <4>2. T \in SUBSET (0..n)
        BY <2>2
      <4>3. PICK m \in T : \A k \in T : k <= m
        BY <4>1, <4>2, GreatestOf
      <4>4. \A k \in (m + 1)..(i - 1) : k \in DOMAIN experiences /\ ~(k <= m) /\ k < i
        BY <2>2, <4>3
      <4>5. NextOfSession(m, i)
        BY <4>3, <4>4 DEF NextOfSession, SameSession
      <4>6. QED
        BY <2>4, <4>5
    <3>2. QED
      BY <2>1, <3>1 DEF ExperiencesChain
  <2>5. ASSUME \A j \in DOMAIN experiences : ~NextOfSession(i, j), Quiet
        PROVE  sessions[experiences[i].session] = experiences[i].next
    <3> DEFINE T == {j \in DOMAIN experiences : SameSession(experiences, i, j) /\ i < j}
    <3>1. T = {}
      <4>1. SUFFICES ASSUME T # {} PROVE FALSE
        OBVIOUS
      <4>2. T \in SUBSET Nat
        BY <2>2
      <4>3. PICK m \in T : \A k \in T : m <= k
        BY <4>1, <4>2, LeastOf
      <4>4. \A k \in (i + 1)..(m - 1) : k \in DOMAIN experiences /\ ~(m <= k) /\ i < k
        BY <2>2, <4>3
      <4>5. NextOfSession(i, m)
        BY <4>3, <4>4 DEF NextOfSession, SameSession
      <4>6. QED
        BY <2>5, <4>5
    <3>2. \A j \in DOMAIN experiences : SameSession(experiences, i, j) => j <= i
      BY <2>2, <3>1
    <3>3. Awaits(Unrecorded, experiences[i].session, experiences[i].next)
      BY <2>1, <3>2 DEF ExperiencesChain, LastOfSession
    <3>4. \A r \in Request : ~Pending(Unrecorded, r, experiences[i].session)
      BY <2>5, UnloggedPoints DEF Quiet, Pending
    <3>5. QED
      BY <3>3, <3>4 DEF Awaits
  <2>6. QED
    BY <2>1, <2>4, <2>5 DEF ExperiencesChain
<1>2. TrajectoryInv /\ [Next]_vars => TrajectoryInv'
  BY TrajectoryNext
<1>3. QED
  BY LogsInit, <1>1, <1>2, PTL DEF Spec
=============================================================================
