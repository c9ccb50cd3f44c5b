----------------------------- MODULE RateLimiter -----------------------------
(***************************************************************************)
(* The fixed-window rate limiter of controller/src/ratelimit.rs and the    *)
(* middleware of cli/src/server.rs that asks it: a check under the write   *)
(* lock, and for a refused request a second, separate acquisition of the   *)
(* lock that computes the Retry-After header.  Clients run concurrently    *)
(* and some of them share a key.  A refused client waits as long as the    *)
(* header says and then repeats its request.                               *)
(***************************************************************************)
EXTENDS Integers, Sequences

CONSTANTS
  Client,          \* concurrent callers of the API
  Key,             \* values of the Authorization header
  None,            \* no value
  MaxRequests,     \* RATE_LIMIT_RPM
  WindowSeconds,   \* the window: 60 in app_state.rs
  TicksPerSecond,  \* clock ticks in one second
  MaxClock         \* bound: last tick of the clock

ASSUME LimiterAssumption ==
  /\ None \notin Key \cup [start : Nat, count : Nat]
  /\ MaxRequests \in Nat
  /\ WindowSeconds \in Nat \ {0}
  /\ TicksPerSecond \in Nat \ {0}
  /\ MaxClock \in Nat

VARIABLES
  windows,   \* RateLimiter.inner: per key None or (start, count)
  now,       \* the monotonic clock, in ticks
  client,    \* what each caller is doing
  admitted   \* history: per key the admitted requests, in order

vars == <<windows, now, client, admitted>>

Window == WindowSeconds * TicksPerSecond

Idle == [at |-> "idle", key |-> None, due |-> 0, mark |-> 0]

Init ==
  /\ windows = [k \in Key |-> None]
  /\ now = 0
  /\ client = [c \in Client |-> Idle]
  /\ admitted = [k \in Key |-> <<>>]

-----------------------------------------------------------------------------
(* RateLimiter::check *)

\* The entry the check looks at, inserted when the key is new.
Entry(k) ==
  IF windows[k] = None THEN [start |-> now, count |-> 0] ELSE windows[k]

\* Mutant: a window lasts a tick less than it should.
ExpiredEarly(k) == now - Entry(k).start >= Window - 1

Expired(k) == now - Entry(k).start >= Window

Full(k) == Entry(k).count >= MaxRequests

\* A client asks first when it is idle, or again after the time it was told.
Asks(c, k) ==
  \/ client[c].at = "idle"
  \/ /\ client[c].at = "waiting"
     /\ client[c].key = k
     /\ now >= client[c].due

\* The request goes through to its handler, in the window starting at start.
Admit(c, k, start) ==
  /\ admitted' = [admitted EXCEPT
                    ![k] = Append(@, [at |-> now, start |-> start])]
  /\ client' = [client EXCEPT ![c] = Idle]
  /\ UNCHANGED now

\* The window is over: a new one starts with this request.
AdmitInNewWindow(c, k) ==
  /\ Asks(c, k)
  /\ Expired(k)
  /\ windows' = [windows EXCEPT ![k] = [start |-> now, count |-> 1]]
  /\ Admit(c, k, now)

\* Mutant: the request is let through without being counted.
AdmitInWindowUncounted(c, k) ==
  /\ Asks(c, k)
  /\ ~Expired(k)
  /\ ~Full(k)
  /\ windows' = [windows EXCEPT ![k] = Entry(k)]
  /\ Admit(c, k, Entry(k).start)

AdmitInWindow(c, k) ==
  /\ Asks(c, k)
  /\ ~Expired(k)
  /\ ~Full(k)
  /\ windows' = [windows EXCEPT
       ![k] = [start |-> Entry(k).start, count |-> Entry(k).count + 1]]
  /\ Admit(c, k, Entry(k).start)

Refuse(c, k) ==
  /\ Asks(c, k)
  /\ ~Expired(k)
  /\ Full(k)
  /\ windows' = [windows EXCEPT ![k] = Entry(k)]
  /\ client' = [client EXCEPT ![c] =
       [at |-> "refused", key |-> k, due |-> 0, mark |-> Len(admitted[k])]]
  /\ UNCHANGED <<now, admitted>>

-----------------------------------------------------------------------------
(* RateLimiter::retry_after_seconds *)

\* Mutant: elapsed time rounded up.
SecondsLeftRoundedUp(k) ==
  LET left == WindowSeconds
              - ((now - windows[k].start + TicksPerSecond - 1) \div TicksPerSecond)
  IN  IF left > 1 THEN left ELSE 1

\* Elapsed time is truncated to whole seconds, the answer is at least one.
SecondsLeft(k) ==
  LET left == WindowSeconds - ((now - windows[k].start) \div TicksPerSecond)
  IN  IF left > 1 THEN left ELSE 1

\* Another caller may have changed the entry since the refusal.
RetryAfter(k) ==
  IF windows[k].count >= MaxRequests /\ now - windows[k].start < Window
  THEN SecondsLeft(k) ELSE 1

\* Mutant: the header is left out.
AnswerRefusedBare(c) ==
  /\ client[c].at = "refused"
  /\ client' = [client EXCEPT ![c].at = "waiting", ![c].due = None]
  /\ UNCHANGED <<windows, now, admitted>>

\* The 429 answer with its Retry-After header.
AnswerRefused(c) ==
  /\ client[c].at = "refused"
  /\ client' = [client EXCEPT
       ![c].at = "waiting",
       ![c].due = now + RetryAfter(client[c].key) * TicksPerSecond]
  /\ UNCHANGED <<windows, now, admitted>>

Tick ==
  /\ now < MaxClock
  /\ now' = now + 1
  /\ UNCHANGED <<windows, client, admitted>>

Next ==
  \/ \E c \in Client, k \in Key :
       AdmitInNewWindow(c, k) \/ AdmitInWindow(c, k) \/ Refuse(c, k)
  \/ \E c \in Client : AnswerRefused(c)
  \/ Tick

Spec == Init /\ [][Next]_vars

-----------------------------------------------------------------------------
(* Properties *)

WindowType == [start : Nat, count : Nat]

ClientType ==
  [at : {"idle", "refused", "waiting"}, key : Key \cup {None},
   due : Nat, mark : Nat]

TypeOK ==
  /\ windows \in [Key -> WindowType \cup {None}]
  /\ now \in Nat
  /\ client \in [Client -> ClientType]
  /\ admitted \in [Key -> Seq([at : Nat, start : Nat])]

\* The most a window really admits: a window opened by expiry always admits
\* the request that opens it.
Cap == IF MaxRequests = 0 THEN 1 ELSE MaxRequests

\* Of any n + 1 consecutive admissions for a key, the last comes later than
\* the window allows for the first.
Spread(n) ==
  \A k \in Key : \A i \in DOMAIN admitted[k] :
    i + n \in DOMAIN admitted[k] =>
      admitted[k][i + n].at > admitted[k][i].at + Window

(* Whenever the windows of a key start, and whoever else uses the key, no span
   of time as long as a window sees more than twice the configured number of
   requests for it. *)
AtMostTwoWindowsWorth == Spread(2 * Cap)

(* The count the limiter keeps is the number of requests it has let through
   since the window began: these are the last ones, and no others are. *)
CountIsExact ==
  \A k \in Key : windows[k] # None =>
    /\ windows[k].count <= Len(admitted[k])
    /\ \A i \in DOMAIN admitted[k] :
         admitted[k][i].at >= windows[k].start
           <=> i > Len(admitted[k]) - windows[k].count

(* A client that waits as long as its Retry-After header says is refused again
   only if the limiter has let another request for the key through since,
   although the header is computed under a later lock than the refusal. *)
RetryAfterHonest ==
  [][\A c \in Client :
       client[c].at = "waiting" /\ client'[c].at = "refused" =>
         client'[c].mark > client[c].mark]_vars
=============================================================================
