------------------------- MODULE RateLimiterProofs --------------------------
(***************************************************************************)
(* Theorems about RateLimiter for any sets of clients and keys, any limit, *)
(* window and resolution of the clock.                                     *)
(***************************************************************************)
EXTENDS RateLimiter, TLAPS

LEMMA Constants ==
  /\ MaxRequests \in Nat
  /\ Cap \in Nat \ {0}
  /\ Window \in Nat \ {0}
  /\ MaxRequests <= Cap
  /\ None \notin WindowType
BY LimiterAssumption DEF Cap, Window, WindowType

-----------------------------------------------------------------------------
(* Type correctness *)

\* A client that is not idle has a key the limiter knows.
KeysKnown ==
  \A c \in Client : client[c].at # "idle" =>
    client[c].key \in Key /\ windows[client[c].key] # None

\* No window starts in the future: the clock is monotonic.
Started ==
  \A k \in Key : windows[k] # None => windows[k].start <= now

Typed == TypeOK /\ KeysKnown /\ Started

LEMMA TypedInit == Init => Typed
BY LimiterAssumption
   DEF Init, Typed, TypeOK, KeysKnown, Started, Idle, ClientType, WindowType

LEMMA EntryType ==
  ASSUME Typed, NEW k \in Key
  PROVE  /\ Entry(k) \in WindowType
         /\ Entry(k).start <= now
BY DEF Typed, TypeOK, Started, Entry, WindowType

\* What a check that lets a request through does to the limiter.
Admitted(c, k, start, count) ==
  /\ Admit(c, k, start)
  /\ windows' = [windows EXCEPT ![k] = [start |-> start, count |-> count]]

LEMMA Admissions ==
  ASSUME Typed, NEW c \in Client, NEW k \in Key,
         AdmitInNewWindow(c, k) \/ AdmitInWindow(c, k)
  PROVE  \E start, count \in Nat :
           /\ Admitted(c, k, start, count)
           /\ start <= now /\ now < start + Window
           /\ \/ start >= Entry(k).start + Window /\ count = 1
              \/ /\ start = Entry(k).start
                 /\ count = Entry(k).count + 1
                 /\ count <= Cap
<1>1. /\ Entry(k).start \in Nat /\ Entry(k).count \in Nat
      /\ now \in Nat
  BY EntryType DEF WindowType, Typed, TypeOK
<1>2. CASE AdmitInNewWindow(c, k)
  <2>1. /\ Admitted(c, k, now, 1)
        /\ now >= Entry(k).start + Window
    BY <1>1, <1>2, Constants DEF AdmitInNewWindow, Admitted, Expired
  <2>2. QED
    BY <1>1, <2>1, Constants
<1>3. CASE AdmitInWindow(c, k)
  <2> DEFINE e == Entry(k)
  <2>1. /\ Admitted(c, k, e.start, e.count + 1)
        /\ ~(now - e.start >= Window)
        /\ ~(e.count >= MaxRequests)
    BY <1>3 DEF AdmitInWindow, Admitted, Expired, Full
  <2>2. e.start <= now
    BY EntryType
  <2>3. QED
    BY <1>1, <2>1, <2>2, Constants
<1>4. QED
  BY <1>2, <1>3

LEMMA RetryAfterType ==
  ASSUME Typed, NEW k \in Key, windows[k] # None
  PROVE  RetryAfter(k) \in Nat \ {0}
<1> DEFINE e == now - windows[k].start
<1>1. e \in Nat /\ windows[k].count \in Nat
  BY DEF Typed, TypeOK, Started, WindowType
<1>2. WindowSeconds \in Nat /\ TicksPerSecond \in Nat \ {0}
  BY LimiterAssumption
<1>3. e \div TicksPerSecond \in Nat
  BY <1>1, <1>2
<1>4. SecondsLeft(k) \in Nat \ {0}
  BY <1>2, <1>3 DEF SecondsLeft
<1>5. QED
  BY <1>4 DEF RetryAfter

LEMMA TypedNext == Typed /\ [Next]_vars => Typed'
<1> SUFFICES ASSUME Typed, [Next]_vars
             PROVE  Typed'
  OBVIOUS
<1> USE DEF Typed
<1>1. ASSUME NEW c \in Client, NEW k \in Key,
             AdmitInNewWindow(c, k) \/ AdmitInWindow(c, k)
      PROVE  Typed'
  <2>1. PICK start \in Nat, count \in Nat :
          Admitted(c, k, start, count) /\ start <= now
    BY <1>1, Admissions
  <2> DEFINE w == [start |-> start, count |-> count]
  <2>2. w \in WindowType /\ w # None
    BY Constants DEF WindowType
  <2>3. UNCHANGED now
    BY <2>1 DEF Admitted, Admit
  <2>4. windows' \in [Key -> WindowType \cup {None}]
    BY <2>1, <2>2 DEF Admitted, TypeOK
  <2>5. client' = [client EXCEPT ![c] = Idle]
    BY <2>1 DEF Admitted, Admit
  <2>6. client' \in [Client -> ClientType]
    BY <2>5 DEF TypeOK, ClientType, Idle
  <2>7. admitted' \in [Key -> Seq([at : Nat, start : Nat])]
    BY <2>1 DEF Admitted, Admit, TypeOK
  <2>8. KeysKnown'
    BY <2>1, <2>2, <2>5 DEF KeysKnown, Idle, TypeOK, Admitted
  <2>9. Started'
    BY <2>1, <2>2, <2>3 DEF Started, TypeOK, Admitted
  <2>10. QED
    BY <2>3, <2>4, <2>6, <2>7, <2>8, <2>9 DEF TypeOK
<1>2. ASSUME NEW c \in Client, NEW k \in Key, Refuse(c, k)
      PROVE  Typed'
  <2> DEFINE x == [at |-> "refused", key |-> k, due |-> 0,
                   mark |-> Len(admitted[k])]
  <2>1. /\ windows' = [windows EXCEPT ![k] = Entry(k)]
        /\ client' = [client EXCEPT ![c] = x]
        /\ UNCHANGED <<now, admitted>>
    BY <1>2 DEF Refuse
  <2>2. /\ Entry(k) \in WindowType /\ Entry(k) # None
        /\ Entry(k).start <= now
    BY EntryType, Constants
  <2>3. x \in ClientType
    BY DEF TypeOK, ClientType
  <2>4. TypeOK'
    BY <2>1, <2>2, <2>3 DEF TypeOK
  <2>5. KeysKnown'
    BY <2>1, <2>2 DEF KeysKnown, TypeOK
  <2>6. Started'
    BY <2>1, <2>2 DEF Started, TypeOK
  <2>7. QED
    BY <2>4, <2>5, <2>6
<1>3. ASSUME NEW c \in Client, AnswerRefused(c)
      PROVE  Typed'
  <2> DEFINE d == now + RetryAfter(client[c].key) * TicksPerSecond
  <2>1. /\ client[c].at = "refused"
        /\ client' = [client EXCEPT ![c].at = "waiting", ![c].due = d]
        /\ UNCHANGED <<windows, now, admitted>>
    BY <1>3 DEF AnswerRefused
  <2>2. client[c].key \in Key /\ windows[client[c].key] # None
    BY <2>1 DEF KeysKnown
  <2>3. d \in Nat
    BY <2>2, RetryAfterType, LimiterAssumption DEF TypeOK
  <2> HIDE DEF d
  <2>4. client' \in [Client -> ClientType]
    <3>1. client \in [Client -> ClientType]
      BY DEF TypeOK
    <3>2. [client[c] EXCEPT !.at = "waiting", !.due = d] \in ClientType
      BY <2>3, <3>1 DEF ClientType
    <3>3. client' = [client EXCEPT ![c] = [client[c] EXCEPT !.at = "waiting", !.due = d]]
      BY <2>1, <3>1 DEF ClientType
    <3>4. QED
      BY <3>1, <3>2, <3>3
  <2>5. \A q \in Client : client'[q].key = client[q].key
    BY <2>1 DEF TypeOK, ClientType
  <2>6. \A q \in Client : client'[q].at # "idle" => client[q].at # "idle"
    BY <2>1 DEF TypeOK, ClientType
  <2>7. KeysKnown'
    BY <2>1, <2>5, <2>6 DEF KeysKnown
  <2>8. QED
    BY <2>1, <2>4, <2>7 DEF TypeOK, Started
<1>4. CASE Tick
  BY <1>4 DEF Tick, TypeOK, KeysKnown, Started, WindowType
<1>5. CASE UNCHANGED vars
  BY <1>5 DEF vars, TypeOK, KeysKnown, Started
<1>6. QED
  BY <1>1, <1>2, <1>3, <1>4, <1>5 DEF Next

(* The limiter's counters, the clients' deadlines and the history have their
   types in every reachable state. *)
THEOREM TypeCorrect == Spec => []TypeOK
<1>1. Typed => TypeOK
  BY DEF Typed
<1>2. QED
  BY TypedInit, TypedNext, <1>1, PTL DEF Spec

-----------------------------------------------------------------------------
(* At most two windows' worth *)

Entries == [at : Nat, start : Nat]

\* How a log L of admissions looks when the current window started at start
\* and has admitted count of them: each request lies in its window, the last
\* count requests are in the current one, earlier ones in windows that ended
\* before it, and no window holds more than Cap.
LogOK(L, start, count) ==
  /\ count <= Cap
  /\ count <= Len(L)
  /\ \A i \in DOMAIN L :
       /\ L[i].start <= L[i].at
       /\ L[i].at < L[i].start + Window
       /\ IF i > Len(L) - count THEN L[i].start = start
          ELSE L[i].start + Window <= start
  /\ \A i \in DOMAIN L : i + Cap \in DOMAIN L =>
       L[i].start + Window <= L[i + Cap].start

\* One more request keeps a log well-formed, whether it is counted in the
\* current window or opens a later one.
LEMMA LogGrows ==
  ASSUME NEW L \in Seq(Entries), NEW start \in Nat, NEW count \in Nat,
         LogOK(L, start, count),
         NEW t \in Nat, NEW s \in Nat, NEW n \in Nat,
         s <= t, t < s + Window,
         \/ s >= start + Window /\ n = 1
         \/ s = start /\ n = count + 1 /\ n <= Cap
  PROVE  LogOK(Append(L, [at |-> t, start |-> s]), s, n)
<1> DEFINE e == [at |-> t, start |-> s]
           M == Append(L, e)
<1>1. /\ Cap \in Nat \ {0} /\ Window \in Nat \ {0}
      /\ Len(L) \in Nat /\ DOMAIN L = 1..Len(L)
  BY Constants
<1>2. /\ Len(M) = Len(L) + 1
      /\ DOMAIN M = 1..(Len(L) + 1)
      /\ \A i \in 1..Len(L) : M[i] = L[i]
      /\ M[Len(L) + 1] = e
      /\ e.at = t /\ e.start = s
  BY <1>1
<1>3. \A i \in 1..Len(L) : L[i].start \in Nat /\ L[i].at \in Nat
  <2>1. \A i \in 1..Len(L) : L[i] \in Entries
    OBVIOUS
  <2>2. QED
    BY <2>1 DEF Entries
<1>4. /\ count <= Cap /\ count <= Len(L)
      /\ \A i \in 1..Len(L) :
           /\ L[i].start <= L[i].at
           /\ L[i].at < L[i].start + Window
           /\ i > Len(L) - count => L[i].start = start
           /\ ~(i > Len(L) - count) => L[i].start + Window <= start
      /\ \A i \in 1..Len(L) : i + Cap \in 1..Len(L) =>
           L[i].start + Window <= L[i + Cap].start
  BY <1>1 DEF LogOK
<1> HIDE DEF M, e
<1>5. n <= Cap /\ n <= Len(M)
  BY <1>1, <1>2, <1>4
<1>6. ASSUME NEW i \in DOMAIN M
      PROVE  /\ M[i].start <= M[i].at
             /\ M[i].at < M[i].start + Window
             /\ IF i > Len(M) - n THEN M[i].start = s
                ELSE M[i].start + Window <= s
  <2>1. CASE i = Len(L) + 1
    BY <1>1, <1>2, <2>1
  <2>2. CASE i \in 1..Len(L)
    <3>1. M[i] = L[i] /\ i \in Nat /\ i <= Len(L)
      BY <1>1, <1>2, <2>2
    <3>2. /\ L[i].start <= L[i].at
          /\ L[i].at < L[i].start + Window
          /\ L[i].start \in Nat
      BY <1>3, <1>4, <2>2
    <3>3. CASE i > Len(L) - count
      <4>1. L[i].start = start
        BY <1>4, <2>2, <3>3
      <4>2. CASE s >= start + Window /\ n = 1
        <5>1. ~(i > Len(M) - n) /\ start + Window <= s
          BY <1>1, <1>2, <3>1, <4>2
        <5> QED
          BY <3>1, <3>2, <4>1, <5>1
      <4>3. CASE s = start /\ n = count + 1
        <5>1. i > Len(M) - n
          BY <1>1, <1>2, <3>1, <3>3, <4>3
        <5> QED
          BY <3>1, <3>2, <4>1, <4>3, <5>1
      <4> QED
        BY <4>2, <4>3
    <3>4. CASE ~(i > Len(L) - count)
      <4>1. L[i].start + Window <= start
        BY <1>4, <2>2, <3>4
      <4>2. L[i].start + Window <= s
        BY <1>1, <3>2, <4>1
      <4>3. ~(i > Len(M) - n)
        BY <1>1, <1>2, <3>1, <3>4
      <4> QED
        BY <3>1, <3>2, <4>2, <4>3
    <3> QED
      BY <3>3, <3>4
  <2>3. QED
    BY <1>1, <1>2, <2>1, <2>2
<1>7. ASSUME NEW i \in DOMAIN M, i + Cap \in DOMAIN M
      PROVE  M[i].start + Window <= M[i + Cap].start
  <2>1. CASE i + Cap = Len(L) + 1
    <3>1. i \in 1..Len(L) /\ M[i] = L[i] /\ M[i + Cap].start = s
      BY <1>1, <1>2, <2>1
    <3>2. CASE s = start /\ n = count + 1 /\ n <= Cap
      <4>1. ~(i > Len(L) - count)
        BY <1>1, <2>1, <3>1, <3>2
      <4>2. L[i].start + Window <= start
        BY <1>4, <3>1, <4>1
      <4>3. QED
        BY <3>1, <3>2, <4>2
    <3>3. CASE s >= start + Window /\ n = 1
      <4>1. L[i].start = start \/ L[i].start + Window <= start
        BY <1>4, <3>1
      <4>2. L[i].start \in Nat
        BY <1>3, <3>1
      <4>3. L[i].start + Window <= s
        BY <1>1, <3>3, <4>1, <4>2
      <4>4. QED
        BY <3>1, <4>3
    <3>4. QED
      BY <3>2, <3>3
  <2>2. CASE i + Cap \in 1..Len(L)
    <3>1. i \in 1..Len(L)
      BY <1>1, <1>2, <1>7, <2>2
    <3>2. M[i] = L[i] /\ M[i + Cap] = L[i + Cap]
      BY <1>2, <2>2, <3>1
    <3>3. L[i].start + Window <= L[i + Cap].start
      BY <1>4, <2>2, <3>1
    <3> QED
      BY <3>2, <3>3
  <2>3. i \in 1..(Len(L) + 1) /\ i + Cap \in 1..(Len(L) + 1)
    BY <1>2, <1>7
  <2>4. QED
    BY <1>1, <2>1, <2>2, <2>3
<1>8. LogOK(M, s, n)
  BY <1>5, <1>6, <1>7 DEF LogOK
<1>9. QED
  BY <1>8 DEF M, e

LEMMA Chain ==
  ASSUME NEW a \in Nat, NEW b \in Nat, NEW c \in Nat, NEW p \in Nat,
         NEW q \in Nat, NEW w \in Nat,
         p < a + w, a + w <= b, b + w <= c, c <= q
  PROVE  q > p + w
OBVIOUS

\* Two windows of admissions span more than a window's length.
LEMMA LogSpread ==
  ASSUME NEW L \in Seq(Entries), NEW start \in Nat, NEW count \in Nat,
         LogOK(L, start, count),
         NEW i \in DOMAIN L, i + 2 * Cap \in DOMAIN L
  PROVE  L[i + 2 * Cap].at > L[i].at + Window
<1>1. /\ Cap \in Nat \ {0} /\ Window \in Nat \ {0}
      /\ Len(L) \in Nat /\ DOMAIN L = 1..Len(L)
  BY Constants
<1> DEFINE j == i + Cap
           m == i + 2 * Cap
<1>2. i \in 1..Len(L) /\ j \in 1..Len(L) /\ m \in 1..Len(L) /\ m = j + Cap
  BY <1>1
<1>3. \A q \in 1..Len(L) : L[q].start \in Nat /\ L[q].at \in Nat
  <2>1. \A q \in 1..Len(L) : L[q] \in Entries
    OBVIOUS
  <2>2. QED
    BY <2>1 DEF Entries
<1>4. \A q \in DOMAIN L : q + Cap \in DOMAIN L =>
        L[q].start + Window <= L[q + Cap].start
  BY DEF LogOK
<1> HIDE DEF j, m
<1>5. L[j].start + Window <= L[m].start
  BY <1>1, <1>2, <1>4
<1>6. L[i].start + Window <= L[j].start
  BY <1>1, <1>2, <1>4 DEF j
<1>7. L[m].start <= L[m].at /\ L[i].at < L[i].start + Window
  BY <1>1, <1>2 DEF LogOK
<1>8. L[m].at > L[i].at + Window
  <2>1. /\ L[i].start \in Nat /\ L[j].start \in Nat /\ L[m].start \in Nat
        /\ L[i].at \in Nat /\ L[m].at \in Nat
    BY <1>2, <1>3
  <2>2. QED
    BY <1>1, <1>5, <1>6, <1>7, <2>1, Chain
<1>9. QED
  BY <1>8 DEF m

\* Each key's log is well-formed for the window the limiter keeps.
WindowInv ==
  /\ Typed
  /\ \A k \in Key :
       /\ windows[k] = None => admitted[k] = <<>>
       /\ LogOK(admitted[k], Entry(k).start, Entry(k).count)

LEMMA WindowInit == Init => WindowInv
<1> SUFFICES ASSUME Init, NEW k \in Key
             PROVE  /\ admitted[k] = <<>>
                    /\ LogOK(admitted[k], Entry(k).start, Entry(k).count)
  BY TypedInit DEF WindowInv
<1>1. /\ admitted[k] = <<>>
      /\ Entry(k) = [start |-> 0, count |-> 0]
  BY DEF Init, Entry
<1>2. QED
  BY <1>1, Constants DEF LogOK

LEMMA WindowNext == WindowInv /\ [Next]_vars => WindowInv'
<1> SUFFICES ASSUME WindowInv, [Next]_vars, NEW k \in Key
             PROVE  /\ windows'[k] = None => admitted'[k] = <<>>
                    /\ LogOK(admitted'[k], Entry(k)'.start, Entry(k)'.count)
  BY TypedNext DEF WindowInv
<1>1. Typed /\ Typed'
  BY TypedNext DEF WindowInv
<1>2. /\ windows[k] = None => admitted[k] = <<>>
      /\ LogOK(admitted[k], Entry(k).start, Entry(k).count)
  BY DEF WindowInv
<1>3. admitted[k] \in Seq(Entries)
  BY <1>1 DEF Typed, TypeOK, Entries
<1>4. Entry(k) \in WindowType
  BY <1>1, EntryType
\* An entry that exists stays as it is unless a check writes it.
<1>5. ASSUME UNCHANGED admitted, windows'[k] = windows[k]
      PROVE  /\ windows'[k] = None => admitted'[k] = <<>>
             /\ LogOK(admitted'[k], Entry(k)'.start, Entry(k)'.count)
  <2>1. CASE windows[k] = None
    BY <1>2, <1>5, <2>1, Constants DEF Entry, LogOK
  <2>2. CASE windows[k] # None
    <3>1. Entry(k)' = Entry(k)
      BY <1>5, <2>2 DEF Entry
    <3>2. QED
      BY <1>2, <1>5, <2>2, <3>1
  <2>3. QED
    BY <2>1, <2>2
<1>6. ASSUME NEW c \in Client, NEW key \in Key,
             AdmitInNewWindow(c, key) \/ AdmitInWindow(c, key)
      PROVE  /\ windows'[k] = None => admitted'[k] = <<>>
             /\ LogOK(admitted'[k], Entry(k)'.start, Entry(k)'.count)
  <2>1. PICK start \in Nat, count \in Nat :
           /\ Admitted(c, key, start, count)
           /\ start <= now /\ now < start + Window
           /\ \/ start >= Entry(key).start + Window /\ count = 1
              \/ /\ start = Entry(key).start
                 /\ count = Entry(key).count + 1
                 /\ count <= Cap
    BY <1>1, <1>6, Admissions
  <2> DEFINE w == [start |-> start, count |-> count]
  <2>2. /\ windows' = [windows EXCEPT ![key] = w]
        /\ admitted' = [admitted EXCEPT
                          ![key] = Append(@, [at |-> now, start |-> start])]
    BY <2>1 DEF Admitted, Admit
  <2>3. w # None
    BY Constants DEF WindowType
  <2>4. CASE k = key
    <3>1. /\ windows'[k] = w
          /\ admitted'[k] = Append(admitted[k], [at |-> now, start |-> start])
      BY <1>1, <2>2, <2>4 DEF Typed, TypeOK
    <3>2. Entry(k)' = w
      BY <2>3, <3>1 DEF Entry
    <3>3. now \in Nat /\ Entry(k).start \in Nat /\ Entry(k).count \in Nat
      BY <1>1, <1>4 DEF Typed, TypeOK, WindowType
    <3>4. LogOK(Append(admitted[k], [at |-> now, start |-> start]), start, count)
      BY <1>2, <1>3, <2>1, <2>4, <3>3, LogGrows
    <3>5. QED
      BY <2>3, <3>1, <3>2, <3>4
  <2>5. CASE k # key
    <3>1. windows'[k] = windows[k] /\ admitted'[k] = admitted[k]
      BY <1>1, <2>2, <2>5 DEF Typed, TypeOK
    <3>2. UNCHANGED now
      BY <2>1 DEF Admitted, Admit
    <3>3. Entry(k)' = Entry(k)
      BY <3>1, <3>2 DEF Entry
    <3>4. QED
      BY <1>2, <3>1, <3>3
  <2>6. QED
    BY <2>4, <2>5
<1>7. ASSUME NEW c \in Client, NEW key \in Key, Refuse(c, key)
      PROVE  /\ windows'[k] = None => admitted'[k] = <<>>
             /\ LogOK(admitted'[k], Entry(k)'.start, Entry(k)'.count)
  <2>1. /\ windows' = [windows EXCEPT ![key] = Entry(key)]
        /\ UNCHANGED <<now, admitted>>
    BY <1>7 DEF Refuse
  <2>2. CASE k = key
    <3>1. windows'[k] = Entry(k) /\ Entry(k) # None
      BY <1>1, <1>4, <2>1, <2>2, Constants DEF Typed, TypeOK
    <3>2. Entry(k)' = Entry(k)
      BY <3>1 DEF Entry
    <3>3. QED
      BY <1>2, <2>1, <3>1, <3>2
  <2>3. CASE k # key
    <3>1. windows'[k] = windows[k]
      BY <1>1, <2>1, <2>3 DEF Typed, TypeOK
    <3>2. QED
      BY <1>5, <2>1, <3>1
  <2>4. QED
    BY <2>2, <2>3
<1>8. ASSUME NEW c \in Client, AnswerRefused(c)
      PROVE  /\ windows'[k] = None => admitted'[k] = <<>>
             /\ LogOK(admitted'[k], Entry(k)'.start, Entry(k)'.count)
  BY <1>5, <1>8 DEF AnswerRefused
<1>9. CASE Tick
  BY <1>5, <1>9 DEF Tick
<1>10. CASE UNCHANGED vars
  BY <1>5, <1>10 DEF vars
<1>11. QED
  BY <1>6, <1>7, <1>8, <1>9, <1>10 DEF Next

(* Whatever the limit, the window and the number of callers that share a key,
   no span of a window's length sees more than twice the limit for it. *)
THEOREM TwoWindowsWorth == Spec => []AtMostTwoWindowsWorth
<1>1. WindowInv => AtMostTwoWindowsWorth
  <2> SUFFICES ASSUME WindowInv, NEW k \in Key, NEW i \in DOMAIN admitted[k],
                      i + 2 * Cap \in DOMAIN admitted[k]
               PROVE  admitted[k][i + 2 * Cap].at > admitted[k][i].at + Window
    BY DEF AtMostTwoWindowsWorth, Spread
  <2>1. /\ admitted[k] \in Seq(Entries)
        /\ Entry(k).start \in Nat /\ Entry(k).count \in Nat
        /\ LogOK(admitted[k], Entry(k).start, Entry(k).count)
    BY EntryType DEF WindowInv, Typed, TypeOK, Entries, WindowType
  <2>2. QED
    BY <2>1, LogSpread
<1>2. QED
  BY WindowInit, WindowNext, <1>1, PTL DEF Spec

(* Whoever shares a key and whenever windows end, the limiter has counted exactly
   the requests it let through since the current window began. *)
THEOREM CountsAreExact == Spec => []CountIsExact
<1>1. WindowInv => CountIsExact
  <2> SUFFICES ASSUME WindowInv, NEW k \in Key, windows[k] # None
               PROVE  /\ windows[k].count <= Len(admitted[k])
                      /\ \A i \in DOMAIN admitted[k] :
                           admitted[k][i].at >= windows[k].start
                             <=> i > Len(admitted[k]) - windows[k].count
    BY DEF CountIsExact
  <2> DEFINE L == admitted[k]
             start == windows[k].start
             count == windows[k].count
  <2>1. L \in Seq(Entries) /\ start \in Nat /\ count \in Nat
    BY DEF WindowInv, Typed, TypeOK, Entries, WindowType
  <2>2. LogOK(L, start, count)
    BY DEF WindowInv, Entry
  <2> HIDE DEF L, start, count
  <2>3. count <= Len(L)
    BY <2>2 DEF LogOK
  <2>4. ASSUME NEW i \in DOMAIN L
        PROVE  L[i].at >= start <=> i > Len(L) - count
    <3>1. L[i] \in Entries
      BY <2>1
    <3>2. L[i].at \in Nat /\ L[i].start \in Nat /\ Window \in Nat
      BY <3>1, Constants DEF Entries
    <3>3. /\ L[i].start <= L[i].at
          /\ L[i].at < L[i].start + Window
          /\ IF i > Len(L) - count THEN L[i].start = start
             ELSE L[i].start + Window <= start
      BY <2>2 DEF LogOK
    <3>4. QED
      BY <2>1, <3>2, <3>3
  <2>5. QED
    BY <2>3, <2>4 DEF L, start, count
<1>2. QED
  BY WindowInit, WindowNext, <1>1, PTL DEF Spec

-----------------------------------------------------------------------------
(* Retry-After *)

\* What a refused or waiting client knows about its key: the entry it was
\* refused by is still there and full, and for a waiting client it expires no
\* later than it was told; or another request has been let through since.
Told(c) ==
  LET k == client[c].key
  IN  client[c].at # "idle" =>
        /\ client[c].mark <= Len(admitted[k])
        /\ \/ Len(admitted[k]) > client[c].mark
           \/ /\ windows[k].count >= MaxRequests
              /\ client[c].at = "waiting" =>
                   client[c].due >= windows[k].start + Window

RetryInv == Typed /\ \A c \in Client : Told(c)

\* Truncating the elapsed time never makes the header too short.
LEMMA RetryCovers ==
  ASSUME Typed, NEW k \in Key, windows[k] # None,
         windows[k].count >= MaxRequests
  PROVE  now + RetryAfter(k) * TicksPerSecond >= windows[k].start + Window
<1> DEFINE e == now - windows[k].start
           r == RetryAfter(k)
           T == TicksPerSecond
           q == e \div T
<1>1. /\ e \in Nat /\ windows[k].start \in Nat /\ now \in Nat
      /\ now = windows[k].start + e
  BY DEF Typed, TypeOK, Started, WindowType
<1>2. T \in Nat \ {0} /\ WindowSeconds \in Nat
  BY LimiterAssumption
<1>3. r \in Nat
  BY RetryAfterType
<1>4. CASE e < Window
  <2>1. q \in Nat /\ T * q <= e
    BY <1>1, <1>2
  <2>2. r >= WindowSeconds - q
    BY <1>4, <1>2, <2>1 DEF RetryAfter, SecondsLeft
  <2> HIDE DEF q, r, e, T
  <2>3. WindowSeconds <= r + q
    BY <1>2, <1>3, <2>1, <2>2
  <2>4. T * WindowSeconds <= T * (r + q)
    BY <1>2, <1>3, <2>1, <2>3
  <2>5. T * (r + q) = T * r + T * q
    BY <1>2, <1>3, <2>1
  <2>6. r * T = T * r /\ T * r \in Nat /\ T * q \in Nat /\ T * WindowSeconds \in Nat
    BY <1>2, <1>3, <2>1
  <2>7. Window = T * WindowSeconds
    BY <1>2 DEF Window, T
  <2>8. T * WindowSeconds <= r * T + e
    BY <1>1, <2>1, <2>4, <2>5, <2>6
  <2>9. now + r * T >= windows[k].start + Window
    BY <1>1, <2>6, <2>7, <2>8
  <2>10. QED
    BY <2>9 DEF r, T
<1>5. CASE ~(e < Window)
  <2>1. r * T \in Nat
    BY <1>2, <1>3
  <2> HIDE DEF r, T
  <2>2. now + r * T >= windows[k].start + Window
    BY <1>1, <1>5, <2>1, Constants
  <2>3. QED
    BY <2>2 DEF r, T
<1>6. QED
  BY <1>4, <1>5

LEMMA RetryInit == Init => RetryInv
BY TypedInit DEF Init, Idle, RetryInv, Told

LEMMA RetryNext == RetryInv /\ [Next]_vars => RetryInv'
<1> SUFFICES ASSUME RetryInv, [Next]_vars, NEW c \in Client, client'[c].at # "idle"
             PROVE  Told(c)'
  BY TypedNext DEF RetryInv, Told
<1>1. Typed /\ Told(c)
  BY DEF RetryInv
<1>2. client[c] \in ClientType
  BY <1>1 DEF Typed, TypeOK
\* Enough: the client as it was, its key's entry untouched or its log longer.
<1>3. ASSUME client'[c] = client[c],
             LET k == client[c].key
             IN  \/ windows'[k] = windows[k] /\ admitted'[k] = admitted[k]
                 \/ Len(admitted'[k]) = Len(admitted[k]) + 1
      PROVE  Told(c)'
  <2> DEFINE k == client[c].key
  <2>1. CASE windows'[k] = windows[k] /\ admitted'[k] = admitted[k]
    BY <1>1, <1>3, <2>1 DEF Told
  <2>2. CASE Len(admitted'[k]) = Len(admitted[k]) + 1
    <3>1. k \in Key /\ client[c].mark <= Len(admitted[k])
      BY <1>1, <1>3 DEF Typed, KeysKnown, Told
    <3>2. Len(admitted[k]) \in Nat /\ client[c].mark \in Nat
      BY <1>1, <1>2, <3>1 DEF Typed, TypeOK, ClientType
    <3>3. /\ Len(admitted'[k]) > client'[c].mark
          /\ client'[c].mark <= Len(admitted'[k])
      BY <1>3, <2>2, <3>1, <3>2
    <3>4. QED
      BY <1>3, <3>3 DEF Told
  <2>3. QED
    BY <1>3, <2>1, <2>2
<1>4. ASSUME NEW d \in Client, NEW key \in Key,
             AdmitInNewWindow(d, key) \/ AdmitInWindow(d, key)
      PROVE  Told(c)'
  <2>1. PICK start \in Nat, count \in Nat : Admitted(d, key, start, count)
    BY <1>1, <1>4, Admissions
  <2> DEFINE e == [at |-> now, start |-> start]
  <2>2. /\ windows' = [windows EXCEPT ![key] = [start |-> start, count |-> count]]
        /\ admitted' = [admitted EXCEPT ![key] = Append(@, e)]
        /\ client' = [client EXCEPT ![d] = Idle]
    BY <2>1 DEF Admitted, Admit
  <2>3. d # c /\ client'[c] = client[c]
    BY <1>1, <2>2 DEF Typed, TypeOK, Idle
  <2>4. client[c].key \in Key
    BY <1>1, <2>3 DEF Typed, KeysKnown
  <2>5. CASE client[c].key = key
    <3>1. admitted'[key] = Append(admitted[key], e)
      BY <1>1, <2>2 DEF Typed, TypeOK
    <3>2. admitted[key] \in Seq([at : Nat, start : Nat])
      BY <1>1 DEF Typed, TypeOK
    <3>3. Len(admitted'[key]) = Len(admitted[key]) + 1
      BY <3>1, <3>2
    <3>4. QED
      BY <1>3, <2>3, <2>5, <3>3
  <2>6. CASE client[c].key # key
    <3>1. /\ windows'[client[c].key] = windows[client[c].key]
          /\ admitted'[client[c].key] = admitted[client[c].key]
      BY <1>1, <2>2, <2>4, <2>6 DEF Typed, TypeOK
    <3>2. QED
      BY <1>3, <2>3, <3>1
  <2>7. QED
    BY <2>5, <2>6
<1>5. ASSUME NEW d \in Client, NEW key \in Key, Refuse(d, key)
      PROVE  Told(c)'
  <2> DEFINE x == [at |-> "refused", key |-> key, due |-> 0,
                   mark |-> Len(admitted[key])]
  <2>1. /\ windows' = [windows EXCEPT ![key] = Entry(key)]
        /\ client' = [client EXCEPT ![d] = x]
        /\ UNCHANGED admitted
        /\ Entry(key).count >= MaxRequests
    BY <1>5 DEF Refuse, Full
  <2>2. windows'[key] = Entry(key)
    BY <1>1, <2>1 DEF Typed, TypeOK
  <2>3. CASE d = c
    <3>1. client'[c] = x
      BY <1>1, <2>1, <2>3 DEF Typed, TypeOK
    <3>2. Len(admitted'[key]) \in Nat /\ Len(admitted'[key]) = x.mark
      BY <1>1, <2>1 DEF Typed, TypeOK
    <3>3. QED
      BY <2>1, <2>2, <3>1, <3>2 DEF Told
  <2>4. CASE d # c
    <3>1. client'[c] = client[c]
      BY <1>1, <2>1, <2>4 DEF Typed, TypeOK
    <3>2. client[c].key \in Key /\ windows[client[c].key] # None
      BY <1>1, <3>1 DEF Typed, KeysKnown
    <3>3. windows'[client[c].key] = windows[client[c].key]
      BY <1>1, <2>1, <2>2, <3>2 DEF Typed, TypeOK, Entry
    <3>4. QED
      BY <1>3, <2>1, <3>1, <3>3
  <2>5. QED
    BY <2>3, <2>4
<1>6. ASSUME NEW d \in Client, AnswerRefused(d)
      PROVE  Told(c)'
  <2> DEFINE k == client[d].key
             u == now + RetryAfter(k) * TicksPerSecond
  <2>1. /\ client[d].at = "refused"
        /\ client' = [client EXCEPT ![d].at = "waiting", ![d].due = u]
        /\ UNCHANGED <<windows, now, admitted>>
    BY <1>6 DEF AnswerRefused
  <2>2. CASE d # c
    <3>1. client'[c] = client[c]
      BY <1>1, <2>1, <2>2 DEF Typed, TypeOK
    <3>2. QED
      BY <1>3, <2>1, <3>1
  <2>3. CASE d = c
    <3>1. k \in Key /\ windows[k] # None
      BY <1>1, <2>1 DEF Typed, KeysKnown
    <3>2. windows[k].count >= MaxRequests => u >= windows[k].start + Window
      BY <1>1, <3>1, RetryCovers
    <3> HIDE DEF u
    <3>3. /\ client'[c].key = k /\ client'[c].mark = client[c].mark
          /\ client'[c].at = "waiting" /\ client'[c].due = u
      BY <1>1, <1>2, <2>1, <2>3 DEF Typed, TypeOK, ClientType
    <3>4. QED
      BY <1>1, <2>1, <2>3, <3>2, <3>3 DEF Told
  <2>4. QED
    BY <2>2, <2>3
<1>7. CASE Tick
  BY <1>3, <1>7 DEF Tick
<1>8. CASE UNCHANGED vars
  BY <1>3, <1>8 DEF vars
<1>9. QED
  BY <1>4, <1>5, <1>6, <1>7, <1>8 DEF Next

\* A check that refuses a client that has waited was preceded by an admission.
LEMMA HonestStep ==
  ASSUME RetryInv, [Next]_vars, NEW c \in Client,
         client[c].at = "waiting", client'[c].at = "refused"
  PROVE  client'[c].mark > client[c].mark
<1>1. Typed /\ Told(c) /\ client[c] \in ClientType
  BY DEF RetryInv, Typed, TypeOK
<1>2. ASSUME NEW d \in Client, NEW k \in Key, Refuse(d, k)
      PROVE  client'[c].mark > client[c].mark
  <2> DEFINE x == [at |-> "refused", key |-> k, due |-> 0,
                   mark |-> Len(admitted[k])]
  <2>1. client' = [client EXCEPT ![d] = x]
    BY <1>2 DEF Refuse
  <2>2. d = c /\ client'[c] = x
    BY <1>1, <2>1 DEF Typed, TypeOK
  <2>3. client[c].key = k /\ now >= client[c].due /\ ~Expired(k)
    BY <1>2, <2>2 DEF Refuse, Asks
  <2>4. windows[k] # None
    BY <1>1, <2>3 DEF Typed, KeysKnown
  <2>5. ~(now - windows[k].start >= Window)
    BY <2>3, <2>4 DEF Expired, Entry
  <2>6. ~(client[c].due >= windows[k].start + Window)
    <3>1. /\ now \in Nat /\ windows[k].start \in Nat /\ client[c].due \in Nat
      BY <1>1, <2>4 DEF Typed, TypeOK, WindowType, ClientType
    <3>2. QED
      BY <2>3, <2>5, <3>1, Constants
  <2>7. Len(admitted[k]) > client[c].mark
    BY <1>1, <2>3, <2>6 DEF Told
  <2>8. QED
    BY <2>2, <2>7
<1>3. ASSUME NEW d \in Client, NEW k \in Key,
             AdmitInNewWindow(d, k) \/ AdmitInWindow(d, k)
      PROVE  FALSE
  <2>1. client' = [client EXCEPT ![d] = Idle]
    BY <1>3 DEF AdmitInNewWindow, AdmitInWindow, Admit
  <2>2. client'[c] = client[c] \/ client'[c].at = "idle"
    BY <1>1, <2>1 DEF Typed, TypeOK, Idle
  <2>3. QED
    BY <2>2
<1>4. ASSUME NEW d \in Client, AnswerRefused(d)
      PROVE  FALSE
  <2>1. client'[c].at = client[c].at \/ client'[c].at = "waiting"
    BY <1>1, <1>4 DEF AnswerRefused, Typed, TypeOK, ClientType
  <2>2. QED
    BY <2>1
<1>5. ~Tick /\ ~UNCHANGED vars
  BY DEF Tick, vars
<1>6. QED
  BY <1>2, <1>3, <1>4, <1>5 DEF Next

(* A client that waits as long as Retry-After says is refused again only when
   its key was used in between, however the callers interleave. *)
THEOREM RetryAfterIsHonest == Spec => RetryAfterHonest
<1>1. RetryInv /\ [Next]_vars =>
        [\A c \in Client :
           client[c].at = "waiting" /\ client'[c].at = "refused" =>
             client'[c].mark > client[c].mark]_vars
  BY HonestStep
<1>2. QED
  BY RetryInit, RetryNext, <1>1, PTL DEF Spec, RetryAfterHonest
=============================================================================
