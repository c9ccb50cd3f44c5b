--------------------------- MODULE ExperienceExport ---------------------------
(***************************************************************************)
(* The experience store of controller/src/rl_feedback_loop/store.rs and    *)
(* the paginated export over it (export.rs and rl_export_handler of        *)
(* cli/src/server.rs).  Handlers insert experiences while a reader         *)
(* collects the log of one session page by page.  In memory an insert is   *)
(* one step under the write lock; in Postgres the row is stamped with the  *)
(* time the statement starts and becomes visible when it commits.          *)
(***************************************************************************)
EXTENDS Naturals, Sequences, FiniteSets

CONSTANTS
  Session,      \* the sessions experiences belong to
  Writer,       \* the inserts handlers make, one experience each
  None,         \* no value
  Limit,        \* the limits a reader may ask for
  MaxLimit,     \* the most rows a page has: 10_000 in export.rs
  MaxClock,     \* bound: last tick of the database clock
  MaxRestarts   \* bound: restarts of the server process

ASSUME ExportAssumption ==
  /\ None \notin Nat \cup Session
  /\ Limit \subseteq Nat
  /\ MaxLimit \in Nat \ {0}
  /\ MaxClock \in Nat
  /\ MaxRestarts \in Nat

VARIABLES
  postgres,   \* TRUE: PostgresRlStore; FALSE: InMemoryStore
  rows,       \* the stored experiences of each session, in order of arrival
  stmt,       \* what each insert is doing
  clock,      \* the clock of the database
  restarts,   \* restarts so far
  reader      \* a client that pages through one session's experiences

vars == <<postgres, rows, stmt, clock, restarts, reader>>

\* Mutant: an experience without an id of its own.
ExperienceUnnamed(w, stamp) == [id |-> None, created_at |-> stamp]

\* An Experience as the store keeps it: its id and its created_at column.
Experience(w, stamp) == [id |-> w, created_at |-> stamp]

NoReader == [at |-> "idle", session |-> None, limit |-> 0,
             got |-> <<>>, found |-> {}, lost |-> FALSE]

\* Whether the variables that are set name a database: as a whole, or by parts
\* of which the port has a default.
HasDatabase(env) ==
  \/ "DATABASE_URL" \in env
  \/ {"PGHOST", "PGUSER", "PGPASSWORD", "PGDATABASE"} \subseteq env

Variables == {"DATABASE_URL", "PGHOST", "PGUSER", "PGPASSWORD", "PGDATABASE"}

Init ==
  /\ postgres \in {HasDatabase(env) : env \in SUBSET Variables}
  /\ rows = [s \in Session |-> <<>>]
  /\ stmt = [w \in Writer |-> [at |-> "new", session |-> None, stamp |-> 0]]
  /\ clock = 0
  /\ restarts = 0
  /\ reader = NoReader

-----------------------------------------------------------------------------
(* insert_experience *)

Store(w, s, stamp) ==
  rows' = [rows EXCEPT ![s] = Append(@, Experience(w, stamp))]

\* In memory created_at stays empty: Experience::new leaves it to a database.
InsertInMemory(w, s) ==
  /\ ~postgres
  /\ stmt[w].at = "new"
  /\ Store(w, s, None)
  /\ stmt' = [stmt EXCEPT ![w] = [@ EXCEPT !.at = "done", !.session = s]]
  /\ UNCHANGED <<postgres, clock, restarts, reader>>

\* The statement starts: NOW() is the start of its transaction.
StartInsert(w, s) ==
  /\ postgres
  /\ stmt[w].at = "new"
  /\ stmt' = [stmt EXCEPT
       ![w] = [at |-> "running", session |-> s, stamp |-> clock]]
  /\ UNCHANGED <<postgres, rows, clock, restarts, reader>>

CommitInsert(w) ==
  /\ stmt[w].at = "running"
  /\ Store(w, stmt[w].session, stmt[w].stamp)
  /\ stmt' = [stmt EXCEPT ![w].at = "done"]
  /\ UNCHANGED <<postgres, clock, restarts, reader>>

\* The insert fails; the play handler logs a warning and goes on.
FailInsert(w) ==
  /\ stmt[w].at = "running"
  /\ stmt' = [stmt EXCEPT ![w].at = "failed"]
  /\ UNCHANGED <<postgres, rows, clock, restarts, reader>>

Tick ==
  /\ clock < MaxClock
  /\ clock' = clock + 1
  /\ UNCHANGED <<postgres, rows, stmt, restarts, reader>>

\* A new process: what was in memory is gone; the statements under way are the
\* database's to commit or to roll back.
Restart ==
  /\ restarts < MaxRestarts
  /\ restarts' = restarts + 1
  /\ rows' = IF postgres THEN rows ELSE [s \in Session |-> <<>>]
  /\ reader' = [reader EXCEPT !.lost = @ \/ ~postgres]
  /\ UNCHANGED <<postgres, stmt, clock>>

-----------------------------------------------------------------------------
(* list_by_session and export_experiences *)

Earlier(x, y) == postgres /\ x.created_at < y.created_at

\* Mutant: rows come in no particular order.
ListingsUnordered(s) ==
  LET n == Len(rows[s])
  IN  {[i \in 1..n |-> rows[s][p[i]]] :
         p \in {f \in [1..n -> 1..n] : \A i, j \in 1..n : f[i] = f[j] => i = j}}

\* The orders list_by_session may return.  In memory no entry has a created_at
\* and a stable sort keeps them as they are; ORDER BY created_at sorts the
\* rows of a database and leaves those of one instant in any order.
Listings(s) ==
  LET n == Len(rows[s])
      InOrder(p) == \A i, j \in 1..n :
                      i < j => p[i] # p[j] /\ ~Earlier(rows[s][p[j]], rows[s][p[i]])
  IN  IF postgres
      THEN {[i \in 1..n |-> rows[s][p[i]]] :
              p \in {f \in [1..n -> 1..n] : InOrder(f)}}
      ELSE {rows[s]}

Least(x, y) == IF x <= y THEN x ELSE y
Most(x, y)  == IF x <= y THEN y ELSE x

\* Mutant: the offset counts from one.
PageFromOne(list, limit, offset) ==
  LET start == Least(offset, Len(list))
      end   == Least(start + Least(Most(limit, 1), MaxLimit), Len(list))
  IN  SubSeq(list, Most(start, 1), end)

\* The slice of the list a request for limit and offset is answered with.
Page(list, limit, offset) ==
  LET start == Least(offset, Len(list))
      end   == Least(start + Least(Most(limit, 1), MaxLimit), Len(list))
  IN  SubSeq(list, start + 1, end)

\* A reader begins with some session and limit.
StartReading(s, limit) ==
  /\ reader.at = "idle"
  /\ reader' = [at |-> "reading", session |-> s, limit |-> limit, got |-> <<>>,
                found |-> {rows[s][i].id : i \in DOMAIN rows[s]}, lost |-> FALSE]
  /\ UNCHANGED <<postgres, rows, stmt, clock, restarts>>

\* GET /rl/export from where the last page ended.  The session is not looked
\* up: an unknown one has no experiences.
ReadPage ==
  /\ reader.at = "reading"
  /\ \E list \in Listings(reader.session) :
       LET page == Page(list, reader.limit, Len(reader.got))
       IN  reader' = IF page = <<>> THEN [reader EXCEPT !.at = "done"]
                     ELSE [reader EXCEPT !.got = @ \o page]
  /\ UNCHANGED <<postgres, rows, stmt, clock, restarts>>

Next ==
  \/ \E w \in Writer :
       \/ \E s \in Session : InsertInMemory(w, s) \/ StartInsert(w, s)
       \/ CommitInsert(w)
       \/ FailInsert(w)
  \/ \E s \in Session, limit \in Limit : StartReading(s, limit)
  \/ ReadPage
  \/ Tick
  \/ Restart

Spec == Init /\ [][Next]_vars

-----------------------------------------------------------------------------
(* Properties *)

Row == [id : Writer, created_at : Nat \cup {None}]

TypeOK ==
  /\ postgres \in BOOLEAN
  /\ rows \in [Session -> Seq(Row)]
  /\ stmt \in [Writer -> [at : {"new", "running", "done", "failed"},
                          session : Session \cup {None}, stamp : Nat]]
  /\ clock \in Nat
  /\ restarts \in Nat
  /\ reader \in [at : {"idle", "reading", "done"},
                 session : Session \cup {None}, limit : Nat, got : Seq(Row),
                 found : SUBSET Writer, lost : BOOLEAN]

Got == {reader.got[i].id : i \in DOMAIN reader.got}

(* In memory, however inserts and pages interleave and whatever the limits,
   the pages a reader has put together are the beginning of the session's log:
   no experience is left out, doubled or moved. *)
PagesAreTheLog ==
  ~postgres /\ reader.session # None /\ ~reader.lost =>
    /\ Len(reader.got) <= Len(rows[reader.session])
    /\ \A i \in DOMAIN reader.got : reader.got[i] = rows[reader.session][i]

\* No two rows of the reader's session were inserted at the same instant.
StampsDiffer ==
  \A i, j \in DOMAIN rows[reader.session] :
    i # j => \/ ~postgres
             \/ rows[reader.session][i].created_at
                  # rows[reader.session][j].created_at

(* A reader that has come to an empty page has every experience that was
   stored when it began, even if inserts committed in another order than they
   started and pushed rows from one page to the next; unless two of them carry
   the same instant, or the memory was lost on the way. *)
NothingStoredIsMissed ==
  reader.at = "done" /\ StampsDiffer /\ ~reader.lost => reader.found \subseteq Got

(* A reader is given an experience twice only if another one became visible
   after the reader had begun although it had been inserted earlier. *)
RepeatsOnlyAfterLateCommit ==
  reader.session # None /\ StampsDiffer =>
    \A i, j \in DOMAIN reader.got :
      i < j /\ reader.got[i] = reader.got[j] =>
        \E k \in DOMAIN rows[reader.session] :
          LET late == rows[reader.session][k]
          IN  late.id \notin reader.found /\ Earlier(late, reader.got[i])
=============================================================================
