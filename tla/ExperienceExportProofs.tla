------------------------- MODULE ExperienceExportProofs -------------------------
(***************************************************************************)
(* Theorems about ExperienceExport, for any sessions, inserts, limits and  *)
(* numbers of restarts.                                                    *)
(***************************************************************************)
EXTENDS ExperienceExport, SequenceTheorems, FunctionTheorems, FiniteSetTheorems, TLAPS

\* What the invariants need besides: only a database has statements under way,
\* a statement knows its session, and a reader has one unless it is idle.
IInv ==
  /\ TypeOK
  /\ \A w \in Writer :
       stmt[w].at = "running" => postgres /\ stmt[w].session \in Session
  /\ reader.at = "idle" => reader.session = None
  /\ reader.at = "reading" => reader.session \in Session
  /\ PagesAreTheLog

-----------------------------------------------------------------------------
(* Pages and listings *)

LEMMA LeastMost ==
  ASSUME NEW x \in Nat, NEW y \in Nat
  PROVE  /\ Least(x, y) \in Nat /\ Least(x, y) <= x /\ Least(x, y) <= y
         /\ Least(x, y) = x \/ Least(x, y) = y
         /\ Most(x, y) \in Nat /\ Most(x, y) >= x /\ Most(x, y) >= y
<1>1. CASE x <= y
  BY <1>1 DEF Least, Most
<1>2. CASE ~(x <= y)
  BY <1>2 DEF Least, Most
<1>3. QED
  BY <1>1, <1>2

\* A page continues the list behind the offset, it has at most as many entries
\* as asked for, one at least, and it is empty only at the end of the list.
LEMMA PageProperties ==
  ASSUME NEW S, NEW list \in Seq(S), NEW limit \in Nat, NEW offset \in Nat
  PROVE  /\ Page(list, limit, offset) \in Seq(S)
         /\ Len(Page(list, limit, offset)) \in Nat
         /\ Len(Page(list, limit, offset)) <= MaxLimit
         /\ Len(Page(list, limit, offset)) <= Most(limit, 1)
         /\ offset < Len(list) => /\ 0 < Len(Page(list, limit, offset))
                                  /\ offset + Len(Page(list, limit, offset)) <= Len(list)
         /\ offset >= Len(list) => Len(Page(list, limit, offset)) = 0
         /\ \A i \in 1..Len(Page(list, limit, offset)) :
              Page(list, limit, offset)[i] = list[offset + i]
<1> DEFINE n     == Len(list)
           most  == Most(limit, 1)
           start == Least(offset, n)
           size  == Least(most, MaxLimit)
           end   == Least(start + size, n)
           page  == Page(list, limit, offset)
<1>0. list \in [1..n -> S]
  BY LenProperties
<1>1. n \in Nat
  BY LenProperties
<1>2. most \in Nat /\ most >= 1 /\ MaxLimit \in Nat /\ MaxLimit >= 1
  <2>1. MaxLimit \in Nat /\ MaxLimit # 0
    BY ExportAssumption
  <2>2. most \in Nat /\ most >= 1
    BY LeastMost
  <2>3. QED
    BY <2>1, <2>2
<1>3. page = SubSeq(list, start + 1, end)
  BY DEF Page
<1>4. start = Least(offset, n) /\ size = Least(most, MaxLimit) /\ end = Least(start + size, n)
  OBVIOUS
<1> HIDE DEF most, n, start, size, end, page
<1>5. /\ start \in Nat /\ end \in Nat /\ start <= end /\ end <= n
      /\ end - start <= most /\ end - start <= MaxLimit
      /\ offset < n => start = offset /\ start < end
      /\ offset >= n => start = end
  <2>1. size = Least(most, MaxLimit) /\ start = Least(offset, n)
        /\ end = Least(start + size, n)
    BY <1>4
  <2>2. size \in Nat /\ size <= most /\ size <= MaxLimit /\ size >= 1
    BY <1>2, <2>1, LeastMost
  <2>3. /\ start \in Nat /\ start <= n /\ start <= offset
        /\ start = offset \/ start = n
    BY <1>1, <2>1, LeastMost
  <2>4. start + size \in Nat
    BY <2>2, <2>3
  <2>5. /\ end \in Nat /\ end <= n /\ end <= start + size
        /\ end = start + size \/ end = n
    BY <1>1, <2>1, <2>4, LeastMost
  <2>6. QED
    BY <1>1, <1>2, <2>2, <2>3, <2>5
<1>6. /\ start + 1 \in Int /\ end \in Int
      /\ \A i \in (start + 1)..end : i \in 1..n
  BY <1>1, <1>5
<1>7. \A i \in (start + 1)..end : list[i] \in S
  BY <1>0, <1>6
<1>8. /\ page \in Seq(S)
      /\ Len(page) = IF start + 1 <= end THEN end - (start + 1) + 1 ELSE 0
      /\ \A i \in 1..(end - (start + 1) + 1) : page[i] = list[start + 1 + i - 1]
  BY <1>3, <1>6, <1>7, SubSeqProperties
<1>9. Len(page) = end - start
  BY <1>5, <1>8
<1>10. Len(page) \in Nat
  BY <1>5, <1>9
<1>11. \A i \in 1..Len(page) : page[i] = list[start + i]
  <2>1. end - (start + 1) + 1 = end - start
    BY <1>5
  <2>2. \A i \in Nat : start + 1 + i - 1 = start + i
    BY <1>5
  <2>3. \A i \in 1..Len(page) : i \in Nat
    BY <1>10
  <2>4. QED
    BY <1>8, <1>9, <2>1, <2>2, <2>3
<1>12. offset < n => 0 < Len(page) /\ offset + Len(page) <= n
  BY <1>1, <1>5, <1>9
<1>13. offset >= n => Len(page) = 0
  BY <1>5, <1>9
<1>14. offset < n \/ offset >= n
  BY <1>1
<1>15. \A i \in 1..Len(page) : page[i] = list[offset + i]
  <2>1. CASE offset < n
    BY <1>5, <1>11, <2>1
  <2>2. CASE offset >= n
    BY <1>13, <2>2
  <2>3. QED
    BY <1>14, <2>1, <2>2
<1>16. QED
  BY <1>5, <1>8, <1>9, <1>10, <1>12, <1>13, <1>15 DEF page, most, n

LEMMA ListingType ==
  ASSUME TypeOK, NEW s \in Session, NEW list \in Listings(s)
  PROVE  /\ list \in Seq(Row)
         /\ ~postgres => list = rows[s]
<1>1. rows[s] \in Seq(Row)
  BY DEF TypeOK
<1>2. CASE ~postgres
  BY <1>1, <1>2 DEF Listings
<1>3. CASE postgres
  <2> DEFINE n == Len(rows[s])
  <2>1. n \in Nat /\ rows[s] \in [1..n -> Row]
    BY <1>1, LenProperties
  <2>2. PICK p \in [1..n -> 1..n] : list = [i \in 1..n |-> rows[s][p[i]]]
    BY <1>3 DEF Listings
  <2> HIDE DEF n
  <2>3. list \in [1..n -> Row]
    BY <2>1, <2>2
  <2>4. QED
    BY <1>3, <2>1, <2>3
<1>4. QED
  BY <1>2, <1>3

LEMMA ExportInit == Init => IInv
<1> SUFFICES ASSUME Init
             PROVE  IInv
  OBVIOUS
<1>1. <<>> \in Seq(Row)
  OBVIOUS
<1>2. TypeOK
  <2>1. postgres \in BOOLEAN
    BY DEF Init, HasDatabase
  <2>2. QED
    BY <1>1, <2>1, ExportAssumption DEF Init, TypeOK, NoReader
<1>3. QED
  BY <1>2 DEF IInv, Init, NoReader, PagesAreTheLog

-----------------------------------------------------------------------------
(* The steps *)

\* An experience is stored: rows grow at their ends.
LEMMA StoreStep ==
  ASSUME IInv, NEW w \in Writer, NEW s \in Session, NEW stamp \in Nat \cup {None},
         Store(w, s, stamp), UNCHANGED <<postgres, reader>>
  PROVE  rows' \in [Session -> Seq(Row)] /\ PagesAreTheLog'
<1>1. Experience(w, stamp) \in Row
  BY DEF Experience, Row
<1>2. rows \in [Session -> Seq(Row)]
  BY DEF IInv, TypeOK
<1> DEFINE longer == Append(rows[s], Experience(w, stamp))
<1>3. /\ longer \in Seq(Row) /\ Len(rows[s]) \in Nat
      /\ Len(longer) = Len(rows[s]) + 1
      /\ \A i \in 1..Len(rows[s]) : longer[i] = rows[s][i]
  BY <1>1, <1>2, AppendProperties
<1>4. rows' = [rows EXCEPT ![s] = longer]
  BY DEF Store
<1> HIDE DEF longer
<1>5. /\ rows' \in [Session -> Seq(Row)] /\ rows'[s] = longer
      /\ \A t \in Session : t # s => rows'[t] = rows[t]
  BY <1>2, <1>3, <1>4
<1>6. ASSUME ~postgres, reader.session # None, ~reader.lost
      PROVE  /\ Len(reader.got) <= Len(rows'[reader.session])
             /\ \A i \in DOMAIN reader.got : reader.got[i] = rows'[reader.session][i]
  <2>1. /\ Len(reader.got) <= Len(rows[reader.session])
        /\ \A i \in DOMAIN reader.got : reader.got[i] = rows[reader.session][i]
    BY <1>6 DEF IInv, PagesAreTheLog
  <2>2. reader.got \in Seq(Row) /\ reader.session \in Session
    BY <1>6 DEF IInv, TypeOK
  <2>3. Len(reader.got) \in Nat /\ DOMAIN reader.got = 1..Len(reader.got)
    BY <2>2, LenProperties
  <2>4. CASE reader.session # s
    BY <1>5, <2>1, <2>2, <2>4
  <2>5. CASE reader.session = s
    <3>1. Len(reader.got) <= Len(rows'[s])
      BY <1>3, <1>5, <2>1, <2>3, <2>5
    <3>2. \A i \in DOMAIN reader.got : i \in 1..Len(rows[s])
      BY <1>3, <2>1, <2>3, <2>5
    <3>3. QED
      BY <1>3, <1>5, <2>1, <2>5, <3>1, <3>2
  <2>6. QED
    BY <2>4, <2>5
<1>7. QED
  BY <1>5, <1>6 DEF PagesAreTheLog

LEMMA InsertInMemoryNext ==
  ASSUME IInv, NEW w \in Writer, NEW s \in Session, InsertInMemory(w, s)
  PROVE  IInv'
<1>1. rows' \in [Session -> Seq(Row)] /\ PagesAreTheLog'
  BY StoreStep DEF InsertInMemory
<1>2. /\ stmt' = [stmt EXCEPT ![w] = [@ EXCEPT !.at = "done", !.session = s]]
      /\ UNCHANGED <<postgres, clock, restarts, reader>>
  BY DEF InsertInMemory
<1>3. /\ stmt' \in [Writer -> [at : {"new", "running", "done", "failed"},
                               session : Session \cup {None}, stamp : Nat]]
      /\ stmt'[w].at = "done"
      /\ \A v \in Writer : v # w => stmt'[v] = stmt[v]
  BY <1>2 DEF IInv, TypeOK
<1>4. TypeOK'
  BY <1>1, <1>2, <1>3 DEF IInv, TypeOK
<1>5. QED
  BY <1>1, <1>2, <1>3, <1>4 DEF IInv

LEMMA StartInsertNext ==
  ASSUME IInv, NEW w \in Writer, NEW s \in Session, StartInsert(w, s)
  PROVE  IInv'
<1>1. /\ postgres
      /\ stmt' = [stmt EXCEPT ![w] = [at |-> "running", session |-> s, stamp |-> clock]]
      /\ UNCHANGED <<postgres, rows, clock, restarts, reader>>
  BY DEF StartInsert
<1>2. /\ stmt' \in [Writer -> [at : {"new", "running", "done", "failed"},
                               session : Session \cup {None}, stamp : Nat]]
      /\ stmt'[w].session = s
      /\ \A v \in Writer : v # w => stmt'[v] = stmt[v]
  BY <1>1 DEF IInv, TypeOK
<1>3. TypeOK'
  BY <1>1, <1>2 DEF IInv, TypeOK
<1>4. PagesAreTheLog'
  BY <1>1 DEF PagesAreTheLog
<1>5. QED
  BY <1>1, <1>2, <1>3, <1>4 DEF IInv

LEMMA CommitInsertNext ==
  ASSUME IInv, NEW w \in Writer, CommitInsert(w)
  PROVE  IInv'
<1>1. /\ stmt[w].at = "running"
      /\ Store(w, stmt[w].session, stmt[w].stamp)
      /\ stmt' = [stmt EXCEPT ![w].at = "done"]
      /\ UNCHANGED <<postgres, clock, restarts, reader>>
  BY DEF CommitInsert
<1>2. stmt[w].session \in Session /\ stmt[w].stamp \in Nat
  BY <1>1 DEF IInv, TypeOK
<1>3. rows' \in [Session -> Seq(Row)] /\ PagesAreTheLog'
  BY <1>1, <1>2, StoreStep
<1>4. /\ stmt' \in [Writer -> [at : {"new", "running", "done", "failed"},
                               session : Session \cup {None}, stamp : Nat]]
      /\ stmt'[w].at = "done"
      /\ \A v \in Writer : v # w => stmt'[v] = stmt[v]
  <2>1. stmt \in [Writer -> [at : {"new", "running", "done", "failed"},
                             session : Session \cup {None}, stamp : Nat]]
    BY DEF IInv, TypeOK
  <2>2. QED
    BY <1>1, <2>1
<1>5. TypeOK'
  BY <1>1, <1>3, <1>4 DEF IInv, TypeOK
<1>6. QED
  BY <1>1, <1>3, <1>4, <1>5 DEF IInv

LEMMA FailInsertNext ==
  ASSUME IInv, NEW w \in Writer, FailInsert(w)
  PROVE  IInv'
<1>1. /\ stmt' = [stmt EXCEPT ![w].at = "failed"]
      /\ UNCHANGED <<postgres, rows, clock, restarts, reader>>
  BY DEF FailInsert
<1>2. /\ stmt' \in [Writer -> [at : {"new", "running", "done", "failed"},
                               session : Session \cup {None}, stamp : Nat]]
      /\ stmt'[w].at = "failed"
      /\ \A v \in Writer : v # w => stmt'[v] = stmt[v]
  BY <1>1 DEF IInv, TypeOK
<1>3. TypeOK'
  BY <1>1, <1>2 DEF IInv, TypeOK
<1>4. PagesAreTheLog'
  BY <1>1 DEF IInv, PagesAreTheLog
<1>5. QED
  BY <1>1, <1>2, <1>3, <1>4 DEF IInv

LEMMA RestartNext ==
  ASSUME IInv, Restart
  PROVE  IInv'
<1>1. /\ restarts' = restarts + 1
      /\ rows' = IF postgres THEN rows ELSE [s \in Session |-> <<>>]
      /\ reader' = [reader EXCEPT !.lost = reader.lost \/ ~postgres]
      /\ UNCHANGED <<postgres, stmt, clock>>
  BY DEF Restart
<1>2. rows' \in [Session -> Seq(Row)]
  BY <1>1 DEF IInv, TypeOK
<1>3. /\ reader' \in [at : {"idle", "reading", "done"},
                      session : Session \cup {None}, limit : Nat, got : Seq(Row),
                      found : SUBSET Writer, lost : BOOLEAN]
      /\ reader'.at = reader.at /\ reader'.session = reader.session
      /\ reader'.got = reader.got
  BY <1>1 DEF IInv, TypeOK
<1>4. ~postgres => reader'.lost = TRUE
  <2>1. ~postgres => reader' = [reader EXCEPT !.lost = TRUE]
    BY <1>1
  <2>2. reader \in [at : {"idle", "reading", "done"},
                    session : Session \cup {None}, limit : Nat, got : Seq(Row),
                    found : SUBSET Writer, lost : BOOLEAN]
    BY DEF IInv, TypeOK
  <2>3. QED
    BY <2>1, <2>2
<1>5. TypeOK'
  <2>1. restarts' \in Nat /\ UNCHANGED <<postgres, stmt, clock>>
    BY <1>1 DEF IInv, TypeOK
  <2>2. QED
    BY <1>2, <1>3, <2>1 DEF IInv, TypeOK
<1>6. PagesAreTheLog'
  BY <1>1, <1>4 DEF PagesAreTheLog
<1>7. QED
  BY <1>1, <1>3, <1>5, <1>6 DEF IInv

LEMMA StartReadingNext ==
  ASSUME IInv, NEW s \in Session, NEW limit \in Limit, StartReading(s, limit)
  PROVE  IInv'
<1> DEFINE found == {rows[s][i].id : i \in DOMAIN rows[s]}
<1>1. /\ reader' = [at |-> "reading", session |-> s, limit |-> limit, got |-> <<>>,
                    found |-> found, lost |-> FALSE]
      /\ UNCHANGED <<postgres, rows, stmt, clock, restarts>>
  BY DEF StartReading
<1>2. rows[s] \in Seq(Row)
  BY DEF IInv, TypeOK
<1>3. found \subseteq Writer
  <2>1. DOMAIN rows[s] = 1..Len(rows[s]) /\ rows[s] \in [1..Len(rows[s]) -> Row]
    BY <1>2, LenProperties
  <2>2. \A i \in DOMAIN rows[s] : rows[s][i] \in Row
    BY <2>1
  <2>3. QED
    BY <2>2 DEF Row
<1> HIDE DEF found
<1>4. <<>> \in Seq(Row) /\ Len(<<>>) = 0 /\ limit \in Nat
  BY ExportAssumption
<1>5. TypeOK'
  BY <1>1, <1>3, <1>4 DEF IInv, TypeOK
<1>6. PagesAreTheLog'
  <2>1. Len(rows[s]) \in Nat
    BY <1>2, LenProperties
  <2>2. QED
    BY <1>1, <1>4, <2>1 DEF PagesAreTheLog
<1>7. QED
  BY <1>1, <1>5, <1>6 DEF IInv

\* PageProperties, for a page of the reader's.
LEMMA RowPage ==
  ASSUME NEW list \in Seq(Row), NEW limit \in Nat, NEW offset \in Nat,
         NEW page, page = Page(list, limit, offset)
  PROVE  /\ page \in Seq(Row)
         /\ Len(page) \in Nat
         /\ offset < Len(list) => offset + Len(page) <= Len(list)
         /\ offset >= Len(list) => Len(page) = 0
         /\ \A i \in 1..Len(page) : page[i] = list[offset + i]
BY PageProperties

LEMMA ReadPageNext ==
  ASSUME IInv, ReadPage
  PROVE  IInv'
<1> DEFINE s == reader.session
           offset == Len(reader.got)
<1>1. TypeOK /\ s \in Session /\ reader.at = "reading"
      /\ UNCHANGED <<postgres, rows, stmt, clock, restarts>>
  BY DEF IInv, ReadPage
<1>2. PICK list \in Listings(s) :
        LET page == Page(list, reader.limit, offset)
        IN  reader' = IF page = <<>> THEN [reader EXCEPT !.at = "done"]
                      ELSE [reader EXCEPT !.got = @ \o page]
  BY DEF ReadPage
<1> DEFINE page == Page(list, reader.limit, offset)
<1>3. list \in Seq(Row) /\ (~postgres => list = rows[s])
  BY <1>1, ListingType
<1>4. reader.got \in Seq(Row) /\ reader.limit \in Nat
  BY <1>1 DEF TypeOK
<1>5. offset \in Nat /\ DOMAIN reader.got = 1..offset /\ Len(list) \in Nat
  BY <1>3, <1>4, LenProperties
<1>6. /\ page \in Seq(Row)
      /\ Len(page) \in Nat
      /\ offset < Len(list) => offset + Len(page) <= Len(list)
      /\ offset >= Len(list) => Len(page) = 0
      /\ \A i \in 1..Len(page) : page[i] = list[offset + i]
  <2> DEFINE limit == reader.limit
  <2>1. limit \in Nat /\ offset \in Nat /\ list \in Seq(Row)
    BY <1>3, <1>4, <1>5
  <2>2. page = Page(list, limit, offset)
    OBVIOUS
  <2> HIDE DEF page, limit, offset
  <2>3. QED
    BY <2>1, <2>2, RowPage
<1>7. reader' = IF page = <<>> THEN [reader EXCEPT !.at = "done"]
                ELSE [reader EXCEPT !.got = reader.got \o page]
  BY <1>2
<1> HIDE DEF page
<1>8. CASE page = <<>>
  <2>1. reader' = [reader EXCEPT !.at = "done"]
    BY <1>7, <1>8
  <2>2. /\ TypeOK'
        /\ reader'.at = "done" /\ reader'.session = s /\ reader'.got = reader.got
        /\ reader'.lost = reader.lost
    BY <1>1, <2>1 DEF TypeOK
  <2>3. PagesAreTheLog'
    BY <1>1, <2>2 DEF IInv, PagesAreTheLog
  <2>4. QED
    BY <1>1, <2>2, <2>3 DEF IInv
<1>9. CASE page # <<>>
  <2> DEFINE got == reader.got \o page
  <2>1. /\ got \in Seq(Row) /\ Len(page) \in Nat
        /\ Len(got) = offset + Len(page)
        /\ \A i \in 1..(offset + Len(page)) :
             got[i] = IF i <= offset THEN reader.got[i] ELSE page[i - offset]
    BY <1>4, <1>6, ConcatProperties, LenProperties
  <2>2. DOMAIN got = 1..(offset + Len(page)) /\ Len(page) # 0
    BY <1>6, <1>9, <2>1, LenProperties, EmptySeq
  <2> HIDE DEF got
  <2>3. reader' = [reader EXCEPT !.got = got]
    BY <1>7, <1>9 DEF got
  <2>4. /\ TypeOK'
        /\ reader'.at = "reading" /\ reader'.session = s /\ reader'.got = got
        /\ reader'.lost = reader.lost
    BY <1>1, <2>1, <2>3 DEF TypeOK
  <2>5. ASSUME ~postgres, ~reader.lost
        PROVE  Len(got) <= Len(rows[s]) /\ \A i \in DOMAIN got : got[i] = rows[s][i]
    <3>1. list = rows[s]
      BY <1>3, <2>5
    <3>2. \A i \in 1..offset : reader.got[i] = rows[s][i]
      BY <1>1, <1>5, <2>5, ExportAssumption DEF IInv, PagesAreTheLog
    <3>3. Len(got) <= Len(rows[s])
      BY <1>5, <1>6, <2>1, <2>2, <3>1
    <3>4. ASSUME NEW i \in 1..(offset + Len(page))
          PROVE  got[i] = rows[s][i]
      <4>1. CASE i <= offset
        BY <1>5, <2>1, <3>2, <4>1
      <4>2. CASE ~(i <= offset)
        <5>1. i - offset \in 1..Len(page) /\ offset + (i - offset) = i
          BY <1>5, <2>1, <4>2
        <5>2. QED
          BY <1>6, <2>1, <3>1, <4>2, <5>1
      <4>3. QED
        BY <4>1, <4>2
    <3>5. QED
      BY <2>2, <3>3, <3>4
  <2>6. PagesAreTheLog'
    BY <1>1, <2>4, <2>5 DEF PagesAreTheLog
  <2>7. QED
    BY <1>1, <2>4, <2>6 DEF IInv
<1>10. QED
  BY <1>8, <1>9

LEMMA ExportNext ==
  ASSUME IInv, [Next]_vars
  PROVE  IInv'
<1>1. CASE UNCHANGED vars
  BY <1>1 DEF vars, IInv, TypeOK, PagesAreTheLog
<1>2. CASE Tick
  BY <1>2 DEF Tick, IInv, TypeOK, PagesAreTheLog
<1>3. CASE Next
  BY <1>2, <1>3, InsertInMemoryNext, StartInsertNext, CommitInsertNext, FailInsertNext,
     RestartNext, StartReadingNext, ReadPageNext DEF Next
<1>4. QED
  BY <1>1, <1>3

(* The inductive invariant of the stores, the statements and the readers, which
   the export's theorems follow from. *)
THEOREM ExportInvariant == Spec => []IInv
BY ExportInit, ExportNext, PTL DEF Spec

-----------------------------------------------------------------------------
(* The theorems *)

(* Every store, statement and reader of the export keeps its type (store.rs,
   export.rs). *)
THEOREM ExportTypes == Spec => []TypeOK
BY ExportInvariant, PTL DEF IInv

(* In memory the pages of GET /rl/export put together are the beginning of the
   session's log, for any limits and any inserts between the pages. *)
THEOREM PagesContinueTheLog == Spec => []PagesAreTheLog
BY ExportInvariant, PTL DEF IInv

(* For the loop of a reader: a page has at most MaxLimit entries and is empty
   only when the reader has as many as are listed (export_experiences clamps
   the limit between 1 and the maximum). *)
THEOREM PagesMakeProgress ==
  ASSUME NEW list \in Seq(Row), NEW limit \in Nat, NEW offset \in Nat
  PROVE  /\ Len(Page(list, limit, offset)) <= MaxLimit
         /\ Len(Page(list, limit, offset)) = 0 <=> offset >= Len(list)
<1>1. Len(list) \in Nat /\ Page(list, limit, offset) \in Seq(Row)
  BY LenProperties, PageProperties
<1>2. Len(Page(list, limit, offset)) \in Nat
  BY <1>1, LenProperties
<1>3. QED
  BY <1>1, <1>2, PageProperties
-----------------------------------------------------------------------------
(* Where a row stands in the order of a database *)

Ids(log) == {log[i].id : i \in DOMAIN log}

\* The rows of a log that were inserted before x, and how many there are: the
\* place of x in every listing, as long as no two rows are of one instant.
InsertedBefore(log, x) == {k \in DOMAIN log : log[k].created_at < x.created_at}
Rank(log, x) == Cardinality(InsertedBefore(log, x))

\* Every entry of the list is where its rank has it, and every row is listed.
Ranked(log, list) ==
  /\ \A k \in 1..Len(list) : Rank(log, list[k]) = k - 1
  /\ \A m \in DOMAIN log : /\ Rank(log, log[m]) < Len(list)
                           /\ list[Rank(log, log[m]) + 1] = log[m]

Stamped(log)  == \A k \in DOMAIN log : log[k].created_at \in Nat
Distinct(log) == \A i, j \in DOMAIN log : i # j => log[i].created_at # log[j].created_at

\* What was there when the reader began and is not got yet is further on.
StillAhead(log, got, found) ==
  \A id \in found : \E m \in DOMAIN log :
    /\ log[m].id = id
    /\ id \in Ids(got) \/ Len(got) <= Rank(log, log[m])

\* What is got stands where it was got, or further on because of a row that
\* came late.
MovedByLateRows(log, got, found) ==
  \A i \in DOMAIN got :
    /\ i - 1 <= Rank(log, got[i])
    /\ i - 1 < Rank(log, got[i]) =>
         \E k \in DOMAIN log : /\ log[k].id \notin found
                               /\ log[k].created_at < got[i].created_at

\* In memory what is got stands where it was got, or is gone for good.
StandsOrGone(log, got) ==
  /\ \A i, j \in DOMAIN got : i # j => got[i].id # got[j].id
  /\ \A i \in DOMAIN got : \/ i \in DOMAIN log /\ got[i] = log[i]
                           \/ got[i].id \notin Ids(log)

\* longer begins with got and goes on as the list does.
Continues(list, got, longer) ==
  /\ Len(got) \in Nat /\ Len(list) \in Nat /\ Len(longer) \in Nat
  /\ DOMAIN got = 1..Len(got) /\ DOMAIN list = 1..Len(list)
  /\ DOMAIN longer = 1..Len(longer)
  /\ Len(got) <= Len(longer)
  /\ \A i \in 1..Len(got) : longer[i] = got[i]
  /\ \A i \in 1..Len(longer) :
       Len(got) < i => i \in 1..Len(list) /\ longer[i] = list[i]

\* Every experience comes from an insert that is done, and from that one only.
StoredOnce ==
  \A s \in Session :
    /\ \A i \in DOMAIN rows[s] : stmt[rows[s][i].id].at = "done"
    /\ \A i, j \in DOMAIN rows[s] : i # j => rows[s][i].id # rows[s][j].id
    /\ postgres => Stamped(rows[s])

\* So does what the reader knows of.
ReadersKnowStored ==
  /\ \A id \in reader.found : stmt[id].at = "done"
  /\ \A i \in DOMAIN reader.got : stmt[reader.got[i].id].at = "done"

PlacesKept ==
  reader.session # None =>
    LET log == rows[reader.session]
    IN  /\ postgres /\ Distinct(log) =>
             /\ StillAhead(log, reader.got, reader.found)
             /\ MovedByLateRows(log, reader.got, reader.found)
        /\ ~postgres => StandsOrGone(log, reader.got)
        /\ ~postgres /\ ~reader.lost => reader.found \subseteq Ids(log)

PlaceInv ==
  /\ IInv
  /\ reader.at = "done" => reader.session \in Session
  /\ StoredOnce
  /\ ReadersKnowStored
  /\ PlacesKept
  /\ NothingStoredIsMissed

LEMMA RankType ==
  ASSUME NEW log \in Seq(Row), NEW x
  PROVE  /\ InsertedBefore(log, x) \subseteq 1..Len(log)
         /\ IsFiniteSet(InsertedBefore(log, x))
         /\ Rank(log, x) \in Nat
<1>1. Len(log) \in Nat /\ DOMAIN log = 1..Len(log)
  BY LenProperties
<1>2. InsertedBefore(log, x) \in SUBSET (1..Len(log))
  BY <1>1 DEF InsertedBefore
<1>3. IsFiniteSet(1..Len(log))
  BY <1>1, FS_Interval
<1>4. IsFiniteSet(InsertedBefore(log, x))
  BY <1>2, <1>3, FS_Subset
<1>5. QED
  BY <1>2, <1>4, FS_CardinalityType DEF Rank

\* A new row moves back the rows that were inserted after it, by one place, and
\* no others.
LEMMA RankAppend ==
  ASSUME NEW log \in Seq(Row), NEW y \in Row, NEW x
  PROVE  /\ Rank(log, x) <= Rank(Append(log, y), x)
         /\ ~(y.created_at < x.created_at) => Rank(Append(log, y), x) = Rank(log, x)
<1> DEFINE longer == Append(log, y)
<1>1. /\ longer \in Seq(Row) /\ Len(log) \in Nat
      /\ DOMAIN log = 1..Len(log) /\ DOMAIN longer = 1..(Len(log) + 1)
      /\ longer[Len(log) + 1] = y
      /\ \A i \in 1..Len(log) : longer[i] = log[i]
  BY AppendProperties, LenProperties
<1> HIDE DEF longer
<1>2. InsertedBefore(log, x) \in SUBSET InsertedBefore(longer, x)
  BY <1>1 DEF InsertedBefore
<1>3. IsFiniteSet(InsertedBefore(longer, x))
  BY <1>1, RankType
<1>4. Rank(log, x) <= Rank(longer, x)
  BY <1>2, <1>3, FS_Subset DEF Rank
<1>5. ASSUME ~(y.created_at < x.created_at)
      PROVE  InsertedBefore(longer, x) = InsertedBefore(log, x)
  <2>1. \A i \in 1..(Len(log) + 1) : i \in 1..Len(log) \/ i = Len(log) + 1
    BY <1>1
  <2>2. QED
    BY <1>1, <1>5, <2>1 DEF InsertedBefore
<1>6. QED
  BY <1>4, <1>5 DEF Rank, longer

LEMMA InjectionOnto ==
  ASSUME NEW S, IsFiniteSet(S), NEW f \in Injection(S, S)
  PROVE  f \in Surjection(S, S)
<1>1. Cardinality(S) = Cardinality(S) <=> f \in Surjection(S, S)
  BY FS_Injection
<1>2. QED
  BY <1>1

LEMMA DistinctAppend ==
  ASSUME NEW log \in Seq(Row), NEW y \in Row, Distinct(Append(log, y))
  PROVE  Distinct(log)
<1>1. /\ Len(log) \in Nat /\ DOMAIN log = 1..Len(log)
      /\ DOMAIN Append(log, y) = 1..(Len(log) + 1)
      /\ \A i \in 1..Len(log) : Append(log, y)[i] = log[i]
  BY AppendProperties, LenProperties
<1>2. \A i \in DOMAIN log : i \in DOMAIN Append(log, y)
  BY <1>1
<1>3. QED
  BY <1>1, <1>2 DEF Distinct

\* In every order ORDER BY created_at may give, an experience stands behind
\* those that were inserted before it.
LEMMA ListingPlaces ==
  ASSUME TypeOK, postgres, NEW s \in Session, Stamped(rows[s]), Distinct(rows[s]),
         NEW list \in Listings(s)
  PROVE  Ranked(rows[s], list)
<1> DEFINE log == rows[s]
           n == Len(log)
<1>1. log \in Seq(Row)
  BY DEF TypeOK
<1>2. n \in Nat /\ DOMAIN log = 1..n
  BY <1>1, LenProperties
<1>3. PICK p \in [1..n -> 1..n] :
        /\ list = [i \in 1..n |-> log[p[i]]]
        /\ \A i, j \in 1..n : i < j => p[i] # p[j] /\ ~Earlier(log[p[j]], log[p[i]])
  BY DEF Listings
<1>4. \A i \in 1..n : log[i].created_at \in Nat
  BY <1>2 DEF Stamped
<1>5. \A i, j \in 1..n : i # j => log[i].created_at # log[j].created_at
  BY <1>2 DEF Distinct
<1> HIDE DEF n, log
<1>6. \A i, j \in 1..n : i < j => log[p[i]].created_at < log[p[j]].created_at
  <2> SUFFICES ASSUME NEW i \in 1..n, NEW j \in 1..n, i < j
               PROVE  log[p[i]].created_at < log[p[j]].created_at
    OBVIOUS
  <2>1. p[i] \in 1..n /\ p[j] \in 1..n
    BY <1>3
  <2>2. p[i] # p[j] /\ ~(log[p[j]].created_at < log[p[i]].created_at)
    BY <1>3 DEF Earlier
  <2>3. /\ log[p[i]].created_at \in Nat /\ log[p[j]].created_at \in Nat
        /\ log[p[i]].created_at # log[p[j]].created_at
    BY <1>4, <1>5, <2>1, <2>2
  <2>4. QED
    BY <2>2, <2>3
<1>7. \A i, j \in 1..n : p[i] = p[j] => i = j
  BY <1>2, <1>3
<1>8. \A m \in 1..n : \E i \in 1..n : p[i] = m
  <2> DEFINE D == 1..n
  <2>1. IsFiniteSet(D)
    BY <1>2, FS_Interval
  <2>2. p \in [D -> D] /\ \A i, j \in D : p[i] = p[j] => i = j
    BY <1>7
  <2> HIDE DEF D
  <2>3. p \in Injection(D, D)
    BY <2>2, Fun_IsInj
  <2>4. p \in Surjection(D, D)
    BY <2>1, <2>3, InjectionOnto
  <2>5. \A m \in D : \E i \in D : p[i] = m
    BY <2>4, Fun_SurjectionProperties
  <2>6. QED
    BY <2>5 DEF D
<1>9. Len(list) = n
  BY <1>2, <1>3
<1>10. ASSUME NEW k \in 1..n
       PROVE  Rank(log, list[k]) = k - 1
  <2> DEFINE front == 1..(k - 1)
             f == [i \in front |-> p[i]]
             T == InsertedBefore(log, list[k])
  <2>1. list[k] = log[p[k]] /\ p[k] \in 1..n
    BY <1>3
  <2>2. \A i \in front : i \in 1..n /\ i < k
    BY <1>2
  <2>3. \A i \in front : p[i] \in T
    BY <1>2, <1>3, <1>6, <2>1, <2>2 DEF InsertedBefore
  <2>4. \A m \in T : \E i \in front : p[i] = m
    <3> SUFFICES ASSUME NEW m \in T PROVE \E i \in front : p[i] = m
      OBVIOUS
    <3>1. m \in 1..n /\ log[m].created_at < log[p[k]].created_at
      BY <1>2, <2>1 DEF InsertedBefore
    <3>2. PICK i \in 1..n : p[i] = m
      BY <1>8, <3>1
    <3>3. i # k
      BY <1>4, <2>1, <3>1, <3>2
    <3>4. ~(k < i)
      BY <1>4, <1>6, <2>1, <3>1, <3>2
    <3>5. i \in front
      BY <1>2, <3>3, <3>4
    <3>6. QED
      BY <3>2, <3>5
  <2>5. IsFiniteSet(front) /\ Cardinality(front) = k - 1
    <3>1. 1 \in Int /\ k - 1 \in Int
      BY <1>2
    <3>2. IsFiniteSet(front) /\ Cardinality(front) = IF 1 > k - 1 THEN 0 ELSE k - 1 - 1 + 1
      BY <3>1, FS_Interval
    <3>3. QED
      BY <1>2, <3>2
  <2> HIDE DEF front, T
  <2>6. f \in [front -> T]
    BY <2>3
  <2>7. \A i, j \in front : f[i] = f[j] => i = j
    BY <1>7, <2>2
  <2>8. \A m \in T : \E i \in front : f[i] = m
    BY <2>4
  <2> HIDE DEF f
  <2>9. f \in Bijection(front, T)
    BY <2>6, <2>7, <2>8, Fun_IsBij
  <2>10. ExistsBijection(front, T)
    BY <2>9, Fun_ExistsBij
  <2>11. Cardinality(T) = k - 1
    BY <2>5, <2>10, FS_Bijection
  <2>12. QED
    BY <2>11 DEF Rank, T
<1>11. ASSUME NEW m \in 1..n
       PROVE  Rank(log, log[m]) < n /\ list[Rank(log, log[m]) + 1] = log[m]
  <2>1. PICK i \in 1..n : p[i] = m
    BY <1>8
  <2>2. list[i] = log[m]
    BY <1>3, <2>1
  <2>3. Rank(log, log[m]) = i - 1
    BY <1>10, <2>2
  <2>4. QED
    BY <1>2, <2>2, <2>3
<1>12. QED
  BY <1>2, <1>9, <1>10, <1>11 DEF Ranked, log, n

-----------------------------------------------------------------------------
(* What is kept as rows are added and pages read *)

LEMMA AppendKeepsPlaces ==
  ASSUME NEW log \in Seq(Row), NEW y \in Row, NEW got \in Seq(Row), NEW found,
         y.id \notin found
  PROVE  /\ StillAhead(log, got, found) => StillAhead(Append(log, y), got, found)
         /\ MovedByLateRows(log, got, found) => MovedByLateRows(Append(log, y), got, found)
<1> DEFINE longer == Append(log, y)
<1>1. /\ longer \in Seq(Row) /\ Len(log) \in Nat
      /\ DOMAIN log = 1..Len(log) /\ DOMAIN longer = 1..(Len(log) + 1)
      /\ longer[Len(log) + 1] = y
      /\ \A i \in 1..Len(log) : longer[i] = log[i]
  BY AppendProperties, LenProperties
<1>2. \A x : /\ Rank(log, x) <= Rank(longer, x)
             /\ ~(y.created_at < x.created_at) => Rank(longer, x) = Rank(log, x)
  BY RankAppend
<1>3. \A x : Rank(log, x) \in Nat /\ Rank(longer, x) \in Nat
  BY <1>1, RankType
<1> HIDE DEF longer
<1>4. \A m \in DOMAIN log : m \in DOMAIN longer /\ longer[m] = log[m]
  BY <1>1
<1>5. ASSUME StillAhead(log, got, found)
      PROVE  StillAhead(longer, got, found)
  <2> SUFFICES ASSUME NEW id \in found
               PROVE  \E m \in DOMAIN longer :
                        /\ longer[m].id = id
                        /\ id \in Ids(got) \/ Len(got) <= Rank(longer, longer[m])
    BY DEF StillAhead
  <2>1. PICK m \in DOMAIN log :
          /\ log[m].id = id
          /\ id \in Ids(got) \/ Len(got) <= Rank(log, log[m])
    BY <1>5 DEF StillAhead
  <2>2. Len(got) <= Rank(log, log[m]) => Len(got) <= Rank(longer, log[m])
    BY <1>2, <1>3
  <2>3. QED
    BY <1>4, <2>1, <2>2
<1>6. ASSUME MovedByLateRows(log, got, found)
      PROVE  MovedByLateRows(longer, got, found)
  <2> SUFFICES ASSUME NEW i \in DOMAIN got
               PROVE  /\ i - 1 <= Rank(longer, got[i])
                      /\ i - 1 < Rank(longer, got[i]) =>
                           \E k \in DOMAIN longer :
                             /\ longer[k].id \notin found
                             /\ longer[k].created_at < got[i].created_at
    BY DEF MovedByLateRows
  <2>1. /\ i - 1 <= Rank(log, got[i])
        /\ i - 1 < Rank(log, got[i]) =>
             \E k \in DOMAIN log : /\ log[k].id \notin found
                                   /\ log[k].created_at < got[i].created_at
    BY <1>6 DEF MovedByLateRows
  <2>2. i - 1 <= Rank(longer, got[i])
    <3>1. i \in Nat
      BY LenProperties
    <3>2. /\ Rank(log, got[i]) \in Nat /\ Rank(longer, got[i]) \in Nat
          /\ Rank(log, got[i]) <= Rank(longer, got[i])
      BY <1>2, <1>3
    <3>3. QED
      BY <2>1, <3>1, <3>2
  <2>3. CASE y.created_at < got[i].created_at
    BY <1>1, <2>2, <2>3
  <2>4. CASE ~(y.created_at < got[i].created_at)
    BY <1>2, <1>4, <2>1, <2>2, <2>4
  <2>5. QED
    BY <2>3, <2>4
<1>7. QED
  BY <1>5, <1>6 DEF longer

LEMMA AppendKeepsStanding ==
  ASSUME NEW log \in Seq(Row), NEW y \in Row, NEW got,
         \A i \in DOMAIN got : got[i].id # y.id, StandsOrGone(log, got)
  PROVE  StandsOrGone(Append(log, y), got)
<1> DEFINE longer == Append(log, y)
<1>1. /\ Len(log) \in Nat
      /\ DOMAIN log = 1..Len(log) /\ DOMAIN longer = 1..(Len(log) + 1)
      /\ longer[Len(log) + 1] = y
      /\ \A i \in 1..Len(log) : longer[i] = log[i]
  BY AppendProperties, LenProperties
<1> HIDE DEF longer
<1>2. \A m \in DOMAIN log : m \in DOMAIN longer /\ longer[m] = log[m]
  BY <1>1
<1>3. \A m \in DOMAIN longer : m \in DOMAIN log \/ longer[m] = y
  BY <1>1
<1>4. Ids(longer) \subseteq Ids(log) \cup {y.id}
  BY <1>2, <1>3 DEF Ids
<1>5. QED
  BY <1>2, <1>4 DEF StandsOrGone, longer

\* What a reader has got after a page.
LEMMA GotAfterPage ==
  ASSUME NEW list \in Seq(Row), NEW got \in Seq(Row), NEW limit \in Nat,
         NEW longer, longer = got \o Page(list, limit, Len(got))
  PROVE  longer \in Seq(Row) /\ Continues(list, got, longer)
<1> DEFINE offset == Len(got)
           page == Page(list, limit, offset)
<1>1. offset \in Nat /\ Len(list) \in Nat
  BY LenProperties
<1>0. longer = got \o page
  OBVIOUS
<1>2. /\ page \in Seq(Row) /\ Len(page) \in Nat
      /\ offset < Len(list) => offset + Len(page) <= Len(list)
      /\ offset >= Len(list) => Len(page) = 0
      /\ \A i \in 1..Len(page) : page[i] = list[offset + i]
  BY <1>1, RowPage
<1> HIDE DEF page
<1>3. /\ longer \in Seq(Row)
      /\ Len(longer) = offset + Len(page)
      /\ \A i \in 1..(offset + Len(page)) :
           longer[i] = IF i <= offset THEN got[i] ELSE page[i - offset]
  BY <1>0, <1>2, ConcatProperties
<1>4. /\ DOMAIN longer = 1..Len(longer) /\ DOMAIN got = 1..offset
      /\ DOMAIN list = 1..Len(list)
  BY <1>3, LenProperties
<1> HIDE DEF offset
<1>5. Len(longer) \in Nat /\ offset <= Len(longer)
  BY <1>1, <1>2, <1>3
<1>6. \A i \in 1..offset : longer[i] = got[i]
  BY <1>1, <1>2, <1>3
<1>7. ASSUME NEW i \in 1..Len(longer), offset < i
      PROVE  i \in 1..Len(list) /\ longer[i] = list[i]
  <2>1. i - offset \in 1..Len(page) /\ offset + (i - offset) = i
    BY <1>1, <1>2, <1>3, <1>7
  <2>2. offset < Len(list)
    BY <1>1, <1>2, <2>1
  <2>3. i \in 1..Len(list)
    BY <1>1, <1>2, <1>3, <1>7, <2>2
  <2>4. ~(i <= offset) /\ i \in 1..(offset + Len(page))
    BY <1>1, <1>3, <1>7
  <2>5. QED
    BY <1>2, <1>3, <2>1, <2>3, <2>4
<1>8. QED
  BY <1>1, <1>3, <1>4, <1>5, <1>6, <1>7 DEF offset, Continues

\* A page of a list in which every row has its place.
LEMMA PageKeepsPlaces ==
  ASSUME NEW log \in Seq(Row), NEW list \in Seq(Row), NEW got \in Seq(Row),
         NEW limit \in Nat, NEW found, Ranked(log, list)
  PROVE  LET longer == got \o Page(list, limit, Len(got))
         IN  /\ StillAhead(log, got, found) => StillAhead(log, longer, found)
             /\ MovedByLateRows(log, got, found) => MovedByLateRows(log, longer, found)
<1> DEFINE longer == got \o Page(list, limit, Len(got))
<1>1. longer = got \o Page(list, limit, Len(got))
  OBVIOUS
<1>2. \A x : Rank(log, x) \in Nat
  BY RankType
<1> HIDE DEF longer
<1>3. Continues(list, got, longer)
  BY <1>1, GotAfterPage
<1> USE DEF Continues
<1>4. ASSUME StillAhead(log, got, found)
      PROVE  StillAhead(log, longer, found)
  <2> SUFFICES ASSUME NEW id \in found
               PROVE  \E m \in DOMAIN log :
                        /\ log[m].id = id
                        /\ id \in Ids(longer) \/ Len(longer) <= Rank(log, log[m])
    BY DEF StillAhead
  <2>1. PICK m \in DOMAIN log :
          /\ log[m].id = id
          /\ id \in Ids(got) \/ Len(got) <= Rank(log, log[m])
    BY <1>4 DEF StillAhead
  <2>2. CASE id \in Ids(got)
    <3>1. PICK i \in DOMAIN got : got[i].id = id
      BY <2>2 DEF Ids
    <3>2. i \in DOMAIN longer /\ longer[i].id = id
      BY <1>3, <3>1 DEF Ranked
    <3>3. QED
      BY <2>1, <3>2 DEF Ids
  <2>3. CASE Len(got) <= Rank(log, log[m]) /\ Rank(log, log[m]) < Len(longer)
    <3> DEFINE i == Rank(log, log[m]) + 1
    <3>1. i \in 1..Len(longer) /\ Len(got) < i
      BY <1>2, <1>3, <2>3
    <3>2. longer[i] = list[i] /\ list[i] = log[m]
      BY <1>3, <3>1 DEF Ranked
    <3>3. QED
      BY <1>3, <2>1, <3>1, <3>2 DEF Ids
  <2>4. CASE Len(longer) <= Rank(log, log[m])
    BY <2>1, <2>4
  <2>5. QED
    BY <1>2, <1>3, <2>1, <2>2, <2>3, <2>4
<1>5. ASSUME MovedByLateRows(log, got, found)
      PROVE  MovedByLateRows(log, longer, found)
  <2> SUFFICES ASSUME NEW i \in DOMAIN longer
               PROVE  /\ i - 1 <= Rank(log, longer[i])
                      /\ i - 1 < Rank(log, longer[i]) =>
                           \E k \in DOMAIN log :
                             /\ log[k].id \notin found
                             /\ log[k].created_at < longer[i].created_at
    BY DEF MovedByLateRows
  <2>1. CASE i <= Len(got)
    BY <1>3, <1>5, <2>1 DEF MovedByLateRows
  <2>2. CASE Len(got) < i
    BY <1>3, <2>2 DEF Ranked
  <2>3. QED
    BY <1>3, <2>1, <2>2
<1>6. QED
  BY <1>4, <1>5 DEF longer

LEMMA PageKeepsStanding ==
  ASSUME NEW log \in Seq(Row), NEW got \in Seq(Row), NEW limit \in Nat,
         \A i, j \in DOMAIN log : i # j => log[i].id # log[j].id,
         StandsOrGone(log, got)
  PROVE  StandsOrGone(log, got \o Page(log, limit, Len(got)))
<1> DEFINE longer == got \o Page(log, limit, Len(got))
<1>0. longer = got \o Page(log, limit, Len(got))
  OBVIOUS
<1> HIDE DEF longer
<1>1. Continues(log, got, longer)
  BY <1>0, GotAfterPage
<1> USE DEF Continues
<1> DEFINE Stands(i) == i \in DOMAIN log /\ longer[i] = log[i]
           Gone(i)   == i \in DOMAIN got /\ longer[i] = got[i] /\ got[i].id \notin Ids(log)
<1>2. \A i \in DOMAIN longer : Stands(i) \/ Gone(i)
  <2> SUFFICES ASSUME NEW i \in DOMAIN longer PROVE Stands(i) \/ Gone(i)
    OBVIOUS
  <2>1. CASE i <= Len(got)
    BY <1>1, <2>1 DEF StandsOrGone
  <2>2. CASE Len(got) < i
    BY <1>1, <2>2
  <2>3. QED
    BY <1>1, <2>1, <2>2
<1>3. \A i : Stands(i) => longer[i].id \in Ids(log)
  BY DEF Ids
<1>4. \A i, j \in DOMAIN longer : i # j => longer[i].id # longer[j].id
  <2> SUFFICES ASSUME NEW i \in DOMAIN longer, NEW j \in DOMAIN longer, i # j
               PROVE  longer[i].id # longer[j].id
    OBVIOUS
  <2>1. CASE Stands(i) /\ Stands(j)
    BY <2>1
  <2>2. CASE Gone(i) /\ Gone(j)
    BY <2>2 DEF StandsOrGone
  <2>3. CASE (Stands(i) /\ Gone(j)) \/ (Stands(j) /\ Gone(i))
    BY <1>3, <2>3
  <2>4. (Stands(i) \/ Gone(i)) /\ (Stands(j) \/ Gone(j))
    BY <1>2
  <2> HIDE DEF Stands, Gone
  <2>5. QED
    BY <2>1, <2>2, <2>3, <2>4
<1>5. QED
  BY <1>2, <1>4 DEF StandsOrGone, longer

LEMMA ListingRows ==
  ASSUME TypeOK, NEW s \in Session, NEW list \in Listings(s), NEW k \in 1..Len(list)
  PROVE  \E m \in DOMAIN rows[s] : list[k] = rows[s][m]
<1> DEFINE n == Len(rows[s])
<1>1. n \in Nat /\ DOMAIN rows[s] = 1..n
  BY LenProperties DEF TypeOK
<1>2. CASE ~postgres
  BY <1>1, <1>2, ListingType
<1>3. CASE postgres
  <2>1. PICK p \in [1..n -> 1..n] : list = [i \in 1..n |-> rows[s][p[i]]]
    BY <1>3 DEF Listings
  <2> HIDE DEF n
  <2>2. k \in 1..n
    BY <1>1, <2>1
  <2>3. list[k] = rows[s][p[k]] /\ p[k] \in DOMAIN rows[s]
    BY <1>1, <2>1, <2>2
  <2>4. QED
    BY <2>3
<1>4. QED
  BY <1>2, <1>3

-----------------------------------------------------------------------------
(* The steps *)

LEMMA PlaceInit == Init => PlaceInv
<1> SUFFICES ASSUME Init PROVE PlaceInv
  OBVIOUS
<1>1. IInv
  BY ExportInit
<1>2. /\ rows = [s \in Session |-> <<>>]
      /\ reader = NoReader
  BY DEF Init
<1>3. StoredOnce
  BY <1>2 DEF StoredOnce, Stamped
<1>4. QED
  BY <1>1, <1>2, <1>3 DEF PlaceInv, ReadersKnowStored, PlacesKept,
     NothingStoredIsMissed, NoReader

\* A step that stores nothing and leaves the reader what it has.
LEMMA NothingStored ==
  ASSUME PlaceInv, IInv', UNCHANGED <<postgres, rows>>,
         \A w \in Writer : stmt[w].at = "done" => stmt'[w].at = "done",
         reader'.at = reader.at, reader'.session = reader.session,
         reader'.got = reader.got, reader'.found = reader.found,
         reader.lost => reader'.lost
  PROVE  PlaceInv'
<1>1. TypeOK
  BY DEF PlaceInv, IInv
<1>2. \A s \in Session : \A i \in DOMAIN rows[s] : rows[s][i].id \in Writer
  <2> SUFFICES ASSUME NEW s \in Session, NEW i \in DOMAIN rows[s]
               PROVE  rows[s][i].id \in Writer
    OBVIOUS
  <2>1. rows[s] \in Seq(Row)
    BY <1>1 DEF TypeOK
  <2>2. rows[s][i] \in Row
    BY <2>1, ElementOfSeq, LenProperties
  <2>3. QED
    BY <2>2 DEF Row
<1>3. StoredOnce'
  BY <1>2 DEF PlaceInv, StoredOnce
<1>4. ReadersKnowStored'
  <2>1. reader.found \subseteq Writer /\ reader.got \in Seq(Row)
    BY <1>1 DEF TypeOK
  <2>2. \A i \in DOMAIN reader.got : reader.got[i] \in Row
    BY <2>1, ElementOfSeq, LenProperties
  <2>3. \A i \in DOMAIN reader.got : reader.got[i].id \in Writer
    BY <2>2 DEF Row
  <2>4. QED
    BY <2>1, <2>3 DEF PlaceInv, ReadersKnowStored
<1>5. PlacesKept'
  BY DEF PlaceInv, PlacesKept
<1>6. NothingStoredIsMissed'
  BY DEF PlaceInv, NothingStoredIsMissed, StampsDiffer, Got
<1>7. QED
  BY <1>3, <1>4, <1>5, <1>6 DEF PlaceInv

LEMMA SomethingStored ==
  ASSUME PlaceInv, IInv', NEW w \in Writer, NEW s \in Session,
         NEW stamp \in Nat \cup {None}, postgres => stamp \in Nat,
         Store(w, s, stamp), UNCHANGED <<postgres, reader>>,
         stmt[w].at # "done", stmt'[w].at = "done",
         \A v \in Writer : v # w => stmt'[v] = stmt[v]
  PROVE  PlaceInv'
<1> DEFINE y == Experience(w, stamp)
           log == rows[s]
           longer == Append(log, y)
<1>1. TypeOK /\ StoredOnce /\ ReadersKnowStored /\ PlacesKept
  BY DEF PlaceInv, IInv
<1>2. y \in Row /\ y.id = w /\ y.created_at = stamp
  BY DEF Experience, Row
<1>3. rows \in [Session -> Seq(Row)] /\ log \in Seq(Row)
  BY <1>1 DEF TypeOK
<1>4. /\ Len(log) \in Nat /\ DOMAIN log = 1..Len(log)
      /\ DOMAIN longer = 1..(Len(log) + 1)
      /\ longer[Len(log) + 1] = y
      /\ \A i \in 1..Len(log) : longer[i] = log[i]
  BY <1>2, <1>3, AppendProperties, LenProperties
<1>5. rows'[s] = longer /\ \A t \in Session : t # s => rows'[t] = rows[t]
  BY <1>3 DEF Store
<1>6. longer = Append(log, y)
  OBVIOUS
<1> HIDE DEF log, longer, y
<1>7. \A v : stmt[v].at = "done" /\ v \in Writer => v # w /\ stmt'[v] = stmt[v]
  OBVIOUS
<1>8. \A t \in Session : \A i \in DOMAIN rows[t] : rows[t][i].id \in Writer
  <2> SUFFICES ASSUME NEW t \in Session, NEW i \in DOMAIN rows[t]
               PROVE  rows[t][i].id \in Writer
    OBVIOUS
  <2>1. rows[t] \in Seq(Row)
    BY <1>3
  <2>2. rows[t][i] \in Row
    BY <2>1, ElementOfSeq, LenProperties
  <2>3. QED
    BY <2>2 DEF Row
<1>9. \A i \in DOMAIN longer : (i \in DOMAIN log /\ longer[i] = log[i]) \/ i = Len(log) + 1
  BY <1>4
<1>10. \A i \in DOMAIN log : /\ log[i].id # w
                             /\ stmt'[log[i].id].at = "done"
  BY <1>1, <1>7, <1>8 DEF StoredOnce, log
<1>11. StoredOnce'
  <2> SUFFICES ASSUME NEW t \in Session
               PROVE  /\ \A i \in DOMAIN rows'[t] : stmt'[rows'[t][i].id].at = "done"
                      /\ \A i, j \in DOMAIN rows'[t] :
                           i # j => rows'[t][i].id # rows'[t][j].id
                      /\ postgres => Stamped(rows'[t])
    BY DEF StoredOnce
  <2>1. CASE t # s
    BY <1>1, <1>5, <1>7, <1>8, <2>1 DEF StoredOnce
  <2>2. CASE t = s
    <3>1. /\ \A i, j \in DOMAIN log : i # j => log[i].id # log[j].id
          /\ postgres => \A k \in DOMAIN log : log[k].created_at \in Nat
      BY <1>1 DEF StoredOnce, Stamped, log
    <3>2. \A i \in DOMAIN longer : stmt'[longer[i].id].at = "done"
      BY <1>2, <1>4, <1>9, <1>10
    <3>3. \A i, j \in DOMAIN longer : i # j => longer[i].id # longer[j].id
      BY <1>2, <1>4, <1>9, <1>10, <3>1
    <3>4. postgres => \A i \in DOMAIN longer : longer[i].created_at \in Nat
      BY <1>2, <1>4, <1>9, <3>1
    <3>5. QED
      BY <1>5, <2>2, <3>2, <3>3, <3>4 DEF Stamped
  <2>3. QED
    BY <2>1, <2>2
<1>12. w \notin reader.found /\ \A i \in DOMAIN reader.got : reader.got[i].id # w
  BY <1>1 DEF ReadersKnowStored
<1>13. ReadersKnowStored'
  <2>1. reader.found \subseteq Writer /\ reader.got \in Seq(Row)
    BY <1>1 DEF TypeOK
  <2>2. \A i \in DOMAIN reader.got : reader.got[i] \in Row
    BY <2>1, ElementOfSeq, LenProperties
  <2>3. \A i \in DOMAIN reader.got : reader.got[i].id \in Writer
    BY <2>2 DEF Row
  <2>4. QED
    BY <1>1, <1>7, <2>1, <2>3 DEF ReadersKnowStored
<1>14. PlacesKept'
  <2>1. CASE reader.session \notin {None, s}
    <3>1. reader.session \in Session
      BY <1>1, <2>1 DEF TypeOK
    <3>2. rows'[reader.session] = rows[reader.session]
      BY <1>5, <2>1, <3>1
    <3>3. QED
      BY <1>1, <3>2 DEF PlacesKept
  <2>2. CASE reader.session = s /\ reader.session # None
    <3>1. /\ postgres /\ Distinct(log) =>
               /\ StillAhead(log, reader.got, reader.found)
               /\ MovedByLateRows(log, reader.got, reader.found)
          /\ ~postgres => StandsOrGone(log, reader.got)
          /\ ~postgres /\ ~reader.lost => reader.found \subseteq Ids(log)
      BY <1>1, <2>2 DEF PlacesKept, log
    <3>2. postgres /\ Distinct(longer) =>
               /\ StillAhead(longer, reader.got, reader.found)
               /\ MovedByLateRows(longer, reader.got, reader.found)
      <4>1. reader.got \in Seq(Row)
        BY <1>1 DEF TypeOK
      <4>2. QED
        BY <1>2, <1>3, <1>6, <1>12, <3>1, <4>1, DistinctAppend, AppendKeepsPlaces
    <3>3. ~postgres => StandsOrGone(longer, reader.got)
      BY <1>2, <1>3, <1>6, <1>12, <3>1, AppendKeepsStanding
    <3>4. Ids(log) \subseteq Ids(longer)
      BY <1>4 DEF Ids
    <3>5. QED
      BY <1>5, <2>2, <3>1, <3>2, <3>3, <3>4 DEF PlacesKept
  <2>3. CASE reader.session = None
    BY <2>3 DEF PlacesKept
  <2>4. QED
    BY <2>1, <2>2, <2>3
<1>15. NothingStoredIsMissed'
  <2> SUFFICES ASSUME reader.at = "done", StampsDiffer', ~reader.lost
               PROVE  reader.found \subseteq Got
    BY DEF NothingStoredIsMissed, Got
  <2>1. CASE ~postgres \/ reader.session # s
    <3>1. reader.session \in Session
      BY DEF PlaceInv
    <3>2. StampsDiffer
      BY <1>5, <2>1, <3>1 DEF StampsDiffer
    <3>3. QED
      BY <3>2 DEF PlaceInv, NothingStoredIsMissed
  <2>2. CASE postgres /\ reader.session = s
    <3>1. Distinct(longer)
      BY <1>5, <2>2 DEF StampsDiffer, Distinct
    <3>2. Distinct(log)
      BY <1>2, <1>3, <1>6, <3>1, DistinctAppend
    <3>3. StampsDiffer
      BY <2>2, <3>2 DEF StampsDiffer, Distinct, log
    <3>4. QED
      BY <3>3 DEF PlaceInv, NothingStoredIsMissed
  <2>3. QED
    BY <2>1, <2>2
<1>16. QED
  BY <1>11, <1>13, <1>14, <1>15 DEF PlaceInv

LEMMA InsertsKeepPlaces ==
  ASSUME PlaceInv, IInv', NEW w \in Writer,
         \/ \E s \in Session : InsertInMemory(w, s)
         \/ CommitInsert(w)
  PROVE  PlaceInv'
<1>1. IInv /\ stmt \in [Writer -> [at : {"new", "running", "done", "failed"},
                                   session : Session \cup {None}, stamp : Nat]]
  BY DEF PlaceInv, IInv, TypeOK
<1>2. ASSUME NEW s \in Session, InsertInMemory(w, s)
      PROVE  PlaceInv'
  <2>1. /\ ~postgres /\ Store(w, s, None) /\ stmt[w].at # "done"
        /\ stmt' = [stmt EXCEPT ![w] = [@ EXCEPT !.at = "done", !.session = s]]
        /\ UNCHANGED <<postgres, reader>>
    BY <1>2 DEF InsertInMemory
  <2>2. stmt'[w].at = "done" /\ \A v \in Writer : v # w => stmt'[v] = stmt[v]
    BY <1>1, <2>1
  <2>3. QED
    BY <2>1, <2>2, SomethingStored
<1>3. ASSUME CommitInsert(w)
      PROVE  PlaceInv'
  <2>1. /\ stmt[w].at = "running"
        /\ Store(w, stmt[w].session, stmt[w].stamp)
        /\ stmt' = [stmt EXCEPT ![w].at = "done"]
        /\ UNCHANGED <<postgres, reader>>
    BY <1>3 DEF CommitInsert
  <2>2. stmt[w].session \in Session /\ stmt[w].stamp \in Nat
    BY <1>1, <2>1 DEF IInv
  <2>3. stmt'[w].at = "done" /\ \A v \in Writer : v # w => stmt'[v] = stmt[v]
    BY <1>1, <2>1
  <2>4. QED
    BY <2>1, <2>2, <2>3, SomethingStored
<1>4. QED
  BY <1>2, <1>3

LEMMA OthersKeepPlaces ==
  ASSUME PlaceInv, IInv',
         \/ \E w \in Writer : (\E s \in Session : StartInsert(w, s)) \/ FailInsert(w)
         \/ Tick
         \/ UNCHANGED vars
  PROVE  PlaceInv'
<1>1. stmt \in [Writer -> [at : {"new", "running", "done", "failed"},
                           session : Session \cup {None}, stamp : Nat]]
  BY DEF PlaceInv, IInv, TypeOK
<1>2. UNCHANGED <<postgres, rows, reader>>
  BY DEF StartInsert, FailInsert, Tick, vars
<1>3. \A v \in Writer : stmt[v].at = "done" => stmt'[v] = stmt[v]
  BY <1>1 DEF StartInsert, FailInsert, Tick, vars
<1>4. QED
  BY <1>2, <1>3, NothingStored

LEMMA RestartKeepsPlaces ==
  ASSUME PlaceInv, IInv', Restart
  PROVE  PlaceInv'
<1>1. /\ rows' = IF postgres THEN rows ELSE [s \in Session |-> <<>>]
      /\ reader' = [reader EXCEPT !.lost = reader.lost \/ ~postgres]
      /\ UNCHANGED <<postgres, stmt>>
  BY DEF Restart
<1>2. /\ reader'.at = reader.at /\ reader'.session = reader.session
      /\ reader'.got = reader.got /\ reader'.found = reader.found
      /\ reader'.lost = (reader.lost \/ ~postgres)
  BY <1>1 DEF PlaceInv, IInv, TypeOK
<1>3. CASE postgres
  BY <1>1, <1>2, <1>3, NothingStored
<1>4. CASE ~postgres
  <2>1. rows' = [s \in Session |-> <<>>] /\ reader'.lost
    BY <1>1, <1>2, <1>4
  <2>2. StoredOnce'
    BY <1>1, <1>4, <2>1 DEF StoredOnce
  <2>3. ReadersKnowStored'
    BY <1>1, <1>2 DEF PlaceInv, ReadersKnowStored
  <2>4. PlacesKept'
    <3>1. SUFFICES ASSUME reader.session # None
                   PROVE  StandsOrGone(rows'[reader.session], reader.got)
      BY <1>1, <1>2, <1>4, <2>1 DEF PlacesKept
    <3>2. StandsOrGone(rows[reader.session], reader.got)
      BY <1>4, <3>1 DEF PlaceInv, PlacesKept
    <3>3. rows'[reader.session] = <<>>
      BY <2>1, <3>1 DEF PlaceInv, IInv, TypeOK
    <3>4. Ids(<<>>) = {}
      BY DEF Ids
    <3>5. QED
      BY <3>2, <3>3, <3>4 DEF StandsOrGone
  <2>5. NothingStoredIsMissed'
    BY <2>1 DEF NothingStoredIsMissed
  <2>6. QED
    BY <1>2, <2>2, <2>3, <2>4, <2>5 DEF PlaceInv
<1>5. QED
  BY <1>3, <1>4

LEMMA StartKeepsPlaces ==
  ASSUME PlaceInv, IInv', NEW s \in Session, NEW limit \in Limit,
         StartReading(s, limit)
  PROVE  PlaceInv'
<1> DEFINE log == rows[s]
           found == {log[i].id : i \in DOMAIN log}
<1>1. /\ reader' = [at |-> "reading", session |-> s, limit |-> limit, got |-> <<>>,
                    found |-> found, lost |-> FALSE]
      /\ UNCHANGED <<postgres, rows, stmt>>
  BY DEF StartReading
<1>2. log \in Seq(Row)
  BY DEF PlaceInv, IInv, TypeOK
<1>3. StoredOnce'
  BY <1>1 DEF PlaceInv, StoredOnce
<1>4. ReadersKnowStored'
  BY <1>1 DEF PlaceInv, StoredOnce, ReadersKnowStored
<1>5. found = Ids(log)
  BY DEF Ids
<1> HIDE DEF log, found
<1>6. StillAhead(log, <<>>, found)
  <2>1. \A x : Rank(log, x) \in Nat /\ Len(<<>>) = 0
    BY <1>2, RankType
  <2>2. QED
    BY <1>5, <2>1 DEF StillAhead, Ids
<1>7. MovedByLateRows(log, <<>>, found) /\ StandsOrGone(log, <<>>)
  BY DEF MovedByLateRows, StandsOrGone
<1>8. PlacesKept'
  BY <1>1, <1>5, <1>6, <1>7 DEF PlacesKept, log
<1>9. QED
  BY <1>1, <1>3, <1>4, <1>8 DEF PlaceInv, NothingStoredIsMissed

\* What a reader has when its page is empty.
LEMMA EmptyPage ==
  ASSUME PlaceInv, reader.at = "reading", NEW list \in Listings(reader.session),
         Page(list, reader.limit, Len(reader.got)) = <<>>,
         StampsDiffer, ~reader.lost
  PROVE  reader.found \subseteq Got
<1> DEFINE s == reader.session
           log == rows[s]
           got == reader.got
<1>1. TypeOK /\ s \in Session /\ StoredOnce /\ PlacesKept /\ PagesAreTheLog
      /\ reader.limit \in Nat /\ got \in Seq(Row) /\ log \in Seq(Row) /\ s # None
  BY ExportAssumption DEF PlaceInv, IInv, TypeOK
<1>2. list \in Seq(Row) /\ (~postgres => list = log)
  BY <1>1, ListingType
<1>3. Len(list) \in Nat /\ Len(got) \in Nat /\ DOMAIN got = 1..Len(got)
  BY <1>1, <1>2, LenProperties
<1>4. ~(Len(got) < Len(list))
  <2>1. Len(Page(list, reader.limit, Len(got))) = 0
    BY EmptySeq
  <2>2. Len(got) < Len(list) => 0 < Len(Page(list, reader.limit, Len(got)))
    BY <1>1, <1>2, <1>3, PageProperties
  <2>3. QED
    BY <2>1, <2>2
<1>5. Got = Ids(got)
  BY DEF Got, Ids
<1>6. CASE postgres
  <2>1. Distinct(log) /\ Stamped(log)
    BY <1>1, <1>6 DEF StampsDiffer, Distinct, StoredOnce
  <2>2. Ranked(log, list)
    BY <1>1, <1>6, <2>1, ListingPlaces
  <2>3. StillAhead(log, got, reader.found)
    BY <1>1, <1>6, <2>1 DEF PlacesKept
  <2>4. \A x : Rank(log, x) \in Nat
    BY <1>1, RankType
  <2> HIDE DEF log, got
  <2>5. ASSUME NEW id \in reader.found
        PROVE  id \in Ids(got)
    <3>1. PICK m \in DOMAIN log : id \in Ids(got) \/ Len(got) <= Rank(log, log[m])
      BY <2>3 DEF StillAhead
    <3>2. Rank(log, log[m]) < Len(list)
      BY <2>2 DEF Ranked
    <3>3. QED
      BY <1>3, <1>4, <2>4, <3>1, <3>2
  <2>6. QED
    BY <1>5, <2>5
<1>7. CASE ~postgres
  <2>1. DOMAIN log = 1..Len(log) /\ Len(log) = Len(list)
    BY <1>1, <1>2, <1>7, LenProperties
  <2>2. \A i \in DOMAIN got : got[i] = log[i]
    BY <1>1, <1>7 DEF PagesAreTheLog
  <2>3. reader.found \subseteq Ids(log)
    BY <1>1, <1>7 DEF PlacesKept
  <2> HIDE DEF log, got
  <2>4. \A i \in DOMAIN log : i \in DOMAIN got
    BY <1>3, <1>4, <2>1
  <2>5. QED
    BY <1>5, <2>2, <2>3, <2>4 DEF Ids
<1>8. QED
  BY <1>6, <1>7

LEMMA ReadPageKeepsPlaces ==
  ASSUME PlaceInv, IInv', ReadPage
  PROVE  PlaceInv'
<1> DEFINE s == reader.session
           log == rows[s]
           got == reader.got
<1>1. TypeOK /\ s \in Session /\ StoredOnce /\ PlacesKept /\ ReadersKnowStored
      /\ reader.at = "reading" /\ UNCHANGED <<postgres, rows, stmt>>
      /\ reader.limit \in Nat /\ got \in Seq(Row) /\ log \in Seq(Row) /\ s # None
  BY ExportAssumption DEF PlaceInv, IInv, TypeOK, ReadPage
<1>2. PICK list \in Listings(s) :
        LET page == Page(list, reader.limit, Len(reader.got))
        IN  reader' = IF page = <<>> THEN [reader EXCEPT !.at = "done"]
                      ELSE [reader EXCEPT !.got = @ \o page]
  BY DEF ReadPage
<1> DEFINE page == Page(list, reader.limit, Len(got))
           longer == got \o page
<1>3. list \in Seq(Row) /\ (~postgres => list = log)
  BY <1>1, ListingType
<1>4. StoredOnce'
  BY <1>1 DEF StoredOnce
<1>5. CASE page = <<>>
  <2>1. /\ reader'.at = "done" /\ reader'.session = s /\ reader'.got = got
        /\ reader'.found = reader.found /\ reader'.lost = reader.lost
    BY <1>1, <1>2, <1>5 DEF TypeOK
  <2>2. ReadersKnowStored' /\ PlacesKept'
    BY <1>1, <2>1 DEF ReadersKnowStored, PlacesKept
  <2>3. StampsDiffer' => StampsDiffer
    BY <1>1, <2>1 DEF StampsDiffer
  <2>4. StampsDiffer /\ ~reader.lost => reader.found \subseteq Got
    BY <1>1, <1>5, EmptyPage
  <2>5. NothingStoredIsMissed'
    BY <2>1, <2>3, <2>4 DEF NothingStoredIsMissed, Got
  <2>6. QED
    BY <1>1, <1>4, <2>1, <2>2, <2>5 DEF PlaceInv
<1>6. CASE page # <<>>
  <2>1. /\ reader'.at = "reading" /\ reader'.session = s /\ reader'.got = longer
        /\ reader'.found = reader.found /\ reader'.lost = reader.lost
    BY <1>1, <1>2, <1>6 DEF TypeOK
  <2>2. longer = got \o Page(list, reader.limit, Len(got))
    OBVIOUS
  <2>3. DOMAIN log = 1..Len(log)
    BY <1>1, LenProperties
  <2> HIDE DEF longer, page
  <2>4. Continues(list, got, longer)
    BY <1>1, <1>3, <2>2, GotAfterPage
  <2>5. \A i \in DOMAIN longer : stmt[longer[i].id].at = "done"
    <3> SUFFICES ASSUME NEW i \in DOMAIN longer PROVE stmt[longer[i].id].at = "done"
      OBVIOUS
    <3>1. CASE i <= Len(got)
      BY <1>1, <2>4, <3>1 DEF Continues, ReadersKnowStored
    <3>2. CASE Len(got) < i
      <4>1. i \in 1..Len(list) /\ longer[i] = list[i]
        BY <2>4, <3>2 DEF Continues
      <4>2. PICK m \in DOMAIN log : list[i] = log[m]
        BY <1>1, <4>1, ListingRows
      <4>3. QED
        BY <1>1, <4>1, <4>2 DEF StoredOnce
    <3>3. QED
      BY <2>4, <3>1, <3>2 DEF Continues
  <2>6. ReadersKnowStored'
    BY <1>1, <2>1, <2>5 DEF ReadersKnowStored
  <2>7. ASSUME postgres, Distinct(log)
        PROVE  /\ StillAhead(log, longer, reader.found)
               /\ MovedByLateRows(log, longer, reader.found)
    <3>1. Stamped(log)
      BY <1>1, <2>7 DEF StoredOnce
    <3>2. Ranked(log, list)
      BY <1>1, <2>7, <3>1, ListingPlaces
    <3>3. StillAhead(log, got, reader.found) /\ MovedByLateRows(log, got, reader.found)
      BY <1>1, <2>7 DEF PlacesKept
    <3> HIDE DEF log, got
    <3>4. QED
      BY <1>1, <1>3, <2>2, <3>2, <3>3, PageKeepsPlaces
  <2>8. ASSUME ~postgres
        PROVE  StandsOrGone(log, longer)
    <3>1. StandsOrGone(log, got) /\ \A i, j \in DOMAIN log : i # j => log[i].id # log[j].id
      BY <1>1, <2>8 DEF PlacesKept, StoredOnce
    <3>2. longer = got \o Page(log, reader.limit, Len(got))
      BY <1>3, <2>2, <2>8
    <3> HIDE DEF log, got
    <3>3. QED
      BY <1>1, <3>1, <3>2, PageKeepsStanding
  <2>9. PlacesKept'
    BY <1>1, <2>1, <2>7, <2>8 DEF PlacesKept
  <2>10. NothingStoredIsMissed'
    BY <2>1 DEF NothingStoredIsMissed
  <2>11. QED
    BY <1>1, <1>4, <2>1, <2>6, <2>9, <2>10 DEF PlaceInv
<1>7. QED
  BY <1>5, <1>6

LEMMA PlaceNext ==
  ASSUME PlaceInv, [Next]_vars
  PROVE  PlaceInv'
<1>1. IInv'
  BY ExportNext DEF PlaceInv
<1>2. CASE UNCHANGED vars
  BY <1>1, <1>2, OthersKeepPlaces
<1>3. CASE Next
  BY <1>1, <1>3, InsertsKeepPlaces, OthersKeepPlaces, RestartKeepsPlaces,
     StartKeepsPlaces, ReadPageKeepsPlaces DEF Next
<1>4. QED
  BY <1>2, <1>3

(* A reader that came to the end has every experience that was stored when it
   began, for any inserts, limits and orders of commits, as long as no two rows
   carry one instant: rows only move back in the order of a database, and what a
   reader has not got yet stays at or behind its offset (list_by_session of
   store.rs, export_experiences of export.rs). *)
THEOREM NothingIsMissed == Spec => []NothingStoredIsMissed
<1>1. PlaceInv => NothingStoredIsMissed
  BY DEF PlaceInv
<1>2. QED
  BY PlaceInit, PlaceNext, <1>1, PTL DEF Spec

(* An experience is read twice only if a row with an earlier instant became
   visible after the reader began: what a reader has got stands where it got it,
   or a late row has pushed it on (NOW() of insert_experience is the start of
   the transaction). *)
THEOREM RepeatsHaveALateCommit == Spec => []RepeatsOnlyAfterLateCommit
<1>1. PlaceInv => RepeatsOnlyAfterLateCommit
  <2> DEFINE log == rows[reader.session]
             got == reader.got
  <2> SUFFICES ASSUME PlaceInv, reader.session # None, StampsDiffer,
                      NEW i \in DOMAIN got, NEW j \in DOMAIN got,
                      i < j, got[i] = got[j]
               PROVE  \E k \in DOMAIN log : /\ log[k].id \notin reader.found
                                            /\ Earlier(log[k], got[i])
    BY DEF RepeatsOnlyAfterLateCommit
  <2>1. log \in Seq(Row) /\ got \in Seq(Row)
    BY DEF PlaceInv, IInv, TypeOK
  <2>2. i \in Nat /\ j \in Nat
    BY <2>1, LenProperties
  <2>3. postgres
    <3>1. ~postgres => got[i].id # got[j].id
      BY <2>2 DEF PlaceInv, PlacesKept, StandsOrGone
    <3>2. QED
      BY <3>1
  <2>4. Distinct(log)
    BY <2>3 DEF StampsDiffer, Distinct
  <2>5. MovedByLateRows(log, got, reader.found)
    BY <2>3, <2>4 DEF PlaceInv, PlacesKept
  <2>6. j - 1 <= Rank(log, got[j]) /\ Rank(log, got[j]) \in Nat
    BY <2>1, <2>5, RankType DEF MovedByLateRows
  <2>7. i - 1 < Rank(log, got[i])
    BY <2>2, <2>6
  <2>8. QED
    BY <2>3, <2>5, <2>7 DEF MovedByLateRows, Earlier
<1>2. QED
  BY PlaceInit, PlaceNext, <1>1, PTL DEF Spec
=============================================================================
