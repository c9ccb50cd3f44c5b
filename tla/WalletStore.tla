----------------------------- MODULE WalletStore -----------------------------
(***************************************************************************)
(* Wallets: InMemoryWalletStore of controller/src/persistence_metrics and  *)
(* the two handlers of cli/src/server.rs that use it.  Each operation runs *)
(* under one acquisition of the store's mutex, so it is one step.  Money   *)
(* is counted in the smallest unit; the store ignores currencies, and      *)
(* nothing on the way to it looks at the sign of an amount or a limit.     *)
(***************************************************************************)
EXTENDS Integers

CONSTANTS
  Wallet,         \* wallet ids clients name
  None,           \* no wallet
  Amount,         \* the amounts and limits requests carry, of either sign
  MaxOperations,  \* bound: operations and creations
  MaxDay          \* bound: last calendar day

ASSUME WalletAssumption ==
  /\ None \notin [balance : Int, limit : Int, spent : Int]
  /\ Amount \subseteq Int
  /\ MaxOperations \in Nat
  /\ MaxDay \in Nat

VARIABLES
  wallets,     \* InMemoryWalletStore.inner
  answer,      \* the last answer of POST /wallets/{id}/operations
  day,         \* the calendar day
  operations,  \* how many requests have been handled
  books        \* history: per wallet id what creation, credits and debits did

vars == <<wallets, answer, day, operations, books>>

Gain(m) == IF m > 0 THEN m ELSE 0

(* The books of a wallet created with this balance.  A credit adds to         *)
(* "credited", or to "revoked" if it is negative; a debit to "taken", or to   *)
(* "returned"; "today" is what the debits of the day come to, before and      *)
(* after a creation alike.                                                    *)
NewBooks(balance, today) ==
  [opening |-> balance, credited |-> 0, revoked |-> 0,
   taken |-> 0, returned |-> 0, today |-> today]

Credited(book, m) ==
  [book EXCEPT !.credited = @ + Gain(m), !.revoked = @ + Gain(-m)]

Debited(book, m) ==
  [book EXCEPT !.taken = @ + Gain(m), !.returned = @ + Gain(-m),
               !.today = @ + m]

Answer(w, m, outcome) == [wallet |-> w, amount |-> m, outcome |-> outcome]

Init ==
  /\ wallets = [w \in Wallet |-> None]
  /\ answer = None
  /\ day = 0
  /\ operations = 0
  /\ books = [w \in Wallet |-> NewBooks(0, 0)]

Handle ==
  /\ operations < MaxOperations
  /\ operations' = operations + 1
  /\ UNCHANGED day

\* POST /wallets inserts the wallet, over an existing one if the client names
\* its id; nothing has been spent from it.
Create(w, balance, limit) ==
  /\ Handle
  /\ wallets' = [wallets EXCEPT
       ![w] = [balance |-> balance, limit |-> limit, spent |-> 0]]
  /\ books' = [books EXCEPT
       ![w] = NewBooks(balance, @.today)]
  /\ answer' = None

\* An operation on an unknown wallet: 404.
NotFound(w, m) ==
  /\ Handle
  /\ wallets[w] = None
  /\ answer' = Answer(w, m, "NOT_FOUND")
  /\ UNCHANGED <<wallets, books>>

Credit(w, m) ==
  /\ Handle
  /\ wallets[w] # None
  /\ wallets' = [wallets EXCEPT ![w].balance = @ + m]
  /\ books' = [books EXCEPT ![w] = Credited(@, m)]
  /\ answer' = Answer(w, m, "OK")

\* Mutant: the limit checked before the amount is added.
CoversSpentOnly(w, m) ==
  /\ wallets[w].balance >= m
  /\ wallets[w].spent <= wallets[w].limit

\* Mutant: the balance is not checked.
CoversLimitOnly(w, m) == wallets[w].spent + m <= wallets[w].limit

\* Both checks of a debit: a negative one passes the first whenever the
\* balance is not below it.
Covers(w, m) ==
  /\ wallets[w].balance >= m
  /\ wallets[w].spent + m <= wallets[w].limit

\* Mutant: the debit is not counted as spent.
DebitKeepingAllowance(w, m) ==
  /\ Handle
  /\ wallets[w] # None
  /\ Covers(w, m)
  /\ wallets' = [wallets EXCEPT ![w].balance = @ - m]
  /\ books' = [books EXCEPT ![w] = Debited(@, m)]
  /\ answer' = Answer(w, m, "OK")

Debit(w, m) ==
  /\ Handle
  /\ wallets[w] # None
  /\ Covers(w, m)
  /\ wallets' = [wallets EXCEPT ![w].balance = @ - m, ![w].spent = @ + m]
  /\ books' = [books EXCEPT ![w] = Debited(@, m)]
  /\ answer' = Answer(w, m, "OK")

\* A debit one of the checks fails: 402, nothing changes.
RefuseDebit(w, m) ==
  /\ Handle
  /\ wallets[w] # None
  /\ ~Covers(w, m)
  /\ answer' = Answer(w, m, "WALLET_LIMIT_EXCEEDED")
  /\ UNCHANGED <<wallets, books>>

\* Midnight.  The store does not notice.
NextDay ==
  /\ day < MaxDay
  /\ day' = day + 1
  /\ books' = [w \in Wallet |-> [books[w] EXCEPT !.today = 0]]
  /\ answer' = None
  /\ UNCHANGED <<wallets, operations>>

Next ==
  \/ \E w \in Wallet, m \in Amount :
       \/ \E limit \in Amount : Create(w, m, limit)
       \/ NotFound(w, m)
       \/ Credit(w, m)
       \/ Debit(w, m)
       \/ RefuseDebit(w, m)
  \/ NextDay

Spec == Init /\ [][Next]_vars

-----------------------------------------------------------------------------
(* Properties *)

WalletType == [balance : Int, limit : Int, spent : Int]

BooksType == [opening : Int, credited : Nat, revoked : Nat,
              taken : Nat, returned : Nat, today : Int]

Outcome == {"OK", "NOT_FOUND", "WALLET_LIMIT_EXCEEDED"}

TypeOK ==
  /\ wallets \in [Wallet -> WalletType \cup {None}]
  /\ answer \in [wallet : Wallet, amount : Int, outcome : Outcome] \cup {None}
  /\ day \in Nat
  /\ operations \in Nat
  /\ books \in [Wallet -> BooksType]

(* After any sequence of operations, with amounts of either sign, a wallet
   holds what it was created with, plus what credits and less what debits came
   to, and counts what its debits came to as spent. *)
BooksBalance ==
  \A w \in Wallet : wallets[w] # None =>
    LET book == books[w]
        debits == book.taken - book.returned
    IN  /\ wallets[w].balance
             = book.opening + book.credited - book.revoked - debits
        /\ wallets[w].spent = debits

(* What positive debits have taken out of a wallet since its creation is
   covered by its limit and what negative debits brought back; credits, of
   either sign, never move the allowance.  With a negative limit nothing is
   taken until more than that has been brought back. *)
SpendingWithinLimit ==
  \A w \in Wallet :
    wallets[w] # None /\ books[w].taken > 0 =>
      books[w].taken <= wallets[w].limit + books[w].returned

(* No debit overdraws a wallet, whatever came before it: a balance below zero
   is never more than a negative opening balance and negative credits account
   for. *)
NoDebitOverdraws ==
  \A w \in Wallet : wallets[w] # None =>
    wallets[w].balance >= -(Gain(-books[w].opening) + books[w].revoked)

-----------------------------------------------------------------------------
(* Statements of the repository about the program *)

(* WALLET_LIMIT_EXCEEDED says that the balance or the daily limit is
   exhausted: a debit that fits the balance and what is left of today's limit
   does not get it. *)
RefusedOnlyWhenExhausted ==
  answer # None /\ answer.outcome = "WALLET_LIMIT_EXCEEDED" =>
    LET w == wallets[answer.wallet]
    IN  w # None =>
          \/ w.balance < answer.amount
          \/ books[answer.wallet].today + answer.amount > w.limit
=============================================================================
