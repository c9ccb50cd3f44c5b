------------------------- MODULE WalletStoreProofs --------------------------
(***************************************************************************)
(* Theorems about WalletStore for any wallets, any number of operations    *)
(* and amounts of either sign.                                             *)
(***************************************************************************)
EXTENDS WalletStore, TLAPS

(* Everything the three invariants say of one wallet and its books.  That the *)
(* books explain what is counted as spent is what makes the check of the      *)
(* limit, which reads the counter, a check of what was taken.                 *)
Sound(wallet, book) ==
  wallet # None =>
    /\ wallet.balance
         = book.opening + book.credited - book.revoked
             - (book.taken - book.returned)
    /\ wallet.spent = book.taken - book.returned
    /\ book.taken > 0 => book.taken <= wallet.limit + book.returned
    /\ wallet.balance >= -(Gain(-book.opening) + book.revoked)

WalletInv == TypeOK /\ \A w \in Wallet : Sound(wallets[w], books[w])

LEMMA GainType ==
  ASSUME NEW m \in Int
  PROVE  /\ Gain(m) \in Nat /\ Gain(-m) \in Nat
         /\ Gain(m) - Gain(-m) = m
BY DEF Gain

LEMMA CreditedType ==
  ASSUME NEW book \in BooksType, NEW m \in Int
  PROVE  Credited(book, m) \in BooksType
<1>1. /\ book.credited + Gain(m) \in Nat
      /\ book.revoked + Gain(-m) \in Nat
  BY GainType DEF BooksType
<1>2. QED
  BY <1>1 DEF Credited, BooksType

LEMMA DebitedType ==
  ASSUME NEW book \in BooksType, NEW m \in Int
  PROVE  Debited(book, m) \in BooksType
<1>1. /\ book.taken + Gain(m) \in Nat
      /\ book.returned + Gain(-m) \in Nat
      /\ book.today + m \in Int
  BY GainType DEF BooksType
<1>2. QED
  BY <1>1 DEF Debited, BooksType

LEMMA WalletInit == Init => WalletInv
<1>1. NewBooks(0, 0) \in BooksType
  BY DEF NewBooks, BooksType
<1>2. QED
  BY <1>1, WalletAssumption DEF Init, WalletInv, TypeOK, Sound

\* A step that writes one wallet and its books keeps the others.
LEMMA Written ==
  ASSUME WalletInv, NEW w \in Wallet, NEW x \in WalletType, NEW b \in BooksType,
         wallets' = [wallets EXCEPT ![w] = x],
         books' = [books EXCEPT ![w] = b], Sound(x, b)
  PROVE  /\ wallets' \in [Wallet -> WalletType \cup {None}]
         /\ books' \in [Wallet -> BooksType]
         /\ \A v \in Wallet : Sound(wallets'[v], books'[v])
<1>1. /\ wallets \in [Wallet -> WalletType \cup {None}]
      /\ books \in [Wallet -> BooksType]
  BY DEF WalletInv, TypeOK
<1>2. /\ wallets' \in [Wallet -> WalletType \cup {None}]
      /\ books' \in [Wallet -> BooksType]
  BY <1>1
<1>3. ASSUME NEW v \in Wallet
      PROVE  Sound(wallets'[v], books'[v])
  <2>1. CASE v = w
    BY <1>1, <2>1
  <2>2. CASE v # w
    BY <1>1, <2>2 DEF WalletInv
  <2>3. QED
    BY <2>1, <2>2
<1>4. QED
  BY <1>2, <1>3

\* A credit, of either sign, moves the balance and nothing else.
LEMMA CreditKeepsSound ==
  ASSUME NEW wallet \in WalletType, NEW book \in BooksType, NEW m \in Int,
         wallet # None, Sound(wallet, book)
  PROVE  Sound([wallet EXCEPT !.balance = @ + m], Credited(book, m))
<1>1. /\ wallet.balance \in Int /\ wallet.limit \in Int
      /\ book.opening \in Int /\ book.credited \in Nat
      /\ book.revoked \in Nat /\ book.taken \in Nat /\ book.returned \in Nat
      /\ Gain(-book.opening) \in Nat
  BY GainType DEF WalletType, BooksType
<1>2. Gain(m) \in Nat /\ Gain(-m) \in Nat /\ m = Gain(m) - Gain(-m)
  BY GainType
<1>3. /\ wallet.balance = book.opening + book.credited - book.revoked
                             - (book.taken - book.returned)
      /\ wallet.balance >= -(Gain(-book.opening) + book.revoked)
  BY DEF Sound
<1>4. wallet.balance + m >= -(Gain(-book.opening) + (book.revoked + Gain(-m)))
  BY <1>1, <1>2, <1>3
<1>5. wallet.balance + m
        = book.opening + (book.credited + Gain(m))
            - (book.revoked + Gain(-m)) - (book.taken - book.returned)
  BY <1>1, <1>2, <1>3
<1>6. QED
  BY <1>1, <1>4, <1>5 DEF Sound, Credited, WalletType, BooksType

(* A debit that passes both checks leaves a balance that is not negative and  *)
(* a counter within the limit, whatever its sign.                             *)
LEMMA DebitKeepsSound ==
  ASSUME NEW wallet \in WalletType, NEW book \in BooksType, NEW m \in Int,
         wallet # None, Sound(wallet, book),
         wallet.balance >= m, wallet.spent + m <= wallet.limit
  PROVE  Sound([wallet EXCEPT !.balance = @ - m, !.spent = @ + m],
               Debited(book, m))
<1>1. /\ wallet.balance \in Int /\ wallet.limit \in Int /\ wallet.spent \in Int
      /\ book.opening \in Int /\ book.credited \in Nat
      /\ book.revoked \in Nat /\ book.taken \in Nat /\ book.returned \in Nat
      /\ Gain(-book.opening) \in Nat
  BY GainType DEF WalletType, BooksType
<1>2. Gain(m) \in Nat /\ Gain(-m) \in Nat /\ m = Gain(m) - Gain(-m)
  BY GainType
<1>3. /\ wallet.balance = book.opening + book.credited - book.revoked
                             - (book.taken - book.returned)
      /\ wallet.spent = book.taken - book.returned
  BY DEF Sound
<1>4. /\ wallet.balance - m
           = book.opening + book.credited - book.revoked
               - ((book.taken + Gain(m)) - (book.returned + Gain(-m)))
      /\ wallet.spent + m
           = (book.taken + Gain(m)) - (book.returned + Gain(-m))
  BY <1>1, <1>2, <1>3
<1>5. book.taken + Gain(m) <= wallet.limit + (book.returned + Gain(-m))
  BY <1>1, <1>2, <1>4
<1>6. wallet.balance - m >= -(Gain(-book.opening) + book.revoked)
  BY <1>1
<1>7. QED
  BY <1>1, <1>4, <1>5, <1>6 DEF Sound, Debited, WalletType, BooksType

LEMMA WalletNext == WalletInv /\ [Next]_vars => WalletInv'
<1> SUFFICES ASSUME WalletInv, [Next]_vars
             PROVE  WalletInv'
  OBVIOUS
<1>1. /\ wallets \in [Wallet -> WalletType \cup {None}]
      /\ books \in [Wallet -> BooksType]
      /\ TypeOK
  BY DEF WalletInv, TypeOK
<1>2. None \notin WalletType
  BY WalletAssumption DEF WalletType
<1>3. ASSUME NEW w \in Wallet, NEW m \in Amount, NEW limit \in Amount,
             Create(w, m, limit)
      PROVE  WalletInv'
  <2> DEFINE x == [balance |-> m, limit |-> limit, spent |-> 0]
             b == NewBooks(m, books[w].today)
  <2>1. m \in Int /\ limit \in Int /\ books[w].today \in Int
    BY <1>1, WalletAssumption DEF BooksType
  <2>2. x \in WalletType /\ b \in BooksType
    BY <2>1 DEF WalletType, BooksType, NewBooks
  <2>3. Sound(x, b)
    BY <2>1, GainType DEF NewBooks, Sound, Gain
  <2>4. /\ wallets' = [wallets EXCEPT ![w] = x]
        /\ books' = [books EXCEPT ![w] = b]
    BY <1>1, <1>3 DEF Create
  <2>5. answer' = None /\ day' = day /\ operations' \in Nat
    BY <1>1, <1>3 DEF Create, Handle, TypeOK
  <2> HIDE DEF x, b
  <2>6. QED
    BY <1>1, <2>2, <2>3, <2>4, <2>5, Written DEF WalletInv, TypeOK
<1>4. ASSUME NEW w \in Wallet, NEW m \in Amount, Credit(w, m)
      PROVE  WalletInv'
  <2> DEFINE x == [wallets[w] EXCEPT !.balance = @ + m]
             b == Credited(books[w], m)
  <2>1. /\ wallets[w] \in WalletType /\ wallets[w] # None
        /\ books[w] \in BooksType /\ m \in Int
        /\ Sound(wallets[w], books[w])
    BY <1>1, <1>4, WalletAssumption DEF Credit, WalletInv
  <2>2. x \in WalletType /\ b \in BooksType
    BY <2>1, CreditedType DEF WalletType
  <2>3. Sound(x, b)
    BY <2>1, CreditKeepsSound
  <2>4. /\ wallets' = [wallets EXCEPT ![w] = x]
        /\ books' = [books EXCEPT ![w] = b]
    BY <1>1, <1>4 DEF Credit
  <2>5. /\ answer' \in [wallet : Wallet, amount : Int, outcome : Outcome]
        /\ day' = day /\ operations' \in Nat
    BY <1>1, <1>4, <2>1 DEF Credit, Handle, TypeOK, Answer, Outcome
  <2> HIDE DEF x, b
  <2>6. QED
    BY <1>1, <2>2, <2>3, <2>4, <2>5, Written DEF WalletInv, TypeOK
<1>5. ASSUME NEW w \in Wallet, NEW m \in Amount, Debit(w, m)
      PROVE  WalletInv'
  <2> DEFINE x == [wallets[w] EXCEPT !.balance = @ - m, !.spent = @ + m]
             b == Debited(books[w], m)
  <2>1. /\ wallets[w] \in WalletType /\ wallets[w] # None
        /\ books[w] \in BooksType /\ m \in Int
        /\ Sound(wallets[w], books[w])
        /\ wallets[w].balance >= m
        /\ wallets[w].spent + m <= wallets[w].limit
    BY <1>1, <1>5, WalletAssumption DEF Debit, WalletInv, Covers
  <2>2. x \in WalletType /\ b \in BooksType
    <3>1. wallets[w].balance - m \in Int /\ wallets[w].spent + m \in Int
      BY <2>1 DEF WalletType
    <3>2. x \in WalletType
      BY <2>1, <3>1 DEF WalletType
    <3>3. QED
      BY <2>1, <3>2, DebitedType
  <2>3. Sound(x, b)
    BY <2>1, DebitKeepsSound
  <2>4. /\ wallets' = [wallets EXCEPT ![w] = x]
        /\ books' = [books EXCEPT ![w] = b]
    BY <1>1, <1>5 DEF Debit
  <2>5. /\ answer' \in [wallet : Wallet, amount : Int, outcome : Outcome]
        /\ day' = day /\ operations' \in Nat
    BY <1>1, <1>5, <2>1 DEF Debit, Handle, TypeOK, Answer, Outcome
  <2> HIDE DEF x, b
  <2>6. QED
    BY <1>1, <2>2, <2>3, <2>4, <2>5, Written DEF WalletInv, TypeOK
<1>6. ASSUME NEW w \in Wallet, NEW m \in Amount,
             NotFound(w, m) \/ RefuseDebit(w, m)
      PROVE  WalletInv'
  <2>1. UNCHANGED <<wallets, books, day>> /\ operations' \in Nat
    BY <1>1, <1>6 DEF NotFound, RefuseDebit, Handle, TypeOK
  <2>2. answer' \in [wallet : Wallet, amount : Int, outcome : Outcome]
    BY <1>6, WalletAssumption DEF NotFound, RefuseDebit, Answer, Outcome
  <2>3. QED
    BY <2>1, <2>2 DEF WalletInv, TypeOK
<1>7. CASE NextDay
  <2>1. /\ UNCHANGED <<wallets, operations>>
        /\ day' \in Nat /\ answer' = None
        /\ books' = [w \in Wallet |-> [books[w] EXCEPT !.today = 0]]
    BY <1>1, <1>7 DEF NextDay, TypeOK
  <2>2. \A w \in Wallet : /\ books'[w] \in BooksType
                          /\ books'[w].opening = books[w].opening
                          /\ books'[w].credited = books[w].credited
                          /\ books'[w].revoked = books[w].revoked
                          /\ books'[w].taken = books[w].taken
                          /\ books'[w].returned = books[w].returned
    BY <1>1, <2>1 DEF BooksType
  <2>3. books' \in [Wallet -> BooksType]
    BY <2>1, <2>2
  <2>4. \A w \in Wallet : Sound(wallets[w], books'[w])
    BY <2>2 DEF WalletInv, Sound
  <2>5. QED
    BY <1>1, <2>1, <2>3, <2>4 DEF WalletInv, TypeOK
<1>8. CASE UNCHANGED vars
  BY <1>8 DEF vars, WalletInv, TypeOK
<1>9. QED
  BY <1>3, <1>4, <1>5, <1>6, <1>7, <1>8 DEF Next

(* A wallet always holds what its books say, whatever the amounts. *)
THEOREM BooksAlwaysBalance == Spec => []BooksBalance
<1>1. WalletInv => BooksBalance
  BY DEF WalletInv, Sound, BooksBalance
<1>2. QED
  BY WalletInit, WalletNext, <1>1, PTL DEF Spec

(* What debits take out never passes the limit a wallet was created with and
   what negative debits brought back, for amounts and limits of either sign. *)
THEOREM SpendingStaysWithinLimit == Spec => []SpendingWithinLimit
<1>1. WalletInv => SpendingWithinLimit
  BY DEF WalletInv, Sound, SpendingWithinLimit
<1>2. QED
  BY WalletInit, WalletNext, <1>1, PTL DEF Spec

(* No sequence of operations lets a debit take a wallet below zero: only its
   creation and negative credits do. *)
THEOREM DebitsNeverOverdraw == Spec => []NoDebitOverdraws
<1>1. WalletInv => NoDebitOverdraws
  BY DEF WalletInv, Sound, NoDebitOverdraws
<1>2. QED
  BY WalletInit, WalletNext, <1>1, PTL DEF Spec
=============================================================================
