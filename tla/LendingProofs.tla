--------------------------- MODULE LendingProofs ---------------------------
(***************************************************************************)
(* The books of a pool's loans, for any loans, amounts, prices, rates and  *)
(* fees.                                                                   *)
(*                                                                         *)
(* A step of an operation maps books to books that may not be ok.  So each *)
(* step has two lemmas: books that are ok come from books that were        *)
(* (..Shape), which goes from the end of an operation to its beginning,    *)
(* and what the step did to books that stay ok (the effects), which goes   *)
(* back to its end.                                                        *)
(***************************************************************************)
EXTENDS Lending, BookLemmas

\* Books that say whether they are ok, and what is known of those that are.
Shaped(b) == "ok" \in DOMAIN b /\ b.ok \in BOOLEAN
Good(b)   == b \in Books /\ b.ok

\* Nothing becomes ok again.
Follows(b, a) == Shaped(b) /\ (b.ok => a.ok)

\* Of a token, what is not a fee; of the loan token, what is not interest
\* deposited for a loan either.
Free(b, t) == b.held[t] - b.fees[t]
Spare(b)   == Free(b, "loan") - b.lender.owedTotal

\* Only tokens moved.
TokensOnly(b, a) == b.loans = a.loans /\ b.lender = a.lender /\ b.twice = a.twice

-----------------------------------------------------------------------------
(* Tokens in and out. *)

LEMMA GoodIsShaped == ASSUME NEW b, Good(b) PROVE Shaped(b)
BY DEF Good, Shaped, Books

LEMMA FollowsTrans ==
    ASSUME NEW a, NEW b, NEW c, Follows(b, a), Follows(c, b) PROVE Follows(c, a)
BY DEF Follows

LEMMA RequireShape ==
    ASSUME NEW b, Shaped(b), NEW c PROVE Follows(Require(b, c), b)
BY DEF Follows, Shaped, Require

LEMMA RequireEffect ==
    ASSUME NEW b \in Books, NEW c \in BOOLEAN, Require(b, c).ok
    PROVE  b.ok /\ c /\ Require(b, c) = b
BY DEF Books, Require

LEMMA DepositShape ==
    ASSUME NEW b, Shaped(b), NEW t, NEW n
    PROVE  Follows(VaultDeposit(b, t, n), b) /\ Follows(HoldFee(b, t, n), b)
BY DEF Follows, Shaped, VaultDeposit, HoldFee

LEMMA WithdrawShape ==
    ASSUME NEW b, Shaped(b), NEW t, NEW n PROVE Follows(VaultWithdraw(b, t, n), b)
<1>1. Follows(Require(b, n <= b.held[t]), b)
  BY RequireShape
<1> QED BY <1>1 DEF Follows, Shaped, VaultWithdraw

LEMMA PayLenderShape ==
    ASSUME NEW b, Shaped(b), NEW n PROVE Follows(PayLender(b, n), b)
<1>1. Follows(VaultWithdraw(b, "loan", n), b)
  BY WithdrawShape
<1> QED BY <1>1 DEF Follows, Shaped, PayLender

\* What a movement of tokens does: n more of one token that is not a fee.
Moved(b, a, t, n) ==
    /\ Good(b)
    /\ TokensOnly(b, a)
    /\ Free(b, t) = Free(a, t) + n
    /\ \A u \in Tokens \ {t} : Free(b, u) = Free(a, u)

LEMMA FreeIsInt ==
    ASSUME NEW b \in Books, NEW t \in Tokens PROVE Free(b, t) \in Int
BY DEF Free, Books

LEMMA DepositEffect ==
    ASSUME NEW b, Good(b), NEW t \in Tokens, NEW n \in Nat
    PROVE  Moved(VaultDeposit(b, t, n), b, t, n)
<1> DEFINE d == VaultDeposit(b, t, n)
           h == [b.held EXCEPT ![t] = @ + n]
<1>1. b.held \in [Tokens -> Nat] /\ b.fees \in [Tokens -> Nat]
  BY DEF Good, Books
<1>2. h \in [Tokens -> Nat] /\ h[t] = b.held[t] + n /\ \A u \in Tokens \ {t} : h[u] = b.held[u]
  BY <1>1
<1>3. d = [b EXCEPT !.held = h]
  BY DEF VaultDeposit
<1> HIDE DEF h
<1>4. d \in Books /\ d.ok /\ TokensOnly(d, b) /\ d.held = h /\ d.fees = b.fees
  BY <1>2, <1>3 DEF Good, Books, TokensOnly
<1> QED BY <1>1, <1>2, <1>4 DEF Moved, Good, Free

LEMMA FeeEffect ==
    ASSUME NEW b, Good(b), NEW t \in Tokens, NEW n \in Nat
    PROVE  Moved(HoldFee(b, t, n), b, t, -n)
<1> DEFINE d == HoldFee(b, t, n)
           h == [b.fees EXCEPT ![t] = @ + n]
<1>1. b.held \in [Tokens -> Nat] /\ b.fees \in [Tokens -> Nat]
  BY DEF Good, Books
<1>2. h \in [Tokens -> Nat] /\ h[t] = b.fees[t] + n /\ \A u \in Tokens \ {t} : h[u] = b.fees[u]
  BY <1>1
<1>3. d = [b EXCEPT !.fees = h]
  BY DEF HoldFee
<1> HIDE DEF h
<1>4. d \in Books /\ d.ok /\ TokensOnly(d, b) /\ d.held = b.held /\ d.fees = h
  BY <1>2, <1>3 DEF Good, Books, TokensOnly
<1> QED BY <1>1, <1>2, <1>4 DEF Moved, Good, Free

LEMMA WithdrawEffect ==
    ASSUME NEW b, Good(b), NEW t \in Tokens, NEW n \in Nat, VaultWithdraw(b, t, n).ok
    PROVE  Moved(VaultWithdraw(b, t, n), b, t, -n)
<1> DEFINE d == VaultWithdraw(b, t, n)
           h == [b.held EXCEPT ![t] = @ - n]
           r == Require(b, n <= b.held[t])
<1>1. b.held \in [Tokens -> Nat] /\ b.fees \in [Tokens -> Nat]
  BY DEF Good, Books
<1>2. r.ok
  BY DEF VaultWithdraw
<1>3. n <= b.held[t] /\ r = b
  <2>1. \A c \in BOOLEAN : Require(b, c).ok => c /\ Require(b, c) = b
    BY RequireEffect DEF Good
  <2>2. (n <= b.held[t]) \in BOOLEAN
    OBVIOUS
  <2> QED BY <1>2, <2>1, <2>2
<1>4. h \in [Tokens -> Nat] /\ h[t] = b.held[t] - n /\ \A u \in Tokens \ {t} : h[u] = b.held[u]
  BY <1>1, <1>3
<1>5. d = [r EXCEPT !.held[t] = @ - n]
  BY DEF VaultWithdraw
<1>6. d = [b EXCEPT !.held = h]
  BY <1>3, <1>5
<1> HIDE DEF h, r, d
<1>7. d \in Books /\ d.ok /\ TokensOnly(d, b) /\ d.held = h /\ d.fees = b.fees
  BY <1>4, <1>6 DEF Good, Books, TokensOnly
<1>8. Moved(d, b, t, -n)
  BY <1>1, <1>4, <1>7 DEF Moved, Good, Free
<1> QED BY <1>8 DEF d

LEMMA PayLenderEffect ==
    ASSUME NEW b, Good(b), NEW n \in Nat, PayLender(b, n).ok
    PROVE  Moved(PayLender(b, n), b, "loan", -n)
<1> DEFINE w == VaultWithdraw(b, "loan", n)
           d == PayLender(b, n)
<1>1. d = [w EXCEPT !.cash = @ + n]
  BY DEF PayLender
<1>2. w.ok
  BY DEF PayLender
<1>3. Moved(w, b, "loan", -n)
  BY <1>2, WithdrawEffect DEF Tokens
<1> HIDE DEF w, d
<1>4. d \in Books /\ d.ok /\ d.held = w.held /\ d.fees = w.fees /\ TokensOnly(d, w)
  BY <1>1, <1>3 DEF Moved, Good, Books, TokensOnly
<1>5. Moved(d, b, "loan", -n)
  BY <1>3, <1>4 DEF Moved, Good, Free, TokensOnly
<1> QED BY <1>5 DEF d

-----------------------------------------------------------------------------
(* Divisions.  What is divided out of natural numbers is one. *)

LEMMA MulDivNat ==
    ASSUME NEW a \in Nat, NEW b \in Nat, NEW c \in Nat \ {0}
    PROVE  /\ MulDiv(a, b, c) \in Nat
           /\ b <= c => MulDiv(a, b, c) <= a
           /\ a = 0 \/ b = 0 => MulDiv(a, b, c) = 0
<1>1. a * b \in Nat /\ (a = 0 \/ b = 0 => a * b = 0)
  OBVIOUS
<1>2. b <= c => a * b <= a * c
  OBVIOUS
<1>3. \A p \in Nat : p \div c \in Nat /\ (p = 0 => p \div c = 0) /\ c * (p \div c) <= p
  OBVIOUS
<1> DEFINE q == (a * b) \div c
<1>4. q \in Nat /\ c * q <= a * b
  BY <1>1, <1>3
<1>5. ASSUME b <= c PROVE q <= a
  <2>1. c * q <= a * c
    BY <1>1, <1>2, <1>4, <1>5
  <2>2. ASSUME q >= a + 1 PROVE FALSE
    <3>1. c * q >= c * (a + 1)
      BY <1>4, <2>2
    <3> QED BY <2>1, <3>1, <1>4
  <2> QED BY <2>2, <1>4
<1> QED BY <1>1, <1>3, <1>4, <1>5 DEF MulDiv

LEMMA PercentNat ==
    ASSUME NEW a \in Nat, NEW p \in Nat
    PROVE  Percent(a, p) \in Nat /\ (p <= 100 => Percent(a, p) <= a)
BY MulDivNat, 100 \in Nat \ {0} DEF Percent

LEMMA CeilDivNat ==
    ASSUME NEW a \in Nat, NEW c \in Nat \ {0} PROVE CeilDiv(a, c) \in Nat
<1>1. a + c - 1 \in Nat
  OBVIOUS
<1> QED BY <1>1 DEF CeilDiv

LEMMA FeesNat ==
    ASSUME NEW a \in Nat
    PROVE  /\ TradingFee(a) \in Nat /\ TradingFee(a) <= a
           /\ BorrowingFee(a) \in Nat /\ BorrowingFee(a) <= a
<1>1. \A p \in 0..100 : CeilDiv(a * p, 100) \in Nat /\ CeilDiv(a * p, 100) <= a
  <2> TAKE p \in 0..100
  <2>1. a * p \in Nat /\ a * p <= a * 100
    OBVIOUS
  <2>2. \A x \in Nat : x <= a * 100 => (x + 100 - 1) \div 100 \in Nat /\ (x + 100 - 1) \div 100 <= a
    OBVIOUS
  <2> QED BY <2>1, <2>2 DEF CeilDiv
<1> QED BY <1>1, LoanAssumption DEF TradingFee, BorrowingFee

LEMMA MinMax ==
    ASSUME NEW a \in Int, NEW b \in Int
    PROVE  /\ Min2(a, b) \in {a, b} /\ Min2(a, b) <= a /\ Min2(a, b) <= b
           /\ Max2(a, b) \in {a, b} /\ Max2(a, b) >= a /\ Max2(a, b) >= b
BY DEF Min2, Max2

-----------------------------------------------------------------------------
(* Swaps. *)

LEMMA ExchangedNat ==
    ASSUME NEW f \in Tokens, NEW n \in Nat, NEW p \in Nat \ {0}
    PROVE  Exchanged(f, n, p) \in Nat /\ Needed(f, n, p) \in Nat
<1>1. PRECISION \in Nat \ {0}
  BY LoanAssumption
<1>2. ToLoan(n, p) \in Nat /\ ToCollateral(n, p) \in Nat
  BY <1>1, MulDivNat DEF ToLoan, ToCollateral
<1>3. n * PRECISION \in Nat /\ n * p \in Nat
  BY <1>1
<1>4. CeilDiv(n * PRECISION, p) \in Nat /\ CeilDiv(n * p, PRECISION) \in Nat
  BY <1>1, <1>3, CeilDivNat
<1> QED BY <1>2, <1>4 DEF Exchanged, Needed

\* What a swap does: what is used of one token has become what is received of
\* the other, fees aside.
Swapped(s, a, from, to) ==
    /\ Good(s.books)
    /\ TokensOnly(s.books, a)
    /\ s.used \in Nat
    /\ s.received \in Nat
    /\ Free(s.books, from) = Free(a, from) - s.used
    /\ Free(s.books, to) = Free(a, to) + s.received

LEMMA SellAllShape ==
    ASSUME NEW b, Shaped(b), NEW f, NEW t, NEW n, NEW fee, NEW p
    PROVE  Follows(SellAll(b, f, t, n, fee, p).books, b)
<1> DEFINE rec == Exchanged(f, n - fee, p)
           w == VaultWithdraw(b, f, n - fee)
           d == VaultDeposit(w, t, rec)
           h == HoldFee(d, f, fee)
<1>1. Follows(w, b)
  BY WithdrawShape
<1>2. Follows(d, w)
  BY <1>1, DepositShape DEF Follows
<1>3. Follows(h, d)
  BY <1>2, DepositShape DEF Follows
<1>4. Follows(Require(h, rec > 0), h)
  BY <1>3, RequireShape DEF Follows
<1>5. SellAll(b, f, t, n, fee, p).books = Require(h, rec > 0)
  BY DEF SellAll
<1> HIDE DEF rec, w, d, h
<1> QED BY <1>1, <1>2, <1>3, <1>4, <1>5 DEF Follows

LEMMA SellAllEffect ==
    ASSUME NEW b, Good(b), NEW f \in Tokens, NEW t \in Tokens, f # t,
           NEW n \in Nat, NEW fee \in 0..n, NEW p \in Nat \ {0},
           SellAll(b, f, t, n, fee, p).books.ok
    PROVE  /\ Swapped(SellAll(b, f, t, n, fee, p), b, f, t)
           /\ SellAll(b, f, t, n, fee, p).used = n
<1> DEFINE rec == Exchanged(f, n - fee, p)
           w == VaultWithdraw(b, f, n - fee)
           d == VaultDeposit(w, t, rec)
           h == HoldFee(d, f, fee)
           r == Require(h, rec > 0)
           s == SellAll(b, f, t, n, fee, p)
<1>1. n - fee \in Nat /\ rec \in Nat
  BY ExchangedNat
<1>2. s.books = r /\ s.received = rec /\ s.used = n
  BY DEF SellAll
<1>3. Follows(w, b) /\ Follows(d, w) /\ Follows(h, d) /\ Follows(r, h)
  <2>1. Follows(w, b)
    BY WithdrawShape, GoodIsShaped
  <2>2. Follows(d, w)
    BY <2>1, DepositShape DEF Follows
  <2>3. Follows(h, d)
    BY <2>2, DepositShape DEF Follows
  <2>4. Follows(r, h)
    BY <2>3, RequireShape DEF Follows
  <2> QED BY <2>1, <2>2, <2>3, <2>4
<1>4. r.ok /\ h.ok /\ d.ok /\ w.ok
  BY <1>2, <1>3 DEF Follows
<1>5. Moved(w, b, f, -(n - fee))
  BY <1>1, <1>4, WithdrawEffect
<1>6. Moved(d, w, t, rec)
  BY <1>1, <1>5, DepositEffect DEF Moved
<1>7. Moved(h, d, f, -fee)
  BY <1>6, FeeEffect DEF Moved
<1>8. r = h
  <2>1. \A c \in BOOLEAN : Require(h, c).ok => Require(h, c) = h
    BY <1>7, RequireEffect DEF Moved, Good
  <2>2. (rec > 0) \in BOOLEAN
    OBVIOUS
  <2> QED BY <1>4, <2>1, <2>2
<1> HIDE DEF rec, w, d, h, r, s
<1>9. /\ Free(b, f) \in Int /\ Free(b, t) \in Int
      /\ Free(w, f) \in Int /\ Free(w, t) \in Int
      /\ Free(d, f) \in Int /\ Free(d, t) \in Int
  BY <1>5, <1>6, FreeIsInt DEF Moved, Good
<1>10. Free(h, f) = Free(b, f) - n /\ Free(h, t) = Free(b, t) + rec
  BY <1>1, <1>5, <1>6, <1>7, <1>9 DEF Moved
<1>11. TokensOnly(h, b) /\ Good(h)
  BY <1>5, <1>6, <1>7 DEF Moved, TokensOnly
<1>12. Swapped(s, b, f, t) /\ s.used = n
  BY <1>1, <1>2, <1>8, <1>10, <1>11 DEF Swapped
<1> QED BY <1>12 DEF s

LEMMA BuyRequiredShape ==
    ASSUME NEW b, Shaped(b), NEW f, NEW t, NEW max, NEW q, NEW fee, NEW p, NEW e
    PROVE  Follows(BuyRequired(b, f, t, max, q, fee, p, e).books, b)
<1> DEFINE u == Min2(max, Needed(f, q + fee, p) + e)
           rec == Exchanged(f, u, p)
           w == VaultWithdraw(b, f, u)
           d == VaultDeposit(w, t, rec)
           h == HoldFee(d, t, fee)
           r == Require(h, rec >= q + fee)
<1>1. Follows(w, b)
  BY WithdrawShape
<1>2. Follows(d, w)
  BY <1>1, DepositShape DEF Follows
<1>3. Follows(h, d)
  BY <1>2, DepositShape DEF Follows
<1>4. Follows(r, h)
  BY <1>3, RequireShape DEF Follows
<1>5. BuyRequired(b, f, t, max, q, fee, p, e).books = r
  BY DEF BuyRequired
<1> HIDE DEF u, rec, w, d, h, r
<1> QED BY <1>1, <1>2, <1>3, <1>4, <1>5 DEF Follows

LEMMA BuyRequiredEffect ==
    ASSUME NEW b, Good(b), NEW f \in Tokens, NEW t \in Tokens, f # t,
           NEW max \in Nat, NEW q \in Nat, NEW fee \in Nat, NEW p \in Nat \ {0},
           NEW e \in Nat, BuyRequired(b, f, t, max, q, fee, p, e).books.ok
    PROVE  /\ Swapped(BuyRequired(b, f, t, max, q, fee, p, e), b, f, t)
           /\ BuyRequired(b, f, t, max, q, fee, p, e).used <= max
           /\ BuyRequired(b, f, t, max, q, fee, p, e).received >= q
<1> DEFINE u == Min2(max, Needed(f, q + fee, p) + e)
           rec == Exchanged(f, u, p)
           w == VaultWithdraw(b, f, u)
           d == VaultDeposit(w, t, rec)
           h == HoldFee(d, t, fee)
           r == Require(h, rec >= q + fee)
           s == BuyRequired(b, f, t, max, q, fee, p, e)
<1>1. u \in Nat /\ u <= max /\ rec \in Nat
  <2>1. Needed(f, q + fee, p) + e \in Nat
    <3>1. q + fee \in Nat
      OBVIOUS
    <3>2. Needed(f, q + fee, p) \in Nat
      BY <3>1, ExchangedNat
    <3> QED BY <3>2
  <2>2. u \in Nat /\ u <= max
    BY <2>1 DEF Min2
  <2> HIDE DEF u
  <2> QED BY <2>2, ExchangedNat
<1>2. s.books = r /\ s.received = rec - fee /\ s.used = u
  BY DEF BuyRequired
<1>3. Follows(w, b) /\ Follows(d, w) /\ Follows(h, d) /\ Follows(r, h)
  <2>1. Follows(w, b)
    BY WithdrawShape, GoodIsShaped
  <2>2. Follows(d, w)
    BY <2>1, DepositShape DEF Follows
  <2>3. Follows(h, d)
    BY <2>2, DepositShape DEF Follows
  <2>4. Follows(r, h)
    BY <2>3, RequireShape DEF Follows
  <2> QED BY <2>1, <2>2, <2>3, <2>4
<1>4. r.ok /\ h.ok /\ d.ok /\ w.ok
  BY <1>2, <1>3 DEF Follows
<1>5. Moved(w, b, f, -u)
  BY <1>1, <1>4, WithdrawEffect
<1>6. Moved(d, w, t, rec)
  BY <1>1, <1>5, DepositEffect DEF Moved
<1>7. Moved(h, d, t, -fee)
  BY <1>6, FeeEffect DEF Moved
<1>8. r = h /\ rec >= q + fee
  <2>1. \A c \in BOOLEAN : Require(h, c).ok => c /\ Require(h, c) = h
    BY <1>7, RequireEffect DEF Moved, Good
  <2>2. (rec >= q + fee) \in BOOLEAN
    OBVIOUS
  <2> QED BY <1>4, <2>1, <2>2
<1> HIDE DEF rec, w, d, h, r, s, u
<1>9. /\ Free(b, f) \in Int /\ Free(b, t) \in Int
      /\ Free(w, f) \in Int /\ Free(w, t) \in Int
      /\ Free(d, f) \in Int /\ Free(d, t) \in Int
  BY <1>5, <1>6, FreeIsInt DEF Moved, Good
<1>10. Free(h, f) = Free(b, f) - u /\ Free(h, t) = Free(b, t) + (rec - fee)
  BY <1>1, <1>5, <1>6, <1>7, <1>9 DEF Moved
<1>11. TokensOnly(h, b) /\ Good(h)
  BY <1>5, <1>6, <1>7 DEF Moved, TokensOnly
<1>12. rec - fee \in Nat /\ rec - fee >= q
  BY <1>1, <1>8
<1>13. Swapped(s, b, f, t) /\ s.used <= max /\ s.received >= q
  BY <1>1, <1>2, <1>8, <1>10, <1>11, <1>12 DEF Swapped
<1> QED BY <1>13 DEF s

LEMMA LoanSwapShape ==
    ASSUME NEW b, Shaped(b), NEW f, NEW t, NEW min, NEW max, NEW q, NEW p, NEW e
    PROVE  Follows(LoanSwap(b, f, t, min, max, q, p, e).books, b)
BY SellAllShape, BuyRequiredShape DEF LoanSwap

LEMMA LoanSwapEffect ==
    ASSUME NEW b, Good(b), NEW f \in Tokens, NEW t \in Tokens, f # t,
           NEW min \in Nat, NEW max \in Nat, NEW q \in Nat, NEW p \in Nat \ {0},
           NEW e \in Nat, LoanSwap(b, f, t, min, max, q, p, e).books.ok
    PROVE  /\ Swapped(LoanSwap(b, f, t, min, max, q, p, e), b, f, t)
           /\ LoanSwap(b, f, t, min, max, q, p, e).received >= q
           /\ q = 0 => LoanSwap(b, f, t, min, max, q, p, e).used = min
<1> DEFINE s == LoanSwap(b, f, t, min, max, q, p, e)
<1>1. CASE q = 0
  <2>1. s = SellAll(b, f, t, min, TradingFee(min), p)
    BY <1>1 DEF LoanSwap
  <2>2. TradingFee(min) \in 0..min
    BY FeesNat
  <2>3. Swapped(s, b, f, t) /\ s.used = min
    BY <2>1, <2>2, SellAllEffect
  <2> QED BY <1>1, <2>3 DEF Swapped
<1>2. CASE q # 0
  <2>1. s = BuyRequired(b, f, t, max, q, TradingFee(q), p, e)
    BY <1>2 DEF LoanSwap
  <2>2. TradingFee(q) \in Nat
    BY FeesNat
  <2> QED BY <1>2, <2>1, <2>2, BuyRequiredEffect
<1> QED BY <1>1, <1>2

LEMMA CollateralSwapShape ==
    ASSUME NEW b, Shaped(b), NEW loan, NEW min, NEW n, NEW q, NEW p, NEW e
    PROVE  Follows(DoCollateralSwap(b, loan, min, n, q, p, e).books, b)
<1> DEFINE s == LoanSwap(b, "collateral", "loan", min, loan.collateral, q, p, e)
           c == s.received >= n /\ s.used <= loan.collateral
<1>1. Follows(s.books, b)
  BY LoanSwapShape
<1>2. DoCollateralSwap(b, loan, min, n, q, p, e).books = Require(s.books, c)
  <2>1. s = [books |-> s.books, received |-> s.received, used |-> s.used]
    BY DEF LoanSwap, SellAll, BuyRequired
  <2>2. DoCollateralSwap(b, loan, min, n, q, p, e) = [s EXCEPT !.books = Require(@, c)]
    BY DEF DoCollateralSwap
  <2> HIDE DEF s
  <2> QED BY <2>1, <2>2
<1> HIDE DEF s
<1>3. Follows(Require(s.books, c), s.books)
  BY <1>1, RequireShape DEF Follows
<1> QED BY <1>1, <1>2, <1>3 DEF Follows

LEMMA CollateralSwapEffect ==
    ASSUME NEW b, Good(b), NEW loan \in Loans, NEW min \in Nat, NEW n \in Nat,
           NEW q \in Nat, NEW p \in Nat \ {0}, NEW e \in Nat,
           DoCollateralSwap(b, loan, min, n, q, p, e).books.ok
    PROVE  LET s == DoCollateralSwap(b, loan, min, n, q, p, e)
           IN  /\ Swapped(s, b, "collateral", "loan")
               /\ s.received >= n /\ s.received >= q
               /\ s.used <= loan.collateral
               /\ q = 0 => s.used = min
<1> DEFINE s == LoanSwap(b, "collateral", "loan", min, loan.collateral, q, p, e)
           c == s.received >= n /\ s.used <= loan.collateral
           d == DoCollateralSwap(b, loan, min, n, q, p, e)
<1>1. /\ d.books = Require(s.books, c) /\ d.used = s.used /\ d.received = s.received
  <2>1. s = [books |-> s.books, received |-> s.received, used |-> s.used]
    BY DEF LoanSwap, SellAll, BuyRequired
  <2>2. d = [s EXCEPT !.books = Require(@, c)]
    BY DEF DoCollateralSwap
  <2> HIDE DEF s, d
  <2> QED BY <2>1, <2>2
<1>2. Follows(s.books, b)
  BY LoanSwapShape, GoodIsShaped
<1>3. Follows(Require(s.books, c), s.books)
  BY <1>2, RequireShape DEF Follows
<1>4. s.books.ok
  BY <1>1, <1>3 DEF Follows
<1>5. "collateral" \in Tokens /\ "loan" \in Tokens /\ loan.collateral \in Nat
  BY DEF Tokens, Loans
<1>6. /\ Swapped(s, b, "collateral", "loan")
      /\ s.received >= q
      /\ q = 0 => s.used = min
  <2>1. "collateral" # "loan"
    OBVIOUS
  <2>2. \A max \in Nat :
            LET r == LoanSwap(b, "collateral", "loan", min, max, q, p, e)
            IN  r.books.ok => /\ Swapped(r, b, "collateral", "loan")
                              /\ r.received >= q
                              /\ q = 0 => r.used = min
    BY <1>5, <2>1, LoanSwapEffect
  <2> HIDE DEF c, d
  <2> QED BY <1>4, <1>5, <2>2
<1>7. c /\ Require(s.books, c) = s.books
  <2>1. \A g \in BOOLEAN : Require(s.books, g).ok => g /\ Require(s.books, g) = s.books
    BY <1>6, RequireEffect DEF Swapped, Good
  <2>2. c \in BOOLEAN
    OBVIOUS
  <2>3. Require(s.books, c).ok
    BY <1>1
  <2> HIDE DEF s, c
  <2> QED BY <2>1, <2>2, <2>3
<1> HIDE DEF s
<1>8. Swapped(d, b, "collateral", "loan")
  BY <1>1, <1>6, <1>7 DEF Swapped
<1> QED BY <1>1, <1>6, <1>7, <1>8

-----------------------------------------------------------------------------
(* Interest. *)

LEMMA TransferShape ==
    ASSUME NEW b, Shaped(b), NEW n PROVE Follows(PayInterestTransfer(b, n), b)
<1> DEFINE fee == Percent(n, lendingFeePercent)
<1>1. Follows(HoldFee(b, "loan", fee), b)
  BY DepositShape
<1>2. Follows(PayLender(HoldFee(b, "loan", fee), n - fee), HoldFee(b, "loan", fee))
  BY <1>1, PayLenderShape DEF Follows
<1> QED BY <1>1, <1>2 DEF Follows, PayInterestTransfer

LEMMA TransferEffect ==
    ASSUME NEW b, Good(b), NEW n \in Nat, PayInterestTransfer(b, n).ok
    PROVE  Moved(PayInterestTransfer(b, n), b, "loan", -n)
<1> DEFINE fee == Percent(n, lendingFeePercent)
           h == HoldFee(b, "loan", fee)
           r == PayLender(h, n - fee)
<1>1. fee \in Nat /\ fee <= n /\ n - fee \in Nat
  <2>1. lendingFeePercent \in Nat /\ lendingFeePercent <= 100
    BY LoanAssumption
  <2>2. fee \in Nat /\ fee <= n
    BY <2>1, PercentNat
  <2> HIDE DEF fee
  <2> QED BY <2>2
<1>2. r = PayInterestTransfer(b, n)
  BY DEF PayInterestTransfer
<1> HIDE DEF fee
<1>3. Moved(h, b, "loan", -fee)
  BY <1>1, FeeEffect DEF Tokens
<1>4. Moved(r, h, "loan", -(n - fee))
  <2>1. r.ok
    BY <1>2
  <2>2. Good(h)
    BY <1>3 DEF Moved
  <2> HIDE DEF h
  <2> QED BY <1>1, <2>1, <2>2, PayLenderEffect
<1> HIDE DEF h, r
<1>5. Free(b, "loan") \in Int /\ Free(h, "loan") \in Int
  BY <1>3, FreeIsInt DEF Moved, Good, Tokens
<1>6. Moved(r, b, "loan", -n)
  BY <1>1, <1>3, <1>4, <1>5 DEF Moved, TokensOnly
<1> QED BY <1>2, <1>6

\* Interest was paid to the lender, out of what was deposited for it.
InterestPaid(b, a, m) ==
    /\ Good(b)
    /\ b.loans = a.loans
    /\ b.twice = a.twice
    /\ b.lender.principalTotal = a.lender.principalTotal
    /\ b.lender.owedPerDay = a.lender.owedPerDay
    /\ b.lender.updatedTimestamp = m
    /\ Free(b, "collateral") = Free(a, "collateral")
    /\ Spare(b) = Spare(a)

LEMMA PayInterestShape ==
    ASSUME NEW b, Shaped(b), NEW m PROVE Follows(PayInterest(b, m), b)
<1> DEFINE owed == InterestUnpaid(b, m)
           c == [b EXCEPT !.lender.owedTotal = @ - owed, !.lender.updatedTimestamp = m]
<1>1. Follows(c, b)
  BY DEF Follows, Shaped
<1>2. PayInterest(b, m) = PayInterestTransfer(c, owed)
  BY DEF PayInterest
<1> HIDE DEF c, owed
<1>3. Follows(PayInterestTransfer(c, owed), c)
  BY <1>1, TransferShape DEF Follows
<1> QED BY <1>1, <1>2, <1>3 DEF Follows

LEMMA PayInterestEffect ==
    ASSUME NEW b, Good(b), NEW m \in Nat, b.lender.updatedTimestamp <= m,
           PayInterest(b, m).ok
    PROVE  InterestPaid(PayInterest(b, m), b, m)
<1> DEFINE owed == InterestUnpaid(b, m)
           l == [b.lender EXCEPT !.owedTotal = @ - owed, !.updatedTimestamp = m]
           c == [b EXCEPT !.lender = l]
           r == PayInterestTransfer(c, owed)
<1>1. b.lender \in Lenders
  BY DEF Good, Books
<1>2. owed \in Nat /\ owed <= b.lender.owedTotal
  <2>1. DAY \in Nat \ {0} /\ m - b.lender.updatedTimestamp \in Nat /\ b.lender.owedPerDay \in Nat
    BY <1>1, LoanAssumption DEF Lenders
  <2>2. MulDiv(m - b.lender.updatedTimestamp, b.lender.owedPerDay, DAY) \in Nat
    BY <2>1, MulDivNat
  <2>3. b.lender.owedTotal \in Nat
    BY <1>1 DEF Lenders
  <2> QED BY <2>2, <2>3 DEF InterestUnpaid, Min2
<1>3. PayInterest(b, m) = r
  BY DEF PayInterest
<1> HIDE DEF owed
<1>4. /\ l \in Lenders
      /\ l.principalTotal = b.lender.principalTotal
      /\ l.owedPerDay = b.lender.owedPerDay
      /\ l.owedTotal = b.lender.owedTotal - owed
      /\ l.updatedTimestamp = m
  <2>1. \A x \in Lenders : \A n \in Nat :
            LET y == [x EXCEPT !.owedTotal = n, !.updatedTimestamp = m]
            IN  /\ y \in Lenders /\ y.owedTotal = n /\ y.updatedTimestamp = m
                /\ y.principalTotal = x.principalTotal /\ y.owedPerDay = x.owedPerDay
    BY DEF Lenders
  <2>2. b.lender.owedTotal - owed \in Nat
    BY <1>1, <1>2 DEF Lenders
  <2> QED BY <1>1, <2>1, <2>2
<1> HIDE DEF l
<1>5. /\ c \in Books /\ c.ok /\ c.lender = l /\ c.loans = b.loans /\ c.twice = b.twice
      /\ c.held = b.held /\ c.fees = b.fees
  BY <1>4 DEF Good, Books
<1> HIDE DEF c
<1>6. Moved(r, c, "loan", -owed)
  BY <1>2, <1>3, <1>5, TransferEffect DEF Good
<1> HIDE DEF r
<1>7. Free(c, "loan") = Free(b, "loan") /\ Free(c, "collateral") = Free(b, "collateral")
  BY <1>5 DEF Free
<1>8. /\ Free(b, "loan") \in Int /\ b.lender.owedTotal \in Nat
      /\ Free(r, "collateral") = Free(c, "collateral")
  BY <1>1, <1>6, FreeIsInt DEF Moved, Good, Tokens, Lenders
<1>9. Free(r, "loan") = Free(b, "loan") - owed /\ r.lender = l /\ r.loans = b.loans
      /\ r.twice = b.twice /\ Good(r)
  BY <1>2, <1>5, <1>6, <1>7, <1>8 DEF Moved, TokensOnly
<1>10. Spare(r) = Spare(b)
  BY <1>2, <1>4, <1>8, <1>9 DEF Spare
<1> QED BY <1>3, <1>4, <1>7, <1>8, <1>9, <1>10 DEF InterestPaid

LEMMA FeeRewardShape ==
    ASSUME NEW b, Shaped(b), NEW id, NEW m PROVE Follows(SettleFeeReward(b, id, m), b)
<1>1. Follows(Require(b, b.loans[id].updatedTimestamp <= m), b)
  BY RequireShape
<1> QED BY <1>1 DEF Follows, Shaped, SettleFeeReward

PaidAt(b, id, m) == [b EXCEPT !.loans[id].updatedTimestamp = m]

LEMMA FeeRewardEffect ==
    ASSUME NEW b, Good(b), NEW id \in LoanIds, NEW m \in Nat, SettleFeeReward(b, id, m).ok
    PROVE  /\ SettleFeeReward(b, id, m) = PaidAt(b, id, m)
           /\ [b.loans[id] EXCEPT !.updatedTimestamp = m] \in Loans
<1> DEFINE c == b.loans[id].updatedTimestamp <= m
           r == Require(b, c)
<1>1. r.ok
  BY DEF SettleFeeReward
<1>2. r = b
  <2>1. \A g \in BOOLEAN : Require(b, g).ok => Require(b, g) = b
    BY RequireEffect DEF Good
  <2>2. c \in BOOLEAN
    OBVIOUS
  <2> QED BY <1>1, <2>1, <2>2
<1>3. SettleFeeReward(b, id, m) = [r EXCEPT !.loans[id].updatedTimestamp = m]
  BY DEF SettleFeeReward
<1>4. b.loans[id] \in Loans
  BY DEF Good, Books
<1>5. [b.loans[id] EXCEPT !.updatedTimestamp = m] \in Loans
  BY <1>4 DEF Loans
<1> HIDE DEF r, c
<1> QED BY <1>2, <1>3, <1>5 DEF PaidAt

\* Other loans are left alone.
OnlyLoan(b, a, id) == \A j \in LoanIds \ {id} : b.loans[j] = a.loans[j]

\* Neither what is lent nor what is pledged changes, nor the kind of the loan.
SameLoan(y, x) ==
    /\ y.kind = x.kind
    /\ y.active = x.active
    /\ y.principal = x.principal
    /\ y.collateral = x.collateral
    /\ y.endTimestamp = x.endTimestamp

\* Part of a loan, or all of it, is settled at time m: books b after a.
Settles(b, a, id, close, m) ==
    /\ Good(b)
    /\ OnlyLoan(b, a, id)
    /\ b.twice = a.twice
    /\ SameLoan(b.loans[id], a.loans[id])
    /\ b.loans[id].owedPerDay - b.lender.owedPerDay
           = a.loans[id].owedPerDay - a.lender.owedPerDay
    /\ \/ close >= a.loans[id].principal
       \/ a.loans[id].owedPerDay = 0 /\ a.loans[id].depositTotal = 0
       => b.loans[id].owedPerDay = 0 /\ b.loans[id].depositTotal = 0
    /\ b.lender.principalTotal = a.lender.principalTotal - close
    /\ b.lender.updatedTimestamp = m
    /\ Free(b, "collateral") = Free(a, "collateral")

\* What settling gives back: the interest that was to run from now to the end
\* of the loan, of what is left once the lender has been paid.
Refunds(s, b, id, m) ==
    LET x == b.loans[id]
        y == s.books.loans[id]
    IN  /\ y.owedPerDay <= x.owedPerDay
        /\ s.refund = MulDiv(x.endTimestamp - Min2(m, x.endTimestamp),
                             x.owedPerDay - y.owedPerDay, DAY)
        /\ s.books.lender.owedTotal = Max2(0, PayInterest(b, m).lender.owedTotal - s.refund)
        /\ Free(s.books, "loan") = Free(PayInterest(b, m), "loan")
        /\ y.updatedTimestamp <= m

\* The parts of a record that are replaced one by one are replaced at once.
Replaced(b, id, y, l) == [b EXCEPT !.loans = [b.loans EXCEPT ![id] = y], !.lender = l]

OneByOne(f, id, w, d, u, v, o) ==
    [f EXCEPT !.loans[id].owedPerDay = w,
              !.loans[id].depositTotal = d,
              !.lender.owedPerDay = u,
              !.lender.principalTotal = v,
              !.lender.owedTotal = o]
LoanPart(x, w, d)      == [x EXCEPT !.owedPerDay = w, !.depositTotal = d]
LenderPart(l, u, v, o) == [l EXCEPT !.owedPerDay = u, !.principalTotal = v, !.owedTotal = o]

LEMMA SettlingReplaces ==
    ASSUME NEW f \in Books, NEW id \in LoanIds, NEW w, NEW d, NEW u, NEW v, NEW o
    PROVE  OneByOne(f, id, w, d, u, v, o) =
               Replaced(f, id, LoanPart(f.loans[id], w, d), LenderPart(f.lender, u, v, o))
<1> DEFINE g == f.loans
           x == f.loans[id]
           y == [x EXCEPT !.owedPerDay = w]
           z == [y EXCEPT !.depositTotal = d]
           g1 == [g EXCEPT ![id] = y]
           g3 == [g EXCEPT ![id] = z]
           l == f.lender
           l1 == [l EXCEPT !.owedPerDay = u]
           l2 == [l1 EXCEPT !.principalTotal = v]
           l3 == [l2 EXCEPT !.owedTotal = o]
           f1 == [f EXCEPT !.loans = g3]
<1>1. g \in [LoanIds -> Loans] /\ l \in Lenders BY DEF Books
<1>2. g1[id] = y BY <1>1
<1>3. [g1 EXCEPT ![id] = z] = g3 BY <1>1
<1>4. [f EXCEPT !.loans[id].owedPerDay = w, !.loans[id].depositTotal = d] = f1
  BY <1>1, <1>2, <1>3 DEF Books
<1> HIDE DEF g3
<1>5. f1.lender = l /\ "lender" \in DOMAIN f1
  BY DEF Books
<1> HIDE DEF f1
<1>6. \A k : \A h, h2 : [[f1 EXCEPT !.lender = h] EXCEPT !.lender = h2] = [f1 EXCEPT !.lender = h2]
         /\ [f1 EXCEPT !.lender = h].lender = h
  BY <1>5
<1>7. [f1 EXCEPT !.lender.owedPerDay = u] = [f1 EXCEPT !.lender = l1]
  BY <1>5
<1>8. [f1 EXCEPT !.lender.owedPerDay = u, !.lender.principalTotal = v]
        = [f1 EXCEPT !.lender = l2]
  BY <1>6, <1>7, ZenonT(40)
<1>9. [f1 EXCEPT !.lender.owedPerDay = u, !.lender.principalTotal = v, !.lender.owedTotal = o]
        = [f1 EXCEPT !.lender = l3]
  BY <1>6, <1>8, ZenonT(40)
<1> QED BY <1>4, <1>9 DEF f1, g3, OneByOne, Replaced, LoanPart, LenderPart

\* One loan and the totals of the lender are replaced.
Replaces(r, b, id, y, l) ==
    /\ Good(r)
    /\ OnlyLoan(r, b, id)
    /\ r.loans[id] = y
    /\ r.lender = l
    /\ r.held = b.held
    /\ r.fees = b.fees
    /\ r.cash = b.cash
    /\ r.twice = b.twice

LEMMA LoanReplaced ==
    ASSUME NEW b, Good(b), NEW id \in LoanIds, NEW y \in Loans, NEW l \in Lenders
    PROVE  Replaces(Replaced(b, id, y, l), b, id, y, l)
<1> DEFINE r == Replaced(b, id, y, l)
<1>1. b.loans \in [LoanIds -> Loans]
  BY DEF Good, Books
<1> DEFINE g == [b.loans EXCEPT ![id] = y]
<1>2. g \in [LoanIds -> Loans] /\ g[id] = y /\ \A j \in LoanIds \ {id} : g[j] = b.loans[j]
  BY <1>1
<1> HIDE DEF g
<1>3. /\ r \in Books /\ r.ok /\ r.loans = g /\ r.lender = l
      /\ r.held = b.held /\ r.fees = b.fees /\ r.cash = b.cash /\ r.twice = b.twice
  <2>1. r = [b EXCEPT !.loans = g, !.lender = l]
    BY DEF g, Replaced
  <2> QED BY <1>2, <2>1 DEF Good, Books
<1> HIDE DEF r
<1>4. Replaces(r, b, id, y, l)
  BY <1>2, <1>3 DEF Good, OnlyLoan, Replaces
<1> QED BY <1>4 DEF r

\* What of a loan is settled, and the interest that is given back.
LEMMA RefundBounds ==
    ASSUME NEW loan \in Loans, NEW close \in Nat, NEW m \in Nat
    PROVE  LET perDay == OwedPerDayRefund(loan, close)
               refund == MulDiv(loan.endTimestamp - Min2(m, loan.endTimestamp), perDay, DAY)
           IN  /\ perDay \in Nat /\ perDay <= loan.owedPerDay
               /\ refund \in Nat
               /\ close >= loan.principal => perDay = loan.owedPerDay
               /\ perDay = 0 => refund = 0
               /\ Min2(m, loan.endTimestamp) \in Nat
<1> DEFINE perDay == OwedPerDayRefund(loan, close)
           t == Min2(m, loan.endTimestamp)
<1>1. loan.principal \in Nat /\ loan.owedPerDay \in Nat /\ loan.endTimestamp \in Nat
  BY DEF Loans
<1>2. perDay \in Nat /\ perDay <= loan.owedPerDay
  <2>1. CASE close < loan.principal
    <3>1. loan.principal \in Nat \ {0} /\ close <= loan.principal
      BY <1>1, <2>1
    <3>2. /\ MulDiv(loan.owedPerDay, close, loan.principal) \in Nat
          /\ MulDiv(loan.owedPerDay, close, loan.principal) <= loan.owedPerDay
      BY <1>1, <3>1, MulDivNat
    <3> QED BY <2>1, <3>2 DEF OwedPerDayRefund
  <2>2. CASE ~(close < loan.principal)
    BY <1>1, <2>2 DEF OwedPerDayRefund
  <2> QED BY <2>1, <2>2
<1>3. close >= loan.principal => perDay = loan.owedPerDay
  BY <1>1 DEF OwedPerDayRefund
<1>4. t \in Nat /\ loan.endTimestamp - t \in Nat
  BY <1>1 DEF Min2
<1> HIDE DEF perDay, t
<1>5. /\ MulDiv(loan.endTimestamp - t, perDay, DAY) \in Nat
      /\ perDay = 0 => MulDiv(loan.endTimestamp - t, perDay, DAY) = 0
  <2>1. DAY \in Nat \ {0}
    BY LoanAssumption
  <2> QED BY <1>2, <1>4, <2>1, MulDivNat
<1> QED BY <1>2, <1>3, <1>4, <1>5 DEF perDay, t

LEMMA SettleShape ==
    ASSUME NEW b, Shaped(b), NEW id, NEW close, NEW m
    PROVE  Follows(SettleInterest(b, id, close, m).books, b)
<1> DEFINE paid   == PayInterest(b, m)
           loan   == paid.loans[id]
           time   == Min2(m, loan.endTimestamp)
           perDay == OwedPerDayRefund(loan, close)
           refund == MulDiv(loan.endTimestamp - time, perDay, DAY)
           partly == close < loan.principal
           f == SettleFeeReward(paid, id, time)
           left == Require(f, /\ perDay <= paid.lender.owedPerDay
                              /\ close <= paid.lender.principalTotal
                              /\ partly => refund <= loan.depositTotal)
           r == SettleInterest(b, id, close, m).books
<1>1. Follows(paid, b)
  BY PayInterestShape
<1>2. Follows(f, paid)
  BY <1>1, FeeRewardShape DEF Follows
<1>3. Follows(left, f)
  BY <1>2, RequireShape DEF Follows
<1>4. r = [left EXCEPT
             !.loans[id].owedPerDay = @ - perDay,
             !.loans[id].depositTotal = DepositLeft(loan, refund, partly),
             !.lender.owedPerDay = @ - perDay,
             !.lender.principalTotal = @ - close,
             !.lender.owedTotal = Max2(0, @ - refund)]
  BY DEF SettleInterest
<1> HIDE DEF paid, loan, time, perDay, refund, partly, f, left, r
<1>5. Follows(r, left)
  BY <1>3, <1>4 DEF Follows, Shaped
<1>6. Follows(r, b)
  BY <1>1, <1>2, <1>3, <1>5 DEF Follows
<1> QED BY <1>6 DEF r

LEMMA SettleEffect ==
    ASSUME NEW b, Good(b), NEW id \in LoanIds, NEW close \in Nat, NEW m \in Nat,
           b.lender.updatedTimestamp <= m, SettleInterest(b, id, close, m).books.ok
    PROVE  LET s == SettleInterest(b, id, close, m)
           IN  /\ Settles(s.books, b, id, close, m)
               /\ s.refund \in Nat
               /\ Spare(s.books) <= Spare(b) + s.refund
               /\ Refunds(s, b, id, m)
<1> DEFINE paid   == PayInterest(b, m)
           loan   == paid.loans[id]
           time   == Min2(m, loan.endTimestamp)
           perDay == OwedPerDayRefund(loan, close)
           refund == MulDiv(loan.endTimestamp - time, perDay, DAY)
           partly == close < loan.principal
           f == SettleFeeReward(paid, id, time)
           cond == /\ perDay <= paid.lender.owedPerDay
                   /\ close <= paid.lender.principalTotal
                   /\ partly => refund <= loan.depositTotal
           left == Require(f, cond)
           s == SettleInterest(b, id, close, m)
           dep == DepositLeft(loan, refund, partly)
<1>1. Follows(paid, b) /\ Follows(f, paid) /\ Follows(left, f)
  <2>1. Follows(paid, b)
    BY PayInterestShape, GoodIsShaped
  <2>2. Follows(f, paid)
    BY <2>1, FeeRewardShape DEF Follows
  <2>3. Follows(left, f)
    BY <2>2, RequireShape DEF Follows
  <2> QED BY <2>1, <2>2, <2>3
<1>2. s.refund = refund /\ s.books =
        [left EXCEPT
             !.loans[id].owedPerDay = @ - perDay,
             !.loans[id].depositTotal = dep,
             !.lender.owedPerDay = @ - perDay,
             !.lender.principalTotal = @ - close,
             !.lender.owedTotal = Max2(0, @ - refund)]
  BY DEF SettleInterest
<1>3. left.ok /\ f.ok /\ paid.ok
  <2> HIDE DEF left, f, paid, dep, perDay, refund
  <2>1. s.books.ok = left.ok
    BY <1>1, <1>2 DEF Follows, Shaped
  <2> QED BY <1>1, <2>1 DEF Follows
<1>4. InterestPaid(paid, b, m)
  BY <1>3, PayInterestEffect
<1>5. loan = b.loans[id] /\ loan \in Loans
  BY <1>4 DEF InterestPaid, Good, Books
<1>6. /\ perDay \in Nat /\ perDay <= loan.owedPerDay
      /\ refund \in Nat
      /\ close >= loan.principal => perDay = loan.owedPerDay
      /\ perDay = 0 => refund = 0
      /\ time \in Nat
  <2> HIDE DEF loan
  <2> QED BY <1>5, RefundBounds
<1> HIDE DEF loan, time, perDay, refund
<1>7. /\ f = PaidAt(paid, id, time)
      /\ [paid.loans[id] EXCEPT !.updatedTimestamp = time] \in Loans
  <2>1. Good(paid)
    BY <1>4 DEF InterestPaid
  <2> HIDE DEF paid
  <2> QED BY <1>3, <1>6, <2>1, FeeRewardEffect
<1> DEFINE x == [paid.loans[id] EXCEPT !.updatedTimestamp = time]
<1> HIDE DEF f, paid
<1>8. /\ Good(f) /\ OnlyLoan(f, paid, id) /\ f.loans[id] = x /\ f.lender = paid.lender
      /\ f.held = paid.held /\ f.fees = paid.fees /\ f.twice = paid.twice
  <2>1. Good(paid) /\ paid.lender \in Lenders
    BY <1>4 DEF InterestPaid, Good, Books
  <2>2. f = Replaced(paid, id, x, paid.lender)
    BY <1>7, <2>1 DEF Good, Books, Replaced, PaidAt
  <2>3. x \in Loans
    BY <1>7
  <2> HIDE DEF x
  <2>4. Replaces(f, paid, id, x, paid.lender)
    BY <2>1, <2>2, <2>3, LoanReplaced
  <2> QED BY <2>4 DEF Replaces
<1>9. cond /\ left = f
  <2>1. \A g \in BOOLEAN : Require(f, g).ok => g /\ Require(f, g) = f
    BY <1>8, RequireEffect DEF Good
  <2>2. cond \in BOOLEAN
    OBVIOUS
  <2> HIDE DEF cond
  <2> QED BY <1>3, <2>1, <2>2
<1> DEFINE y == [x EXCEPT !.owedPerDay = @ - perDay, !.depositTotal = dep]
           l == [paid.lender EXCEPT !.owedPerDay = @ - perDay,
                                    !.principalTotal = @ - close,
                                    !.owedTotal = Max2(0, @ - refund)]
<1>10. loan = paid.loans[id] /\ loan.owedPerDay \in Nat /\ loan.depositTotal \in Nat /\ loan.principal \in Nat
  BY <1>5 DEF loan, Loans
<1>11. dep \in Nat /\ (close >= loan.principal => dep = 0)
       /\ (loan.depositTotal = 0 /\ refund = 0 => dep = 0)
  BY <1>6, <1>9, <1>10 DEF DepositLeft
<1> HIDE DEF dep
<1>12. /\ y \in Loans
       /\ SameLoan(y, loan)
       /\ y.owedPerDay = loan.owedPerDay - perDay
       /\ y.depositTotal = dep
       /\ y.updatedTimestamp = time
  <2>1. loan.owedPerDay - perDay \in Nat
    BY <1>6, <1>10
  <2>2. /\ x \in Loans /\ SameLoan(x, loan) /\ x.owedPerDay = loan.owedPerDay
        /\ x.updatedTimestamp = time
    BY <1>5, <1>6, <1>10 DEF SameLoan, Loans
  <2> HIDE DEF x
  <2>3. \A v \in Nat :
          LET z == [x EXCEPT !.owedPerDay = v, !.depositTotal = dep]
          IN  /\ z \in Loans /\ SameLoan(z, x) /\ z.owedPerDay = v /\ z.depositTotal = dep
              /\ z.updatedTimestamp = x.updatedTimestamp
    BY <1>11, <2>2 DEF SameLoan, Loans
  <2> QED BY <2>1, <2>2, <2>3 DEF SameLoan
<1>13. /\ l \in Lenders
       /\ l.owedPerDay = paid.lender.owedPerDay - perDay
       /\ l.principalTotal = paid.lender.principalTotal - close
       /\ l.owedTotal >= paid.lender.owedTotal - refund
       /\ l.owedTotal = Max2(0, paid.lender.owedTotal - refund)
       /\ l.updatedTimestamp = m
  <2>1. paid.lender \in Lenders /\ paid.lender.updatedTimestamp = m
    BY <1>4 DEF InterestPaid, Good, Books
  <2>2. /\ paid.lender.owedPerDay - perDay \in Nat
        /\ paid.lender.principalTotal - close \in Nat
        /\ Max2(0, paid.lender.owedTotal - refund) \in Nat
        /\ Max2(0, paid.lender.owedTotal - refund) >= paid.lender.owedTotal - refund
    BY <1>6, <1>9, <2>1 DEF Max2, Lenders
  <2> DEFINE o == paid.lender.owedPerDay - perDay
             p == paid.lender.principalTotal - close
             w == Max2(0, paid.lender.owedTotal - refund)
  <2>4. l = [paid.lender EXCEPT !.owedPerDay = o, !.principalTotal = p, !.owedTotal = w]
    OBVIOUS
  <2>5. o \in Nat /\ p \in Nat /\ w \in Nat /\ w >= paid.lender.owedTotal - refund
    BY <2>2
  <2> HIDE DEF l, o, p, w
  <2>6. l \in Lenders /\ l.owedPerDay = o /\ l.principalTotal = p /\ l.owedTotal = w
        /\ l.updatedTimestamp = m
    BY <2>1, <2>4, <2>5 DEF Lenders
  <2> QED BY <2>5, <2>6 DEF o, p, w
<1>14. s.books = Replaced(f, id, y, l)
  <2>1. f \in Books /\ f.loans[id] = x /\ f.lender = paid.lender
    BY <1>8 DEF Good
  <2> DEFINE v == x.owedPerDay - perDay
             o == paid.lender.owedPerDay - perDay
             p == paid.lender.principalTotal - close
             w == Max2(0, paid.lender.owedTotal - refund)
  <2>2. s.books = OneByOne(f, id, v, dep, o, p, w)
    <3> HIDE DEF left, x, s
    <3> QED BY <1>2, <1>9, <2>1 DEF OneByOne
  <2>3. y = LoanPart(f.loans[id], v, dep) /\ l = LenderPart(f.lender, o, p, w)
    <3> HIDE DEF x
    <3> QED BY <2>1 DEF LoanPart, LenderPart
  <2> HIDE DEF v, o, p, w, y, l, s
  <2> QED BY <2>1, <2>2, <2>3, SettlingReplaces
<1> HIDE DEF x, y, l, left, s
<1>15. /\ Good(s.books) /\ OnlyLoan(s.books, f, id) /\ s.books.loans[id] = y
       /\ s.books.lender = l /\ s.books.held = f.held /\ s.books.fees = f.fees
       /\ s.books.twice = f.twice
  <2>1. Replaces(s.books, f, id, y, l)
    BY <1>8, <1>12, <1>13, <1>14, LoanReplaced
  <2> QED BY <2>1 DEF Replaces
<1>16. /\ OnlyLoan(s.books, b, id)
       /\ s.books.twice = b.twice
       /\ SameLoan(s.books.loans[id], b.loans[id])
  BY <1>4, <1>5, <1>8, <1>12, <1>15 DEF OnlyLoan, InterestPaid
<1>17. y.owedPerDay - l.owedPerDay = loan.owedPerDay - b.lender.owedPerDay
  BY <1>4, <1>6, <1>10, <1>12, <1>13 DEF InterestPaid, Good, Books, Lenders
<1>18. \/ close >= loan.principal
       \/ loan.owedPerDay = 0 /\ loan.depositTotal = 0
       => y.owedPerDay = 0 /\ y.depositTotal = 0
  BY <1>6, <1>10, <1>11, <1>12
<1>19. /\ Free(s.books, "collateral") = Free(b, "collateral")
       /\ Free(s.books, "loan") = Free(paid, "loan")
  BY <1>4, <1>8, <1>15 DEF InterestPaid, Free
<1>20. Spare(s.books) <= Spare(b) + s.refund
  <2>1. Free(paid, "loan") \in Int /\ paid.lender.owedTotal \in Nat /\ l.owedTotal \in Nat
    BY <1>4, <1>13, FreeIsInt DEF InterestPaid, Good, Books, Lenders, Tokens
  <2>2. Spare(paid) = Spare(b) /\ Spare(paid) = Free(paid, "loan") - paid.lender.owedTotal
        /\ Spare(s.books) = Free(paid, "loan") - l.owedTotal
    BY <1>4, <1>15, <1>19 DEF InterestPaid, Spare
  <2> QED BY <1>2, <1>6, <1>13, <2>1, <2>2
<1>21. Settles(s.books, b, id, close, m)
  BY <1>4, <1>5, <1>13, <1>15, <1>16, <1>17, <1>18, <1>19 DEF Settles, InterestPaid
<1>22. Refunds(s, b, id, m)
  <2>1. b.loans[id].owedPerDay - y.owedPerDay = perDay /\ y.owedPerDay <= b.loans[id].owedPerDay
    BY <1>5, <1>6, <1>10, <1>12
  <2>2. s.refund = MulDiv(b.loans[id].endTimestamp - Min2(m, b.loans[id].endTimestamp), perDay, DAY)
    BY <1>2, <1>5 DEF refund, time
  <2>3. time <= m
    BY <1>5 DEF time, Min2, Loans
  <2>4. y.updatedTimestamp <= m
    BY <1>12, <2>3
  <2>5. s.books.lender.owedTotal = Max2(0, PayInterest(b, m).lender.owedTotal - s.refund)
    BY <1>2, <1>13, <1>15 DEF paid
  <2>6. Free(s.books, "loan") = Free(PayInterest(b, m), "loan")
    BY <1>19 DEF paid
  <2> QED BY <1>15, <2>1, <2>2, <2>4, <2>5, <2>6 DEF Refunds
<1> QED BY <1>2, <1>6, <1>20, <1>21, <1>22 DEF s

LEMMA ToPrincipalShape ==
    ASSUME NEW b, Shaped(b), NEW id, NEW close, NEW m
    PROVE  Follows(SettleInterestToPrincipal(b, id, close, m).books, b)
<1> DEFINE s == SettleInterest(b, id, close, m)
           applied == Min2(s.refund, close)
           w == VaultWithdraw(s.books, "loan", s.refund - applied)
<1>1. Follows(s.books, b)
  BY SettleShape
<1>2. Follows(w, s.books)
  BY <1>1, WithdrawShape DEF Follows
<1>3. Follows(PayLender(w, applied), w)
  BY <1>2, PayLenderShape DEF Follows
<1>4. SettleInterestToPrincipal(b, id, close, m).books = PayLender(w, applied)
  BY DEF SettleInterestToPrincipal
<1> HIDE DEF s, applied, w
<1> QED BY <1>1, <1>2, <1>3, <1>4 DEF Follows

LEMMA ToPrincipalEffect ==
    ASSUME NEW b, Good(b), NEW id \in LoanIds, NEW close \in Nat, NEW m \in Nat,
           b.lender.updatedTimestamp <= m,
           SettleInterestToPrincipal(b, id, close, m).books.ok
    PROVE  LET s == SettleInterestToPrincipal(b, id, close, m)
           IN  /\ Settles(s.books, b, id, close, m)
               /\ Spare(s.books) <= Spare(b)
               /\ s.lessInterest \in 0..close
<1> DEFINE s == SettleInterest(b, id, close, m)
           applied == Min2(s.refund, close)
           w == VaultWithdraw(s.books, "loan", s.refund - applied)
           q == PayLender(w, applied)
           p == SettleInterestToPrincipal(b, id, close, m)
<1>1. p.books = q /\ p.lessInterest = close - applied
  BY DEF SettleInterestToPrincipal
<1>2. Follows(s.books, b) /\ Follows(w, s.books) /\ Follows(q, w)
  <2>1. Follows(s.books, b)
    BY SettleShape, GoodIsShaped
  <2>2. Follows(w, s.books)
    BY <2>1, WithdrawShape DEF Follows
  <2>3. Follows(q, w)
    BY <2>2, PayLenderShape DEF Follows
  <2> QED BY <2>1, <2>2, <2>3
<1>3. q.ok /\ w.ok /\ s.books.ok
  BY <1>1, <1>2 DEF Follows
<1>4. Settles(s.books, b, id, close, m) /\ s.refund \in Nat /\ Spare(s.books) <= Spare(b) + s.refund
  BY <1>3, SettleEffect
<1>5. applied \in Nat /\ applied <= close /\ s.refund - applied \in Nat
  BY <1>4 DEF Min2
<1> HIDE DEF s, applied
<1>6. Moved(w, s.books, "loan", -(s.refund - applied))
  BY <1>3, <1>4, <1>5, WithdrawEffect DEF Settles, Tokens
<1>7. Moved(q, w, "loan", -applied)
  <2>1. Good(w)
    BY <1>6 DEF Moved
  <2> HIDE DEF w
  <2> QED BY <1>3, <1>5, <2>1, PayLenderEffect
<1> HIDE DEF w, q, p
<1>8. /\ Good(q) /\ TokensOnly(q, s.books)
      /\ Free(q, "collateral") = Free(s.books, "collateral")
  BY <1>6, <1>7 DEF Moved, TokensOnly, Tokens
<1>9. Spare(q) = Spare(s.books) - s.refund
  <2>1. /\ Free(s.books, "loan") \in Int /\ Free(w, "loan") \in Int
        /\ s.books.lender.owedTotal \in Nat
    BY <1>4, <1>6, FreeIsInt DEF Moved, Good, Books, Lenders, Settles, Tokens
  <2>2. Free(q, "loan") = Free(s.books, "loan") - s.refund
    BY <1>4, <1>5, <1>6, <1>7, <2>1 DEF Moved
  <2> QED BY <1>4, <1>8, <2>1, <2>2 DEF Spare, TokensOnly
<1>10. Settles(q, b, id, close, m)
  BY <1>4, <1>8 DEF Settles, OnlyLoan, TokensOnly
<1>11. Spare(q) <= Spare(b)
  <2>1. Spare(s.books) \in Int /\ Spare(b) \in Int
    BY <1>4, FreeIsInt DEF Spare, Settles, Good, Books, Lenders, Tokens
  <2> QED BY <1>4, <1>9, <2>1
<1>12. close - applied \in 0..close
  BY <1>5
<1>13. Settles(p.books, b, id, close, m) /\ Spare(p.books) <= Spare(b) /\ p.lessInterest \in 0..close
  BY <1>1, <1>10, <1>11, <1>12
<1> QED BY <1>13 DEF p

-----------------------------------------------------------------------------
(* Closing a loan. *)

\* Only the principal of the loan fell, and what is closed is not active.
Closes(b, a, id, close) ==
    /\ Good(b)
    /\ OnlyLoan(b, a, id)
    /\ b.lender = a.lender
    /\ b.held = a.held
    /\ b.fees = a.fees
    /\ b.twice = a.twice
    /\ close \in 1..a.loans[id].principal
    /\ LET x == a.loans[id]
           y == b.loans[id]
       IN  /\ y.kind = x.kind
           /\ y.collateral = x.collateral
           /\ y.owedPerDay = x.owedPerDay
           /\ y.depositTotal = x.depositTotal
           /\ y.principal = x.principal - close
           /\ y.active = IF close < x.principal THEN x.active ELSE FALSE
           /\ y.updatedTimestamp = x.updatedTimestamp
           /\ close < x.principal => y.endTimestamp = x.endTimestamp

LEMMA CloseShape ==
    ASSUME NEW b, Shaped(b), NEW id, NEW close PROVE Follows(CloseLoan(b, id, close), b)
<1> DEFINE asked == Require(b, close # 0 /\ close <= b.loans[id].principal)
<1>1. Follows(asked, b)
  BY RequireShape
<1>2. \/ CloseLoan(b, id, close) = [asked EXCEPT !.loans[id].principal = 0,
                                                 !.loans[id].active = FALSE,
                                                 !.loans[id].endTimestamp = now]
      \/ CloseLoan(b, id, close) = [asked EXCEPT !.loans[id].principal = @ - close]
  BY DEF CloseLoan
<1> HIDE DEF asked
<1> QED BY <1>1, <1>2 DEF Follows, Shaped

\* A loan that is replaced twice is replaced by the second.
WithLoan(b, id, y) == [b EXCEPT !.loans[id] = y]

LEMMA WithLoanTwice ==
    ASSUME NEW b \in Books, NEW id \in LoanIds, NEW y, NEW z
    PROVE  /\ WithLoan(WithLoan(b, id, y), id, z) = WithLoan(b, id, z)
           /\ WithLoan(b, id, y).loans[id] = y
           /\ WithLoan(b, id, y) = Replaced(b, id, y, b.lender)
<1> DEFINE g == b.loans
           g1 == [g EXCEPT ![id] = y]
           b1 == [b EXCEPT !.loans = g1]
<1>1. g \in [LoanIds -> Loans] /\ b.loans = g
  BY DEF Books
<1>2. [g1 EXCEPT ![id] = z] = [g EXCEPT ![id] = z] /\ g1[id] = y
  BY <1>1
<1>3. "loans" \in DOMAIN b1 /\ b1.loans = g1
  BY DEF Books
<1>4. WithLoan(b, id, y) = b1
  BY DEF WithLoan
<1>5. WithLoan(b1, id, z) = WithLoan(b, id, z)
  BY <1>2, <1>3 DEF WithLoan
<1>6. WithLoan(b, id, y) = Replaced(b, id, y, b.lender)
  BY DEF WithLoan, Replaced, Books
<1> QED BY <1>2, <1>3, <1>4, <1>5, <1>6

EndedOneByOne(b, id, n) ==
    [b EXCEPT !.loans[id].principal = 0,
              !.loans[id].active = FALSE,
              !.loans[id].endTimestamp = n]
Ended(x, n) == [x EXCEPT !.principal = 0, !.active = FALSE, !.endTimestamp = n]

LEMMA EndingReplaces ==
    ASSUME NEW b \in Books, NEW id \in LoanIds, NEW n
    PROVE  EndedOneByOne(b, id, n) = Replaced(b, id, Ended(b.loans[id], n), b.lender)
<1> DEFINE x == b.loans[id]
           y1 == [x EXCEPT !.principal = 0]
           y2 == [y1 EXCEPT !.active = FALSE]
           y3 == [y2 EXCEPT !.endTimestamp = n]
           b1 == WithLoan(b, id, y1)
           b2 == WithLoan(b, id, y2)
           b3 == WithLoan(b, id, y3)
<1>1. b1 = [b EXCEPT !.loans[id].principal = 0]
  BY DEF WithLoan
<1>2. b1.loans[id] = y1 /\ b2.loans[id] = y2
  BY WithLoanTwice
<1>3. b2 = WithLoan(b1, id, y2) /\ b3 = WithLoan(b2, id, y3)
  BY WithLoanTwice
<1>4. b2 = [b1 EXCEPT !.loans[id].active = FALSE]
  <2> HIDE DEF b1, b2
  <2> QED BY <1>2, <1>3 DEF WithLoan
<1>5. b3 = [b2 EXCEPT !.loans[id].endTimestamp = n]
  <2> HIDE DEF b1, b2, b3
  <2> QED BY <1>2, <1>3 DEF WithLoan
<1>6. EndedOneByOne(b, id, n) = [[[b EXCEPT !.loans[id].principal = 0]
          EXCEPT !.loans[id].active = FALSE] EXCEPT !.loans[id].endTimestamp = n]
  BY DEF EndedOneByOne
<1> HIDE DEF b1, b2
<1>7. EndedOneByOne(b, id, n) = b3
  BY <1>1, <1>4, <1>5, <1>6
<1>8. y3 = Ended(x, n)
  BY DEF Ended
<1> HIDE DEF y3
<1> QED BY <1>7, <1>8, WithLoanTwice

LEMMA CloseEffect ==
    ASSUME NEW b, Good(b), NEW id \in LoanIds, NEW close \in Nat, now \in Nat,
           CloseLoan(b, id, close).ok
    PROVE  Closes(CloseLoan(b, id, close), b, id, close)
<1> DEFINE x == b.loans[id]
           cond == close # 0 /\ close <= x.principal
           asked == Require(b, cond)
           r == CloseLoan(b, id, close)
           y == [x EXCEPT !.principal = @ - close]
           z == Ended(x, now)
<1>1. /\ close = x.principal =>
            r = [asked EXCEPT !.loans[id].principal = 0,
                              !.loans[id].active = FALSE,
                              !.loans[id].endTimestamp = now]
      /\ close # x.principal => r = [asked EXCEPT !.loans[id].principal = @ - close]
  BY DEF CloseLoan
<1>2. x \in Loans /\ b.lender \in Lenders /\ x.principal \in Nat /\ x.active \in BOOLEAN
  BY DEF Good, Books, Loans
<1>3. cond /\ asked = b
  <2>1. \A g \in BOOLEAN : Require(b, g).ok => g /\ Require(b, g) = b
    BY RequireEffect DEF Good
  <2>2. cond \in BOOLEAN
    OBVIOUS
  <2>3. asked.ok
    <3>1. Shaped(asked)
      BY RequireShape, GoodIsShaped DEF Follows
    <3> HIDE DEF asked
    <3> QED BY <1>1, <3>1 DEF Shaped
  <2> HIDE DEF cond
  <2> QED BY <2>1, <2>2, <2>3
<1> HIDE DEF asked, r
<1>4. CASE close = x.principal
  <2>1. r = EndedOneByOne(b, id, now)
    BY <1>1, <1>3, <1>4 DEF EndedOneByOne
  <2>2. r = Replaced(b, id, z, b.lender)
    BY <2>1, EndingReplaces DEF Good
  <2>3. /\ z \in Loans
        /\ z.kind = x.kind /\ z.collateral = x.collateral /\ z.owedPerDay = x.owedPerDay
        /\ z.depositTotal = x.depositTotal /\ z.principal = 0 /\ z.active = FALSE
        /\ z.updatedTimestamp = x.updatedTimestamp
    BY <1>2 DEF Loans, Ended
  <2> HIDE DEF z
  <2>4. Replaces(r, b, id, z, b.lender)
    BY <1>2, <2>2, <2>3, LoanReplaced
  <2>5. close \in 1..x.principal /\ 0 = x.principal - close
    BY <1>2, <1>3, <1>4
  <2>6. ~(close < x.principal)
    BY <1>2, <1>4
  <2>7. z.active = IF close < x.principal THEN x.active ELSE FALSE
    BY <2>3, <2>6
  <2>8. z.principal = x.principal - close
    BY <2>3, <2>5
  <2> QED BY <2>3, <2>4, <2>5, <2>6, <2>7, <2>8 DEF Replaces, Closes, r
<1>5. CASE close # x.principal
  <2>1. r = WithLoan(b, id, y)
    BY <1>1, <1>3, <1>5 DEF WithLoan
  <2>2. /\ x.principal - close \in Nat
        /\ close \in 1..x.principal
        /\ close < x.principal
    BY <1>2, <1>3, <1>5
  <2>3. /\ y \in Loans
        /\ y.kind = x.kind /\ y.collateral = x.collateral /\ y.owedPerDay = x.owedPerDay
        /\ y.depositTotal = x.depositTotal /\ y.principal = x.principal - close
        /\ y.active = x.active
        /\ y.updatedTimestamp = x.updatedTimestamp /\ y.endTimestamp = x.endTimestamp
    BY <1>2, <2>2 DEF Loans
  <2> HIDE DEF y
  <2>4. r = Replaced(b, id, y, b.lender)
    BY <2>1, WithLoanTwice DEF Good
  <2>5. Replaces(r, b, id, y, b.lender)
    BY <1>2, <2>3, <2>4, LoanReplaced
  <2> QED BY <1>2, <2>2, <2>3, <2>5 DEF Replaces, Closes, r
<1> QED BY <1>4, <1>5

-----------------------------------------------------------------------------
(* Closing with a swap, stage by stage. *)

\* A closing, by its parts.
Closing(b, loan, amount, close, less, covered, used, withdraw) ==
    [books |-> b, loan |-> loan, swapAmount |-> amount, close |-> close,
     lessInterest |-> less, covered |-> covered, used |-> used, withdraw |-> withdraw]

SettledFor(b, id, close) == SettleInterestToPrincipal(Require(b, close # 0), id, close, now)

LEMMA SettledForShape ==
    ASSUME NEW b, Shaped(b), NEW id, NEW close
    PROVE  Follows(SettledFor(b, id, close).books, b)
<1> DEFINE r == Require(b, close # 0)
<1>1. Follows(r, b)
  BY RequireShape
<1>2. SettledFor(b, id, close) = SettleInterestToPrincipal(r, id, close, now)
  BY DEF SettledFor
<1> HIDE DEF r
<1>3. Follows(SettledFor(b, id, close).books, r)
  BY <1>1, <1>2, ToPrincipalShape DEF Follows
<1> QED BY <1>1, <1>3 DEF Follows

LEMMA SettledForEffect ==
    ASSUME NEW b, Good(b), NEW id \in LoanIds, NEW close \in Nat, now \in Nat,
           b.lender.updatedTimestamp <= now, SettledFor(b, id, close).books.ok
    PROVE  /\ Settles(SettledFor(b, id, close).books, b, id, close, now)
           /\ Spare(SettledFor(b, id, close).books) <= Spare(b)
           /\ SettledFor(b, id, close).lessInterest \in 0..close
           /\ close # 0
<1> DEFINE r == Require(b, close # 0)
           s == SettledFor(b, id, close)
<1>1. Follows(r, b)
  BY RequireShape, GoodIsShaped
<1>2. s = SettleInterestToPrincipal(r, id, close, now)
  BY DEF SettledFor
<1>3. close # 0 /\ r = b
  <2>1. \A g \in BOOLEAN : Require(b, g).ok => g /\ Require(b, g) = b
    BY RequireEffect DEF Good
  <2>2. (close # 0) \in BOOLEAN
    OBVIOUS
  <2>3. r.ok
    <3> HIDE DEF r, s
    <3>1. Follows(s.books, r)
      BY <1>1, <1>2, ToPrincipalShape DEF Follows
    <3> QED BY <3>1 DEF Follows, s
  <2> QED BY <2>1, <2>2, <2>3
<1> HIDE DEF r, s
<1> QED BY <1>2, <1>3, ToPrincipalEffect DEF s

LEMMA SettleClosingIs ==
    ASSUME NEW b, NEW x, NEW n, NEW k, NEW l, NEW v, NEW u, NEW w, NEW id, NEW close
    PROVE  SettleClosing(Closing(b, x, n, k, l, v, u, w), id, close) =
               Closing(SettledFor(b, id, close).books, x, n, close,
                       SettledFor(b, id, close).lessInterest, v, u, w)
<1> DEFINE C == Closing(b, x, n, k, l, v, u, w)
           t == SettledFor(b, id, close)
<1>1. C.books = b
  BY DEF Closing
<1>2. SettleClosing(C, id, close) =
          [C EXCEPT !.books = t.books, !.close = close, !.lessInterest = t.lessInterest]
  BY <1>1 DEF SettleClosing, SettledFor
<1> HIDE DEF t
<1>3. \A p, q : [C EXCEPT !.books = p, !.close = close, !.lessInterest = q] =
                    Closing(p, x, n, close, q, v, u, w)
  <2> TAKE p, q
  <2>1. [C EXCEPT !.books = p] = Closing(p, x, n, k, l, v, u, w)
    BY DEF Closing
  <2>2. [Closing(p, x, n, k, l, v, u, w) EXCEPT !.close = close]
            = Closing(p, x, n, close, l, v, u, w)
    BY DEF Closing
  <2>3. [Closing(p, x, n, close, l, v, u, w) EXCEPT !.lessInterest = q]
            = Closing(p, x, n, close, q, v, u, w)
    BY DEF Closing
  <2> HIDE DEF C
  <2> QED BY <2>1, <2>2, <2>3
<1> QED BY <1>2, <1>3 DEF t

\* Before the swap, either what is closed is settled, or nothing is yet.
SettledYet(b, a, id, close, less) ==
    /\ Settles(b, a, id, close, now)
    /\ Spare(b) <= Spare(a)
    /\ less \in 0..close
    /\ close # 0

Begun(d, a, id, n, c, close, less) ==
    \/ /\ SettledYet(d, a, id, close, less)
       /\ close \in 0..a.loans[id].principal
       /\ n = a.loans[id].collateral \/ (close < a.loans[id].principal /\ c)
    \/ /\ d = a /\ close = 0 /\ less = 0
       /\ ~c /\ n # a.loans[id].collateral

LEMMA BeforeSwapShape ==
    ASSUME NEW b, Shaped(b), NEW x, NEW n, NEW id, NEW c
    PROVE  Follows(SettleBeforeSwap(Closing(b, x, n, 0, 0, 0, 0, 0), id, c).books, b)
<1> DEFINE C == Closing(b, x, n, 0, 0, 0, 0, 0)
           r == SettleBeforeSwap(C, id, c)
<1>1. C.books = b
  BY DEF Closing
<1>2. r = C \/ \E k : r = SettleClosing(C, id, k)
  BY DEF SettleBeforeSwap
<1>3. \A k : SettleClosing(C, id, k).books = SettledFor(b, id, k).books
  <2> TAKE k
  <2>1. SettleClosing(C, id, k) =
            Closing(SettledFor(b, id, k).books, x, n, k, SettledFor(b, id, k).lessInterest, 0, 0, 0)
    BY SettleClosingIs
  <2> QED BY <2>1 DEF Closing
<1>4. \A k : Follows(SettledFor(b, id, k).books, b)
  BY SettledForShape
<1>5. Follows(b, b)
  BY DEF Follows
<1> HIDE DEF C, r
<1>6. Follows(r.books, b)
  BY <1>1, <1>2, <1>3, <1>4, <1>5
<1> QED BY <1>6 DEF r, C

LEMMA BeforeSwapEffect ==
    ASSUME NEW b, Good(b), NEW id \in LoanIds, NEW n \in Nat, NEW c \in BOOLEAN,
           now \in Nat, b.lender.updatedTimestamp <= now,
           n <= b.loans[id].collateral, b.loans[id].collateral # 0,
           SettleBeforeSwap(Closing(b, b.loans[id], n, 0, 0, 0, 0, 0), id, c).books.ok
    PROVE  \E d, close, less :
             /\ SettleBeforeSwap(Closing(b, b.loans[id], n, 0, 0, 0, 0, 0), id, c) =
                    Closing(d, b.loans[id], n, close, less, 0, 0, 0)
             /\ Begun(d, b, id, n, c, close, less)
<1> DEFINE x == b.loans[id]
           C == Closing(b, x, n, 0, 0, 0, 0, 0)
           r == SettleBeforeSwap(C, id, c)
           k == MulDiv(x.principal, n, x.collateral)
<1>1. C.swapAmount = n /\ C.loan = x
  BY DEF Closing
<1>2. x \in Loans /\ x.principal \in Nat /\ x.collateral \in Nat
  BY DEF Good, Books, Loans
<1>3. \A m : SettleClosing(C, id, m) =
            Closing(SettledFor(b, id, m).books, x, n, m, SettledFor(b, id, m).lessInterest, 0, 0, 0)
  BY SettleClosingIs
<1>4. \A m \in Nat : SettledFor(b, id, m).books.ok =>
          SettledYet(SettledFor(b, id, m).books, b, id, m, SettledFor(b, id, m).lessInterest)
  BY SettledForEffect DEF SettledYet
<1>5. \A m : SettleClosing(C, id, m).books = SettledFor(b, id, m).books
  <2> TAKE m
  <2>1. SettleClosing(C, id, m) =
            Closing(SettledFor(b, id, m).books, x, n, m, SettledFor(b, id, m).lessInterest, 0, 0, 0)
    BY <1>3
  <2> QED BY <2>1 DEF Closing
<1> HIDE DEF C, r, x
<1>6. CASE n = x.collateral
  <2>1. r = SettleClosing(C, id, x.principal)
    BY <1>1, <1>6 DEF SettleBeforeSwap, r
  <2>2. SettledFor(b, id, x.principal).books.ok
    BY <1>5, <2>1 DEF r, C, x
  <2>3. r = Closing(SettledFor(b, id, x.principal).books, x, n, x.principal,
                    SettledFor(b, id, x.principal).lessInterest, 0, 0, 0)
    BY <1>3, <2>1
  <2>4. x.principal \in 0..x.principal
    BY <1>2
  <2>5. SettledYet(SettledFor(b, id, x.principal).books, b, id, x.principal,
                   SettledFor(b, id, x.principal).lessInterest)
    BY <1>2, <1>4, <2>2
  <2> QED BY <1>6, <2>3, <2>4, <2>5 DEF r, C, x, Begun
<1>7. CASE n # x.collateral /\ c
  <2>1. r = SettleClosing(C, id, k)
    BY <1>1, <1>7 DEF SettleBeforeSwap, r
  <2>2. k \in Nat /\ k <= x.principal /\ n < x.collateral /\ x.collateral \in Nat \ {0}
    <3>1. x.collateral \in Nat \ {0} /\ n <= x.collateral
      BY <1>2 DEF x
    <3>2. k \in Nat /\ k <= x.principal
      BY <1>2, <3>1, MulDivNat
    <3> QED BY <1>7, <3>1, <3>2
  <2>3. SettledFor(b, id, k).books.ok
    BY <1>5, <2>1 DEF r, C, x
  <2>4. SettledYet(SettledFor(b, id, k).books, b, id, k, SettledFor(b, id, k).lessInterest)
    BY <1>4, <2>2, <2>3
  <2>5. k < x.principal
    <3>1. k # 0
      BY <2>4 DEF SettledYet
    <3>2. ASSUME k = x.principal PROVE FALSE
      <4> DEFINE p == x.principal
                 q == x.collateral
      <4>1. p \in Nat \ {0} /\ q \in Nat \ {0} /\ n < q /\ k = (p * n) \div q
        BY <1>2, <2>2, <3>1, <3>2 DEF MulDiv
      <4> HIDE DEF p, q
      <4>2. p * n \in Nat /\ p * n < p * q
        BY <4>1
      <4>3. \A m \in Nat : q * (m \div q) <= m
        BY <4>1
      <4>4. q * k <= p * n
        BY <4>1, <4>2, <4>3
      <4>5. q * k = p * q
        BY <3>2, <4>1 DEF p
      <4> HIDE DEF k
      <4> QED BY <4>1, <4>2, <4>4, <4>5
    <3> HIDE DEF k
    <3> QED BY <1>2, <2>2, <3>2
  <2> HIDE DEF k
  <2>6. r = Closing(SettledFor(b, id, k).books, x, n, k,
                    SettledFor(b, id, k).lessInterest, 0, 0, 0)
    BY <1>3, <2>1
  <2>7. k \in 0..x.principal
    BY <1>2, <2>2
  <2> QED BY <1>7, <2>4, <2>5, <2>6, <2>7 DEF r, C, x, Begun
<1>8. CASE n # x.collateral /\ ~c
  <2>1. r = C
    BY <1>1, <1>8 DEF SettleBeforeSwap, r
  <2> QED BY <1>8, <2>1 DEF r, C, x, Begun
<1> QED BY <1>6, <1>7, <1>8

\* The swap paid for what is covered and, in the token asked for, for what is
\* withdrawn: books b after d, of loan x, n of whose collateral was to go.
Covers(b, d, x, n, c, less, covered, used, withdraw) ==
    /\ Good(b)
    /\ TokensOnly(b, d)
    /\ covered \in Nat
    /\ withdraw \in Nat
    /\ used \in 0..x.collateral
    /\ less <= covered
    /\ Free(b, "collateral") = Free(d, "collateral") - used + (IF c THEN withdraw ELSE 0)
    /\ Free(b, "loan") = Free(d, "loan") + covered + (IF c THEN 0 ELSE withdraw)
    /\ n = x.collateral => used = x.collateral
    /\ ~c /\ n # x.collateral =>
           covered <= x.principal /\ (covered = x.principal => used = x.collateral)

LEMMA InCollateralIs ==
    ASSUME NEW d, NEW x, NEW n, NEW k, NEW l, NEW s
    PROVE  LET excess == s.received - l
               worth  == excess > paySwapExcessToBorrowerThreshold
               r == CoverInCollateral(Closing(d, x, n, k, l, 0, 0, 0), s)
               u == Max2(s.used, n)
               v == Max2(0, n - s.used)
           IN  /\ worth =>
                     r = Closing(VaultWithdraw(s.books, "loan", excess), x, n, k, l, l, u, v)
               /\ ~worth =>
                     r = Closing(s.books, x, n, k, l, s.received, u, v)
<1> DEFINE C == Closing(d, x, n, k, l, 0, 0, 0)
           excess == s.received - l
           worth  == excess > paySwapExcessToBorrowerThreshold
           w == VaultWithdraw(s.books, "loan", excess)
           u == Max2(s.used, n)
           v == Max2(0, n - s.used)
<1>1. C.lessInterest = l /\ C.swapAmount = n
  BY DEF Closing
<1>2. CoverInCollateral(C, s) =
          [C EXCEPT !.books    = IF worth THEN w ELSE s.books,
                    !.covered  = IF worth THEN l ELSE s.received,
                    !.used     = u,
                    !.withdraw = v]
  BY <1>1 DEF CoverInCollateral, UsedCollateral
<1> HIDE DEF worth, w, u, v
<1>3. /\ worth => CoverInCollateral(C, s) = Closing(w, x, n, k, l, l, u, v)
      /\ ~worth => CoverInCollateral(C, s) = Closing(s.books, x, n, k, l, s.received, u, v)
  BY <1>2 DEF Closing
<1> QED BY <1>3 DEF worth, w, u, v

LEMMA InLoanTokenIs ==
    ASSUME NEW d, NEW x, NEW n, NEW k, NEW l, NEW s
    PROVE  LET a == Require(s.books, s.used = n)
               r == CoverInLoanToken(Closing(d, x, n, k, l, 0, 0, 0), s)
               u == Max2(s.used, n)
           IN  /\ n = x.collateral =>
                     r = Closing(a, x, n, k, l, l, u, s.received - l)
               /\ n # x.collateral /\ s.received >= x.principal =>
                     r = Closing(VaultWithdraw(a, "collateral", x.collateral - s.used),
                                 x, n, k, l, x.principal, Max2(x.collateral, n),
                                 s.received - x.principal)
               /\ n # x.collateral /\ ~(s.received >= x.principal) =>
                     r = Closing(a, x, n, k, l, s.received, u, 0)
BY DEF CoverInLoanToken, Closing, UsedCollateral

LEMMA InCollateralBooks ==
    ASSUME NEW d, NEW x, NEW n, NEW k, NEW l, NEW s
    PROVE  LET r == CoverInCollateral(Closing(d, x, n, k, l, 0, 0, 0), s)
           IN  \/ r.books = s.books
               \/ r.books = VaultWithdraw(s.books, "loan", s.received - l)
<1> DEFINE w == VaultWithdraw(s.books, "loan", s.received - l)
           r == CoverInCollateral(Closing(d, x, n, k, l, 0, 0, 0), s)
<1>1. \/ \E u, v : r = Closing(w, x, n, k, l, l, u, v)
      \/ \E u, v : r = Closing(s.books, x, n, k, l, s.received, u, v)
  BY InCollateralIs
<1> HIDE DEF w, r
<1>2. r.books = s.books \/ r.books = w
  BY <1>1 DEF Closing
<1> QED BY <1>2 DEF r, w

LEMMA InLoanTokenBooks ==
    ASSUME NEW d, NEW x, NEW n, NEW k, NEW l, NEW s
    PROVE  LET a == Require(s.books, s.used = n)
               r == CoverInLoanToken(Closing(d, x, n, k, l, 0, 0, 0), s)
           IN  \/ r.books = a
               \/ r.books = VaultWithdraw(a, "collateral", x.collateral - s.used)
<1> DEFINE a == Require(s.books, s.used = n)
           w == VaultWithdraw(a, "collateral", x.collateral - s.used)
           r == CoverInLoanToken(Closing(d, x, n, k, l, 0, 0, 0), s)
<1>1. \/ \E f, u, v : r = Closing(w, x, n, k, l, f, u, v)
      \/ \E f, u, v : r = Closing(a, x, n, k, l, f, u, v)
  BY InLoanTokenIs
<1> HIDE DEF w, r, a
<1>2. r.books = a \/ r.books = w
  BY <1>1 DEF Closing
<1> QED BY <1>2 DEF r, w, a

LEMMA CoverShape ==
    ASSUME NEW d, Shaped(d), NEW x, NEW n, NEW k, NEW l, NEW c, NEW e
    PROVE  Follows(CoverPrincipalWithSwap(Closing(d, x, n, k, l, 0, 0, 0), c, e).books, d)
<1> DEFINE C == Closing(d, x, n, k, l, 0, 0, 0)
           s == DoCollateralSwap(d, x, n, l, IF c THEN l ELSE 0, price, e)
           r == CoverPrincipalWithSwap(C, c, e)
           a == Require(s.books, s.used = n)
<1>1. r = IF c THEN CoverInCollateral(C, s) ELSE CoverInLoanToken(C, s)
  BY DEF CoverPrincipalWithSwap, Closing
<1>2. Follows(s.books, d)
  BY CollateralSwapShape
<1> HIDE DEF s
<1>3. Shaped(s.books)
  BY <1>2 DEF Follows
<1>4. Follows(a, s.books) /\ Shaped(a)
  BY <1>3, RequireShape DEF Follows
<1> HIDE DEF a
<1>5. /\ \A m : Follows(VaultWithdraw(s.books, "loan", m), s.books)
      /\ \A m : Follows(VaultWithdraw(a, "collateral", m), a)
  BY <1>3, <1>4, WithdrawShape
<1>6. \/ r.books = s.books
      \/ \E m : r.books = VaultWithdraw(s.books, "loan", m)
      \/ r.books = a
      \/ \E m : r.books = VaultWithdraw(a, "collateral", m)
  <2>1. CASE c
    <3>1. r = CoverInCollateral(C, s)
      BY <1>1, <2>1
    <3>2. r.books = s.books \/ r.books = VaultWithdraw(s.books, "loan", s.received - l)
      BY <3>1, InCollateralBooks DEF C
    <3> QED BY <3>2
  <2>2. CASE ~c
    <3>1. r = CoverInLoanToken(C, s)
      BY <1>1, <2>2
    <3>2. r.books = a \/ r.books = VaultWithdraw(a, "collateral", x.collateral - s.used)
      BY <3>1, InLoanTokenBooks DEF C, a
    <3> QED BY <3>2
  <2> QED BY <2>1, <2>2
<1> HIDE DEF r
<1>7. Follows(r.books, d)
  BY <1>2, <1>4, <1>5, <1>6 DEF Follows
<1> QED BY <1>7 DEF r, C

LEMMA CoverInCollateralEffect ==
    ASSUME NEW d, Good(d), NEW x \in Loans, NEW n \in 0..x.collateral, NEW k,
           NEW l \in Nat, NEW s, Swapped(s, d, "collateral", "loan"),
           s.received >= l, s.used <= x.collateral,
           CoverInCollateral(Closing(d, x, n, k, l, 0, 0, 0), s).books.ok
    PROVE  \E b, covered, used, withdraw :
             /\ CoverInCollateral(Closing(d, x, n, k, l, 0, 0, 0), s) =
                    Closing(b, x, n, k, l, covered, used, withdraw)
             /\ Covers(b, d, x, n, TRUE, l, covered, used, withdraw)
<1> DEFINE r == CoverInCollateral(Closing(d, x, n, k, l, 0, 0, 0), s)
           excess == s.received - l
           worth  == excess > paySwapExcessToBorrowerThreshold
           w == VaultWithdraw(s.books, "loan", excess)
           u == Max2(s.used, n)
           v == Max2(0, n - s.used)
<1>1. /\ worth  => r = Closing(w, x, n, k, l, l, u, v)
      /\ ~worth => r = Closing(s.books, x, n, k, l, s.received, u, v)
  BY InCollateralIs
<1>2. /\ s.used \in Nat /\ s.received \in Nat /\ x.collateral \in Nat /\ n \in Nat
      /\ n <= x.collateral /\ excess \in Nat
  BY DEF Swapped, Loans
<1>3. /\ u \in 0..x.collateral /\ v \in Nat /\ u = s.used + v
      /\ n = x.collateral => u = x.collateral
  BY <1>2 DEF Max2
<1>4. /\ Good(s.books) /\ TokensOnly(s.books, d)
      /\ Free(s.books, "collateral") = Free(d, "collateral") - s.used
      /\ Free(s.books, "loan") = Free(d, "loan") + s.received
      /\ Free(d, "collateral") \in Int /\ Free(d, "loan") \in Int
      /\ Free(s.books, "collateral") \in Int /\ Free(s.books, "loan") \in Int
  BY FreeIsInt DEF Swapped, Good, Tokens
<1> HIDE DEF u, v
<1>5. CASE worth
  <2>1. w.ok
    BY <1>1, <1>5 DEF Closing
  <2>2. Moved(w, s.books, "loan", -excess)
    BY <1>2, <1>4, <2>1, WithdrawEffect DEF Tokens
  <2> HIDE DEF w
  <2>3. /\ Good(w) /\ TokensOnly(w, d)
        /\ Free(w, "collateral") = Free(d, "collateral") - s.used
        /\ Free(w, "loan") = Free(d, "loan") + l
    BY <1>2, <1>4, <2>2 DEF Moved, TokensOnly, Tokens
  <2>4. Covers(w, d, x, n, TRUE, l, l, u, v)
    BY <1>2, <1>3, <1>4, <2>3 DEF Covers
  <2> QED BY <1>1, <1>5, <2>4
<1>6. CASE ~worth
  <2>1. Covers(s.books, d, x, n, TRUE, l, s.received, u, v)
    BY <1>2, <1>3, <1>4 DEF Covers
  <2> QED BY <1>1, <1>6, <2>1
<1> QED BY <1>5, <1>6

LEMMA CoverInLoanTokenEffect ==
    ASSUME NEW d, Good(d), NEW x \in Loans, NEW n \in 0..x.collateral, NEW k,
           NEW l \in Nat, n # x.collateral => l = 0,
           NEW s, Swapped(s, d, "collateral", "loan"),
           s.received >= l, s.used <= x.collateral,
           CoverInLoanToken(Closing(d, x, n, k, l, 0, 0, 0), s).books.ok
    PROVE  \E b, covered, used, withdraw :
             /\ CoverInLoanToken(Closing(d, x, n, k, l, 0, 0, 0), s) =
                    Closing(b, x, n, k, l, covered, used, withdraw)
             /\ Covers(b, d, x, n, FALSE, l, covered, used, withdraw)
<1> DEFINE r == CoverInLoanToken(Closing(d, x, n, k, l, 0, 0, 0), s)
           a == Require(s.books, s.used = n)
           rest == x.collateral - s.used
           w == VaultWithdraw(a, "collateral", rest)
           u == Max2(s.used, n)
<1>1. /\ n = x.collateral => r = Closing(a, x, n, k, l, l, u, s.received - l)
      /\ n # x.collateral /\ s.received >= x.principal =>
             r = Closing(w, x, n, k, l, x.principal, Max2(x.collateral, n),
                         s.received - x.principal)
      /\ n # x.collateral /\ ~(s.received >= x.principal) =>
             r = Closing(a, x, n, k, l, s.received, u, 0)
  BY InLoanTokenIs
<1>2. /\ s.used \in Nat /\ s.received \in Nat /\ x.collateral \in Nat /\ n \in Nat
      /\ x.principal \in Nat /\ n <= x.collateral /\ rest \in Nat
  BY DEF Swapped, Loans
<1>3. Good(s.books) /\ Shaped(s.books)
  BY GoodIsShaped DEF Swapped
<1>4. a.ok
  <2>1. Follows(a, s.books)
    BY <1>3, RequireShape
  <2> HIDE DEF a
  <2>2. Follows(w, a)
    BY <2>1, WithdrawShape DEF Follows
  <2>3. r.books = a \/ r.books = w
    BY <1>1 DEF Closing
  <2> QED BY <2>2, <2>3 DEF Follows
<1>5. s.used = n /\ a = s.books
  <2>1. \A g \in BOOLEAN : Require(s.books, g).ok => g /\ Require(s.books, g) = s.books
    BY <1>3, RequireEffect DEF Good
  <2>2. (s.used = n) \in BOOLEAN
    OBVIOUS
  <2> QED BY <1>4, <2>1, <2>2
<1> HIDE DEF a
<1>6. u = n /\ Max2(x.collateral, n) = x.collateral
  BY <1>2, <1>5 DEF Max2
<1>7. /\ TokensOnly(a, d)
      /\ Free(a, "collateral") = Free(d, "collateral") - n
      /\ Free(a, "loan") = Free(d, "loan") + s.received
      /\ Free(d, "collateral") \in Int /\ Free(d, "loan") \in Int
  BY <1>5, FreeIsInt DEF Swapped, Good, Tokens
<1> HIDE DEF u, w
<1>8. CASE n = x.collateral
  <2>1. Covers(a, d, x, n, FALSE, l, l, n, s.received - l)
    BY <1>2, <1>3, <1>5, <1>7, <1>8 DEF Covers
  <2> QED BY <1>1, <1>6, <1>8, <2>1
<1>9. CASE n # x.collateral /\ s.received >= x.principal
  <2>1. w.ok
    BY <1>1, <1>9 DEF Closing
  <2>2. Moved(w, a, "collateral", -rest)
    BY <1>2, <1>3, <1>5, <2>1, WithdrawEffect DEF Tokens, w
  <2>3. /\ Good(w) /\ TokensOnly(w, d)
        /\ Free(w, "collateral") = Free(d, "collateral") - x.collateral
        /\ Free(w, "loan") = Free(d, "loan") + s.received
    BY <1>2, <1>5, <1>7, <2>2 DEF Moved, TokensOnly, Tokens
  <2>4. Covers(w, d, x, n, FALSE, l, x.principal, x.collateral, s.received - x.principal)
    BY <1>2, <1>7, <1>9, <2>3 DEF Covers
  <2> QED BY <1>1, <1>6, <1>9, <2>4
<1>10. CASE n # x.collateral /\ ~(s.received >= x.principal)
  <2>1. Covers(a, d, x, n, FALSE, l, s.received, n, 0)
    BY <1>2, <1>3, <1>5, <1>7, <1>10 DEF Covers
  <2> QED BY <1>1, <1>6, <1>10, <2>1
<1> QED BY <1>8, <1>9, <1>10

LEMMA CoverEffect ==
    ASSUME NEW d, Good(d), NEW x \in Loans, NEW n \in 0..x.collateral, NEW k,
           NEW l \in Nat, NEW c \in BOOLEAN, ~c /\ n # x.collateral => l = 0,
           price \in Nat \ {0}, NEW e \in Nat,
           CoverPrincipalWithSwap(Closing(d, x, n, k, l, 0, 0, 0), c, e).books.ok
    PROVE  \E b, covered, used, withdraw :
             /\ CoverPrincipalWithSwap(Closing(d, x, n, k, l, 0, 0, 0), c, e) =
                    Closing(b, x, n, k, l, covered, used, withdraw)
             /\ Covers(b, d, x, n, c, l, covered, used, withdraw)
<1> DEFINE C == Closing(d, x, n, k, l, 0, 0, 0)
           q == IF c THEN l ELSE 0
           s == DoCollateralSwap(d, x, n, l, q, price, e)
           r == CoverPrincipalWithSwap(C, c, e)
<1>1. r = IF c THEN CoverInCollateral(C, s) ELSE CoverInLoanToken(C, s)
  BY DEF CoverPrincipalWithSwap, Closing
<1>2. n \in Nat /\ q \in Nat
  BY DEF Loans
<1>3. Follows(s.books, d)
  BY CollateralSwapShape, GoodIsShaped
<1> HIDE DEF q
<1>4. Swapped(s, d, "collateral", "loan") /\ s.received >= l /\ s.used <= x.collateral
  <2>1. s.books.ok
    <3> HIDE DEF s
    <3>1. Shaped(s.books)
      BY <1>3 DEF Follows
    <3>2. \A m : Follows(VaultWithdraw(s.books, "loan", m), s.books)
      BY <3>1, WithdrawShape
    <3>3. CASE c
      <4>1. r = CoverInCollateral(C, s)
        BY <1>1, <3>3
      <4>2. r.books = s.books \/ r.books = VaultWithdraw(s.books, "loan", s.received - l)
        BY <4>1, InCollateralBooks DEF C
      <4> QED BY <3>2, <4>2 DEF Follows
    <3>4. CASE ~c
      <4> DEFINE a == Require(s.books, s.used = n)
                 w == VaultWithdraw(a, "collateral", x.collateral - s.used)
      <4>1. r = CoverInLoanToken(C, s)
        BY <1>1, <3>4
      <4>2. r.books = a \/ r.books = w
        BY <4>1, InLoanTokenBooks DEF C
      <4>3. Follows(a, s.books)
        BY <3>1, RequireShape
      <4> HIDE DEF a
      <4>4. Follows(w, a)
        BY <4>3, WithdrawShape DEF Follows
      <4> QED BY <4>2, <4>3, <4>4 DEF Follows
    <3> QED BY <3>3, <3>4
  <2> QED BY <1>2, <2>1, CollateralSwapEffect
<1> HIDE DEF s
<1>5. CASE c
  <2>1. r = CoverInCollateral(C, s)
    BY <1>1, <1>5
  <2>2. c = TRUE
    BY <1>5
  <2> QED BY <1>4, <2>1, <2>2, CoverInCollateralEffect, ZenonT(40)
<1>6. CASE ~c
  <2>1. r = CoverInLoanToken(C, s)
    BY <1>1, <1>6
  <2>2. c = FALSE /\ (n # x.collateral => l = 0)
    BY <1>6
  <2> QED BY <1>4, <2>1, <2>2, CoverInLoanTokenEffect, ZenonT(40)
<1> QED BY <1>5, <1>6

\* The interest of a loan is settled consistently: books b after a.
KeepsInterest(b, a, id) ==
    /\ Good(b)
    /\ OnlyLoan(b, a, id)
    /\ SameLoan(b.loans[id], a.loans[id])
    /\ b.loans[id].owedPerDay - b.lender.owedPerDay
           = a.loans[id].owedPerDay - a.lender.owedPerDay
    /\ b.lender.updatedTimestamp <= now

\* No interest is left of a loan all of which is closed.
NoneLeft(b, a, id, close) ==
    close # 0 /\ close >= a.loans[id].principal =>
        b.loans[id].owedPerDay = 0 /\ b.loans[id].depositTotal = 0

\* After the swap: `covered` has to be repaid, `withdraw` to be returned.
HalfClosed(b, a, id, c, close, covered, used, withdraw) ==
    /\ KeepsInterest(b, a, id)
    /\ NoneLeft(b, a, id, close)
    /\ b.twice = a.twice
    /\ b.lender.principalTotal = a.lender.principalTotal - close
    /\ {close, covered, withdraw} \subseteq Nat
    /\ used \in 0..a.loans[id].collateral
    /\ Free(b, "collateral") = Free(a, "collateral") - used + (IF c THEN withdraw ELSE 0)
    /\ Spare(b) <= Spare(a) + covered + (IF c THEN 0 ELSE withdraw)
    /\ close # 0 /\ close >= a.loans[id].principal => used = a.loans[id].collateral
    /\ close = 0 => /\ ~c
                    /\ covered <= a.loans[id].principal
                    /\ covered = a.loans[id].principal => used = a.loans[id].collateral

LEMMA HalfClosedIs ==
    ASSUME NEW a, Good(a), NEW id \in LoanIds, NEW n \in 0..a.loans[id].collateral,
           NEW c \in BOOLEAN, now \in Nat, a.lender.updatedTimestamp <= now,
           NEW d, NEW k, NEW l, Begun(d, a, id, n, c, k, l),
           NEW b, NEW co, NEW u, NEW w, Covers(b, d, a.loans[id], n, c, l, co, u, w)
    PROVE  /\ HalfClosed(b, a, id, c, k, co, u, w)
           /\ k \in 0..a.loans[id].principal /\ l \in 0..k /\ l <= co
<1> DEFINE x == a.loans[id]
<1>1. /\ x \in Loans /\ x.principal \in Nat /\ x.collateral \in Nat
      /\ a.lender.principalTotal \in Nat
      /\ Free(a, "collateral") \in Int /\ Free(a, "loan") \in Int
      /\ a.lender.owedTotal \in Nat
  BY FreeIsInt DEF Good, Books, Loans, Lenders, Tokens
<1>2. /\ Good(b) /\ b.loans = d.loans /\ b.lender = d.lender /\ b.twice = d.twice
      /\ co \in Nat /\ w \in Nat /\ u \in 0..x.collateral /\ l <= co
      /\ Free(b, "collateral") = Free(d, "collateral") - u + (IF c THEN w ELSE 0)
      /\ Free(b, "loan") = Free(d, "loan") + co + (IF c THEN 0 ELSE w)
      /\ n = x.collateral => u = x.collateral
      /\ ~c /\ n # x.collateral => co <= x.principal /\ (co = x.principal => u = x.collateral)
  BY DEF Covers, TokensOnly
<1>3. CASE SettledYet(d, a, id, k, l) /\ k \in 0..x.principal
           /\ (n = x.collateral \/ (k < x.principal /\ c))
  <2>1. Settles(d, a, id, k, now) /\ Spare(d) <= Spare(a) /\ l \in 0..k /\ k # 0
    BY <1>3 DEF SettledYet
  <2>2. /\ Free(d, "loan") \in Int /\ d.lender.owedTotal \in Nat
        /\ Free(d, "collateral") = Free(a, "collateral")
    BY <2>1, FreeIsInt DEF Settles, Good, Books, Lenders, Tokens
  <2>3. KeepsInterest(b, a, id)
    BY <1>2, <2>1 DEF KeepsInterest, Settles, OnlyLoan
  <2>4. NoneLeft(b, a, id, k)
    BY <1>2, <2>1 DEF NoneLeft, Settles
  <2>5. Spare(b) = Spare(d) + co + (IF c THEN 0 ELSE w)
    BY <1>2, <2>2 DEF Spare
  <2>6. Spare(b) <= Spare(a) + co + (IF c THEN 0 ELSE w)
    BY <1>1, <1>2, <2>1, <2>2, <2>5 DEF Spare
  <2>7. k >= x.principal => u = x.collateral
    BY <1>1, <1>2, <1>3
  <2>8. b.twice = a.twice /\ b.lender.principalTotal = a.lender.principalTotal - k
    BY <1>2, <2>1 DEF Settles
  <2> QED BY <1>1, <1>2, <1>3, <2>1, <2>2, <2>3, <2>4, <2>6, <2>7, <2>8 DEF HalfClosed
<1>4. CASE d = a /\ k = 0 /\ l = 0 /\ ~c /\ n # x.collateral
  <2>1. KeepsInterest(b, a, id)
    BY <1>1, <1>2, <1>4 DEF KeepsInterest, OnlyLoan, SameLoan
  <2>2. NoneLeft(b, a, id, k)
    BY <1>4 DEF NoneLeft
  <2>3. Spare(b) <= Spare(a) + co + (IF c THEN 0 ELSE w)
    BY <1>1, <1>2, <1>4 DEF Spare
  <2>4. b.lender.principalTotal = a.lender.principalTotal - k
    BY <1>1, <1>2, <1>4
  <2> QED BY <1>1, <1>2, <1>4, <2>1, <2>2, <2>3, <2>4 DEF HalfClosed
<1> QED BY <1>3, <1>4 DEF Begun

\* After all is settled: `less` of `close` has to be repaid.
Sold(f, a, id, c, close, less, used, withdraw) ==
    /\ KeepsInterest(f, a, id)
    /\ NoneLeft(f, a, id, close)
    /\ a.twice => f.twice
    /\ f.lender.principalTotal <= a.lender.principalTotal - close
    /\ {close, less, withdraw} \subseteq Nat
    /\ used \in 0..a.loans[id].collateral
    /\ ~f.twice =>
         /\ f.lender.principalTotal = a.lender.principalTotal - close
         /\ Free(f, "collateral") =
                Free(a, "collateral") - used + (IF c THEN withdraw ELSE 0)
         /\ Spare(f) <= Spare(a) + less + (IF c THEN 0 ELSE withdraw)
         /\ close # 0 /\ close >= a.loans[id].principal => used = a.loans[id].collateral

AgainSettled(b, k) == [b EXCEPT !.twice = @ \/ k # 0]

LEMMA AfterSwapIs ==
    ASSUME NEW b, NEW x, NEW n, NEW k, NEW l, NEW co, NEW u, NEW w, NEW id
    PROVE  LET r == SettleAfterSwap(Closing(b, x, n, k, l, co, u, w), id)
               close == IF co = x.principal THEN co ELSE MulDiv(co, u, x.collateral)
               s == SettledFor(AgainSettled(b, k), id, close)
           IN  /\ l # 0 => r = Closing(b, x, n, k, co, co, u, w)
               /\ l = 0 => r = Closing(s.books, x, n, close, s.lessInterest, co, u,
                                       w + co - s.lessInterest)
<1> DEFINE C == Closing(b, x, n, k, l, co, u, w)
           D == Closing(AgainSettled(b, k), x, n, k, l, co, u, w)
           r == SettleAfterSwap(C, id)
           close == IF co = x.principal THEN co ELSE MulDiv(co, u, x.collateral)
           s == SettledFor(AgainSettled(b, k), id, close)
           S == Closing(s.books, x, n, close, s.lessInterest, co, u, w)
<1>1. /\ C.lessInterest = l /\ C.covered = co /\ C.loan = x /\ C.used = u
      /\ C.close = k /\ C.books = b
  BY DEF Closing
<1>2. CloseInProportion(C) = close
  BY <1>1 DEF CloseInProportion
<1>3. [C EXCEPT !.books.twice = @ \/ C.close # 0] = D
  <2>1. [C EXCEPT !.books.twice = @ \/ C.close # 0] = [C EXCEPT !.books = AgainSettled(b, k)]
    BY <1>1 DEF AgainSettled
  <2>2. \A p : [C EXCEPT !.books = p] = Closing(p, x, n, k, l, co, u, w)
    BY DEF Closing
  <2> QED BY <2>1, <2>2
<1>4. SettleClosing(D, id, close) = S
  <2> HIDE DEF close
  <2> QED BY SettleClosingIs
<1>5. l # 0 => r = [C EXCEPT !.lessInterest = co]
  BY <1>1 DEF SettleAfterSwap
<1>6. l = 0 => r = ReturnRest(S)
  <2>1. l = 0 => r = ReturnRest(SettleClosing([C EXCEPT !.books.twice = @ \/ C.close # 0],
                                              id, CloseInProportion(C)))
    BY <1>1 DEF SettleAfterSwap
  <2> HIDE DEF C, D, S, r, close
  <2> QED BY <1>2, <1>3, <1>4, <2>1
<1>7. [C EXCEPT !.lessInterest = co] = Closing(b, x, n, k, co, co, u, w)
  BY DEF Closing
<1>8. ReturnRest(S) = Closing(s.books, x, n, close, s.lessInterest, co, u, w + co - s.lessInterest)
  <2> HIDE DEF s, close
  <2>1. S.withdraw = w /\ S.covered = co /\ S.lessInterest = s.lessInterest
    BY DEF Closing
  <2>2. ReturnRest(S) = [S EXCEPT !.withdraw = w + co - s.lessInterest]
    BY <2>1 DEF ReturnRest
  <2>3. \A m : [S EXCEPT !.withdraw = m]
            = Closing(s.books, x, n, close, s.lessInterest, co, u, m)
    BY DEF Closing
  <2> QED BY <2>2, <2>3
<1> QED BY <1>5, <1>6, <1>7, <1>8

LEMMA AgainShape ==
    ASSUME NEW b, Shaped(b), NEW k PROVE Follows(AgainSettled(b, k), b)
BY DEF Follows, Shaped, AgainSettled

LEMMA AfterSwapShape ==
    ASSUME NEW b, Shaped(b), NEW x, NEW n, NEW k, NEW l, NEW co, NEW u, NEW w, NEW id
    PROVE  Follows(SettleAfterSwap(Closing(b, x, n, k, l, co, u, w), id).books, b)
<1> DEFINE r == SettleAfterSwap(Closing(b, x, n, k, l, co, u, w), id)
           g == AgainSettled(b, k)
<1>1. r.books = b \/ \E close : r.books = SettledFor(g, id, close).books
  <2> DEFINE close == IF co = x.principal THEN co ELSE MulDiv(co, u, x.collateral)
             s == SettledFor(g, id, close)
  <2>1. /\ l # 0 => r = Closing(b, x, n, k, co, co, u, w)
        /\ l = 0 => r = Closing(s.books, x, n, close, s.lessInterest, co, u,
                                w + co - s.lessInterest)
    BY AfterSwapIs
  <2> HIDE DEF r, close, g
  <2>2. r.books = b \/ r.books = s.books
    BY <2>1 DEF Closing
  <2> QED BY <2>2
<1>2. Follows(g, b)
  BY AgainShape
<1> HIDE DEF r, g
<1>3. \A close : Follows(SettledFor(g, id, close).books, g)
  BY <1>2, SettledForShape DEF Follows
<1>4. Follows(r.books, b)
  BY <1>1, <1>2, <1>3 DEF Follows
<1> QED BY <1>4 DEF r

LEMMA AgainIs ==
    ASSUME NEW b, Good(b), NEW k
    PROVE  /\ Good(AgainSettled(b, k))
           /\ AgainSettled(b, k).loans = b.loans
           /\ AgainSettled(b, k).lender = b.lender
           /\ Free(AgainSettled(b, k), "collateral") = Free(b, "collateral")
           /\ Spare(AgainSettled(b, k)) = Spare(b)
           /\ b.twice => AgainSettled(b, k).twice
           /\ ~AgainSettled(b, k).twice => k = 0 /\ ~b.twice
<1> DEFINE g == AgainSettled(b, k)
<1>1. /\ Good(g) /\ g.loans = b.loans /\ g.lender = b.lender /\ g.held = b.held
      /\ g.fees = b.fees
  BY DEF Good, Books, AgainSettled
<1>2. (b.twice => g.twice) /\ (~g.twice => k = 0 /\ ~b.twice)
  BY DEF Good, Books, AgainSettled
<1> HIDE DEF g
<1>3. Free(g, "collateral") = Free(b, "collateral") /\ Spare(g) = Spare(b)
  BY <1>1 DEF Free, Spare
<1> QED BY <1>1, <1>2, <1>3 DEF g

SoldBy(r, a, id, c, n, covered, used) ==
    \E f, close, less, withdraw :
        /\ r = Closing(f, a.loans[id], n, close, less, covered, used, withdraw)
        /\ Sold(f, a, id, c, close, less, used, withdraw)

LEMMA AfterSwapEffect ==
    ASSUME NEW a, Good(a), NEW id \in LoanIds, now \in Nat, NEW c \in BOOLEAN,
           a.loans[id].collateral # 0,
           NEW b, NEW n, NEW k \in 0..a.loans[id].principal, NEW l \in 0..k,
           NEW co, NEW u, NEW w, HalfClosed(b, a, id, c, k, co, u, w), l <= co,
           SettleAfterSwap(Closing(b, a.loans[id], n, k, l, co, u, w), id).books.ok
    PROVE  SoldBy(SettleAfterSwap(Closing(b, a.loans[id], n, k, l, co, u, w), id),
                  a, id, c, n, co, u)
<1> DEFINE x == a.loans[id]
           r == SettleAfterSwap(Closing(b, x, n, k, l, co, u, w), id)
           close == IF co = x.principal THEN co ELSE MulDiv(co, u, x.collateral)
           g == AgainSettled(b, k)
           s == SettledFor(g, id, close)
<1>1. /\ l # 0 => r = Closing(b, x, n, k, co, co, u, w)
      /\ l = 0 => r = Closing(s.books, x, n, close, s.lessInterest, co, u,
                              w + co - s.lessInterest)
  BY AfterSwapIs
<1>2. /\ x.principal \in Nat /\ x.collateral \in Nat /\ a.lender.principalTotal \in Nat
      /\ a.twice \in BOOLEAN
  BY DEF Good, Books, Loans, Lenders
<1>3. k \in Nat /\ co \in Nat /\ w \in Nat /\ u \in 0..x.collateral /\ k <= x.principal
      /\ l \in Nat /\ l <= k
  BY <1>2 DEF HalfClosed
<1>4. Good(b) /\ b.twice = a.twice
  BY DEF HalfClosed, KeepsInterest
<1>5. CASE l # 0
  <2>1. k # 0
    BY <1>3, <1>5
  <2>2. Sold(b, a, id, c, k, co, u, w)
    BY <1>2, <1>3, <1>4, <2>1 DEF HalfClosed, Sold
  <2> QED BY <1>1, <1>5, <2>2 DEF SoldBy
<1>6. CASE l = 0
  <2>1. close \in Nat /\ close <= co
    <3>1. x.collateral \in Nat \ {0} /\ u \in Nat /\ u <= x.collateral
      BY <1>2, <1>3
    <3>2. MulDiv(co, u, x.collateral) \in Nat /\ MulDiv(co, u, x.collateral) <= co
      BY <1>3, <3>1, MulDivNat
    <3> QED BY <1>3, <3>2
  <2>2. close = x.principal /\ k = 0 => u = x.collateral
    BY <1>2, <1>3, <2>1 DEF HalfClosed
  <2> HIDE DEF close
  <2>3. /\ Good(g) /\ g.loans = b.loans /\ g.lender = b.lender
        /\ Free(g, "collateral") = Free(b, "collateral") /\ Spare(g) = Spare(b)
        /\ b.twice => g.twice
        /\ ~g.twice => k = 0 /\ ~b.twice
    BY <1>4, AgainIs
  <2>4. s.books.ok
    BY <1>1, <1>6 DEF Closing
  <2> HIDE DEF g
  <2>5. /\ Settles(s.books, g, id, close, now)
        /\ Spare(s.books) <= Spare(g)
        /\ s.lessInterest \in 0..close
        /\ close # 0
    <3>1. g.lender.updatedTimestamp <= now
      BY <2>3 DEF HalfClosed, KeepsInterest
    <3> QED BY <2>1, <2>3, <2>4, <3>1, SettledForEffect
  <2> HIDE DEF s
  <2> DEFINE f == s.books
             less == s.lessInterest
             v == w + co - less
  <2>6. less \in Nat /\ v \in Nat /\ w + co = less + v
    BY <1>3, <2>1, <2>5
  <2>7. KeepsInterest(f, a, id)
    BY <2>3, <2>5 DEF KeepsInterest, HalfClosed, Settles, OnlyLoan, SameLoan
  <2>8. NoneLeft(f, a, id, close)
    BY <2>3, <2>5 DEF NoneLeft, Settles, HalfClosed, KeepsInterest, SameLoan
  <2>9. a.twice => f.twice
    BY <1>4, <2>3, <2>5 DEF Settles
  <2>10. f.lender.principalTotal = a.lender.principalTotal - k - close
    BY <2>3, <2>5 DEF Settles, HalfClosed
  <2>11. ~f.twice => k = 0
    BY <2>3, <2>5 DEF Settles
  <2>12. Free(f, "collateral") = Free(a, "collateral") - u + (IF c THEN w ELSE 0)
    BY <2>3, <2>5 DEF Settles, HalfClosed
  <2>13. ~f.twice => ~c
    BY <2>11 DEF HalfClosed
  <2>14. Spare(f) <= Spare(a) + less + v \/ c
    <3>1. /\ Free(f, "loan") \in Int /\ f.lender.owedTotal \in Nat
          /\ Free(b, "loan") \in Int /\ b.lender.owedTotal \in Nat
          /\ Free(a, "loan") \in Int /\ a.lender.owedTotal \in Nat
      BY <1>4, <2>7, FreeIsInt DEF KeepsInterest, Good, Books, Lenders, Tokens
    <3>2. Spare(f) \in Int /\ Spare(b) \in Int /\ Spare(a) \in Int
      BY <3>1 DEF Spare
    <3>3. ~c => Spare(b) <= Spare(a) + co + w
      BY DEF HalfClosed
    <3>4. Spare(f) <= Spare(b)
      BY <2>3, <2>5
    <3> HIDE DEF v, less, f
    <3> QED BY <1>3, <2>6, <3>2, <3>3, <3>4
  <2>15. f.lender.principalTotal \in Nat
    BY <2>7 DEF KeepsInterest, Good, Books, Lenders
  <2>16. k = 0 => f.lender.principalTotal = a.lender.principalTotal - close
    BY <1>2, <2>1, <2>10
  <2>17. f.lender.principalTotal <= a.lender.principalTotal - close
    BY <1>2, <1>3, <2>1, <2>10
  <2> HIDE DEF v, less, f
  <2>18. k = 0 /\ close # 0 /\ close >= x.principal => u = x.collateral
    <3>1. k = 0 => close <= x.principal
      BY <1>2, <1>3, <2>1 DEF HalfClosed
    <3> QED BY <1>2, <2>1, <2>2, <3>1
  <2>19. Sold(f, a, id, c, close, less, u, v)
    BY <1>3, <2>1, <2>6, <2>7, <2>8, <2>9, <2>11, <2>12, <2>13, <2>14, <2>16, <2>17, <2>18
    DEF Sold
  <2> QED BY <1>1, <1>6, <2>19 DEF f, less, v, SoldBy
<1> QED BY <1>5, <1>6

\* What every operation on one loan keeps: books b after a.
Keeps(b, a, id) ==
    LET y == b.loans[id]
        x == a.loans[id]
    IN  /\ Good(b)
        /\ OnlyLoan(b, a, id)
        /\ b.lender.updatedTimestamp <= now
        /\ a.twice => b.twice
        /\ y.owedPerDay - b.lender.owedPerDay = x.owedPerDay - a.lender.owedPerDay
        /\ y.principal - b.lender.principalTotal >= x.principal - a.lender.principalTotal
        /\ ~b.twice =>
             /\ y.principal - b.lender.principalTotal = x.principal - a.lender.principalTotal
             /\ Free(b, "collateral") - y.collateral = Free(a, "collateral") - x.collateral
             /\ Spare(b) <= Spare(a)

\* What is open is owed, and what is closed is empty.
SoundLoan(x, twice) ==
    IF x.active THEN x.kind # "none" /\ x.principal > 0
    ELSE /\ x.principal = 0 /\ x.owedPerDay = 0 /\ x.depositTotal = 0
         /\ x.kind = "none" \/ ~twice => x.collateral = 0

LEMMA NumbersOf ==
    ASSUME NEW b, Good(b), NEW id \in LoanIds
    PROVE  /\ Free(b, "collateral") \in Int /\ Free(b, "loan") \in Int /\ Spare(b) \in Int
           /\ {b.lender.principalTotal, b.lender.owedPerDay, b.lender.owedTotal,
               b.lender.updatedTimestamp} \subseteq Nat
           /\ {b.loans[id].principal, b.loans[id].collateral, b.loans[id].owedPerDay,
               b.loans[id].depositTotal, b.loans[id].endTimestamp} \subseteq Nat
           /\ b.loans[id].active \in BOOLEAN /\ b.twice \in BOOLEAN
           /\ b.loans[id] \in Loans /\ b.lender \in Lenders
<1>1. b.loans[id] \in Loans /\ b.lender \in Lenders /\ b.twice \in BOOLEAN
  BY DEF Good, Books
<1>2. Free(b, "collateral") \in Int /\ Free(b, "loan") \in Int
  BY FreeIsInt DEF Good, Tokens
<1>3. /\ {b.lender.principalTotal, b.lender.owedPerDay, b.lender.owedTotal,
               b.lender.updatedTimestamp} \subseteq Nat
      /\ {b.loans[id].principal, b.loans[id].collateral, b.loans[id].owedPerDay,
               b.loans[id].depositTotal, b.loans[id].endTimestamp} \subseteq Nat
      /\ b.loans[id].active \in BOOLEAN
  BY <1>1 DEF Loans, Lenders
<1> QED BY <1>1, <1>2, <1>3 DEF Spare

LEMMA KeepsTrans ==
    ASSUME NEW a, NEW b, NEW c, NEW id \in LoanIds, Good(a), Keeps(b, a, id), Keeps(c, b, id)
    PROVE  Keeps(c, a, id)
<1>1. Good(b) /\ Good(c)
  BY DEF Keeps
<1>2. OnlyLoan(c, a, id) /\ c.lender.updatedTimestamp <= now
  BY DEF Keeps, OnlyLoan
<1>3. a.twice => c.twice
  BY DEF Keeps
<1>4. /\ {Free(a, "collateral"), Free(b, "collateral"), Free(c, "collateral"),
          Spare(a), Spare(b), Spare(c)} \subseteq Int
      /\ {a.lender.principalTotal, b.lender.principalTotal, c.lender.principalTotal,
          a.lender.owedPerDay, b.lender.owedPerDay, c.lender.owedPerDay,
          a.loans[id].principal, b.loans[id].principal, c.loans[id].principal,
          a.loans[id].owedPerDay, b.loans[id].owedPerDay, c.loans[id].owedPerDay,
          a.loans[id].collateral, b.loans[id].collateral, c.loans[id].collateral} \subseteq Nat
  BY <1>1, NumbersOf
<1>5. c.loans[id].owedPerDay - c.lender.owedPerDay = a.loans[id].owedPerDay - a.lender.owedPerDay
  BY <1>4 DEF Keeps
<1>6. c.loans[id].principal - c.lender.principalTotal
          >= a.loans[id].principal - a.lender.principalTotal
  BY <1>4 DEF Keeps
<1>7. ~c.twice => ~b.twice
  BY DEF Keeps
<1>8. ~c.twice =>
        /\ c.loans[id].principal - c.lender.principalTotal
               = a.loans[id].principal - a.lender.principalTotal
        /\ Free(c, "collateral") - c.loans[id].collateral
               = Free(a, "collateral") - a.loans[id].collateral
        /\ Spare(c) <= Spare(a)
  BY <1>4, <1>7 DEF Keeps
<1> QED BY <1>1, <1>2, <1>3, <1>5, <1>6, <1>8 DEF Keeps

\* Another collateral, and nothing else of the loan.
WithCollateral(b, id, v) == [b EXCEPT !.loans[id].collateral = v]

Pledged(b, a, id, v) ==
    /\ Good(b)
    /\ OnlyLoan(b, a, id)
    /\ b.lender = a.lender
    /\ b.held = a.held
    /\ b.fees = a.fees
    /\ b.twice = a.twice
    /\ LET x == a.loans[id]
           y == b.loans[id]
       IN  /\ y.kind = x.kind
           /\ y.active = x.active
           /\ y.principal = x.principal
           /\ y.owedPerDay = x.owedPerDay
           /\ y.depositTotal = x.depositTotal
           /\ y.endTimestamp = x.endTimestamp
           /\ y.updatedTimestamp = x.updatedTimestamp
           /\ y.collateral = v

LEMMA CollateralEffect ==
    ASSUME NEW b, Good(b), NEW id \in LoanIds, NEW v \in Nat
    PROVE  Pledged(WithCollateral(b, id, v), b, id, v)
<1> DEFINE x == b.loans[id]
           y == [x EXCEPT !.collateral = v]
           r == WithCollateral(b, id, v)
<1>1. x \in Loans /\ b.lender \in Lenders
  BY NumbersOf
<1>2. /\ y \in Loans /\ y.kind = x.kind /\ y.active = x.active /\ y.principal = x.principal
      /\ y.owedPerDay = x.owedPerDay /\ y.depositTotal = x.depositTotal
      /\ y.endTimestamp = x.endTimestamp /\ y.updatedTimestamp = x.updatedTimestamp
      /\ y.collateral = v
  BY <1>1 DEF Loans
<1>3. r = WithLoan(b, id, y)
  BY DEF WithCollateral, WithLoan
<1> HIDE DEF y, r
<1>4. r = Replaced(b, id, y, b.lender)
  BY <1>3, WithLoanTwice DEF Good
<1>5. Replaces(r, b, id, y, b.lender)
  BY <1>1, <1>2, <1>4, LoanReplaced
<1>6. Pledged(r, b, id, v)
  BY <1>2, <1>5 DEF Replaces, Pledged
<1> QED BY <1>6 DEF r

LEMMA HealthyShape ==
    ASSUME NEW b, Shaped(b), NEW id PROVE Follows(RequireHealthy(b, id), b)
BY RequireShape DEF RequireHealthy

LEMMA HealthyEffect ==
    ASSUME NEW b, Good(b), NEW id \in LoanIds, RequireHealthy(b, id).ok
    PROVE  RequireHealthy(b, id) = b
<1> DEFINE c == b.loans[id].principal = 0 \/ IsHealthy(b.loans[id])
<1>1. \A g \in BOOLEAN : Require(b, g).ok => Require(b, g) = b
  BY RequireEffect DEF Good
<1>2. c \in BOOLEAN
  BY DEF IsHealthy
<1>3. RequireHealthy(b, id) = Require(b, c)
  BY DEF RequireHealthy
<1> HIDE DEF c
<1> QED BY <1>1, <1>2, <1>3

LEMMA CollateralShape ==
    ASSUME NEW b, Shaped(b), NEW id, NEW v PROVE Follows(WithCollateral(b, id, v), b)
BY DEF Follows, Shaped, WithCollateral

\* The stages of FinalizeSwap.
Charged(f, id, l, u) ==
    LET q == Require(f, l # 0) IN WithCollateral(q, id, q.loans[id].collateral - u)
Returned(f, id, c, l, u, w) ==
    VaultWithdraw(PayLender(Charged(f, id, l, u), l), IF c THEN "collateral" ELSE "loan", w)

LEMMA FinalizeSwapIs ==
    ASSUME NEW f, NEW x, NEW n, NEW k, NEW l, NEW co, NEW u, NEW w, NEW id, NEW c
    PROVE  FinalizeSwap(Closing(f, x, n, k, l, co, u, w), id, c) =
               RequireHealthy(CloseLoan(Returned(f, id, c, l, u, w), id, k), id)
<1> DEFINE C == Closing(f, x, n, k, l, co, u, w)
           q == Require(f, l # 0)
           p == [q EXCEPT !.loans[id].collateral = @ - u]
<1>1. C.books = f /\ C.close = k /\ C.lessInterest = l /\ C.used = u /\ C.withdraw = w
  BY DEF Closing
<1>2. p = Charged(f, id, l, u)
  BY DEF Charged, WithCollateral
<1>3. [Require(C.books, C.lessInterest # 0) EXCEPT !.loans[id].collateral = @ - C.used] = p
  BY <1>1
<1> DEFINE t == IF c THEN "collateral" ELSE "loan"
           h == [Require(C.books, C.lessInterest # 0) EXCEPT !.loans[id].collateral = @ - C.used]
<1>4. FinalizeSwap(C, id, c) = RequireHealthy(CloseLoan(
          VaultWithdraw(PayLender(h, C.lessInterest), t, C.withdraw), id, C.close), id)
  BY DEF FinalizeSwap
<1>5. Returned(f, id, c, l, u, w) = VaultWithdraw(PayLender(Charged(f, id, l, u), l), t, w)
  BY DEF Returned
<1> HIDE DEF C, p, t, h
<1>6. h = Charged(f, id, l, u)
  BY <1>2, <1>3 DEF h
<1> QED BY <1>1, <1>4, <1>5, <1>6 DEF C

LEMMA ReturnedShape ==
    ASSUME NEW f, Shaped(f), NEW id, NEW c, NEW l, NEW u, NEW w
    PROVE  /\ Follows(Charged(f, id, l, u), f)
           /\ Follows(PayLender(Charged(f, id, l, u), l), Charged(f, id, l, u))
           /\ Follows(Returned(f, id, c, l, u, w), PayLender(Charged(f, id, l, u), l))
<1> DEFINE q == Require(f, l # 0)
           p == Charged(f, id, l, u)
           m == PayLender(p, l)
<1>1. Follows(q, f)
  BY RequireShape
<1>2. p = WithCollateral(q, id, q.loans[id].collateral - u)
  BY DEF Charged
<1> HIDE DEF p, q
<1>3. Follows(p, q)
  BY <1>1, <1>2, CollateralShape DEF Follows
<1>4. Follows(p, f)
  BY <1>1, <1>3 DEF Follows
<1>5. Follows(m, p)
  BY <1>4, PayLenderShape DEF Follows
<1> HIDE DEF m
<1>6. Follows(VaultWithdraw(m, IF c THEN "collateral" ELSE "loan", w), m)
  BY <1>5, WithdrawShape DEF Follows
<1> QED BY <1>4, <1>5, <1>6 DEF Returned, m, p

LEMMA FinalizeShape ==
    ASSUME NEW f, Shaped(f), NEW x, NEW n, NEW k, NEW l, NEW co, NEW u, NEW w,
           NEW id, NEW c
    PROVE  Follows(FinalizeSwap(Closing(f, x, n, k, l, co, u, w), id, c), f)
<1> DEFINE v == Returned(f, id, c, l, u, w)
           e == CloseLoan(v, id, k)
           r == RequireHealthy(e, id)
<1>1. Follows(v, f)
  BY ReturnedShape DEF Follows
<1> HIDE DEF v
<1>2. Follows(e, v)
  BY <1>1, CloseShape DEF Follows
<1> HIDE DEF e
<1>3. Follows(r, e)
  BY <1>2, HealthyShape DEF Follows
<1> HIDE DEF r
<1>4. Follows(r, f)
  BY <1>1, <1>2, <1>3 DEF Follows
<1> QED BY <1>4, FinalizeSwapIs DEF r, e, v

LEMMA FinalizeEffect ==
    ASSUME NEW a, Good(a), NEW id \in LoanIds, now \in Nat, NEW c \in BOOLEAN,
           SoundLoan(a.loans[id], a.twice),
           NEW f, NEW n, NEW k, NEW l, NEW co, NEW u, NEW w,
           Sold(f, a, id, c, k, l, u, w),
           FinalizeSwap(Closing(f, a.loans[id], n, k, l, co, u, w), id, c).ok
    PROVE  LET r == FinalizeSwap(Closing(f, a.loans[id], n, k, l, co, u, w), id, c)
           IN  Keeps(r, a, id) /\ SoundLoan(r.loans[id], r.twice)
<1> DEFINE x == a.loans[id]
           t == IF c THEN "collateral" ELSE "loan"
           q == Require(f, l # 0)
           p == Charged(f, id, l, u)
           m == PayLender(p, l)
           v == Returned(f, id, c, l, u, w)
           e == CloseLoan(v, id, k)
           r == RequireHealthy(e, id)
<1>1. FinalizeSwap(Closing(f, x, n, k, l, co, u, w), id, c) = r
  BY FinalizeSwapIs
<1>2. Good(f) /\ Shaped(f)
  BY GoodIsShaped DEF Sold, KeepsInterest
<1>3. Follows(p, f) /\ Follows(m, p) /\ Follows(v, m) /\ Follows(e, v) /\ Follows(r, e)
  <2>1. Follows(p, f) /\ Follows(m, p) /\ Follows(v, m)
    BY <1>2, ReturnedShape
  <2> HIDE DEF p, m, v
  <2>2. Follows(e, v)
    BY <2>1, CloseShape DEF Follows
  <2> HIDE DEF e
  <2>3. Follows(r, e)
    BY <2>2, HealthyShape DEF Follows
  <2> QED BY <2>1, <2>2, <2>3
<1>4. r.ok /\ e.ok /\ v.ok /\ m.ok /\ p.ok
  BY <1>1, <1>3 DEF Follows
<1>5. q = f
  <2>1. \A g \in BOOLEAN : Require(f, g).ok => Require(f, g) = f
    BY <1>2, RequireEffect DEF Good
  <2>2. (l # 0) \in BOOLEAN
    OBVIOUS
  <2>3. p = WithCollateral(q, id, q.loans[id].collateral - u)
    BY DEF Charged
  <2>4. Follows(q, f)
    BY <1>2, RequireShape
  <2> HIDE DEF p, q
  <2>5. Follows(p, q)
    BY <2>3, <2>4, CollateralShape DEF Follows
  <2> QED BY <1>4, <2>1, <2>2, <2>5 DEF Follows, q
<1>6. /\ {k, l, w} \subseteq Nat /\ u \in 0..x.collateral
      /\ f.loans[id].collateral = x.collateral /\ f.loans[id].principal = x.principal
      /\ f.loans[id].kind = x.kind /\ f.loans[id].active = x.active
  BY DEF Sold, KeepsInterest, SameLoan
<1>7. x.collateral \in Nat /\ x.principal \in Nat
  BY NumbersOf
<1> DEFINE z == x.collateral - u
<1>8. z \in Nat
  BY <1>6, <1>7
<1>9. p = WithCollateral(f, id, z)
  BY <1>5, <1>6 DEF Charged
<1> HIDE DEF z, q
<1>10. Pledged(p, f, id, z)
  BY <1>2, <1>8, <1>9, CollateralEffect
<1> HIDE DEF p
<1>11. Moved(m, p, "loan", -l)
  BY <1>4, <1>6, <1>10, PayLenderEffect DEF Pledged
<1>12. v = VaultWithdraw(m, t, w) /\ t \in Tokens /\ (c => t = "collateral") /\ (~c => t = "loan")
  BY DEF Returned, p, Tokens
<1> HIDE DEF m, t
<1>13. Moved(v, m, t, -w)
  BY <1>4, <1>6, <1>11, <1>12, WithdrawEffect DEF Moved
<1> HIDE DEF v
<1>14. Closes(e, v, id, k)
  BY <1>4, <1>6, <1>13, CloseEffect DEF Moved
<1> HIDE DEF e
<1>15. r = e
  BY <1>4, <1>14, HealthyEffect DEF Closes
<1> HIDE DEF r
<1> DEFINE y == r.loans[id]
           g == f.loans[id]
<1>16. /\ Good(r) /\ OnlyLoan(r, a, id) /\ r.lender = f.lender /\ r.twice = f.twice
       /\ y.kind = g.kind /\ y.collateral = z /\ y.owedPerDay = g.owedPerDay
       /\ y.depositTotal = g.depositTotal /\ y.principal = x.principal - k
       /\ k \in 1..x.principal
       /\ y.active = (IF k < x.principal THEN x.active ELSE FALSE)
  <2>1. v.loans = p.loans /\ v.lender = p.lender /\ v.twice = p.twice
    BY <1>11, <1>13 DEF Moved, TokensOnly
  <2>2. /\ OnlyLoan(p, f, id) /\ p.lender = f.lender /\ p.twice = f.twice
        /\ p.loans[id].kind = g.kind /\ p.loans[id].collateral = z
        /\ p.loans[id].owedPerDay = g.owedPerDay /\ p.loans[id].depositTotal = g.depositTotal
        /\ p.loans[id].principal = x.principal /\ p.loans[id].active = x.active
    BY <1>6, <1>10 DEF Pledged
  <2>3. OnlyLoan(r, a, id)
    BY <1>14, <1>15, <2>1, <2>2 DEF OnlyLoan, Closes, Sold, KeepsInterest
  <2> QED BY <1>14, <1>15, <2>1, <2>2, <2>3 DEF Closes
<1>20. x.active = TRUE /\ x.kind # "none"
  <2>1. x.principal # 0 /\ x.active \in BOOLEAN
    BY <1>7, <1>16, NumbersOf
  <2> QED BY <2>1 DEF SoundLoan
<1>17. /\ Free(r, "collateral") = Free(f, "collateral") - (IF c THEN w ELSE 0)
       /\ Spare(r) = Spare(f) - l - (IF c THEN 0 ELSE w)
  <2>1. /\ Free(p, "collateral") = Free(f, "collateral") /\ Free(p, "loan") = Free(f, "loan")
    BY <1>10 DEF Pledged, Free
  <2>2. /\ Free(f, "loan") \in Int /\ Free(f, "collateral") \in Int /\ l \in Nat /\ w \in Nat
    BY <1>2, <1>6, NumbersOf
  <2>3. /\ Free(m, "loan") = Free(p, "loan") - l /\ Free(m, "collateral") = Free(p, "collateral")
    BY <1>11, <2>1, <2>2 DEF Moved, Tokens
  <2>4. /\ Free(v, "loan") = Free(m, "loan") - (IF c THEN 0 ELSE w)
        /\ Free(v, "collateral") = Free(m, "collateral") - (IF c THEN w ELSE 0)
    BY <1>12, <1>13, <2>1, <2>2, <2>3 DEF Moved, Tokens
  <2>5. Free(r, "loan") = Free(v, "loan") /\ Free(r, "collateral") = Free(v, "collateral")
    BY <1>14, <1>15 DEF Closes, Free
  <2>6. f.lender.owedTotal \in Nat
    BY <1>2, NumbersOf
  <2> QED BY <1>6, <1>16, <2>1, <2>2, <2>3, <2>4, <2>5, <2>6 DEF Spare
<1>18. Keeps(r, a, id)
  <2>1. /\ {a.lender.principalTotal, f.lender.principalTotal, y.principal} \subseteq Nat
        /\ {Free(a, "collateral"), Free(f, "collateral"), Spare(a), Spare(f)} \subseteq Int
    BY <1>2, <1>16, NumbersOf
  <2>2. y.owedPerDay - r.lender.owedPerDay = x.owedPerDay - a.lender.owedPerDay
    BY <1>16 DEF Sold, KeepsInterest
  <2>3. y.principal - r.lender.principalTotal >= x.principal - a.lender.principalTotal
    BY <1>7, <1>16, <2>1 DEF Sold
  <2>4. ~r.twice =>
          /\ y.principal - r.lender.principalTotal = x.principal - a.lender.principalTotal
          /\ Free(r, "collateral") - y.collateral = Free(a, "collateral") - x.collateral
          /\ Spare(r) <= Spare(a)
    BY <1>6, <1>7, <1>16, <1>17, <2>1 DEF Sold, z
  <2> QED BY <1>16, <2>2, <2>3, <2>4 DEF Keeps, Sold, KeepsInterest
<1>19. SoundLoan(y, r.twice)
  <2>1. CASE k < x.principal
    BY <1>6, <1>7, <1>16, <1>20, <2>1 DEF SoundLoan
  <2>2. CASE ~(k < x.principal)
    <3>1. k = x.principal /\ k # 0
      BY <1>7, <1>16, <2>2
    <3>2. y.owedPerDay = 0 /\ y.depositTotal = 0
      BY <1>7, <1>16, <3>1 DEF Sold, NoneLeft
    <3>3. ~r.twice => y.collateral = 0
      BY <1>7, <1>16, <3>1 DEF Sold, z
    <3>4. y.active = FALSE /\ y.principal = 0
      BY <1>7, <1>16, <3>1
    <3>5. ~y.active /\ y.kind # "none"
      BY <1>6, <1>16, <1>20, <3>4
    <3> HIDE DEF y
    <3> QED BY <3>2, <3>3, <3>4, <3>5 DEF SoundLoan
  <2> QED BY <2>1, <2>2
<1> QED BY <1>1, <1>18, <1>19

\* The four stages of ClosedWithSwap.
ClosingSettled(b, id, amount, c) ==
    SettleBeforeSwap(BeginClosing(b, id, SwapAmount(b.loans[id], amount)), id, c)
ClosingCovered(b, id, amount, c, e) ==
    CoverPrincipalWithSwap(ClosingSettled(b, id, amount, c), c, e)
ClosingSold(b, id, amount, c, e) == SettleAfterSwap(ClosingCovered(b, id, amount, c, e), id)
ClosingDone(b, id, amount, c, e) == FinalizeSwap(ClosingSold(b, id, amount, c, e), id, c)

LEMMA ClosedWithSwapIs ==
    ASSUME NEW b, NEW id, NEW amount, NEW c, NEW e
    PROVE  ClosedWithSwap(b, id, amount, c, e) =
               IF b.loans[id].collateral = 0 THEN Require(b, FALSE)
               ELSE ClosingDone(b, id, amount, c, e)
BY DEF ClosedWithSwap, ClosingDone, ClosingSold, ClosingCovered, ClosingSettled

LEMMA ClosingShape ==
    ASSUME NEW b, Shaped(b), NEW id, NEW amount, NEW c, NEW e
    PROVE  /\ Follows(ClosingSettled(b, id, amount, c).books, b)
           /\ Follows(ClosingCovered(b, id, amount, c, e).books,
                      ClosingSettled(b, id, amount, c).books)
           /\ Follows(ClosingSold(b, id, amount, c, e).books,
                      ClosingCovered(b, id, amount, c, e).books)
           /\ Follows(ClosingDone(b, id, amount, c, e), ClosingSold(b, id, amount, c, e).books)
<1> DEFINE x == b.loans[id]
           begun   == BeginClosing(b, id, SwapAmount(x, amount))
           settled == ClosingSettled(b, id, amount, c)
           covered == ClosingCovered(b, id, amount, c, e)
           after   == ClosingSold(b, id, amount, c, e)
           r       == ClosingDone(b, id, amount, c, e)
<1>2. /\ settled = SettleBeforeSwap(begun, id, c)
      /\ covered = CoverPrincipalWithSwap(settled, c, e)
      /\ after = SettleAfterSwap(covered, id)
      /\ r = FinalizeSwap(after, id, c)
  BY DEF ClosingDone, ClosingSold, ClosingCovered, ClosingSettled
<1>3. \E n : begun = Closing(b, x, n, 0, 0, 0, 0, 0)
  BY DEF BeginClosing, Closing
<1> HIDE DEF begun, x, settled, covered, after, r
<1>4. Follows(settled.books, b) /\ \E d, n, k, l : settled = Closing(d, x, n, k, l, 0, 0, 0)
  <2>1. PICK n : begun = Closing(b, x, n, 0, 0, 0, 0, 0)
    BY <1>3
  <2>2. Follows(settled.books, b)
    BY <1>2, <2>1, BeforeSwapShape
  <2>3. settled = begun \/ \E k : settled = SettleClosing(begun, id, k)
    BY <1>2 DEF SettleBeforeSwap
  <2>4. \A k : SettleClosing(begun, id, k) = Closing(SettledFor(b, id, k).books, x, n, k,
                    SettledFor(b, id, k).lessInterest, 0, 0, 0)
    BY <2>1, SettleClosingIs
  <2> QED BY <2>1, <2>2, <2>3, <2>4
<1>5. Follows(covered.books, settled.books)
      /\ \E d, n, k, l, co, u, w : covered = Closing(d, x, n, k, l, co, u, w)
  <2>1. PICK d, n, k, l : settled = Closing(d, x, n, k, l, 0, 0, 0)
    BY <1>4
  <2>2. settled.books = d /\ settled.loan = x /\ settled.lessInterest = l
        /\ settled.swapAmount = n
    BY <2>1 DEF Closing
  <2>3. Follows(covered.books, settled.books)
    BY <1>2, <1>4, <2>1, <2>2, CoverShape DEF Follows
  <2> DEFINE s == DoCollateralSwap(d, x, n, l, IF c THEN l ELSE 0, price, e)
  <2>4. covered = IF c THEN CoverInCollateral(settled, s) ELSE CoverInLoanToken(settled, s)
    BY <1>2, <2>2 DEF CoverPrincipalWithSwap
  <2> HIDE DEF s
  <2>5. \E f, co, u, w : CoverInCollateral(settled, s) = Closing(f, x, n, k, l, co, u, w)
    <3>1. \/ \E f, co, u, w : CoverInCollateral(Closing(d, x, n, k, l, 0, 0, 0), s)
                               = Closing(f, x, n, k, l, co, u, w)
      BY InCollateralIs
    <3> QED BY <2>1, <3>1
  <2>6. \E f, co, u, w : CoverInLoanToken(settled, s) = Closing(f, x, n, k, l, co, u, w)
    <3>1. \/ \E f, co, u, w : CoverInLoanToken(Closing(d, x, n, k, l, 0, 0, 0), s)
                               = Closing(f, x, n, k, l, co, u, w)
      BY InLoanTokenIs
    <3> QED BY <2>1, <3>1
  <2> QED BY <2>3, <2>4, <2>5, <2>6
<1>6. Follows(after.books, covered.books)
      /\ \E d, n, k, l, co, u, w : after = Closing(d, x, n, k, l, co, u, w)
  <2>1. PICK d, n, k, l, co, u, w : covered = Closing(d, x, n, k, l, co, u, w)
    BY <1>5
  <2>2. covered.books = d
    BY <2>1 DEF Closing
  <2>3. Follows(after.books, covered.books)
    BY <1>2, <1>5, <2>1, <2>2, AfterSwapShape DEF Follows
  <2>4. \E dd, ll, kk, ww : after = Closing(dd, x, n, kk, ll, co, u, ww)
    BY <1>2, <2>1, AfterSwapIs
  <2> QED BY <2>3, <2>4
<1>7. Follows(r, after.books)
  <2>1. PICK d, n, k, l, co, u, w : after = Closing(d, x, n, k, l, co, u, w)
    BY <1>6
  <2>2. after.books = d
    BY <2>1 DEF Closing
  <2> QED BY <1>2, <1>6, <2>1, <2>2, FinalizeShape DEF Follows
<1> QED BY <1>4, <1>5, <1>6, <1>7 DEF settled, covered, after, r

LEMMA ClosedWithSwapShape ==
    ASSUME NEW b, Shaped(b), NEW id, NEW amount, NEW c, NEW e
    PROVE  Follows(ClosedWithSwap(b, id, amount, c, e), b)
<1>1. Follows(Require(b, FALSE), b)
  BY RequireShape
<1>2. Follows(ClosingDone(b, id, amount, c, e), b)
  BY ClosingShape DEF Follows
<1> QED BY <1>1, <1>2, ClosedWithSwapIs

LEMMA SwapAmountIs ==
    ASSUME NEW x \in Loans, NEW amount \in Nat
    PROVE  SwapAmount(x, amount) \in 0..x.collateral
<1>1. x.collateral \in Nat
  BY DEF Loans
<1>2. Min2(amount, x.collateral) \in 0..x.collateral
  BY <1>1 DEF Min2
<1> QED BY <1>1, <1>2 DEF SwapAmount

LEMMA ClosedWithSwapEffect ==
    ASSUME NEW b, Good(b), NEW id \in LoanIds, now \in Nat, price \in Nat \ {0},
           b.lender.updatedTimestamp <= now,
           SoundLoan(b.loans[id], b.twice),
           NEW amount \in Nat, NEW c \in BOOLEAN, NEW e \in Nat,
           ClosedWithSwap(b, id, amount, c, e).ok
    PROVE  LET r == ClosedWithSwap(b, id, amount, c, e)
           IN  Keeps(r, b, id) /\ SoundLoan(r.loans[id], r.twice)
<1> DEFINE x == b.loans[id]
           n       == SwapAmount(x, amount)
           settled == ClosingSettled(b, id, amount, c)
           covered == ClosingCovered(b, id, amount, c, e)
           after   == ClosingSold(b, id, amount, c, e)
           r       == ClosingDone(b, id, amount, c, e)
<1>1. x.collateral # 0 /\ ClosedWithSwap(b, id, amount, c, e) = r
  <2>1. ~Require(b, FALSE).ok
    BY DEF Good, Books, Require
  <2> HIDE DEF r
  <2> QED BY <2>1, ClosedWithSwapIs DEF r
<1>2. /\ settled = SettleBeforeSwap(Closing(b, x, n, 0, 0, 0, 0, 0), id, c)
      /\ covered = CoverPrincipalWithSwap(settled, c, e)
      /\ after = SettleAfterSwap(covered, id)
      /\ r = FinalizeSwap(after, id, c)
  BY DEF ClosingDone, ClosingSold, ClosingCovered, ClosingSettled, BeginClosing, Closing
<1>3. r.ok /\ after.books.ok /\ covered.books.ok /\ settled.books.ok
  <2>1. Shaped(b)
    BY GoodIsShaped
  <2> HIDE DEF r, after, covered, settled
  <2>2. /\ Follows(settled.books, b) /\ Follows(covered.books, settled.books)
        /\ Follows(after.books, covered.books) /\ Follows(r, after.books)
    BY <2>1, ClosingShape DEF r, after, covered, settled
  <2>3. r.ok
    BY <1>1
  <2> QED BY <2>2, <2>3 DEF Follows
<1>4. x \in Loans /\ n \in 0..x.collateral /\ x.collateral \in Nat /\ n \in Nat
      /\ n <= x.collateral
  <2>1. x \in Loans /\ x.collateral \in Nat
    BY NumbersOf
  <2>2. n \in 0..x.collateral
    BY <2>1, SwapAmountIs
  <2> HIDE DEF n, x
  <2> QED BY <2>1, <2>2
<1> HIDE DEF n, settled, covered, after, r
<1>5. PICK d, k, l : settled = Closing(d, x, n, k, l, 0, 0, 0) /\ Begun(d, b, id, n, c, k, l)
  BY <1>1, <1>2, <1>3, <1>4, BeforeSwapEffect
<1>6. Good(d) /\ l \in Nat /\ (~c /\ n # x.collateral => l = 0)
  <2>1. x.principal \in Nat
    BY NumbersOf
  <2>2. CASE SettledYet(d, b, id, k, l) /\ k \in 0..x.principal
             /\ (n = x.collateral \/ (k < x.principal /\ c))
    BY <2>1, <2>2 DEF SettledYet, Settles
  <2>3. CASE d = b /\ k = 0 /\ l = 0 /\ ~c /\ n # x.collateral
    BY <2>3
  <2> QED BY <1>5, <2>2, <2>3 DEF Begun
<1>7. PICK f, co, u, w : /\ covered = Closing(f, x, n, k, l, co, u, w)
                         /\ Covers(f, d, x, n, c, l, co, u, w)
  BY <1>2, <1>3, <1>4, <1>5, <1>6, CoverEffect
<1>8. /\ HalfClosed(f, b, id, c, k, co, u, w)
      /\ k \in 0..x.principal /\ l \in 0..k /\ l <= co
  BY <1>4, <1>5, <1>7, HalfClosedIs
<1>9. PICK g, close, less, v :
          /\ after = Closing(g, x, n, close, less, co, u, v)
          /\ Sold(g, b, id, c, close, less, u, v)
  <2>1. after = SettleAfterSwap(Closing(f, x, n, k, l, co, u, w), id)
    BY <1>2, <1>7
  <2>2. x.collateral # 0
    BY <1>1
  <2> HIDE DEF after
  <2>3. \E g, close, less, v :
          /\ SettleAfterSwap(Closing(f, x, n, k, l, co, u, w), id)
                 = Closing(g, x, n, close, less, co, u, v)
          /\ Sold(g, b, id, c, close, less, u, v)
    <3>1. SettleAfterSwap(Closing(f, b.loans[id], n, k, l, co, u, w), id).books.ok
      BY <1>3, <2>1
    <3>2. HalfClosed(f, b, id, c, k, co, u, w) /\ l <= co
      BY <1>8
    <3>3. k \in 0..b.loans[id].principal /\ l \in 0..k
      BY <1>8
    <3>4. b.loans[id].collateral # 0
      BY <2>2
    <3> HIDE DEF x
    <3>5. SoldBy(SettleAfterSwap(Closing(f, b.loans[id], n, k, l, co, u, w), id),
                 b, id, c, n, co, u)
      BY <3>1, <3>2, <3>3, <3>4, AfterSwapEffect
    <3> QED BY <3>5 DEF x, SoldBy
  <2> QED BY <2>1, <2>3
<1>10. Keeps(r, b, id) /\ SoundLoan(r.loans[id], r.twice)
  BY <1>2, <1>3, <1>9, FinalizeEffect
<1> QED BY <1>1, <1>10

-----------------------------------------------------------------------------
(* What holds of the books, as long as each operation keeps its loan. *)

Principals(b)  == [id \in LoanIds |-> b.loans[id].principal]
OwedPerDays(b) == [id \in LoanIds |-> b.loans[id].owedPerDay]
Collaterals(b) == [id \in LoanIds |-> b.loans[id].collateral]

BooksHold(b) ==
    /\ Good(b)
    /\ b.lender.updatedTimestamp <= now
    /\ b.lender.owedPerDay = SumFunctionOnSet(OwedPerDays(b), LoanIds)
    /\ b.lender.principalTotal <= SumFunctionOnSet(Principals(b), LoanIds)
    /\ ~b.twice =>
         /\ b.lender.principalTotal = SumFunctionOnSet(Principals(b), LoanIds)
         /\ Free(b, "collateral") = SumFunctionOnSet(Collaterals(b), LoanIds)
         /\ Spare(b) <= 0
    /\ \A id \in LoanIds : SoundLoan(b.loans[id], b.twice)

LEMMA LoansNat ==
    ASSUME NEW b, Good(b), NEW id \in LoanIds
    PROVE  /\ Principals(b)[id] = b.loans[id].principal /\ Principals(b)[id] \in Nat
           /\ OwedPerDays(b)[id] = b.loans[id].owedPerDay /\ OwedPerDays(b)[id] \in Nat
           /\ Collaterals(b)[id] = b.loans[id].collateral /\ Collaterals(b)[id] \in Nat
BY NumbersOf DEF Principals, OwedPerDays, Collaterals

LEMMA InvIsBooksHold ==
    LoanInv <=> /\ BooksHold(books)
                /\ balances \in [Suppliers -> Nat]
                /\ now \in Nat
                /\ price \in Nat \ {0}
<1> DEFINE b == books
<1>1. /\ SumFunction([id \in LoanIds |-> books.loans[id].principal])
             = SumFunctionOnSet(Principals(b), LoanIds)
      /\ SumFunction([id \in LoanIds |-> books.loans[id].owedPerDay])
             = SumFunctionOnSet(OwedPerDays(b), LoanIds)
      /\ SumFunction([id \in LoanIds |-> books.loans[id].collateral])
             = SumFunctionOnSet(Collaterals(b), LoanIds)
  <2>1. /\ SumFunction(Principals(b)) = SumFunctionOnSet(Principals(b), DOMAIN Principals(b))
        /\ SumFunction(OwedPerDays(b)) = SumFunctionOnSet(OwedPerDays(b), DOMAIN OwedPerDays(b))
        /\ SumFunction(Collaterals(b)) = SumFunctionOnSet(Collaterals(b), DOMAIN Collaterals(b))
    BY SumOfFunction
  <2>2. DOMAIN Principals(b) = LoanIds /\ DOMAIN OwedPerDays(b) = LoanIds
        /\ DOMAIN Collaterals(b) = LoanIds
    BY DEF Principals, OwedPerDays, Collaterals
  <2>3. /\ Principals(b) = [id \in LoanIds |-> books.loans[id].principal]
        /\ OwedPerDays(b) = [id \in LoanIds |-> books.loans[id].owedPerDay]
        /\ Collaterals(b) = [id \in LoanIds |-> books.loans[id].collateral]
    BY DEF Principals, OwedPerDays, Collaterals
  <2> QED BY <2>1, <2>2, <2>3
<1> DEFINE P == SumFunctionOnSet(Principals(b), LoanIds)
           O == SumFunctionOnSet(OwedPerDays(b), LoanIds)
           C == SumFunctionOnSet(Collaterals(b), LoanIds)
<1>2. ASSUME Good(books) PROVE P \in Int /\ O \in Int /\ C \in Int
  <2>1. IsFiniteSet(LoanIds)
    BY LoanAssumption
  <2>2. \A id \in LoanIds : /\ Principals(b)[id] \in Int /\ OwedPerDays(b)[id] \in Int
                            /\ Collaterals(b)[id] \in Int
    BY <1>2, LoansNat
  <2> QED BY <2>1, <2>2, SumType
<1> HIDE DEF P, O, C
<1>3. LoansTypeOK <=> /\ Good(books) /\ books.lender.updatedTimestamp <= now
                      /\ balances \in [Suppliers -> Nat] /\ now \in Nat /\ price \in Nat \ {0}
  BY DEF LoansTypeOK, Good
<1>4. LenderTotalsAddUp <=>
          /\ books.lender.owedPerDay = O
          /\ books.lender.principalTotal <= P
          /\ ~books.twice => books.lender.principalTotal = P
  BY <1>1 DEF LenderTotalsAddUp, P, O
<1>5. ASSUME Good(books)
      PROVE  CollateralAccounted <=> (~books.twice => Free(b, "collateral") = C)
  <2>1. books.held["collateral"] \in Nat /\ books.fees["collateral"] \in Nat
    BY <1>5 DEF Good, Books, Tokens
  <2>2. (books.held["collateral"] = books.fees["collateral"] + C) <=> Free(b, "collateral") = C
    BY <1>2, <1>5, <2>1 DEF Free
  <2> QED BY <1>1, <2>2 DEF CollateralAccounted, C
<1>6. ASSUME Good(books)
      PROVE  NoTokensStuck <=> (~books.twice => Spare(b) <= 0)
  <2>1. books.held["loan"] \in Nat /\ books.fees["loan"] \in Nat /\ books.lender.owedTotal \in Nat
    BY <1>6 DEF Good, Books, Tokens, Lenders
  <2>2. (books.held["loan"] <= books.lender.owedTotal + books.fees["loan"]) <=> Spare(b) <= 0
    BY <2>1 DEF Free, Spare
  <2> QED BY <2>2 DEF NoTokensStuck
<1>7. ClosedLoansAreEmpty /\ OpenLoansAreOwed <=>
          \A id \in LoanIds : SoundLoan(books.loans[id], books.twice)
  BY DEF ClosedLoansAreEmpty, OpenLoansAreOwed, SoundLoan, Active
<1>8. BooksHold(b) <=>
          /\ Good(books) /\ books.lender.updatedTimestamp <= now
          /\ books.lender.owedPerDay = O
          /\ books.lender.principalTotal <= P
          /\ (~books.twice => books.lender.principalTotal = P)
          /\ (~books.twice => Free(b, "collateral") = C)
          /\ (~books.twice => Spare(b) <= 0)
          /\ \A id \in LoanIds : SoundLoan(books.loans[id], books.twice)
  BY DEF BooksHold, O, P, C
<1> HIDE DEF b
<1> QED BY <1>3, <1>4, <1>5, <1>6, <1>7, <1>8 DEF LoanInv, b

LEMMA KeptBooksHold ==
    ASSUME NEW a, BooksHold(a), NEW id \in LoanIds, NEW b, Keeps(b, a, id),
           SoundLoan(b.loans[id], b.twice)
    PROVE  BooksHold(b)
<1>1. Good(a) /\ Good(b)
  BY DEF BooksHold, Keeps
<1>2. IsFiniteSet(LoanIds)
  BY LoanAssumption
<1>3. \A j \in LoanIds \ {id} : b.loans[j] = a.loans[j]
  BY DEF Keeps, OnlyLoan
<1>4. \A j \in LoanIds \ {id} : /\ Principals(b)[j] = Principals(a)[j]
                                /\ OwedPerDays(b)[j] = OwedPerDays(a)[j]
                                /\ Collaterals(b)[j] = Collaterals(a)[j]
  BY <1>3 DEF Principals, OwedPerDays, Collaterals
<1>5. \A j \in LoanIds : /\ Principals(a)[j] \in Int /\ OwedPerDays(a)[j] \in Int
                         /\ Collaterals(a)[j] \in Int
  BY <1>1, LoansNat
<1>6. Principals(b)[id] \in Int /\ OwedPerDays(b)[id] \in Int /\ Collaterals(b)[id] \in Int
  BY <1>1, LoansNat
<1> DEFINE S(f) == SumFunctionOnSet(f, LoanIds)
<1>7. /\ S(Principals(b)) = S(Principals(a)) - Principals(a)[id] + Principals(b)[id]
      /\ S(OwedPerDays(b)) = S(OwedPerDays(a)) - OwedPerDays(a)[id] + OwedPerDays(b)[id]
      /\ S(Collaterals(b)) = S(Collaterals(a)) - Collaterals(a)[id] + Collaterals(b)[id]
  BY <1>2, <1>4, <1>5, <1>6, SumChange
<1>8. /\ S(Principals(a)) \in Int /\ S(OwedPerDays(a)) \in Int /\ S(Collaterals(a)) \in Int
  BY <1>2, <1>5, SumType
<1> HIDE DEF S
<1>9. /\ a.lender.owedPerDay = S(OwedPerDays(a))
      /\ a.lender.principalTotal <= S(Principals(a))
      /\ ~a.twice => /\ a.lender.principalTotal = S(Principals(a))
                     /\ Free(a, "collateral") = S(Collaterals(a))
                     /\ Spare(a) <= 0
  BY DEF BooksHold, S
<1>10. /\ Principals(a)[id] = a.loans[id].principal /\ Principals(b)[id] = b.loans[id].principal
       /\ OwedPerDays(a)[id] = a.loans[id].owedPerDay /\ OwedPerDays(b)[id] = b.loans[id].owedPerDay
       /\ Collaterals(a)[id] = a.loans[id].collateral /\ Collaterals(b)[id] = b.loans[id].collateral
  BY <1>1, LoansNat
<1>11. /\ {a.lender.principalTotal, a.lender.owedPerDay, b.lender.principalTotal,
           b.lender.owedPerDay} \subseteq Nat
       /\ {Free(a, "collateral"), Free(b, "collateral"), Spare(a), Spare(b)} \subseteq Int
  BY <1>1, NumbersOf
<1>12. b.lender.owedPerDay = S(OwedPerDays(b))
  <2>1. b.loans[id].owedPerDay - b.lender.owedPerDay
            = a.loans[id].owedPerDay - a.lender.owedPerDay
    BY DEF Keeps
  <2>2. /\ OwedPerDays(a)[id] \in Int /\ OwedPerDays(b)[id] \in Int /\ S(OwedPerDays(a)) \in Int
        /\ a.lender.owedPerDay \in Int /\ b.lender.owedPerDay \in Int
    BY <1>5, <1>6, <1>8, <1>11
  <2>3. OwedPerDays(b)[id] - b.lender.owedPerDay = OwedPerDays(a)[id] - a.lender.owedPerDay
    BY <1>10, <2>1
  <2>4. \A sa, sb, x, y, la, lb \in Int :
            sb = sa - x + y /\ la = sa /\ y - lb = x - la => lb = sb
    OBVIOUS
  <2>5. S(OwedPerDays(b)) \in Int
    BY <1>7, <2>2
  <2>6. /\ S(OwedPerDays(b)) = S(OwedPerDays(a)) - OwedPerDays(a)[id] + OwedPerDays(b)[id]
        /\ a.lender.owedPerDay = S(OwedPerDays(a))
    BY <1>7, <1>9
  <2> QED BY <2>2, <2>3, <2>4, <2>5, <2>6
<1>13. b.lender.principalTotal <= S(Principals(b))
  BY <1>5, <1>6, <1>7, <1>8, <1>9, <1>10, <1>11 DEF Keeps
<1>14. ~b.twice => ~a.twice
  BY DEF Keeps
<1>15. ~b.twice => b.lender.principalTotal = S(Principals(b))
  BY <1>5, <1>6, <1>7, <1>8, <1>9, <1>10, <1>11, <1>14 DEF Keeps
<1>16. ~b.twice => Free(b, "collateral") = S(Collaterals(b))
  BY <1>5, <1>6, <1>7, <1>8, <1>9, <1>10, <1>11, <1>14 DEF Keeps
<1>17. ~b.twice => Spare(b) <= 0
  BY <1>9, <1>11, <1>14 DEF Keeps
<1>18. \A j \in LoanIds : SoundLoan(b.loans[j], b.twice)
  <2> TAKE j \in LoanIds
  <2>1. CASE j = id
    BY <2>1
  <2>2. CASE j # id
    <3>1. b.loans[j] = a.loans[j] /\ SoundLoan(a.loans[j], a.twice)
      BY <1>3, <2>2 DEF BooksHold
    <3> QED BY <1>14, <3>1 DEF SoundLoan
  <2> QED BY <2>1, <2>2
<1> QED BY <1>12, <1>13, <1>15, <1>16, <1>17, <1>18 DEF BooksHold, Keeps, S

\* What the pool's own operations keep: no loan changes.
KeepsLoans(b, a) ==
    /\ Good(b)
    /\ b.loans = a.loans
    /\ b.twice = a.twice
    /\ b.lender.principalTotal = a.lender.principalTotal
    /\ b.lender.owedPerDay = a.lender.owedPerDay
    /\ b.lender.updatedTimestamp <= now
    /\ Free(b, "collateral") = Free(a, "collateral")
    /\ Spare(b) <= Spare(a)

LEMMA KeptLoansHold ==
    ASSUME NEW a, BooksHold(a), NEW b, KeepsLoans(b, a) PROVE BooksHold(b)
<1>1. Good(a) /\ Good(b)
  BY DEF BooksHold, KeepsLoans
<1>2. Principals(b) = Principals(a) /\ OwedPerDays(b) = OwedPerDays(a)
      /\ Collaterals(b) = Collaterals(a)
  BY DEF KeepsLoans, Principals, OwedPerDays, Collaterals
<1>3. Spare(a) \in Int /\ Spare(b) \in Int
  BY <1>1, FreeIsInt DEF Good, Books, Lenders, Spare, Tokens
<1>4. ~b.twice => Spare(b) <= 0
  BY <1>3 DEF KeepsLoans, BooksHold
<1> QED BY <1>1, <1>2, <1>4 DEF KeepsLoans, BooksHold

-----------------------------------------------------------------------------
(* New terms of a loan. *)

\* A loan has new terms: books b after a.
Renewed(b, a, id, perDay, ends, deposit) ==
    /\ Good(b)
    /\ OnlyLoan(b, a, id)
    /\ b.held = a.held
    /\ b.fees = a.fees
    /\ b.twice = a.twice
    /\ b.lender.principalTotal = a.lender.principalTotal
    /\ b.lender.updatedTimestamp = a.lender.updatedTimestamp
    /\ b.lender.owedTotal = a.lender.owedTotal + deposit
    /\ b.lender.owedPerDay = a.lender.owedPerDay + perDay - a.loans[id].owedPerDay
    /\ LET x == a.loans[id]
           y == b.loans[id]
       IN  /\ y.kind = x.kind
           /\ y.active = x.active
           /\ y.principal = x.principal
           /\ y.collateral = x.collateral
           /\ y.owedPerDay = perDay
           /\ y.endTimestamp = ends
           /\ y.depositTotal = x.depositTotal + deposit
           /\ y.updatedTimestamp = x.updatedTimestamp

TermsOneByOne(f, id, w, e, d, u, o) ==
    [f EXCEPT !.loans[id].owedPerDay = w,
              !.loans[id].endTimestamp = e,
              !.loans[id].depositTotal = d,
              !.lender.owedPerDay = u,
              !.lender.owedTotal = o]
TermsOfLoan(x, w, e, d) == [x EXCEPT !.owedPerDay = w, !.endTimestamp = e, !.depositTotal = d]
TermsOfLender(l, u, o)  == [l EXCEPT !.owedPerDay = u, !.owedTotal = o]

LEMMA TermsReplace ==
    ASSUME NEW f \in Books, NEW id \in LoanIds, NEW w, NEW e, NEW d, NEW u, NEW o
    PROVE  TermsOneByOne(f, id, w, e, d, u, o) =
               Replaced(f, id, TermsOfLoan(f.loans[id], w, e, d), TermsOfLender(f.lender, u, o))
<1> DEFINE x == f.loans[id]
           y1 == [x EXCEPT !.owedPerDay = w]
           y2 == [y1 EXCEPT !.endTimestamp = e]
           y3 == [y2 EXCEPT !.depositTotal = d]
           b1 == WithLoan(f, id, y1)
           b2 == WithLoan(f, id, y2)
           b3 == WithLoan(f, id, y3)
           l == f.lender
           l1 == [l EXCEPT !.owedPerDay = u]
           l2 == [l1 EXCEPT !.owedTotal = o]
<1>1. b1 = [f EXCEPT !.loans[id].owedPerDay = w]
  BY DEF WithLoan
<1>2. b1.loans[id] = y1 /\ b2.loans[id] = y2
  BY WithLoanTwice
<1>3. b2 = WithLoan(b1, id, y2) /\ b3 = WithLoan(b2, id, y3)
  BY WithLoanTwice
<1>4. b2 = [b1 EXCEPT !.loans[id].endTimestamp = e]
  <2> HIDE DEF b1, b2
  <2> QED BY <1>2, <1>3 DEF WithLoan
<1>5. b3 = [b2 EXCEPT !.loans[id].depositTotal = d]
  <2> HIDE DEF b1, b2, b3
  <2> QED BY <1>2, <1>3 DEF WithLoan
<1>6. b3.lender = l /\ "lender" \in DOMAIN b3
  BY DEF WithLoan, Books
<1>7. [f EXCEPT !.loans[id].owedPerDay = w, !.loans[id].endTimestamp = e,
                !.loans[id].depositTotal = d] = b3
  <2> HIDE DEF b1, b2, b3
  <2> QED BY <1>1, <1>4, <1>5
<1>8. Replaced(f, id, y3, l2) = [b3 EXCEPT !.lender = l2]
  BY DEF Replaced, WithLoan
<1> HIDE DEF b3, l
<1>9. \A h, h2 : /\ [[b3 EXCEPT !.lender = h] EXCEPT !.lender = h2] = [b3 EXCEPT !.lender = h2]
                 /\ [b3 EXCEPT !.lender = h].lender = h
  BY <1>6
<1>10. [b3 EXCEPT !.lender.owedPerDay = u] = [b3 EXCEPT !.lender = l1]
  BY <1>6
<1>11. [b3 EXCEPT !.lender.owedPerDay = u, !.lender.owedTotal = o] = [b3 EXCEPT !.lender = l2]
  BY <1>9, <1>10, ZenonT(40)
<1>12. TermsOneByOne(f, id, w, e, d, u, o)
           = [b3 EXCEPT !.lender.owedPerDay = u, !.lender.owedTotal = o]
  BY <1>7 DEF TermsOneByOne
<1>13. y3 = TermsOfLoan(x, w, e, d) /\ l2 = TermsOfLender(l, u, o)
  BY DEF TermsOfLoan, TermsOfLender
<1> QED BY <1>8, <1>11, <1>12, <1>13 DEF l

LEMMA NewTermsShape ==
    ASSUME NEW b, Shaped(b), NEW id, NEW w, NEW e, NEW d
    PROVE  Follows(NewTerms(b, id, w, e, d), b)
BY DEF Follows, Shaped, NewTerms

LEMMA NewTermsEffect ==
    ASSUME NEW b, Good(b), NEW id \in LoanIds, NEW perDay \in Nat, NEW ends \in Nat,
           NEW deposit \in Int,
           b.loans[id].depositTotal + deposit >= 0,
           b.lender.owedTotal + deposit >= 0,
           b.lender.owedPerDay + perDay - b.loans[id].owedPerDay >= 0
    PROVE  Renewed(NewTerms(b, id, perDay, ends, deposit), b, id, perDay, ends, deposit)
<1> DEFINE x == b.loans[id]
           l == b.lender
           d == x.depositTotal + deposit
           u == l.owedPerDay + perDay - x.owedPerDay
           o == l.owedTotal + deposit
           y == TermsOfLoan(x, perDay, ends, d)
           m == TermsOfLender(l, u, o)
           r == NewTerms(b, id, perDay, ends, deposit)
<1>1. x \in Loans /\ l \in Lenders
  BY NumbersOf
<1>2. d \in Nat /\ u \in Nat /\ o \in Nat
  BY <1>1 DEF Loans, Lenders
<1>3. r = TermsOneByOne(b, id, perDay, ends, d, u, o)
  BY DEF NewTerms, TermsOneByOne
<1> HIDE DEF r, d, u, o
<1>4. /\ y \in Loans /\ y.kind = x.kind /\ y.active = x.active /\ y.principal = x.principal
      /\ y.collateral = x.collateral /\ y.owedPerDay = perDay /\ y.endTimestamp = ends
      /\ y.depositTotal = d /\ y.updatedTimestamp = x.updatedTimestamp
  BY <1>1, <1>2 DEF Loans, TermsOfLoan
<1>5. /\ m \in Lenders /\ m.owedPerDay = u /\ m.owedTotal = o
      /\ m.principalTotal = l.principalTotal /\ m.updatedTimestamp = l.updatedTimestamp
  BY <1>1, <1>2 DEF Lenders, TermsOfLender
<1>6. r = Replaced(b, id, y, m)
  BY <1>3, TermsReplace DEF Good
<1> HIDE DEF y, m
<1>7. Replaces(r, b, id, y, m)
  BY <1>4, <1>5, <1>6, LoanReplaced
<1>8. Renewed(r, b, id, perDay, ends, deposit)
  BY <1>4, <1>5, <1>7 DEF Replaces, Renewed, d, u, o
<1> QED BY <1>8 DEF r

-----------------------------------------------------------------------------
(* Opening. *)

LEMMA SendShape ==
    ASSUME NEW b, Shaped(b), NEW n PROVE Follows(SendPrincipal(b, n), b)
<1>1. Follows(Require(b, n <= b.cash), b)
  BY RequireShape
<1> QED BY <1>1 DEF Follows, Shaped, SendPrincipal

\* Cash leaves the pool; nothing else changes.
SameButCash(b, a) ==
    Good(b) /\ TokensOnly(b, a) /\ b.held = a.held /\ b.fees = a.fees

LEMMA SendEffect ==
    ASSUME NEW b, Good(b), NEW n \in Nat, SendPrincipal(b, n).ok
    PROVE  SameButCash(SendPrincipal(b, n), b)
<1> DEFINE q == Require(b, n <= b.cash)
           r == SendPrincipal(b, n)
<1>1. b.cash \in Nat
  BY DEF Good, Books
<1>2. n <= b.cash /\ q = b
  <2>1. \A g \in BOOLEAN : Require(b, g).ok => g /\ Require(b, g) = b
    BY RequireEffect DEF Good
  <2>2. (n <= b.cash) \in BOOLEAN
    OBVIOUS
  <2>3. q.ok
    BY DEF SendPrincipal
  <2> QED BY <2>1, <2>2, <2>3
<1>3. r = [q EXCEPT !.cash = @ - n]
  BY DEF SendPrincipal
<1>4. r = [b EXCEPT !.cash = b.cash - n] /\ b.cash - n \in Nat
  BY <1>1, <1>2, <1>3
<1> HIDE DEF r, q
<1>5. SameButCash(r, b)
  BY <1>4 DEF Good, Books, SameButCash, TokensOnly
<1> QED BY <1>5 DEF r

\* What is lent is at least what was asked for.
LEMMA WithInterestNat ==
    ASSUME NEW n \in Nat, NEW rate \in Nat, NEW duration \in Nat,
           InterestFor(rate, duration) < 100
    PROVE  WithInterest(n, rate, duration) \in Nat /\ WithInterest(n, rate, duration) >= n
<1> DEFINE i == InterestFor(rate, duration)
           c == 100 - i
<1>1. i \in Nat
  <2>1. DAY \in Nat \ {0}
    BY LoanAssumption
  <2> QED BY <2>1, MulDivNat DEF InterestFor
<1> HIDE DEF i
<1>2. c \in Nat \ {0} /\ c <= 100
  BY <1>1 DEF i
<1>3. WithInterest(n, rate, duration) = (n * 100) \div c
  BY DEF WithInterest, MulDiv, i
<1> HIDE DEF c
<1>4. n * 100 \in Nat /\ n * c <= n * 100
  BY <1>2
<1>5. \A p \in Nat : n * c <= p => p \div c >= n /\ p \div c \in Nat
  <2> TAKE p \in Nat
  <2>1. p \div c \in Nat /\ p < c * (p \div c + 1)
    BY <1>2
  <2>2. ASSUME n * c <= p, p \div c < n PROVE FALSE
    <3>1. p \div c + 1 <= n
      BY <2>1, <2>2
    <3>2. c * (p \div c + 1) <= c * n
      BY <1>2, <2>1, <3>1
    <3> QED BY <1>2, <2>1, <2>2, <3>2
  <2> QED BY <2>1, <2>2
<1> QED BY <1>3, <1>4, <1>5

\* A loan is new, or is lent more: books b after a.
Lends(b, a, id, kind, n) ==
    /\ Good(b)
    /\ OnlyLoan(b, a, id)
    /\ b.lender = a.lender
    /\ b.held = a.held
    /\ b.fees = a.fees
    /\ b.twice = a.twice
    /\ LET x == a.loans[id]
           y == b.loans[id]
       IN  /\ y.kind = kind
           /\ y.active = TRUE
           /\ y.principal = x.principal + n
           /\ y.collateral = x.collateral
           /\ y.owedPerDay = x.owedPerDay
           /\ y.depositTotal = x.depositTotal
           /\ y.endTimestamp = 0 \/ y.endTimestamp > now
           /\ x.owedPerDay = 0 \/ (y.endTimestamp = x.endTimestamp /\ y.endTimestamp > now)
           /\ y.updatedTimestamp \in {0, x.updatedTimestamp}

LEMMA InitializeLoanShape ==
    ASSUME NEW b, Shaped(b), NEW id, NEW kind, NEW n
    PROVE  Follows(InitializeLoan(b, id, kind, n), b)
<1> DEFINE x == b.loans[id]
           q == Require(b, x.active /\ now < x.endTimestamp /\ x.kind = kind)
<1>1. Follows(q, b)
  BY RequireShape
<1>2. \/ InitializeLoan(b, id, kind, n) = [b EXCEPT !.loans[id] = NewLoan(kind, n)]
      \/ InitializeLoan(b, id, kind, n) = [q EXCEPT !.loans[id].principal = @ + n]
  BY DEF InitializeLoan
<1> HIDE DEF q
<1> QED BY <1>1, <1>2 DEF Follows, Shaped

LEMMA InitializeLoanEffect ==
    ASSUME NEW b, Good(b), NEW id \in LoanIds, NEW kind \in Kinds, NEW n \in Nat,
           now \in Nat, SoundLoan(b.loans[id], b.twice),
           InitializeLoan(b, id, kind, n).ok
    PROVE  Lends(InitializeLoan(b, id, kind, n), b, id, kind, n)
<1> DEFINE x == b.loans[id]
           r == InitializeLoan(b, id, kind, n)
           cond == x.active /\ now < x.endTimestamp /\ x.kind = kind
           q == Require(b, cond)
           z == NewLoan(kind, n)
           y == [x EXCEPT !.principal = @ + n]
<1>1. x \in Loans /\ b.lender \in Lenders /\ x.principal \in Nat
  BY NumbersOf
<1>2. CASE x.kind = "none"
  <2>1. r = WithLoan(b, id, z)
    BY <1>2 DEF InitializeLoan, WithLoan
  <2>2. /\ z \in Loans /\ z.kind = kind /\ z.active = TRUE /\ z.principal = n
        /\ z.collateral = 0 /\ z.owedPerDay = 0 /\ z.depositTotal = 0 /\ z.endTimestamp = 0
        /\ z.updatedTimestamp = 0
    BY DEF NewLoan, NoLoan, Loans
  <2>3. x.principal = 0 /\ x.owedPerDay = 0 /\ x.depositTotal = 0 /\ x.collateral = 0
    BY <1>2 DEF SoundLoan
  <2> HIDE DEF z, r
  <2>4. r = Replaced(b, id, z, b.lender)
    BY <2>1, WithLoanTwice DEF Good
  <2>5. Replaces(r, b, id, z, b.lender)
    BY <1>1, <2>2, <2>4, LoanReplaced
  <2>6. Lends(r, b, id, kind, n)
    BY <2>2, <2>3, <2>5 DEF Replaces, Lends
  <2> QED BY <2>6 DEF r
<1>3. CASE x.kind # "none"
  <2>1. r = [q EXCEPT !.loans[id].principal = @ + n]
    BY <1>3 DEF InitializeLoan
  <2>2. cond /\ q = b
    <3>1. \A g \in BOOLEAN : Require(b, g).ok => g /\ Require(b, g) = b
      BY RequireEffect DEF Good
    <3>2. cond \in BOOLEAN
      BY <1>1 DEF Loans
    <3>3. q.ok
      <4>1. Shaped(q)
        BY RequireShape, GoodIsShaped DEF Follows
      <4>2. r.ok
        OBVIOUS
      <4> HIDE DEF q, r
      <4> QED BY <2>1, <4>1, <4>2 DEF Shaped
    <3> HIDE DEF cond
    <3> QED BY <3>1, <3>2, <3>3
  <2>3. r = WithLoan(b, id, y)
    BY <2>1, <2>2 DEF WithLoan
  <2>4. /\ y \in Loans /\ y.kind = x.kind /\ y.active = x.active /\ y.principal = x.principal + n
        /\ y.collateral = x.collateral /\ y.owedPerDay = x.owedPerDay
        /\ y.depositTotal = x.depositTotal /\ y.endTimestamp = x.endTimestamp
        /\ y.updatedTimestamp = x.updatedTimestamp
    BY <1>1 DEF Loans
  <2>5. x.active = TRUE
    BY <1>1, <2>2 DEF Loans
  <2> HIDE DEF y, r, q
  <2>6. r = Replaced(b, id, y, b.lender)
    BY <2>3, WithLoanTwice DEF Good
  <2>7. Replaces(r, b, id, y, b.lender)
    BY <1>1, <2>4, <2>6, LoanReplaced
  <2>8. Lends(r, b, id, kind, n)
    BY <2>2, <2>4, <2>5, <2>7 DEF Replaces, Lends
  <2> QED BY <2>8 DEF r
<1> QED BY <1>2, <1>3

\* The first step of a call that changes the terms of a loan.
PaidFor(b, id) == SettleFeeReward(PayInterest(b, now), id, now)

PaidUp(b, a, id) ==
    /\ Good(b)
    /\ OnlyLoan(b, a, id)
    /\ SameLoan(b.loans[id], a.loans[id])
    /\ b.loans[id].owedPerDay = a.loans[id].owedPerDay
    /\ b.loans[id].depositTotal = a.loans[id].depositTotal
    /\ b.loans[id].updatedTimestamp = now
    /\ b.lender.principalTotal = a.lender.principalTotal
    /\ b.lender.owedPerDay = a.lender.owedPerDay
    /\ b.lender.owedTotal = PayInterest(a, now).lender.owedTotal
    /\ b.lender.updatedTimestamp = now
    /\ b.twice = a.twice
    /\ Free(b, "collateral") = Free(a, "collateral")
    /\ Spare(b) = Spare(a)

LEMMA PaidForShape ==
    ASSUME NEW b, Shaped(b), NEW id PROVE Follows(PaidFor(b, id), b)
<1> DEFINE p == PayInterest(b, now)
<1>1. Follows(p, b)
  BY PayInterestShape
<1>2. PaidFor(b, id) = SettleFeeReward(p, id, now)
  BY DEF PaidFor
<1> HIDE DEF p
<1>3. Follows(SettleFeeReward(p, id, now), p)
  BY <1>1, FeeRewardShape DEF Follows
<1> QED BY <1>1, <1>2, <1>3 DEF Follows

LEMMA PaidForEffect ==
    ASSUME NEW b, Good(b), NEW id \in LoanIds, now \in Nat,
           b.lender.updatedTimestamp <= now, PaidFor(b, id).ok
    PROVE  PaidUp(PaidFor(b, id), b, id)
<1> DEFINE p == PayInterest(b, now)
           r == PaidFor(b, id)
           x == p.loans[id]
           y == [x EXCEPT !.updatedTimestamp = now]
<1>1. r = SettleFeeReward(p, id, now)
  BY DEF PaidFor
<1>2. p.ok
  <2>1. Follows(p, b)
    BY PayInterestShape, GoodIsShaped
  <2> HIDE DEF p
  <2>2. Follows(SettleFeeReward(p, id, now), p)
    BY <2>1, FeeRewardShape DEF Follows
  <2> QED BY <1>1, <2>2 DEF Follows
<1>3. InterestPaid(p, b, now)
  BY <1>2, PayInterestEffect
<1> HIDE DEF p, r
<1>4. Good(p) /\ x \in Loans /\ p.lender \in Lenders
  BY <1>3, NumbersOf DEF InterestPaid
<1>5. r = PaidAt(p, id, now)
  <2>1. SettleFeeReward(p, id, now).ok
    BY <1>1 DEF r
  <2> QED BY <1>1, <1>4, <2>1, FeeRewardEffect
<1>6. /\ y \in Loans /\ SameLoan(y, x) /\ y.owedPerDay = x.owedPerDay
      /\ y.depositTotal = x.depositTotal /\ y.updatedTimestamp = now
  BY <1>4 DEF Loans, SameLoan
<1>7. r = WithLoan(p, id, y)
  BY <1>5 DEF WithLoan, PaidAt
<1> HIDE DEF y
<1>8. r = Replaced(p, id, y, p.lender)
  BY <1>4, <1>7, WithLoanTwice DEF Good
<1>9. Replaces(r, p, id, y, p.lender)
  BY <1>4, <1>6, <1>8, LoanReplaced
<1>10. Free(r, "collateral") = Free(p, "collateral") /\ Spare(r) = Spare(p)
  BY <1>9 DEF Replaces, Free, Spare
<1>11. r.lender.owedTotal = PayInterest(b, now).lender.owedTotal
  BY <1>9 DEF Replaces, p
<1>12. PaidUp(r, b, id)
  BY <1>3, <1>6, <1>9, <1>10, <1>11 DEF Replaces, InterestPaid, PaidUp, OnlyLoan
<1> QED BY <1>12 DEF r

\* Interest for new principal begins to run: s after a.
Begins(s, a, id, n) ==
    LET b == s.books
        y == b.loans[id]
        x == a.loans[id]
    IN  /\ Good(b)
        /\ OnlyLoan(b, a, id)
        /\ b.twice = a.twice
        /\ y.kind = x.kind
        /\ y.active = x.active
        /\ y.principal = x.principal
        /\ y.collateral = x.collateral
        /\ y.owedPerDay - b.lender.owedPerDay = x.owedPerDay - a.lender.owedPerDay
        /\ b.lender.principalTotal = a.lender.principalTotal + n
        /\ b.lender.updatedTimestamp = now
        /\ Free(b, "collateral") = Free(a, "collateral")
        /\ s.amount \in Nat
        /\ Spare(b) = Spare(a) - s.amount

\* The terms it begins with.
BeginsFor(s, a, id, n, rate, i) ==
    LET y == s.books.loans[id]
        x == a.loans[id]
    IN  /\ s.books.lender.owedTotal = PayInterest(a, now).lender.owedTotal + s.amount
        /\ y.updatedTimestamp = now
        /\ y.owedPerDay = x.owedPerDay + Percent(n, rate)
        /\ x.kind = "torque" =>
             /\ y.owedPerDay # 0
             /\ s.amount = i
             /\ y.endTimestamp = now + MulDiv(i + RemainingInterest(x), DAY, y.owedPerDay)
        /\ x.kind # "torque" =>
             /\ y.endTimestamp = IF x.endTimestamp = 0 THEN now + maxLoanTerm
                                 ELSE x.endTimestamp
             /\ y.endTimestamp >= now
             /\ s.amount = MulDiv(y.endTimestamp - now, Percent(n, rate), DAY)

LEMMA InitializeInterestShape ==
    ASSUME NEW b, Shaped(b), NEW id, NEW n, NEW rate, NEW i
    PROVE  Follows(InitializeInterest(b, id, n, rate, i).books, b)
<1> DEFINE p == PaidFor(b, id)
           r == InitializeInterest(b, id, n, rate, i).books
<1>1. \E c, w, e, d : r = NewTerms([Require(p, c) EXCEPT !.lender.principalTotal = @ + n], id, w, e, d)
  BY DEF InitializeInterest, PaidFor
<1>2. Follows(p, b)
  BY PaidForShape
<1> HIDE DEF p, r
<1>3. PICK c, w, e, d : r = NewTerms([Require(p, c) EXCEPT !.lender.principalTotal = @ + n], id, w, e, d)
  BY <1>1
<1> DEFINE q == Require(p, c)
           t == [q EXCEPT !.lender.principalTotal = @ + n]
<1>4. Follows(q, p)
  BY <1>2, RequireShape DEF Follows
<1> HIDE DEF q
<1>5. Follows(t, q)
  BY <1>4 DEF Follows, Shaped
<1> HIDE DEF t
<1>6. Follows(NewTerms(t, id, w, e, d), t)
  BY <1>5, NewTermsShape DEF Follows
<1>7. r = NewTerms(t, id, w, e, d)
  BY <1>3 DEF t, q
<1>8. Follows(r, b)
  BY <1>2, <1>4, <1>5, <1>6, <1>7 DEF Follows
<1> QED BY <1>8 DEF r

LEMMA RemainingNat ==
    ASSUME NEW x \in Loans, now \in Nat, x.endTimestamp = 0 \/ x.endTimestamp > now
    PROVE  RemainingInterest(x) \in Nat
<1>1. CASE x.endTimestamp = 0
  BY <1>1 DEF RemainingInterest
<1>2. CASE x.endTimestamp # 0
  <2>1. x.endTimestamp - now \in Nat /\ x.owedPerDay \in Nat /\ DAY \in Nat \ {0}
    BY <1>2, LoanAssumption DEF Loans
  <2> QED BY <1>2, <2>1, MulDivNat DEF RemainingInterest
<1> QED BY <1>1, <1>2

LEMMA InitializeInterestEffect ==
    ASSUME NEW b, Good(b), NEW id \in LoanIds, NEW n \in Nat, NEW rate \in Nat,
           NEW i \in Nat, now \in Nat, b.lender.updatedTimestamp <= now,
           b.loans[id].endTimestamp = 0 \/ b.loans[id].endTimestamp > now,
           InitializeInterest(b, id, n, rate, i).books.ok
    PROVE  /\ Begins(InitializeInterest(b, id, n, rate, i), b, id, n)
           /\ BeginsFor(InitializeInterest(b, id, n, rate, i), b, id, n, rate, i)
           /\ b.loans[id].kind = "torque" => InitializeInterest(b, id, n, rate, i).amount = i
<1> DEFINE paid   == PaidFor(b, id)
           loan   == paid.loans[id]
           torque == loan.kind = "torque"
           perDay == Percent(n, rate)
           total  == loan.owedPerDay + perDay
           ends   == IF torque THEN now + MulDiv(i + RemainingInterest(loan), DAY, Max2(1, total))
                     ELSE IF loan.endTimestamp = 0 THEN now + maxLoanTerm
                     ELSE loan.endTimestamp
           required == IF torque THEN i ELSE MulDiv(ends - now, perDay, DAY)
           cond == torque => total # 0 /\ ends - now > HOUR
           q == Require(paid, cond)
           t == [q EXCEPT !.lender.principalTotal = @ + n]
           s == InitializeInterest(b, id, n, rate, i)
           r == NewTerms(t, id, total, ends, required)
<1>1. s.amount = required /\ s.books = r
  BY DEF InitializeInterest, PaidFor
<1>2. Follows(paid, b)
  BY PaidForShape, GoodIsShaped
<1>3. Follows(q, paid)
  <2> HIDE DEF paid, cond
  <2> QED BY <1>2, RequireShape DEF Follows
<1>4. paid.ok /\ q.ok
  <2> HIDE DEF q, paid, total, ends, required
  <2>1. Follows(t, q)
    BY <1>3 DEF Follows, Shaped
  <2> HIDE DEF t
  <2>2. Follows(r, t)
    BY <2>1, NewTermsShape DEF Follows
  <2>3. r.ok
    BY <1>1
  <2> QED BY <1>3, <2>1, <2>2, <2>3 DEF Follows
<1>5. PaidUp(paid, b, id)
  BY <1>4, PaidForEffect
<1>6. /\ Good(paid) /\ loan \in Loans /\ loan.owedPerDay \in Nat /\ loan.depositTotal \in Nat
      /\ paid.lender \in Lenders /\ paid.lender.principalTotal \in Nat
      /\ paid.lender.owedPerDay \in Nat /\ paid.lender.owedTotal \in Nat
      /\ loan.endTimestamp \in Nat
      /\ loan.endTimestamp = 0 \/ loan.endTimestamp > now
      /\ loan.kind = b.loans[id].kind /\ loan.owedPerDay = b.loans[id].owedPerDay
      /\ loan.endTimestamp = b.loans[id].endTimestamp /\ loan.updatedTimestamp = now
  <2>1. Good(paid)
    BY <1>5 DEF PaidUp
  <2> HIDE DEF paid
  <2> QED BY <1>5, <2>1, NumbersOf DEF PaidUp, SameLoan
<1> HIDE DEF paid
<1>7. perDay \in Nat /\ total \in Nat
  <2>1. perDay \in Nat
    BY PercentNat
  <2> HIDE DEF perDay
  <2> QED BY <1>6, <2>1
<1>20. RemainingInterest(loan) = RemainingInterest(b.loans[id])
  BY <1>6 DEF RemainingInterest
<1> HIDE DEF loan, perDay, total
<1>8. ends \in Nat /\ (torque \/ ends >= now)
  <2>1. RemainingInterest(loan) \in Nat
    BY <1>6, RemainingNat
  <2>2. Max2(1, total) \in Nat \ {0} /\ DAY \in Nat /\ i + RemainingInterest(loan) \in Nat
    BY <1>7, <2>1, LoanAssumption DEF Max2
  <2>3. MulDiv(i + RemainingInterest(loan), DAY, Max2(1, total)) \in Nat
    BY <2>2, MulDivNat
  <2>4. maxLoanTerm \in Nat
    BY LoanAssumption
  <2> QED BY <1>6, <2>3, <2>4
<1> HIDE DEF torque, ends
<1>9. required \in Nat
  <2>1. DAY \in Nat \ {0}
    BY LoanAssumption
  <2>2. ends >= now => ends - now \in Nat
    BY <1>8
  <2>3. ends >= now => MulDiv(ends - now, perDay, DAY) \in Nat
    BY <1>7, <2>1, <2>2, MulDivNat
  <2> QED BY <1>8, <2>3
<1> HIDE DEF required
<1>10. q = paid /\ (torque => total # 0)
  <2>1. \A g \in BOOLEAN : Require(paid, g).ok => g /\ Require(paid, g) = paid
    BY <1>6, RequireEffect DEF Good
  <2>2. cond \in BOOLEAN
    OBVIOUS
  <2> HIDE DEF cond
  <2>3. cond /\ q = paid
    BY <1>4, <2>1, <2>2
  <2> QED BY <2>3 DEF cond
<1> HIDE DEF q
<1> DEFINE l == [paid.lender EXCEPT !.principalTotal = @ + n]
<1>11. /\ l \in Lenders /\ l.principalTotal = paid.lender.principalTotal + n
       /\ l.owedPerDay = paid.lender.owedPerDay /\ l.owedTotal = paid.lender.owedTotal
       /\ l.updatedTimestamp = paid.lender.updatedTimestamp
  BY <1>6 DEF Lenders
<1>12. t = [paid EXCEPT !.lender = l]
  BY <1>10
<1> HIDE DEF l, t
<1>13. /\ Good(t) /\ t.loans = paid.loans /\ t.lender = l /\ t.held = paid.held
       /\ t.fees = paid.fees /\ t.twice = paid.twice
  BY <1>6, <1>11, <1>12 DEF Good, Books
<1>14. Renewed(r, t, id, total, ends, required)
  <2>1. /\ t.loans[id].depositTotal + required >= 0
        /\ t.lender.owedTotal + required >= 0
        /\ t.lender.owedPerDay + total - t.loans[id].owedPerDay >= 0
    BY <1>6, <1>7, <1>9, <1>11, <1>13 DEF loan, total
  <2>2. required \in Int
    BY <1>9
  <2> QED BY <1>7, <1>8, <1>13, <2>1, <2>2, NewTermsEffect
<1> HIDE DEF r, s
<1>15. /\ Good(r) /\ OnlyLoan(r, b, id) /\ r.twice = b.twice
       /\ r.loans[id].kind = b.loans[id].kind /\ r.loans[id].active = b.loans[id].active
       /\ r.loans[id].principal = b.loans[id].principal
       /\ r.loans[id].collateral = b.loans[id].collateral
       /\ r.lender.principalTotal = b.lender.principalTotal + n
       /\ r.lender.updatedTimestamp = now
       /\ Free(r, "collateral") = Free(b, "collateral")
  BY <1>5, <1>11, <1>13, <1>14 DEF Renewed, PaidUp, SameLoan, OnlyLoan, Free
<1>16. r.loans[id].owedPerDay - r.lender.owedPerDay
           = b.loans[id].owedPerDay - b.lender.owedPerDay
  <2>1. /\ r.loans[id].owedPerDay = total
        /\ r.lender.owedPerDay = paid.lender.owedPerDay + total - loan.owedPerDay
    BY <1>11, <1>13, <1>14 DEF Renewed, loan
  <2>2. paid.lender.owedPerDay = b.lender.owedPerDay
    BY <1>5 DEF PaidUp
  <2> QED BY <1>6, <1>7, <2>1, <2>2
<1>17. Spare(r) = Spare(b) - required
  <2>1. Spare(paid) = Spare(b)
    BY <1>5 DEF PaidUp
  <2>2. Free(r, "loan") = Free(paid, "loan") /\ Free(paid, "loan") \in Int
    BY <1>6, <1>13, <1>14, NumbersOf DEF Renewed, Free
  <2>3. r.lender.owedTotal = paid.lender.owedTotal + required
    BY <1>11, <1>13, <1>14 DEF Renewed
  <2> QED BY <1>6, <1>9, <2>1, <2>2, <2>3 DEF Spare
<1>18. Begins(s, b, id, n)
  BY <1>1, <1>9, <1>15, <1>16, <1>17 DEF Begins, s
<1>19. b.loans[id].kind = "torque" => s.amount = i
  BY <1>1, <1>6 DEF required, torque, s
<1>21. BeginsFor(s, b, id, n, rate, i)
  <2> DEFINE y == s.books.loans[id]
             x == b.loans[id]
  <2>1. s.books.lender.owedTotal = PayInterest(b, now).lender.owedTotal + s.amount
    BY <1>1, <1>5, <1>11, <1>13, <1>14 DEF Renewed, PaidUp, s
  <2>2. /\ y.updatedTimestamp = now
        /\ y.owedPerDay = total
        /\ y.endTimestamp = ends
    BY <1>1, <1>6, <1>13, <1>14 DEF Renewed, loan, s
  <2>3. total = x.owedPerDay + perDay /\ (torque <=> x.kind = "torque")
    BY <1>6 DEF total, torque
  <2>4. ASSUME torque
        PROVE  /\ total # 0 /\ s.amount = i
               /\ ends = now + MulDiv(i + RemainingInterest(x), DAY, total)
    <3>1. Max2(1, total) = total
      BY <1>7, <1>10, <2>4 DEF Max2
    <3>2. ends = now + MulDiv(i + RemainingInterest(loan), DAY, Max2(1, total))
      BY <2>4 DEF ends
    <3> QED BY <1>10, <1>19, <1>20, <2>3, <2>4, <3>1, <3>2
  <2>5. ASSUME ~torque
        PROVE  /\ ends = IF x.endTimestamp = 0 THEN now + maxLoanTerm ELSE x.endTimestamp
               /\ ends >= now
               /\ s.amount = MulDiv(ends - now, perDay, DAY)
    BY <1>1, <1>6, <1>8, <2>5 DEF ends, required, s
  <2> HIDE DEF y, x, torque, ends, total, s
  <2> QED BY <2>1, <2>2, <2>3, <2>4, <2>5 DEF BeginsFor, perDay, y, x
<1> QED BY <1>18, <1>19, <1>21 DEF s

LEMMA FinalizeOpenShape ==
    ASSUME NEW b, Shaped(b), NEW id, NEW m, NEW c, NEW n, NEW t
    PROVE  Follows(FinalizeOpen(b, id, m, c, n, t), b)
<1>1. \E g : FinalizeOpen(b, id, m, c, n, t)
                = [Require(b, g) EXCEPT !.loans[id].collateral = @ + c]
  BY DEF FinalizeOpen
<1>2. PICK g : FinalizeOpen(b, id, m, c, n, t)
                = [Require(b, g) EXCEPT !.loans[id].collateral = @ + c]
  BY <1>1
<1> DEFINE q == Require(b, g)
<1>3. Follows(q, b)
  BY RequireShape
<1>4. FinalizeOpen(b, id, m, c, n, t) = [q EXCEPT !.loans[id].collateral = @ + c]
  BY <1>2
<1> HIDE DEF q
<1> QED BY <1>3, <1>4 DEF Follows, Shaped

LEMMA FinalizeOpenEffect ==
    ASSUME NEW b, Good(b), NEW id \in LoanIds, NEW m, NEW c \in Nat, NEW n, NEW t,
           FinalizeOpen(b, id, m, c, n, t).ok
    PROVE  Pledged(FinalizeOpen(b, id, m, c, n, t), b, id, b.loans[id].collateral + c)
<1> DEFINE x == b.loans[id]
           required == RequiredCollateral(x.kind, n, m, price)
           cond == /\ required # 0
                   /\ m >= minInitialMargin
                   /\ IsCollateralSatisfied(x, m, c, required, t)
                   /\ CurrentMargin(x.principal, x.collateral + c, price) > maintenanceMargin
           q == Require(b, cond)
           r == FinalizeOpen(b, id, m, c, n, t)
<1>1. r = [q EXCEPT !.loans[id].collateral = @ + c]
  BY DEF FinalizeOpen
<1>2. q = b
  <2>1. \A g \in BOOLEAN : Require(b, g).ok => Require(b, g) = b
    BY RequireEffect DEF Good
  <2>2. cond \in BOOLEAN
    BY DEF IsCollateralSatisfied
  <2>3. q.ok
    <3>1. Shaped(q)
      BY RequireShape, GoodIsShaped DEF Follows
    <3>2. r.ok
      OBVIOUS
    <3> HIDE DEF q, r
    <3> QED BY <1>1, <3>1, <3>2 DEF Shaped
  <2> HIDE DEF cond
  <2> QED BY <2>1, <2>2, <2>3
<1>3. x.collateral + c \in Nat
  BY NumbersOf
<1>4. r = WithCollateral(b, id, x.collateral + c)
  BY <1>1, <1>2 DEF WithCollateral
<1> HIDE DEF r
<1>5. Pledged(r, b, id, x.collateral + c)
  BY <1>3, <1>4, CollateralEffect
<1> QED BY <1>5 DEF r

-----------------------------------------------------------------------------
(* The calls. *)

LEMMA InvNext ==
    LoanInv' <=> (/\ BooksHold(books)
                  /\ balances \in [Suppliers -> Nat]
                  /\ now \in Nat
                  /\ price \in Nat \ {0})'
BY InvIsBooksHold, PTL

\* A call that leaves books in which all holds keeps the invariant.
LEMMA CallKeeps ==
    ASSUME LoanInv, NEW b, Call(b), BooksHold(b), balances' \in [Suppliers -> Nat]
    PROVE  LoanInv'
<1>1. books' = b /\ now' = now /\ price' = price
  BY DEF Call, worldVars
<1>2. now \in Nat /\ price \in Nat \ {0}
  BY InvIsBooksHold
<1>3. BooksHold(books)'
  BY <1>1 DEF BooksHold, Principals, OwedPerDays, Collaterals, SoundLoan, Good, Free, Spare
<1> QED BY <1>1, <1>2, <1>3, InvNext

LEMMA LoanCallKeeps ==
    ASSUME LoanInv, NEW b, Call(b), NEW id \in LoanIds, Keeps(b, books, id),
           SoundLoan(b.loans[id], b.twice), balances' = balances
    PROVE  LoanInv'
<1>1. BooksHold(books) /\ balances \in [Suppliers -> Nat]
  BY InvIsBooksHold
<1>2. BooksHold(b)
  BY <1>1, KeptBooksHold
<1> QED BY <1>1, <1>2, CallKeeps

LEMMA PoolCallKeeps ==
    ASSUME LoanInv, NEW b, Call(b), KeepsLoans(b, books), balances' \in [Suppliers -> Nat]
    PROVE  LoanInv'
<1>1. BooksHold(books)
  BY InvIsBooksHold
<1>2. BooksHold(b)
  BY <1>1, KeptLoansHold
<1> QED BY <1>2, CallKeeps

LEMMA SettledShape ==
    ASSUME Shaped(books) PROVE Follows(Settled, books)
<1>1. Follows(PayInterest(books, now), books)
  BY PayInterestShape
<1>2. Follows(books, books)
  BY DEF Follows
<1> QED BY <1>1, <1>2 DEF Settled

LEMMA SettledEffect ==
    ASSUME BooksHold(books), now \in Nat, Settled.ok
    PROVE  KeepsLoans(Settled, books)
<1>1. Good(books) /\ books.lender.updatedTimestamp <= now
  BY DEF BooksHold
<1>2. CASE lastSettleTime = now
  <2>1. Free(books, "loan") \in Int /\ books.lender.owedTotal \in Nat
    BY <1>1, FreeIsInt DEF Good, Books, Lenders, Tokens
  <2>2. Spare(books) <= Spare(books)
    BY <2>1 DEF Spare
  <2> QED BY <1>1, <1>2, <2>2 DEF Settled, KeepsLoans
<1>3. CASE lastSettleTime # now
  <2> DEFINE p == PayInterest(books, now)
  <2>1. Settled = p /\ p.ok
    BY <1>3 DEF Settled
  <2>2. InterestPaid(p, books, now)
    BY <1>1, <2>1, PayInterestEffect
  <2> HIDE DEF p
  <2>3. Spare(p) \in Int
    BY <2>2, FreeIsInt DEF InterestPaid, Good, Books, Lenders, Tokens, Spare
  <2>4. Spare(p) <= Spare(books) /\ now <= now
    BY <2>2, <2>3 DEF InterestPaid
  <2> QED BY <2>1, <2>2, <2>4 DEF InterestPaid, KeepsLoans
<1> QED BY <1>2, <1>3

LEMMA StateFacts ==
    ASSUME LoanInv
    PROVE  /\ Good(books) /\ Shaped(books) /\ BooksHold(books)
           /\ books.lender.updatedTimestamp <= now
           /\ now \in Nat /\ price \in Nat \ {0}
           /\ balances \in [Suppliers -> Nat]
           /\ \A id \in LoanIds : SoundLoan(books.loans[id], books.twice)
<1>1. BooksHold(books) /\ now \in Nat /\ price \in Nat \ {0} /\ balances \in [Suppliers -> Nat]
  BY InvIsBooksHold
<1>2. Good(books) /\ books.lender.updatedTimestamp <= now
      /\ \A id \in LoanIds : SoundLoan(books.loans[id], books.twice)
  BY <1>1 DEF BooksHold
<1> QED BY <1>1, <1>2, GoodIsShaped

LEMMA InitKeeps == ASSUME Init PROVE LoanInv
<1>1. IsFiniteSet(LoanIds)
  BY LoanAssumption
<1>2. NoBooks \in Books /\ NoBooks.ok
  BY DEF NoBooks, NoLoan, Books, Loans, Lenders, Tokens
<1>3. \A id \in LoanIds : /\ Principals(NoBooks)[id] = 0
                          /\ OwedPerDays(NoBooks)[id] = 0
                          /\ Collaterals(NoBooks)[id] = 0
  BY DEF NoBooks, NoLoan, Principals, OwedPerDays, Collaterals
<1>4. /\ SumFunctionOnSet(Principals(NoBooks), LoanIds) = 0
      /\ SumFunctionOnSet(OwedPerDays(NoBooks), LoanIds) = 0
      /\ SumFunctionOnSet(Collaterals(NoBooks), LoanIds) = 0
  BY <1>1, <1>3, SumZero
<1>5. /\ NoBooks.lender.principalTotal = 0 /\ NoBooks.lender.owedPerDay = 0
      /\ NoBooks.lender.updatedTimestamp = 0
      /\ Free(NoBooks, "collateral") = 0 /\ Spare(NoBooks) = 0
  BY DEF NoBooks, Free, Spare, Tokens
<1>6. \A id \in LoanIds : SoundLoan(NoBooks.loans[id], NoBooks.twice)
  BY DEF NoBooks, NoLoan, SoundLoan
<1>7. now = 1 /\ price \in Nat \ {0} /\ books = NoBooks /\ balances \in [Suppliers -> Nat]
  BY PoolAssumption DEF Init
<1>8. BooksHold(NoBooks)
  BY <1>2, <1>4, <1>5, <1>6, <1>7 DEF BooksHold, Good
<1> QED BY <1>7, <1>8, InvIsBooksHold

LEMMA TickKeeps == ASSUME LoanInv, Tick PROVE LoanInv'
<1>1. BooksHold(books) /\ now \in Nat /\ balances \in [Suppliers -> Nat]
  BY StateFacts
<1>2. books' = books /\ balances' = balances /\ now' = now + 1
  BY DEF Tick, poolVars
<1>3. price' \in Nat \ {0}
  BY PoolAssumption DEF Tick
<1>4. books.lender.updatedTimestamp \in Nat
  BY <1>1 DEF BooksHold, Good, Books, Lenders
<1>5. books.lender.updatedTimestamp <= now + 1
  BY <1>1, <1>4 DEF BooksHold
<1>6. BooksHold(books)'
  BY <1>1, <1>2, <1>5 DEF BooksHold, Principals, OwedPerDays, Collaterals, SoundLoan,
                          Good, Free, Spare
<1> QED BY <1>1, <1>2, <1>3, <1>6, InvNext

LEMMA StutterKeeps == ASSUME LoanInv, UNCHANGED vars PROVE LoanInv'
<1>1. /\ BooksHold(books) /\ now \in Nat /\ balances \in [Suppliers -> Nat]
      /\ price \in Nat \ {0}
  BY StateFacts
<1>2. books' = books /\ balances' = balances /\ now' = now /\ price' = price
  BY DEF vars, poolVars, worldVars
<1>3. BooksHold(books)'
  BY <1>1, <1>2 DEF BooksHold, Principals, OwedPerDays, Collaterals, SoundLoan,
                    Good, Free, Spare
<1> QED BY <1>1, <1>2, <1>3, InvNext

\* What the pool's calls do to its cash.
LEMMA CashEffect ==
    ASSUME NEW a, NEW b, KeepsLoans(b, a), NEW n \in Nat
    PROVE  /\ KeepsLoans([b EXCEPT !.cash = n], a)
           /\ SameButCash([b EXCEPT !.cash = n], b)
<1> DEFINE c == [b EXCEPT !.cash = n]
<1>1. b \in Books /\ b.ok
  BY DEF KeepsLoans, Good
<1>2. c \in Books /\ c.ok
  BY <1>1 DEF Books
<1>3. c.loans = b.loans /\ c.lender = b.lender /\ c.twice = b.twice
      /\ c.held = b.held /\ c.fees = b.fees
  BY <1>1 DEF Books
<1> HIDE DEF c
<1>4. KeepsLoans(c, a)
  BY <1>2, <1>3 DEF KeepsLoans, Good, Free, Spare
<1>5. SameButCash(c, b)
  BY <1>2, <1>3 DEF SameButCash, Good, TokensOnly
<1> QED BY <1>4, <1>5 DEF c

\* A call on the pool: its interest is settled, and its cash changes.
OnlyCash(b) ==
    /\ Call(b)
    /\ balances' \in [Suppliers -> Nat]
    /\ rounded' = rounded
    /\ Settled.ok
    /\ KeepsLoans(b, books)
    /\ SameButCash(b, Settled)

LEMMA OnlyCashKeeps ==
    ASSUME LoanInv, NEW b, OnlyCash(b)
    PROVE  LoanInv'
BY PoolCallKeeps DEF OnlyCash

LEMMA PriceNat ==
    ASSUME balances \in [Suppliers -> Nat], NEW b \in Books
    PROVE  PriceOf(TotalAssetSupply(b, 0)) \in Nat
<1>1. IsFiniteSet(Suppliers) /\ WEI \in Nat /\ initialPrice \in Nat
  BY PoolAssumption
<1>2. TotalSupply = SumFunctionOnSet(balances, Suppliers)
  BY SumOfFunction DEF TotalSupply
<1>3. TotalSupply \in Nat
  BY <1>1, <1>2, SumOfNats
<1>4. b.cash \in Nat /\ b.lender.principalTotal \in Nat
  BY DEF Books, Lenders
<1>5. TotalAssetSupply(b, 0) \in Nat
  BY <1>4 DEF TotalAssetSupply
<1>6. TotalSupply # 0 => MulDiv(TotalAssetSupply(b, 0), WEI, TotalSupply) \in Nat
  BY <1>1, <1>3, <1>5, MulDivNat
<1> QED BY <1>1, <1>6 DEF PriceOf

LEMMA MintIs ==
    ASSUME LoanInv, NEW s \in Suppliers, NEW a \in Nat, Mint(s, a)
    PROVE  \E b : OnlyCash(b)
<1> DEFINE p == PriceOf(TotalAssetSupply(Settled, 0))
           m == MulDiv(a, WEI, p)
           q == Settled
           b == [q EXCEPT !.cash = @ + a]
<1>1. /\ p # 0 /\ Call(b) /\ rounded' = rounded
      /\ balances' = [balances EXCEPT ![s] = @ + m]
  BY DEF Mint
<1>2. Shaped(books) /\ BooksHold(books) /\ now \in Nat /\ balances \in [Suppliers -> Nat]
  BY StateFacts
<1>3. Follows(q, books)
  BY <1>2, SettledShape
<1>4. q.ok
  <2>1. Shaped(q) /\ b.ok
    BY <1>1, <1>3 DEF Call, Follows
  <2> HIDE DEF q
  <2> QED BY <2>1 DEF Shaped
<1>5. KeepsLoans(q, books)
  BY <1>2, <1>4, SettledEffect
<1>6. q \in Books
  BY <1>5 DEF KeepsLoans, Good
<1>7. p \in Nat
  BY <1>2, <1>6, PriceNat DEF q
<1>8. m \in Nat
  BY <1>1, <1>7, MulDivNat, PoolAssumption
<1>9. balances' \in [Suppliers -> Nat]
  <2> HIDE DEF m
  <2> QED BY <1>1, <1>2, <1>8
<1>10. q.cash \in Nat
  BY <1>6 DEF Books
<1>11. b = [q EXCEPT !.cash = q.cash + a] /\ q.cash + a \in Nat
  BY <1>10
<1> HIDE DEF q
<1>12. KeepsLoans(b, books) /\ SameButCash(b, q)
  BY <1>5, <1>11, CashEffect
<1> HIDE DEF b
<1>13. OnlyCash(b)
  BY <1>1, <1>4, <1>9, <1>12 DEF OnlyCash, q
<1> QED BY <1>13

LEMMA BurnIs ==
    ASSUME LoanInv, NEW s \in Suppliers, NEW a \in Nat, Burn(s, a)
    PROVE  \E b : OnlyCash(b)
<1> DEFINE p == PriceOf(TotalAssetSupply(Settled, 0))
           amount == Min2(a, balances[s])
           paid == MulDiv(amount, p, WEI)
           rest == balances[s] - amount
           q == Settled
           r == Require(q, paid <= q.cash)
           b == [r EXCEPT !.cash = @ - paid]
<1>1. /\ Call(b) /\ rounded' = rounded
      /\ balances' = [balances EXCEPT ![s] = IF rest <= Dust THEN 0 ELSE rest]
  BY DEF Burn
<1>2. Shaped(books) /\ BooksHold(books) /\ now \in Nat /\ balances \in [Suppliers -> Nat]
  BY StateFacts
<1>3. Follows(q, books) /\ Shaped(q)
  BY <1>2, SettledShape DEF Follows
<1>4. Follows(r, q)
  BY <1>3, RequireShape
<1>5. r.ok
  <2>1. Shaped(r) /\ b.ok
    BY <1>1, <1>4 DEF Call, Follows
  <2> HIDE DEF r
  <2> QED BY <2>1 DEF Shaped
<1>6. q.ok
  <2> HIDE DEF r, q
  <2> QED BY <1>4, <1>5 DEF Follows
<1>7. KeepsLoans(q, books)
  BY <1>2, <1>6, SettledEffect
<1>8. q \in Books
  BY <1>7 DEF KeepsLoans, Good
<1>9. p \in Nat
  BY <1>2, <1>8, PriceNat DEF q
<1>10. balances[s] \in Nat
  BY <1>2
<1>11. amount \in Nat /\ amount <= balances[s]
  BY <1>10, MinMax
<1>12. paid \in Nat
  <2> HIDE DEF p, amount
  <2> QED BY <1>9, <1>11, MulDivNat, PoolAssumption
<1>13. balances' \in [Suppliers -> Nat]
  <2>1. rest \in Nat
    <3> HIDE DEF amount
    <3> QED BY <1>10, <1>11
  <2> HIDE DEF rest
  <2> QED BY <1>1, <1>2, <2>1
<1>14. r = q /\ paid <= q.cash
  <2>1. \A g \in BOOLEAN : Require(q, g).ok => g /\ Require(q, g) = q
    BY <1>8, RequireEffect
  <2> DEFINE g == paid <= q.cash
  <2>2. g \in BOOLEAN
    OBVIOUS
  <2> HIDE DEF g, q, paid
  <2>3. r = Require(q, g)
    BY DEF g
  <2>4. g /\ r = q
    BY <1>5, <2>1, <2>2, <2>3
  <2> QED BY <2>4 DEF g
<1>15. q.cash \in Nat
  BY <1>8 DEF Books
<1> HIDE DEF q, paid
<1>16. b = [q EXCEPT !.cash = q.cash - paid] /\ q.cash - paid \in Nat
  BY <1>12, <1>14, <1>15
<1>17. KeepsLoans(b, books) /\ SameButCash(b, q)
  BY <1>7, <1>16, CashEffect
<1> HIDE DEF b
<1>18. OnlyCash(b)
  BY <1>1, <1>6, <1>13, <1>17 DEF OnlyCash, q
<1> QED BY <1>18

\* A call that moves collateral in or out of an open loan.
LEMMA PledgedKeeps ==
    ASSUME NEW a, Good(a), NEW id \in LoanIds, now \in Nat, a.lender.updatedTimestamp <= now,
           a.loans[id].active, SoundLoan(a.loans[id], a.twice),
           NEW n \in Int, NEW q, Moved(q, a, "collateral", n),
           NEW b, Pledged(b, q, id, a.loans[id].collateral + n)
    PROVE  Keeps(b, a, id) /\ SoundLoan(b.loans[id], b.twice)
<1>1. Good(b) /\ OnlyLoan(b, a, id) /\ b.lender = a.lender /\ b.twice = a.twice
  BY DEF Pledged, Moved, TokensOnly, OnlyLoan
<1>2. /\ b.loans[id].kind = a.loans[id].kind
      /\ b.loans[id].active = a.loans[id].active
      /\ b.loans[id].principal = a.loans[id].principal
      /\ b.loans[id].owedPerDay = a.loans[id].owedPerDay
      /\ b.loans[id].collateral = a.loans[id].collateral + n
  BY DEF Pledged, Moved, TokensOnly
<1>3. Free(b, "collateral") = Free(a, "collateral") + n /\ Free(b, "loan") = Free(a, "loan")
  BY DEF Pledged, Moved, Free, Tokens
<1>4. Spare(b) = Spare(a)
  BY <1>1, <1>3 DEF Spare
<1>5. Spare(b) <= Spare(a)
  BY <1>4, NumbersOf
<1>6. Free(b, "collateral") - b.loans[id].collateral
          = Free(a, "collateral") - a.loans[id].collateral
  <2>1. Free(a, "collateral") \in Int /\ a.loans[id].collateral \in Int
    BY NumbersOf
  <2>2. \A u, v \in Int : (u + n) - (v + n) = u - v
    OBVIOUS
  <2> QED BY <1>2, <1>3, <2>1, <2>2
<1>7. b.loans[id].principal - b.lender.principalTotal
          >= a.loans[id].principal - a.lender.principalTotal
  BY <1>1, <1>2, NumbersOf
<1>8. Keeps(b, a, id)
  BY <1>1, <1>2, <1>5, <1>6, <1>7 DEF Keeps
<1>9. SoundLoan(b.loans[id], b.twice)
  BY <1>1, <1>2 DEF SoundLoan
<1> QED BY <1>8, <1>9

\* Such a call, by way of books q.
MovesCollateral(b, q, id, n) ==
    /\ books.loans[id].active /\ Call(b) /\ balances' = balances /\ rounded' = rounded
    /\ n \in Int
    /\ Moved(q, books, "collateral", n)
    /\ Pledged(b, q, id, books.loans[id].collateral + n)

LEMMA MovedCollateralKeeps ==
    ASSUME LoanInv, NEW id \in LoanIds, NEW b, NEW q, NEW n, MovesCollateral(b, q, id, n)
    PROVE  LoanInv'
<1>1. Good(books) /\ now \in Nat /\ books.lender.updatedTimestamp <= now
      /\ SoundLoan(books.loans[id], books.twice)
  BY StateFacts
<1>2. Keeps(b, books, id) /\ SoundLoan(b.loans[id], b.twice)
  BY <1>1, PledgedKeeps DEF MovesCollateral
<1> QED BY <1>2, LoanCallKeeps DEF MovesCollateral

LEMMA DepositCollateralMoves ==
    ASSUME LoanInv, NEW id \in LoanIds, NEW n \in Nat, DepositCollateral(id, n)
    PROVE  \E b, q, m : MovesCollateral(b, q, id, m)
<1> DEFINE q == VaultDeposit(books, "collateral", n)
           b == [q EXCEPT !.loans[id].collateral = @ + n]
<1>1. books.loans[id].active /\ Call(b) /\ balances' = balances /\ rounded' = rounded
  BY DEF DepositCollateral, poolVars
<1>2. Good(books) /\ now \in Nat /\ books.lender.updatedTimestamp <= now
      /\ SoundLoan(books.loans[id], books.twice)
  BY StateFacts
<1>3. Moved(q, books, "collateral", n)
  BY <1>2, DepositEffect DEF Tokens
<1>4. Good(q) /\ q.loans = books.loans
  BY <1>3 DEF Moved, TokensOnly
<1>5. b = WithCollateral(q, id, books.loans[id].collateral + n)
  BY <1>4 DEF WithCollateral
<1>6. books.loans[id].collateral + n \in Nat
  BY <1>2, NumbersOf
<1> HIDE DEF q, b
<1>7. Pledged(b, q, id, books.loans[id].collateral + n)
  BY <1>4, <1>5, <1>6, CollateralEffect
<1>8. MovesCollateral(b, q, id, n)
  BY <1>1, <1>3, <1>7 DEF MovesCollateral
<1> QED BY <1>8

LEMMA DrawdownNat ==
    ASSUME NEW x \in Loans, NEW m \in Nat, price \in Nat \ {0}
    PROVE  MaxDrawdown(x.principal, x.collateral, m, price) \in 0..x.collateral
<1> DEFINE needed == ToCollateral(x.principal, price)
           margin == Percent(needed, m)
<1>1. x.principal \in Nat /\ x.collateral \in Nat /\ PRECISION \in Nat
  BY LoanAssumption DEF Loans
<1>2. needed \in Nat
  BY <1>1, MulDivNat DEF ToCollateral
<1>3. margin \in Nat
  <2> HIDE DEF needed
  <2> QED BY <1>2, PercentNat
<1> HIDE DEF needed, margin
<1>4. \A u, v, w \in Nat : Max2(0, u - (v + w)) \in 0..u
  BY DEF Max2
<1>5. Max2(0, x.collateral - (needed + margin)) \in 0..x.collateral
  BY <1>1, <1>2, <1>3, <1>4
<1> QED BY <1>5 DEF MaxDrawdown, needed, margin

LEMMA WithdrawCollateralMoves ==
    ASSUME LoanInv, NEW id \in LoanIds, NEW m \in Nat, WithdrawCollateral(id, m)
    PROVE  \E b, q, k : MovesCollateral(b, q, id, k)
<1> DEFINE x == books.loans[id]
           d == MaxDrawdown(x.principal, x.collateral, maintenanceMargin, price)
           n == Min2(m, d)
           q == VaultWithdraw(books, "collateral", n)
           b == [q EXCEPT !.loans[id].collateral = @ - n]
<1>1. x.active /\ Call(b) /\ balances' = balances /\ rounded' = rounded
  BY DEF WithdrawCollateral, poolVars
<1>2. Good(books) /\ Shaped(books) /\ now \in Nat /\ books.lender.updatedTimestamp <= now
      /\ SoundLoan(x, books.twice) /\ price \in Nat \ {0}
  BY StateFacts
<1>3. x \in Loans /\ x.collateral \in Nat
  BY <1>2, NumbersOf
<1>4. d \in 0..x.collateral
  BY <1>2, <1>3, DrawdownNat, LoanAssumption
<1>5. n \in 0..x.collateral
  <2> HIDE DEF d, x
  <2> QED BY <1>3, <1>4 DEF Min2
<1> HIDE DEF n
<1>6. b = WithCollateral(q, id, q.loans[id].collateral - n)
  BY DEF WithCollateral
<1>7. Follows(q, books)
  BY <1>2, WithdrawShape
<1>8. q.ok
  <2>1. Follows(WithCollateral(q, id, q.loans[id].collateral - n), q)
    BY <1>7, CollateralShape DEF Follows
  <2> HIDE DEF q, b
  <2> QED BY <1>1, <1>6, <2>1 DEF Follows, Call
<1>9. Moved(q, books, "collateral", -n)
  BY <1>2, <1>5, <1>8, WithdrawEffect DEF Tokens
<1>10. Good(q) /\ q.loans = books.loans
  BY <1>9 DEF Moved, TokensOnly
<1>11. b = WithCollateral(q, id, x.collateral + (-n)) /\ x.collateral + (-n) \in Nat
       /\ -n \in Int
  BY <1>3, <1>5, <1>6, <1>10
<1> HIDE DEF q, b
<1>12. Pledged(b, q, id, x.collateral + (-n))
  BY <1>10, <1>11, CollateralEffect
<1>13. MovesCollateral(b, q, id, -n)
  BY <1>1, <1>9, <1>11, <1>12 DEF MovesCollateral
<1> QED BY <1>13

\* Fees leave, and nothing else.
FeesLeave(b) ==
    /\ Call(b)
    /\ balances' \in [Suppliers -> Nat]
    /\ rounded' = rounded
    /\ KeepsLoans(b, books)
    /\ b.lender = books.lender
    /\ Free(b, "loan") = Free(books, "loan")

LEMMA FeesLeaveKeeps == ASSUME LoanInv, NEW b, FeesLeave(b) PROVE LoanInv'
BY PoolCallKeeps DEF FeesLeave

LEMMA WithdrawFeesIs ==
    ASSUME LoanInv, NEW token \in Tokens, WithdrawFees(token)
    PROVE  \E b : FeesLeave(b)
<1> DEFINE n == books.fees[token]
           q == VaultWithdraw(books, token, n)
           b == [q EXCEPT !.fees[token] = 0]
<1>1. Call(b) /\ balances' = balances /\ rounded' = rounded
  BY DEF WithdrawFees, FeesHeld, poolVars
<1>2. Good(books) /\ Shaped(books) /\ now \in Nat /\ books.lender.updatedTimestamp <= now
      /\ balances \in [Suppliers -> Nat]
  BY StateFacts
<1>3. n \in Nat
  BY <1>2 DEF Good, Books
<1>4. Shaped(q)
  BY <1>2, WithdrawShape DEF Follows
<1>5. q.ok
  <2>1. b.ok
    BY <1>1 DEF Call
  <2> HIDE DEF q
  <2> QED BY <1>4, <2>1 DEF Shaped
<1>6. q = [books EXCEPT !.held[token] = books.held[token] - n] /\ n <= books.held[token]
  <2> DEFINE g == n <= books.held[token]
             f == Require(books, g)
  <2>1. q = [f EXCEPT !.held[token] = @ - n]
    BY DEF VaultWithdraw
  <2>2. Shaped(f)
    BY <1>2, RequireShape DEF Follows
  <2>3. f.ok
    <3> HIDE DEF f, q
    <3> QED BY <1>5, <2>1, <2>2 DEF Shaped
  <2>4. \A h \in BOOLEAN : Require(books, h).ok => h /\ Require(books, h) = books
    BY <1>2, RequireEffect DEF Good
  <2>5. g \in BOOLEAN
    OBVIOUS
  <2> HIDE DEF g
  <2>6. g /\ f = books
    BY <2>3, <2>4, <2>5
  <2> QED BY <2>1, <2>6 DEF g
<1>7. b \in Books /\ b.ok /\ b.loans = books.loans /\ b.lender = books.lender
      /\ b.twice = books.twice
  <2> DEFINE h == [books.held EXCEPT ![token] = books.held[token] - n]
             f == [books.fees EXCEPT ![token] = 0]
             k == [books EXCEPT !.held = h]
  <2>1. books \in Books /\ books.ok /\ books.held \in [Tokens -> Nat]
        /\ books.fees \in [Tokens -> Nat]
    BY <1>2 DEF Good, Books
  <2>2. h \in [Tokens -> Nat] /\ f \in [Tokens -> Nat]
    <3>1. books.held[token] - n \in Nat
      BY <1>3, <1>6, <2>1
    <3> HIDE DEF n
    <3> QED BY <2>1, <3>1
  <2>3. q = k
    BY <1>6, <2>1
  <2>4. k.fees = books.fees
    BY <2>1 DEF Books
  <2>5. b = [k EXCEPT !.fees = f]
    <3> HIDE DEF q, k
    <3> QED BY <2>3, <2>4
  <2> HIDE DEF h, f, b
  <2> QED BY <2>1, <2>2, <2>5 DEF Books
<1>8. \A t \in Tokens : Free(b, t) = Free(books, t)
  <2> TAKE t \in Tokens
  <2>1. books.held[t] \in Nat /\ books.fees[t] \in Nat /\ DOMAIN books.held = Tokens
        /\ DOMAIN books.fees = Tokens
    BY <1>2 DEF Good, Books
  <2>2. /\ b.held = [books.held EXCEPT ![token] = books.held[token] - n]
        /\ b.fees = [books.fees EXCEPT ![token] = 0]
    BY <1>2, <1>6 DEF Good, Books
  <2>3. CASE t = token
    BY <2>1, <2>2, <2>3 DEF Free
  <2>4. CASE t # token
    BY <2>1, <2>2, <2>4 DEF Free
  <2> QED BY <2>3, <2>4
<1>9. Free(b, "collateral") = Free(books, "collateral") /\ Free(b, "loan") = Free(books, "loan")
  BY <1>8 DEF Tokens
<1>10. Spare(b) = Spare(books) /\ Spare(books) \in Int
  <2>1. Free(books, "loan") \in Int /\ books.lender.owedTotal \in Int
    BY <1>2, FreeIsInt DEF Good, Books, Lenders, Tokens
  <2> QED BY <1>7, <1>9, <2>1 DEF Spare
<1>11. KeepsLoans(b, books)
  BY <1>2, <1>7, <1>9, <1>10 DEF KeepsLoans, Good
<1> HIDE DEF b
<1>12. FeesLeave(b)
  BY <1>1, <1>2, <1>7, <1>9, <1>11 DEF FeesLeave
<1> QED BY <1>12

LEMMA CloseWithSwapKeeps ==
    ASSUME LoanInv, NEW id \in LoanIds, NEW n \in Nat, NEW c \in BOOLEAN, NEW e \in Nat,
           CloseWithSwap(id, n, c, e)
    PROVE  LoanInv'
<1> DEFINE r == ClosedWithSwap(books, id, n, c, e)
<1>1. books.loans[id].active /\ Call(r) /\ balances' = balances
  BY DEF CloseWithSwap, poolVars
<1>2. Good(books) /\ now \in Nat /\ books.lender.updatedTimestamp <= now
      /\ price \in Nat \ {0} /\ SoundLoan(books.loans[id], books.twice)
  BY StateFacts
<1>3. r.ok
  BY <1>1 DEF Call
<1>4. Keeps(r, books, id) /\ SoundLoan(r.loans[id], r.twice)
  BY <1>1, <1>2, <1>3, ClosedWithSwapEffect
<1> HIDE DEF r
<1> QED BY <1>1, <1>4, LoanCallKeeps

\* Closings without a swap: s has the interest settled, p the tokens moved, w
\* the collateral taken from the loan, r the principal.
LEMMA ClosedKeeps ==
    ASSUME NEW a, Good(a), NEW id \in LoanIds, now \in Nat,
           a.loans[id].active, SoundLoan(a.loans[id], a.twice),
           NEW close \in Nat, NEW n \in 0..a.loans[id].collateral,
           close >= a.loans[id].principal => n = a.loans[id].collateral,
           NEW s, Settles(s, a, id, close, now),
           NEW p, Good(p), TokensOnly(p, s), Spare(p) <= Spare(a),
           Free(p, "collateral") = Free(a, "collateral") - n,
           NEW w, Pledged(w, p, id, a.loans[id].collateral - n),
           NEW r, Closes(r, w, id, close)
    PROVE  Keeps(r, a, id) /\ SoundLoan(r.loans[id], r.twice)
<1> DEFINE x == a.loans[id]
           y == r.loans[id]
<1>1. Good(r) /\ OnlyLoan(r, a, id) /\ r.twice = a.twice
  BY DEF Closes, Pledged, Settles, TokensOnly, OnlyLoan
<1>2. /\ r.lender = s.lender
      /\ r.lender.updatedTimestamp = now
      /\ r.lender.principalTotal = a.lender.principalTotal - close
  BY DEF Closes, Pledged, Settles, TokensOnly
<1>3. /\ y.kind = x.kind
      /\ y.owedPerDay = s.loans[id].owedPerDay
      /\ y.depositTotal = s.loans[id].depositTotal
      /\ y.principal = x.principal - close
      /\ y.collateral = x.collateral - n
      /\ y.active = IF close < x.principal THEN TRUE ELSE FALSE
      /\ close \in 1..x.principal
  BY DEF Closes, Pledged, Settles, TokensOnly, SameLoan
<1>4. y.owedPerDay - r.lender.owedPerDay = x.owedPerDay - a.lender.owedPerDay
  BY <1>2, <1>3 DEF Settles
<1>5. Free(r, "collateral") = Free(a, "collateral") - n /\ Spare(r) <= Spare(a)
  <2>1. Free(r, "collateral") = Free(p, "collateral") /\ Spare(r) = Spare(p)
    BY DEF Closes, Pledged, Free, Spare
  <2> QED BY <2>1
<1>6. /\ x.principal \in Nat /\ x.collateral \in Nat /\ a.lender.principalTotal \in Nat
      /\ Free(a, "collateral") \in Int
  BY NumbersOf
<1>7. y.principal - r.lender.principalTotal = x.principal - a.lender.principalTotal
  BY <1>2, <1>3, <1>6
<1>8. Free(r, "collateral") - y.collateral = Free(a, "collateral") - x.collateral
  BY <1>3, <1>5, <1>6
<1>9. x.principal - a.lender.principalTotal >= x.principal - a.lender.principalTotal
  BY <1>6
<1>10. now <= now
  OBVIOUS
<1>11. Keeps(r, a, id)
  BY <1>1, <1>2, <1>4, <1>5, <1>7, <1>8, <1>9, <1>10 DEF Keeps
<1>12. CASE close < x.principal
  <2>1. y.active = TRUE /\ y.principal > 0
    BY <1>3, <1>6, <1>12
  <2> QED BY <1>3, <1>11, <2>1 DEF SoundLoan
<1>13. CASE ~(close < x.principal)
  <2>1. close = x.principal /\ n = x.collateral /\ y.active = FALSE
    BY <1>3, <1>6, <1>13
  <2>2. y.owedPerDay = 0 /\ y.depositTotal = 0
    <3>1. close >= x.principal
      BY <1>6, <2>1
    <3> QED BY <1>3, <3>1 DEF Settles
  <2>3. y.principal = 0 /\ y.collateral = 0
    BY <1>3, <1>6, <2>1
  <2> QED BY <1>11, <2>1, <2>2, <2>3 DEF SoundLoan
<1> QED BY <1>12, <1>13

\* A call of that kind: d has m loan tokens more, which have left again with p.
Repays(r, id, close, v, m, d, s, p, w) ==
    LET x == books.loans[id]
    IN  /\ x.active /\ Call(r) /\ balances' = balances /\ rounded' = rounded
        /\ close \in Nat /\ v \in 0..x.collateral
        /\ close >= x.principal => v = x.collateral
        /\ m \in Nat /\ Moved(d, books, "loan", m)
        /\ s = SettleInterestToPrincipal(d, id, close, now).books
        /\ Settles(s, books, id, close, now)
        /\ Good(p) /\ TokensOnly(p, s) /\ Spare(p) <= Spare(books)
        /\ Free(p, "loan") = Free(s, "loan") - m
        /\ Free(p, "collateral") = Free(books, "collateral") - v
        /\ Pledged(w, p, id, x.collateral - v)
        /\ Closes(r, w, id, close)

LEMMA RepaidKeeps ==
    ASSUME LoanInv, NEW id \in LoanIds,
           NEW r, NEW close, NEW v, NEW m, NEW d, NEW s, NEW p, NEW w,
           Repays(r, id, close, v, m, d, s, p, w)
    PROVE  LoanInv'
<1> DEFINE x == books.loans[id]
<1>1. Good(books) /\ now \in Nat /\ SoundLoan(x, books.twice)
  BY StateFacts
<1>2. /\ x.active /\ Call(r) /\ balances' = balances
      /\ close \in Nat /\ v \in 0..x.collateral
      /\ (close >= x.principal => v = x.collateral)
      /\ Settles(s, books, id, close, now)
  BY DEF Repays
<1>3. /\ Good(p) /\ TokensOnly(p, s) /\ Spare(p) <= Spare(books)
      /\ Free(p, "collateral") = Free(books, "collateral") - v
      /\ Pledged(w, p, id, x.collateral - v)
      /\ Closes(r, w, id, close)
  BY DEF Repays
<1>4. Keeps(r, books, id) /\ SoundLoan(r.loans[id], r.twice)
  BY <1>1, <1>2, <1>3, ClosedKeeps
<1> QED BY <1>2, <1>4, LoanCallKeeps

\* Collateral in the proportion of what is closed; all of it with all of it.
LEMMA InProportion ==
    ASSUME NEW c \in Nat, NEW n \in Nat, NEW p \in Nat \ {0}, n <= p
    PROVE  MulDiv(c, n, p) \in 0..c /\ (n = p => MulDiv(c, n, p) = c)
<1>1. MulDiv(c, n, p) \in Nat /\ MulDiv(c, n, p) <= c
  BY MulDivNat
<1>2. (c * p) \div p = c
  <2>1. \A u \in Nat : u \div p \in Nat /\ p * (u \div p) <= u /\ u < p * (u \div p) + p
    OBVIOUS
  <2> DEFINE q == (c * p) \div p
  <2>2. c * p \in Nat
    OBVIOUS
  <2>3. q \in Nat /\ p * q <= c * p /\ c * p < p * q + p
    BY <2>1, <2>2
  <2> HIDE DEF q
  <2>4. ~(q >= c + 1)
    <3>1. q >= c + 1 => p * q >= p * (c + 1)
      BY <2>3
    <3>2. p * (c + 1) = c * p + p
      OBVIOUS
    <3> QED BY <2>2, <2>3, <3>1, <3>2
  <2>5. ~(q + 1 <= c)
    <3>1. q + 1 <= c => p * (q + 1) <= p * c
      BY <2>3
    <3>2. p * (q + 1) = p * q + p /\ p * c = c * p
      BY <2>3
    <3> QED BY <2>2, <2>3, <3>1, <3>2
  <2> QED BY <2>3, <2>4, <2>5 DEF q
<1> QED BY <1>1, <1>2 DEF MulDiv

LEMMA CloseWithDepositRepays ==
    ASSUME LoanInv, NEW id \in LoanIds, NEW n \in Nat, CloseWithDeposit(id, n)
    PROVE  \E r, close, v, m, d, s, p, w : Repays(r, id, close, v, m, d, s, p, w)
<1> DEFINE x == books.loans[id]
           close == Min2(n, x.principal)
           settled == SettleInterestToPrincipal(books, id, close, now)
           s == settled.books
           l == settled.lessInterest
           t == [s EXCEPT !.cash = @ + l]
           v == MulDiv(x.collateral, close, x.principal)
           p == VaultWithdraw(t, "collateral", v)
           w == [p EXCEPT !.loans[id].collateral = @ - v]
           r == CloseLoan(w, id, close)
<1>1. x.active /\ Call(r) /\ balances' = balances /\ rounded' = rounded
  BY DEF CloseWithDeposit, poolVars
<1>2. Good(books) /\ Shaped(books) /\ now \in Nat /\ books.lender.updatedTimestamp <= now
      /\ SoundLoan(x, books.twice)
  BY StateFacts
<1>3. x \in Loans /\ x.collateral \in Nat /\ x.principal \in Nat \ {0}
  <2>1. x.principal > 0
    BY <1>1, <1>2 DEF SoundLoan
  <2> QED BY <1>2, <2>1, NumbersOf
<1>4. close \in Nat /\ close <= x.principal
  <2> HIDE DEF x
  <2> QED BY <1>3 DEF Min2
<1>5. v \in 0..x.collateral /\ (close = x.principal => v = x.collateral)
  <2> HIDE DEF close, x
  <2> QED BY <1>3, <1>4, InProportion
<1> HIDE DEF v, close
<1>6. Follows(s, books)
  BY <1>2, ToPrincipalShape
<1>7. Follows(t, s)
  <2> HIDE DEF s, l
  <2> QED BY <1>6 DEF Follows, Shaped
<1>8. Follows(p, t)
  <2> HIDE DEF t
  <2> QED BY <1>7, WithdrawShape DEF Follows
<1>9. w = WithCollateral(p, id, p.loans[id].collateral - v)
  BY DEF WithCollateral
<1>10. Follows(w, p)
  <2> HIDE DEF p, w
  <2> QED BY <1>8, <1>9, CollateralShape DEF Follows
<1>11. Follows(r, w)
  <2> HIDE DEF w
  <2> QED BY <1>10, CloseShape DEF Follows
<1>12. r.ok /\ w.ok /\ p.ok /\ t.ok /\ s.ok
  <2>1. r.ok
    BY <1>1 DEF Call
  <2> HIDE DEF r, w, p, t, s
  <2> QED BY <1>7, <1>8, <1>10, <1>11, <2>1 DEF Follows
<1>13. Settles(s, books, id, close, now) /\ Spare(s) <= Spare(books) /\ l \in Nat
  BY <1>2, <1>4, <1>12, ToPrincipalEffect
<1> HIDE DEF s, l
<1>14. SameButCash(t, s)
  <2>1. s \in Books /\ s.ok
    BY <1>13 DEF Settles, Good
  <2>2. s.cash + l \in Nat
    BY <1>13, <2>1 DEF Books
  <2>3. t = [s EXCEPT !.cash = s.cash + l]
    BY <2>1
  <2> DEFINE m == s.cash + l
  <2> HIDE DEF m
  <2>4. \A k \in Nat : SameButCash([s EXCEPT !.cash = k], s)
    BY <2>1 DEF SameButCash, TokensOnly, Good, Books
  <2> QED BY <2>2, <2>3, <2>4
<1> HIDE DEF t
<1>15. Moved(p, t, "collateral", -v)
  <2>1. Good(t) /\ v \in Nat
    BY <1>5, <1>14 DEF SameButCash
  <2> QED BY <1>12, <2>1, WithdrawEffect DEF Tokens
<1> HIDE DEF p
<1>16. Good(p) /\ TokensOnly(p, s)
  BY <1>14, <1>15 DEF Moved, SameButCash, TokensOnly
<1>17. Free(p, "collateral") = Free(books, "collateral") - v /\ Spare(p) <= Spare(books)
  <2>1. Free(t, "collateral") = Free(books, "collateral") /\ Spare(t) = Spare(s)
    BY <1>13, <1>14 DEF SameButCash, TokensOnly, Settles, Free, Spare
  <2>2. Free(p, "collateral") = Free(t, "collateral") + (-v) /\ Free(p, "loan") = Free(t, "loan")
    BY <1>15 DEF Moved, Tokens
  <2>3. Spare(p) = Spare(t)
    BY <1>15, <2>2 DEF Moved, TokensOnly, Spare
  <2>4. Free(books, "collateral") \in Int /\ v \in Int
    BY <1>2, <1>5, NumbersOf
  <2> QED BY <1>13, <2>1, <2>2, <2>3, <2>4
<1>18. p.loans[id].collateral = x.collateral
  BY <1>13, <1>16 DEF Settles, TokensOnly, SameLoan
<1>19. Pledged(w, p, id, x.collateral - v)
  <2>1. x.collateral - v \in Nat
    BY <1>3, <1>5
  <2> QED BY <1>9, <1>16, <1>18, <2>1, CollateralEffect
<1> HIDE DEF w
<1>20. Closes(r, w, id, close)
  BY <1>2, <1>4, <1>12, <1>19, CloseEffect DEF Pledged
<1> HIDE DEF r
<1>21. close >= x.principal => v = x.collateral
  BY <1>3, <1>4, <1>5
<1>22. Moved(books, books, "loan", 0)
  BY <1>2, FreeIsInt DEF Moved, TokensOnly, Good, Tokens
<1>23. Free(p, "loan") = Free(s, "loan") - 0
  <2>1. Free(p, "loan") = Free(t, "loan") /\ Free(t, "loan") = Free(s, "loan")
    BY <1>14, <1>15 DEF Moved, SameButCash, Tokens, Free
  <2>2. Free(s, "loan") \in Int
    BY <1>13, FreeIsInt DEF Settles, Good, Tokens
  <2> QED BY <2>1, <2>2
<1>24. s = SettleInterestToPrincipal(books, id, close, now).books
  BY DEF s
<1>25. Repays(r, id, close, v, 0, books, s, p, w)
  BY <1>1, <1>4, <1>5, <1>13, <1>16, <1>17, <1>19, <1>20, <1>21, <1>22, <1>23, <1>24
     DEF Repays
<1> QED BY <1>25

\* What is liquidated is the whole loan, or less: then some of it stays.
LEMMA BelowQuotient ==
    ASSUME NEW u \in Int, NEW c \in Nat \ {0}, NEW n \in Nat, u < n * c
    PROVE  u \div c < n
<1> DEFINE q == u \div c
<1>1. q \in Int /\ c * q <= u
  OBVIOUS
<1> HIDE DEF q
<1>2. q >= n => c * q >= c * n
  BY <1>1
<1>3. c * n = n * c /\ n * c \in Nat /\ c * q \in Int
  BY <1>1
<1> QED BY <1>1, <1>2, <1>3 DEF q

LEMMA LiquidationIs ==
    ASSUME NEW x \in Loans, x.principal > 0, price \in Nat \ {0},
           NEW margin, margin = CurrentMargin(x.principal, x.collateral, price),
           LiquidationAmounts(x, margin, price).liquidatable > 0
    PROVE  LET max == LiquidationAmounts(x, margin, price)
           IN  /\ max.liquidatable \in 1..x.principal
               /\ max.seizable \in 0..x.collateral
               /\ max.liquidatable = x.principal => max.seizable = x.collateral
<1> DEFINE max == LiquidationAmounts(x, margin, price)
           desired == maintenanceMargin + liquidationSurplus
           incentive == liquidationIncentivePercent
           worth == ToLoan(x.collateral, price)
           missing == Percent(x.principal, desired + 100) - worth
           part == MulDiv(missing, 100, desired - incentive)
           liquidatable == Min2(x.principal, part)
           value == MulDiv(liquidatable * (incentive + 100), PRECISION, price)
           seizable == Min2(x.collateral, value \div 100)
<1>1. /\ x.principal \in Nat \ {0} /\ x.collateral \in Nat
      /\ {maintenanceMargin, liquidationSurplus, incentive} \subseteq Nat
      /\ incentive < desired /\ PRECISION \in Nat \ {0}
  BY LoanAssumption DEF Loans
<1>2. CASE margin <= incentive
  <2>1. max = [liquidatable |-> x.principal, seizable |-> x.collateral]
    BY <1>2 DEF LiquidationAmounts
  <2> QED BY <1>1, <2>1
<1>3. CASE ~(margin <= incentive)
  <2>1. max = [liquidatable |-> liquidatable, seizable |-> seizable]
    BY <1>3 DEF LiquidationAmounts
  <2>2. worth \in Nat
    BY <1>1, MulDivNat DEF ToLoan
  <2> HIDE DEF worth
  <2>3. (worth - x.principal) * 100 >= (incentive + 1) * x.principal
    <3>1. x.principal # 0 /\ worth >= x.principal =>
            margin = ((worth - x.principal) * 100) \div x.principal
      BY DEF CurrentMargin, MulDiv, worth
    <3>2. ~(x.principal # 0 /\ worth >= x.principal) => margin = 0
      BY DEF CurrentMargin, worth
    <3>3. margin = ((worth - x.principal) * 100) \div x.principal
      BY <1>1, <1>3, <3>1, <3>2
    <3> DEFINE u == (worth - x.principal) * 100
    <3>4. u \in Int
      BY <1>1, <2>2
    <3> HIDE DEF u
    <3>5. \A m \in Nat \ {0}, k \in Int : k \div m \in Int /\ m * (k \div m) <= k
      OBVIOUS
    <3>6. margin \in Int /\ x.principal * margin <= u
      BY <1>1, <3>3, <3>4, <3>5 DEF u
    <3>7. margin >= incentive + 1
      BY <1>1, <1>3, <3>6
    <3>8. \A m \in Nat, h, k \in Int : h >= k => m * h >= k * m /\ m * h \in Int /\ k * m \in Int
      OBVIOUS
    <3>9. x.principal * margin >= (incentive + 1) * x.principal
          /\ x.principal * margin \in Int /\ (incentive + 1) * x.principal \in Int
      BY <1>1, <3>6, <3>7, <3>8
    <3>10. u >= (incentive + 1) * x.principal
      BY <3>4, <3>6, <3>9
    <3> QED BY <3>10 DEF u
  <2>4. Percent(x.principal, desired + 100) \in Nat
        /\ 100 * Percent(x.principal, desired + 100) <= x.principal * (desired + 100)
    <3> DEFINE k == x.principal * (desired + 100)
    <3>1. k \in Nat
      BY <1>1
    <3>2. Percent(x.principal, desired + 100) = k \div 100
      BY DEF Percent, MulDiv
    <3> HIDE DEF k
    <3>3. k \div 100 \in Nat /\ 100 * (k \div 100) <= k
      BY <3>1
    <3> QED BY <3>2, <3>3 DEF k
  <2>5. missing \in Int /\ missing * 100 < x.principal * (desired - incentive)
    <3> DEFINE g == Percent(x.principal, desired + 100)
               a == x.principal * desired
               b == x.principal * incentive
    <3>1. a \in Int /\ b \in Int
      BY <1>1
    <3>2. /\ x.principal * (desired + 100) = a + x.principal * 100
          /\ (incentive + 1) * x.principal = b + x.principal
          /\ x.principal * (desired - incentive) = a - b
      <4>1. \A m, h, k \in Int : /\ m * (h + 100) = m * h + m * 100
                                 /\ (k + 1) * m = m * k + m
                                 /\ m * (h - k) = m * h - m * k
        OBVIOUS
      <4> QED BY <1>1, <4>1
    <3> HIDE DEF g, a, b
    <3>3. g \in Nat /\ 100 * g <= a + x.principal * 100
      BY <2>4, <3>2 DEF g
    <3>4. (worth - x.principal) * 100 >= b + x.principal
      BY <2>3, <3>2
    <3>5. (g - worth) * 100 < a - b
      BY <1>1, <2>2, <3>1, <3>3, <3>4
    <3> QED BY <2>2, <3>2, <3>3, <3>5 DEF g
  <2> HIDE DEF missing
  <2>6. part \in Int /\ part < x.principal
    <3> DEFINE u == missing * 100
               c == desired - incentive
    <3>1. u \in Int /\ c \in Nat \ {0} /\ u < x.principal * c
      BY <1>1, <2>5
    <3>2. part = u \div c
      BY DEF MulDiv
    <3> HIDE DEF u, c, part
    <3>3. u \div c < x.principal
      BY <1>1, <3>1, BelowQuotient
    <3> QED BY <3>1, <3>2, <3>3
  <2> HIDE DEF part
  <2>7. liquidatable \in Nat /\ liquidatable < x.principal /\ liquidatable > 0
    BY <1>1, <2>1, <2>6 DEF Min2
  <2> HIDE DEF liquidatable
  <2>8. value \in Nat
    <3>1. liquidatable * (incentive + 100) \in Nat
      BY <1>1, <2>7
    <3> QED BY <1>1, <3>1, MulDivNat
  <2> HIDE DEF value
  <2>9. seizable \in 0..x.collateral
    <3>1. value \div 100 \in Nat
      BY <2>8
    <3> QED BY <1>1, <3>1 DEF Min2
  <2> HIDE DEF seizable
  <2> QED BY <1>1, <2>1, <2>7, <2>9
<1> QED BY <1>2, <1>3

LEMMA MovedSpare ==
    ASSUME NEW a, Good(a), NEW n \in Int, NEW b
    PROVE  /\ Moved(b, a, "loan", n) => /\ Spare(b) = Spare(a) + n
                                        /\ Free(b, "collateral") = Free(a, "collateral")
           /\ Moved(b, a, "collateral", n) => /\ Spare(b) = Spare(a)
                                              /\ Free(b, "collateral") = Free(a, "collateral") + n
<1>1. Free(a, "loan") \in Int /\ a.lender.owedTotal \in Int
  BY FreeIsInt DEF Good, Books, Lenders, Tokens
<1>2. \A u, v \in Int : (u + n) - v = (u - v) + n
  OBVIOUS
<1>3. ASSUME Moved(b, a, "loan", n)
      PROVE  Spare(b) = Spare(a) + n /\ Free(b, "collateral") = Free(a, "collateral")
  <2>1. Free(b, "loan") = Free(a, "loan") + n /\ b.lender = a.lender
        /\ Free(b, "collateral") = Free(a, "collateral")
    BY <1>3 DEF Moved, TokensOnly, Tokens
  <2> QED BY <1>1, <1>2, <2>1 DEF Spare
<1>4. ASSUME Moved(b, a, "collateral", n)
      PROVE  Spare(b) = Spare(a) /\ Free(b, "collateral") = Free(a, "collateral") + n
  BY <1>4 DEF Moved, TokensOnly, Tokens, Spare
<1> QED BY <1>3, <1>4

LEMMA LiquidatableInt ==
    ASSUME NEW x \in Loans, price \in Nat \ {0}, NEW margin
    PROVE  LiquidationAmounts(x, margin, price).liquidatable \in Int
<1> DEFINE desired == maintenanceMargin + liquidationSurplus
           worth == ToLoan(x.collateral, price)
           all == Percent(x.principal, desired + 100)
           part == MulDiv(all - worth, 100, desired - liquidationIncentivePercent)
<1>1. /\ x.principal \in Nat /\ x.collateral \in Nat
      /\ desired \in Nat /\ desired - liquidationIncentivePercent \in Nat \ {0}
      /\ PRECISION \in Nat \ {0}
  BY LoanAssumption DEF Loans
<1>2. LiquidationAmounts(x, margin, price).liquidatable \in {x.principal, Min2(x.principal, part)}
  BY DEF LiquidationAmounts
<1>3. worth \in Nat
  BY <1>1, MulDivNat DEF ToLoan
<1>4. all \in Nat
  <2>1. desired + 100 \in Nat
    BY <1>1
  <2> DEFINE m == desired + 100
  <2> HIDE DEF m
  <2>2. \A k \in Nat : Percent(x.principal, k) \in Nat
    BY <1>1, PercentNat
  <2> QED BY <2>1, <2>2
<1> HIDE DEF worth, all, desired
<1>5. (all - worth) * 100 \in Int
  BY <1>3, <1>4
<1>6. part \in Int
  <2>1. \A u \in Int, c \in Nat \ {0} : u \div c \in Int
    OBVIOUS
  <2> QED BY <1>1, <1>5, <2>1 DEF MulDiv, desired
<1> HIDE DEF part
<1> QED BY <1>1, <1>2, <1>6 DEF Min2

LEMMA LiquidateRepays ==
    ASSUME LoanInv, NEW id \in LoanIds, NEW n \in Nat \ {0}, Liquidate(id, n)
    PROVE  \E r, close, v, m, d, s, p, w : Repays(r, id, close, v, m, d, s, p, w)
<1> DEFINE x == books.loans[id]
           margin == CurrentMargin(x.principal, x.collateral, price)
           max == LiquidationAmounts(x, margin, price)
           all == n >= max.liquidatable \/ IsTiny(max.liquidatable - n)
           close == IF all THEN max.liquidatable ELSE n
           v == IF all THEN max.seizable ELSE MulDiv(max.seizable, n, max.liquidatable)
           d == VaultDeposit(books, "loan", close)
           settled == SettleInterestToPrincipal(d, id, close, now)
           s == settled.books
           l == settled.lessInterest
           f == VaultWithdraw(s, "loan", close - l)
           g == PayLender(f, l)
           p == VaultWithdraw(g, "collateral", v)
           w == [p EXCEPT !.loans[id].collateral = @ - v]
           r == CloseLoan(w, id, close)
<1>1. /\ x.active /\ close > 0 /\ Call(r)
      /\ balances' = balances /\ rounded' = rounded
  BY DEF Liquidate, poolVars
<1>2. Good(books) /\ Shaped(books) /\ now \in Nat /\ books.lender.updatedTimestamp <= now
      /\ SoundLoan(x, books.twice) /\ price \in Nat \ {0}
  BY StateFacts
<1>3. x \in Loans /\ x.collateral \in Nat /\ x.principal \in Nat \ {0} /\ x.principal > 0
  <2>1. x.principal > 0
    BY <1>1, <1>2 DEF SoundLoan
  <2> QED BY <1>2, <2>1, NumbersOf
<1>4. close \in 1..x.principal /\ v \in 0..x.collateral
      /\ (close >= x.principal => v = x.collateral)
  <2>1. max.liquidatable \in Int
    BY <1>2, <1>3, LiquidatableInt
  <2>2. max.liquidatable > 0
    <3> DEFINE m == max.liquidatable
               y == max.seizable
    <3>1. m \in Int /\ close = IF n >= m \/ IsTiny(m - n) THEN m ELSE n
      BY <2>1
    <3> HIDE DEF m
    <3>2. m > 0
      <4>0. close > 0 /\ n \in Nat \ {0}
        BY <1>1
      <4> DEFINE t == IsTiny(m - n)
      <4> HIDE DEF close, t
      <4>1. close = IF n >= m \/ t THEN m ELSE n
        BY <3>1 DEF t
      <4>2. CASE n >= m \/ t
        <5>1. close = m
          BY <4>1, <4>2
        <5> QED BY <4>0, <5>1
      <4>3. CASE ~(n >= m \/ t)
        BY <3>1, <4>0, <4>3
      <4> QED BY <4>2, <4>3
    <3> QED BY <3>2 DEF m
  <2>3. /\ max.liquidatable \in 1..x.principal
        /\ max.seizable \in 0..x.collateral
        /\ max.liquidatable = x.principal => max.seizable = x.collateral
    BY <1>2, <1>3, <2>2, LiquidationIs
  <2> HIDE DEF max
  <2>4. CASE all
    <3>1. close = max.liquidatable /\ v = max.seizable
      BY <2>4
    <3> QED BY <1>3, <2>3, <3>1
  <2>5. CASE ~all
    <3>1. close = n /\ v = MulDiv(max.seizable, n, max.liquidatable)
      BY <2>5
    <3>2. n < max.liquidatable
      BY <2>1, <2>5
    <3>3. MulDiv(max.seizable, n, max.liquidatable) \in 0..max.seizable
      <4>1. max.seizable \in Nat /\ max.liquidatable \in Nat \ {0} /\ n <= max.liquidatable
        BY <1>3, <2>3, <3>2
      <4>2. n \in Nat
        OBVIOUS
      <4> HIDE DEF x
      <4> QED BY <4>1, <4>2, InProportion
    <3> QED BY <1>3, <2>3, <3>1, <3>2, <3>3
  <2> QED BY <2>4, <2>5
<1> HIDE DEF v, close
<1>5. close \in Nat /\ v \in Nat
  BY <1>3, <1>4
<1>6. Moved(d, books, "loan", close)
  BY <1>2, <1>5, DepositEffect DEF Tokens
<1>7. Good(d) /\ Shaped(d) /\ d.loans = books.loans /\ d.lender = books.lender
      /\ d.twice = books.twice
  BY <1>6, GoodIsShaped DEF Moved, TokensOnly
<1> HIDE DEF d
<1>8. Follows(s, d)
  BY <1>7, ToPrincipalShape
<1>9. Follows(f, s)
  <2> HIDE DEF s, l
  <2> QED BY <1>8, WithdrawShape DEF Follows
<1>10. Follows(g, f)
  <2> HIDE DEF f, l
  <2> QED BY <1>9, PayLenderShape DEF Follows
<1>11. Follows(p, g)
  <2> HIDE DEF g
  <2> QED BY <1>10, WithdrawShape DEF Follows
<1>12. w = WithCollateral(p, id, p.loans[id].collateral - v)
  BY DEF WithCollateral
<1>13. Follows(w, p)
  <2> HIDE DEF p, w
  <2> QED BY <1>11, <1>12, CollateralShape DEF Follows
<1>14. Follows(r, w)
  <2> HIDE DEF w
  <2> QED BY <1>13, CloseShape DEF Follows
<1>15. r.ok /\ w.ok /\ p.ok /\ g.ok /\ f.ok /\ s.ok
  <2>1. r.ok
    BY <1>1 DEF Call
  <2> HIDE DEF r, w, p, g, f, s
  <2> QED BY <1>9, <1>10, <1>11, <1>13, <1>14, <2>1 DEF Follows
<1>16. Settles(s, d, id, close, now) /\ Spare(s) <= Spare(d) /\ l \in 0..close
  BY <1>2, <1>5, <1>7, <1>15, ToPrincipalEffect
<1> HIDE DEF s, l
<1>17. l \in Nat /\ close - l \in Nat
  BY <1>5, <1>16
<1>18. Moved(f, s, "loan", -(close - l))
  <2>1. Good(s)
    BY <1>16 DEF Settles
  <2> HIDE DEF f
  <2> QED BY <1>15, <1>17, <2>1, WithdrawEffect DEF Tokens, f
<1> HIDE DEF f
<1>19. Moved(g, f, "loan", -l)
  BY <1>15, <1>17, <1>18, PayLenderEffect DEF Moved
<1> HIDE DEF g
<1>20. Moved(p, g, "collateral", -v)
  <2>1. Good(g)
    BY <1>19 DEF Moved
  <2> QED BY <1>5, <1>15, <2>1, WithdrawEffect DEF Tokens
<1> HIDE DEF p
<1>21. Good(s) /\ Good(f) /\ Good(g) /\ Good(p) /\ TokensOnly(p, s)
  BY <1>16, <1>18, <1>19, <1>20 DEF Moved, TokensOnly, Settles
<1>22. Free(p, "collateral") = Free(books, "collateral") - v /\ Spare(p) <= Spare(books)
  <2>1. Spare(d) = Spare(books) + close /\ Free(d, "collateral") = Free(books, "collateral")
    BY <1>2, <1>5, <1>6, MovedSpare
  <2>2. Free(s, "collateral") = Free(d, "collateral")
    BY <1>16 DEF Settles
  <2>3. -(close - l) \in Int /\ -l \in Int /\ -v \in Int
    BY <1>5, <1>17
  <2>4. Spare(f) = Spare(s) + (-(close - l)) /\ Free(f, "collateral") = Free(s, "collateral")
    BY <1>18, <1>21, <2>3, MovedSpare
  <2>5. Spare(g) = Spare(f) + (-l) /\ Free(g, "collateral") = Free(f, "collateral")
    BY <1>19, <1>21, <2>3, MovedSpare
  <2>6. Spare(p) = Spare(g) /\ Free(p, "collateral") = Free(g, "collateral") + (-v)
    BY <1>20, <1>21, <2>3, MovedSpare
  <2>7. Spare(books) \in Int /\ Spare(s) \in Int /\ Free(books, "collateral") \in Int
    BY <1>2, <1>21, NumbersOf
  <2> QED BY <1>5, <1>16, <1>17, <2>1, <2>2, <2>4, <2>5, <2>6, <2>7
<1>23. Settles(s, books, id, close, now)
  <2>1. Free(d, "collateral") = Free(books, "collateral")
    BY <1>2, <1>5, <1>6, MovedSpare
  <2> QED BY <1>7, <1>16, <2>1 DEF Settles, OnlyLoan
<1>24. p.loans[id].collateral = x.collateral
  BY <1>21, <1>23 DEF Settles, TokensOnly, SameLoan
<1>25. Pledged(w, p, id, x.collateral - v)
  <2>1. x.collateral - v \in Nat
    BY <1>3, <1>4
  <2> QED BY <1>12, <1>21, <1>24, <2>1, CollateralEffect
<1> HIDE DEF w
<1>26. Closes(r, w, id, close)
  BY <1>2, <1>5, <1>15, <1>25, CloseEffect DEF Pledged
<1> HIDE DEF r
<1>27. Free(p, "loan") = Free(s, "loan") - close
  <2>1. Free(f, "loan") = Free(s, "loan") + (-(close - l))
    BY <1>18 DEF Moved
  <2>2. Free(g, "loan") = Free(f, "loan") + (-l)
    BY <1>19 DEF Moved
  <2>3. Free(p, "loan") = Free(g, "loan")
    BY <1>20 DEF Moved, Tokens
  <2>4. Free(s, "loan") \in Int
    BY <1>21, FreeIsInt DEF Good, Tokens
  <2> QED BY <1>5, <1>17, <2>1, <2>2, <2>3, <2>4
<1>28. s = SettleInterestToPrincipal(d, id, close, now).books
  BY DEF s
<1>29. close >= x.principal => v = x.collateral
  BY <1>4
<1>30. Repays(r, id, close, v, close, d, s, p, w)
  BY <1>1, <1>4, <1>5, <1>6, <1>21, <1>22, <1>23, <1>25, <1>26, <1>27, <1>28, <1>29
     DEF Repays
<1> QED BY <1>30

-----------------------------------------------------------------------------
(* Calls that change the terms of an open loan, step by step. *)

\* On the way from books a to books in which all holds again: n loan tokens
\* more than there were are neither a fee nor interest.
Underway(b, a, id, n) ==
    LET y == b.loans[id]
        x == a.loans[id]
    IN  /\ Good(b)
        /\ OnlyLoan(b, a, id)
        /\ b.twice = a.twice
        /\ b.lender.updatedTimestamp <= now
        /\ b.lender.principalTotal = a.lender.principalTotal
        /\ y.kind = x.kind
        /\ y.active = x.active
        /\ y.principal = x.principal
        /\ y.owedPerDay - b.lender.owedPerDay = x.owedPerDay - a.lender.owedPerDay
        /\ Free(b, "collateral") - y.collateral = Free(a, "collateral") - x.collateral
        /\ Spare(b) = Spare(a) + n

LEMMA UnderwayBegins ==
    ASSUME NEW a, Good(a), NEW id \in LoanIds, NEW b, now \in Nat, PaidUp(b, a, id)
    PROVE  Underway(b, a, id, 0)
<1>1. Spare(a) \in Int /\ now <= now
  BY NumbersOf
<1>2. Spare(b) = Spare(a) + 0
  BY <1>1 DEF PaidUp
<1> QED BY <1>1, <1>2 DEF PaidUp, Underway, SameLoan

LEMMA UnderwayPays ==
    ASSUME NEW a, Good(a), NEW id \in LoanIds, NEW b, NEW n \in Int, Underway(b, a, id, n),
           NEW m \in Int, NEW c, Moved(c, b, "loan", m)
    PROVE  Underway(c, a, id, n + m)
<1>1. Good(b)
  BY DEF Underway
<1>2. Spare(c) = Spare(b) + m /\ Free(c, "collateral") = Free(b, "collateral")
  BY <1>1, MovedSpare
<1>3. Spare(a) \in Int
  BY NumbersOf
<1>4. Spare(c) = Spare(a) + (n + m)
  BY <1>2, <1>3 DEF Underway
<1> QED BY <1>2, <1>4 DEF Underway, Moved, TokensOnly, OnlyLoan

\* The collateral of the loan follows the tokens.
LEMMA UnderwayPledges ==
    ASSUME NEW a, Good(a), NEW id \in LoanIds, NEW b, NEW n \in Int, Underway(b, a, id, n),
           NEW m \in Int, NEW k \in Int,
           NEW c, Good(c), TokensOnly(c, b), Spare(c) = Spare(b) + m,
           Free(c, "collateral") = Free(b, "collateral") + k,
           NEW d, Pledged(d, c, id, b.loans[id].collateral + k)
    PROVE  Underway(d, a, id, n + m)
<1>1. Good(d) /\ OnlyLoan(d, a, id) /\ d.lender = b.lender /\ d.twice = a.twice
  BY DEF Underway, Pledged, TokensOnly, OnlyLoan
<1>2. /\ d.loans[id].kind = a.loans[id].kind
      /\ d.loans[id].active = a.loans[id].active
      /\ d.loans[id].principal = a.loans[id].principal
      /\ d.loans[id].owedPerDay = b.loans[id].owedPerDay
      /\ d.loans[id].collateral = b.loans[id].collateral + k
  BY DEF Underway, Pledged, TokensOnly
<1>3. Spare(d) = Spare(c) /\ Free(d, "collateral") = Free(c, "collateral")
  BY DEF Pledged, Spare, Free
<1>4. Spare(a) \in Int /\ Free(b, "collateral") \in Int /\ b.loans[id].collateral \in Int
  BY NumbersOf DEF Underway
<1>5. Spare(d) = Spare(a) + (n + m)
  BY <1>3, <1>4 DEF Underway
<1>6. Free(d, "collateral") - d.loans[id].collateral
          = Free(a, "collateral") - a.loans[id].collateral
  <2>1. \A u, v \in Int : (u + k) - (v + k) = u - v
    OBVIOUS
  <2>2. Free(d, "collateral") - d.loans[id].collateral
          = Free(b, "collateral") - b.loans[id].collateral
    BY <1>2, <1>3, <1>4, <2>1
  <2> QED BY <2>2 DEF Underway
<1> QED BY <1>1, <1>2, <1>5, <1>6 DEF Underway

LEMMA UnderwayRenews ==
    ASSUME NEW a, Good(a), NEW id \in LoanIds, NEW b, NEW n \in Int, Underway(b, a, id, n),
           NEW perDay \in Nat, NEW ends, NEW m \in Int,
           NEW c, Renewed(c, b, id, perDay, ends, m)
    PROVE  Underway(c, a, id, n - m)
<1>1. Good(c) /\ OnlyLoan(c, a, id) /\ c.twice = a.twice
      /\ c.lender.updatedTimestamp <= now
      /\ c.lender.principalTotal = a.lender.principalTotal
      /\ c.loans[id].kind = a.loans[id].kind
      /\ c.loans[id].active = a.loans[id].active
      /\ c.loans[id].principal = a.loans[id].principal
      /\ c.loans[id].collateral = b.loans[id].collateral
  BY DEF Underway, Renewed, OnlyLoan
<1>2. /\ Spare(a) \in Int /\ Free(b, "loan") \in Int /\ b.lender.owedTotal \in Int
      /\ b.lender.owedPerDay \in Int /\ b.loans[id].owedPerDay \in Int
  BY NumbersOf DEF Underway
<1>3. Free(c, "loan") = Free(b, "loan") /\ Free(c, "collateral") = Free(b, "collateral")
  BY DEF Renewed, Free
<1>4. Spare(c) = Spare(a) + (n - m)
  <2>1. Spare(c) = Free(b, "loan") - (b.lender.owedTotal + m)
    BY <1>3 DEF Renewed, Spare
  <2>2. Free(b, "loan") - b.lender.owedTotal = Spare(a) + n
    BY DEF Underway, Spare
  <2> DEFINE f == Free(b, "loan")
             o == b.lender.owedTotal
             s == Spare(a)
  <2>3. f \in Int /\ o \in Int /\ s \in Int
    BY <1>2
  <2> HIDE DEF f, o, s
  <2>4. f - o = s + n
    BY <2>2 DEF f, o, s
  <2>5. f - (o + m) = s + (n - m)
    BY <2>3, <2>4
  <2> QED BY <2>1, <2>5 DEF f, o, s
<1>5. c.loans[id].owedPerDay - c.lender.owedPerDay
          = a.loans[id].owedPerDay - a.lender.owedPerDay
  <2>1. c.loans[id].owedPerDay - c.lender.owedPerDay
          = b.loans[id].owedPerDay - b.lender.owedPerDay
    BY <1>2 DEF Renewed
  <2> QED BY <2>1 DEF Underway
<1> QED BY <1>1, <1>3, <1>4, <1>5 DEF Underway

LEMMA UnderwayEnds ==
    ASSUME NEW a, Good(a), NEW id \in LoanIds, a.loans[id].active,
           SoundLoan(a.loans[id], a.twice), NEW b, Underway(b, a, id, 0)
    PROVE  Keeps(b, a, id) /\ SoundLoan(b.loans[id], b.twice)
<1>1. Spare(a) \in Int /\ a.loans[id].principal \in Int /\ a.lender.principalTotal \in Int
  BY NumbersOf
<1>2. Spare(b) <= Spare(a)
  BY <1>1 DEF Underway
<1>3. /\ b.loans[id].principal - b.lender.principalTotal
             = a.loans[id].principal - a.lender.principalTotal
      /\ b.loans[id].principal - b.lender.principalTotal
             >= a.loans[id].principal - a.lender.principalTotal
  BY <1>1 DEF Underway
<1>4. Keeps(b, a, id)
  BY <1>2, <1>3 DEF Underway, Keeps
<1>5. SoundLoan(b.loans[id], b.twice)
  BY DEF Underway, SoundLoan
<1> QED BY <1>4, <1>5

LEMMA BackInterestNat ==
    ASSUME NEW x \in Loans, now \in Nat PROVE BackInterest(x) \in Nat
<1>1. DAY \in Nat \ {0}
  BY LoanAssumption
<1>2. x.endTimestamp \in Nat /\ x.owedPerDay \in Nat
  BY DEF Loans
<1> DEFINE m == Max2(0, now - x.endTimestamp)
<1>3. m \in Nat
  BY <1>2 DEF Max2
<1> HIDE DEF m
<1>4. MulDiv(m, x.owedPerDay, DAY) \in Nat
  BY <1>1, <1>2, <1>3, MulDivNat
<1> QED BY <1>4 DEF BackInterest, m

\* A shorter term: interest is paid with p, the tokens are returned with f.
Reduces(r, id, n, ends, p, f) ==
    LET x == books.loans[id]
    IN  /\ x.active /\ x.owedPerDay # 0 /\ Call(r) /\ balances' = balances
        /\ rounded' = rounded + RoundedOff(n * DAY, x.owedPerDay)
        /\ ends = x.endTimestamp - MulDiv(n, DAY, x.owedPerDay)
        /\ ends \in Nat /\ ends - now > HOUR
        /\ PaidUp(p, books, id)
        /\ Moved(f, p, "loan", -n)
        /\ Renewed(r, f, id, x.owedPerDay, ends, -n)

LEMMA ReduceRenews ==
    ASSUME LoanInv, NEW id \in LoanIds, NEW n \in Nat, ReduceLoanDuration(id, n)
    PROVE  \E r, ends, p, f : Reduces(r, id, n, ends, p, f)
<1> DEFINE x == books.loans[id]
           paid == PaidFor(books, id)
           ends == x.endTimestamp - MulDiv(n, DAY, x.owedPerDay)
           f == VaultWithdraw(paid, "loan", n)
           cond == /\ ends - now > HOUR
                   /\ n <= x.depositTotal
                   /\ n <= paid.lender.owedTotal
           q == Require(f, cond)
           r == NewTerms(q, id, x.owedPerDay, ends, -n)
<1>1. /\ x.active /\ x.owedPerDay # 0 /\ Call(r) /\ balances' = balances
      /\ rounded' = rounded + RoundedOff(n * DAY, x.owedPerDay)
  BY DEF ReduceLoanDuration, PaidFor, poolVars
<1>2. Good(books) /\ Shaped(books) /\ now \in Nat /\ books.lender.updatedTimestamp <= now
      /\ SoundLoan(x, books.twice)
  BY StateFacts
<1>3. x.endTimestamp \in Nat /\ x.owedPerDay \in Nat \ {0} /\ x.depositTotal \in Nat
  BY <1>1, <1>2, NumbersOf
<1>4. Follows(paid, books)
  BY <1>2, PaidForShape
<1>5. Follows(f, paid)
  <2> HIDE DEF paid
  <2> QED BY <1>4, WithdrawShape DEF Follows
<1>6. Follows(q, f)
  <2> HIDE DEF f
  <2> QED BY <1>5, RequireShape DEF Follows
<1>7. Follows(r, q)
  <2> HIDE DEF q
  <2> QED BY <1>6, NewTermsShape DEF Follows
<1>8. r.ok /\ q.ok /\ f.ok /\ paid.ok
  <2>1. r.ok
    BY <1>1 DEF Call
  <2> HIDE DEF r, q, f, paid
  <2> QED BY <1>5, <1>6, <1>7, <2>1 DEF Follows
<1>9. PaidUp(paid, books, id)
  BY <1>2, <1>8, PaidForEffect
<1>10. Good(paid)
  BY <1>9 DEF PaidUp
<1>11. Moved(f, paid, "loan", -n)
  <2> HIDE DEF paid
  <2> QED BY <1>8, <1>10, WithdrawEffect DEF Tokens
<1>12. q = f /\ cond
  <2>1. f \in Books
    BY <1>11 DEF Moved, Good
  <2>2. \A g \in BOOLEAN : Require(f, g).ok => g /\ Require(f, g) = f
    <3> HIDE DEF f
    <3> QED BY <2>1, RequireEffect
  <2>3. cond \in BOOLEAN
    OBVIOUS
  <2> HIDE DEF cond, f
  <2> QED BY <1>8, <2>2, <2>3
<1>13. ends \in Nat /\ ends - now > HOUR
      /\ ends = x.endTimestamp - MulDiv(n, DAY, x.owedPerDay)
  <2>1. DAY \in Nat /\ HOUR \in Nat
    BY LoanAssumption
  <2>2. MulDiv(n, DAY, x.owedPerDay) \in Nat
    BY <1>3, <2>1, MulDivNat
  <2> QED BY <1>2, <1>3, <1>12, <2>1, <2>2
<1> HIDE DEF paid, f
<1>14. /\ f.loans[id].depositTotal = x.depositTotal
       /\ f.loans[id].owedPerDay = x.owedPerDay
       /\ f.lender.owedTotal = paid.lender.owedTotal
       /\ Good(f)
  BY <1>9, <1>11 DEF Moved, TokensOnly, PaidUp
<1>15. f.lender.owedPerDay \in Nat /\ paid.lender.owedTotal \in Nat /\ -n \in Int
  BY <1>10, <1>14, NumbersOf
<1> HIDE DEF ends
<1>16. Renewed(NewTerms(f, id, x.owedPerDay, ends, -n), f, id, x.owedPerDay, ends, -n)
  <2>1. /\ f.loans[id].depositTotal + (-n) >= 0
        /\ f.lender.owedTotal + (-n) >= 0
        /\ f.lender.owedPerDay + x.owedPerDay - f.loans[id].owedPerDay >= 0
    BY <1>3, <1>12, <1>14, <1>15
  <2>2. x.owedPerDay \in Nat
    BY <1>3
  <2> HIDE DEF x
  <2> QED BY <1>13, <1>14, <1>15, <2>1, <2>2, NewTermsEffect
<1>17. Renewed(r, f, id, x.owedPerDay, ends, -n)
  BY <1>12, <1>16
<1>18. Reduces(r, id, n, ends, paid, f)
  BY <1>1, <1>9, <1>11, <1>13, <1>17 DEF Reduces
<1> QED BY <1>18

LEMMA ReducedKeeps ==
    ASSUME LoanInv, NEW id \in LoanIds, NEW n \in Nat, NEW r, NEW ends, NEW p, NEW f,
           Reduces(r, id, n, ends, p, f)
    PROVE  LoanInv'
<1> DEFINE x == books.loans[id]
<1>1. Good(books) /\ now \in Nat /\ SoundLoan(x, books.twice)
  BY StateFacts
<1>2. /\ x.active /\ Call(r) /\ balances' = balances
      /\ PaidUp(p, books, id) /\ Moved(f, p, "loan", -n)
      /\ Renewed(r, f, id, x.owedPerDay, ends, -n)
  BY DEF Reduces
<1>3. Underway(p, books, id, 0)
  BY <1>1, <1>2, UnderwayBegins
<1>4. Underway(f, books, id, 0 + (-n))
  BY <1>1, <1>2, <1>3, UnderwayPays
<1>5. Underway(r, books, id, (0 + (-n)) - (-n))
  <2>1. 0 + (-n) \in Int /\ -n \in Int /\ x.owedPerDay \in Nat
    BY <1>1, NumbersOf
  <2> QED BY <1>1, <1>2, <1>4, <2>1, UnderwayRenews
<1>6. (0 + (-n)) - (-n) = 0
  OBVIOUS
<1>7. Keeps(r, books, id) /\ SoundLoan(r.loans[id], r.twice)
  BY <1>1, <1>2, <1>5, <1>6, UnderwayEnds
<1> QED BY <1>2, <1>7, LoanCallKeeps

\* The deposit for a longer term has come in, from wherever: t after books a.
Taken(t, a, id, n) ==
    /\ \E c : /\ Good(c) /\ TokensOnly(c, a)
              /\ Spare(c) = Spare(a) + t.deposit
              /\ \E k \in Int :
                    /\ Free(c, "collateral") = Free(a, "collateral") + k
                    /\ Pledged(t.books, c, id, a.loans[id].collateral + k)
    /\ t.deposit \in Nat
    /\ t.deposit >= n

LEMMA DepositTakenShape ==
    ASSUME NEW b, Shaped(b), NEW id, NEW n, NEW c, NEW e
    PROVE  Follows(ExtensionDeposit(b, id, n, c, e).books, b)
<1>1. CASE ~c
  <2>1. ExtensionDeposit(b, id, n, c, e).books = VaultDeposit(b, "loan", n)
    BY <1>1 DEF ExtensionDeposit
  <2> QED BY <2>1, DepositShape
<1>2. CASE c
  <2> DEFINE x == b.loans[id]
             s == BuyRequired(b, "collateral", "loan", x.collateral, n, 0, price, e)
             f == s.books
             left == x.collateral - s.used
             g == CurrentMargin(x.principal, left, price) > maintenanceMargin
             q == Require(f, g)
  <2>1. ExtensionDeposit(b, id, n, c, e).books = WithCollateral(q, id, left)
    BY <1>2 DEF ExtensionDeposit, WithCollateral
  <2>2. Follows(f, b)
    BY BuyRequiredShape
  <2> HIDE DEF f, g
  <2>3. Follows(q, f)
    BY <2>2, RequireShape DEF Follows
  <2> HIDE DEF q, left
  <2>4. Follows(WithCollateral(q, id, left), q)
    BY <2>3, CollateralShape DEF Follows
  <2>5. Follows(WithCollateral(q, id, left), b)
    BY <2>2, <2>3, <2>4 DEF Follows
  <2> QED BY <2>1, <2>5
<1> QED BY <1>1, <1>2

LEMMA DepositTakenEffect ==
    ASSUME NEW b, Good(b), NEW id \in LoanIds, price \in Nat \ {0}, NEW n \in Nat,
           NEW c \in BOOLEAN, NEW e \in Nat, ExtensionDeposit(b, id, n, c, e).books.ok
    PROVE  Taken(ExtensionDeposit(b, id, n, c, e), b, id, n)
<1> DEFINE x == b.loans[id]
           r == ExtensionDeposit(b, id, n, c, e)
<1>1. x.collateral \in Nat /\ Free(b, "collateral") \in Int /\ x \in Loans
  BY NumbersOf
<1>2. CASE ~c
  <2> DEFINE d == VaultDeposit(b, "loan", n)
  <2>1. r.books = d /\ r.deposit = n
    BY <1>2 DEF ExtensionDeposit
  <2>2. Moved(d, b, "loan", n)
    BY DepositEffect DEF Tokens
  <2> HIDE DEF d, r
  <2>3. Good(d) /\ TokensOnly(d, b) /\ Spare(d) = Spare(b) + n
        /\ Free(d, "collateral") = Free(b, "collateral")
    BY <2>2, MovedSpare DEF Moved
  <2>4. Free(d, "collateral") = Free(b, "collateral") + 0 /\ x.collateral + 0 = x.collateral
    BY <1>1, <2>3
  <2>5. Pledged(d, d, id, x.collateral)
    BY <2>3 DEF Pledged, OnlyLoan, TokensOnly
  <2>6. n >= n
    OBVIOUS
  <2> QED BY <2>1, <2>3, <2>4, <2>5, <2>6, 0 \in Int DEF Taken, r
<1>3. CASE c
  <2> DEFINE s == BuyRequired(b, "collateral", "loan", x.collateral, n, 0, price, e)
             f == s.books
             left == x.collateral - s.used
             g == CurrentMargin(x.principal, left, price) > maintenanceMargin
             q == Require(f, g)
  <2>1. r.books = WithCollateral(q, id, left) /\ r.deposit = s.received
    BY <1>3 DEF ExtensionDeposit, WithCollateral
  <2>2. Follows(f, b)
    BY BuyRequiredShape, GoodIsShaped
  <2>3. Follows(q, f)
    <3> HIDE DEF f, g
    <3> QED BY <2>2, RequireShape DEF Follows
  <2>4. Follows(WithCollateral(q, id, left), q)
    <3> HIDE DEF q, left
    <3> QED BY <2>3, CollateralShape DEF Follows
  <2>5. q.ok /\ f.ok
    <3>1. WithCollateral(q, id, left).ok
      BY <2>1
    <3> HIDE DEF q, left, f
    <3> QED BY <2>3, <2>4, <3>1 DEF Follows
  <2>6. s.books.ok
    BY <2>5 DEF f
  <2>7. /\ Swapped(s, b, "collateral", "loan")
        /\ s.used <= x.collateral
        /\ s.received >= n
    <3>1. 0 \in Nat /\ "collateral" \in Tokens /\ "loan" \in Tokens /\ "collateral" # "loan"
      BY DEF Tokens
    <3> QED BY <1>1, <2>6, <3>1, BuyRequiredEffect
  <2>8. q = f
    <3>1. f \in Books
      BY <2>7 DEF Swapped, Good
    <3>2. \A h \in BOOLEAN : Require(f, h).ok => Require(f, h) = f
      <4> HIDE DEF f
      <4> QED BY <3>1, RequireEffect
    <3>3. g \in BOOLEAN
      OBVIOUS
    <3> HIDE DEF f, g
    <3> QED BY <2>5, <3>2, <3>3
  <2> HIDE DEF s, q
  <2>9. /\ Good(f) /\ TokensOnly(f, b) /\ s.used \in Nat /\ s.received \in Nat
        /\ Free(f, "collateral") = Free(b, "collateral") - s.used
        /\ Free(f, "loan") = Free(b, "loan") + s.received
    BY <2>7 DEF Swapped
  <2> HIDE DEF f
  <2>10. left \in Nat
    BY <1>1, <2>7, <2>9
  <2>11. left = x.collateral + (-s.used) /\ -s.used \in Int
         /\ Free(f, "collateral") = Free(b, "collateral") + (-s.used)
    BY <1>1, <2>9
  <2>12. Spare(f) = Spare(b) + s.received
    <3>1. Free(b, "loan") \in Int /\ b.lender.owedTotal \in Int
      BY NumbersOf
    <3>2. \A u, v, w \in Int : (u + w) - v = (u - v) + w
      OBVIOUS
    <3> QED BY <2>9, <3>1, <3>2 DEF Spare, TokensOnly
  <2> HIDE DEF left
  <2>13. Pledged(r.books, f, id, left)
    BY <2>1, <2>8, <2>9, <2>10, CollateralEffect
  <2> HIDE DEF r, x
  <2>14. Pledged(r.books, f, id, x.collateral + (-s.used))
    BY <2>11, <2>13
  <2> DEFINE k == -s.used
  <2>15. \E j \in Int : /\ Free(f, "collateral") = Free(b, "collateral") + j
                        /\ Pledged(r.books, f, id, b.loans[id].collateral + j)
    BY <2>11, <2>14 DEF x
  <2>16. Taken(r, b, id, n)
    BY <2>1, <2>7, <2>9, <2>12, <2>15 DEF Taken
  <2> QED BY <2>16 DEF r
<1> QED BY <1>2, <1>3

\* A longer term: interest is paid with p, the deposit is taken with t, and of
\* it the interest for the time beyond the end is paid with q.
Extends(r, id, n, ends, p, t, q) ==
    LET x       == books.loans[id]
        deposit == t.deposit - BackInterest(x)
    IN  /\ x.active /\ x.owedPerDay # 0 /\ Call(r) /\ balances' = balances
        /\ rounded' = rounded
        /\ deposit \in Nat
        /\ ends = x.endTimestamp + MulDiv(deposit, DAY, x.owedPerDay)
        /\ ends \in Nat /\ ends - now > HOUR
        /\ PaidUp(p, books, id)
        /\ Taken(t, p, id, n)
        /\ Moved(q, t.books, "loan", -BackInterest(x))
        /\ Renewed(r, q, id, x.owedPerDay, ends, deposit)

\* The deposit is on its way: t after books a.
LEMMA UnderwayTakes ==
    ASSUME NEW a, Good(a), NEW id \in LoanIds, NEW p, Underway(p, a, id, 0),
           NEW n, NEW t, Taken(t, p, id, n)
    PROVE  Underway(t.books, a, id, t.deposit) /\ t.deposit \in Nat
<1>1. t.deposit \in Nat
  BY DEF Taken
<1>2. PICK f : /\ Good(f) /\ TokensOnly(f, p)
               /\ Spare(f) = Spare(p) + t.deposit
               /\ \E k \in Int :
                     /\ Free(f, "collateral") = Free(p, "collateral") + k
                     /\ Pledged(t.books, f, id, p.loans[id].collateral + k)
  BY DEF Taken
<1>3. PICK k \in Int : /\ Free(f, "collateral") = Free(p, "collateral") + k
                       /\ Pledged(t.books, f, id, p.loans[id].collateral + k)
  BY <1>2
<1>4. Underway(t.books, a, id, 0 + t.deposit)
  <2>1. t.deposit \in Int
    BY <1>1
  <2> QED BY <1>2, <1>3, <2>1, UnderwayPledges
<1> QED BY <1>1, <1>4

LEMMA ExtendRenews ==
    ASSUME LoanInv, NEW id \in LoanIds, NEW n \in Nat, NEW c \in BOOLEAN, NEW e \in Nat,
           ExtendLoanDuration(id, n, c, e)
    PROVE  \E r, ends, p, t, q : Extends(r, id, n, ends, p, t, q)
<1> DEFINE x == books.loans[id]
           back == BackInterest(x)
           paid == PaidFor(books, id)
           t == ExtensionDeposit(paid, id, n, c, e)
           deposit == t.deposit - back
           ends == x.endTimestamp + MulDiv(deposit, DAY, x.owedPerDay)
           p == PayInterestTransfer(t.books, back)
           g == ends - now > HOUR
           q == Require(p, g)
           r == NewTerms(q, id, x.owedPerDay, ends, deposit)
<1>1. /\ x.active /\ x.owedPerDay # 0 /\ back < n /\ Call(r)
      /\ balances' = balances /\ rounded' = rounded
  BY DEF ExtendLoanDuration, PaidFor, poolVars
<1>2. Good(books) /\ Shaped(books) /\ now \in Nat /\ books.lender.updatedTimestamp <= now
      /\ SoundLoan(x, books.twice) /\ price \in Nat \ {0}
  BY StateFacts
<1>3. x.endTimestamp \in Nat /\ x.owedPerDay \in Nat \ {0} /\ x.depositTotal \in Nat
      /\ x \in Loans
  BY <1>1, <1>2, NumbersOf
<1>4. back \in Nat
  BY <1>2, <1>3, BackInterestNat
<1> HIDE DEF back
<1>5. Follows(paid, books)
  BY <1>2, PaidForShape
<1>6. Follows(t.books, paid)
  <2> HIDE DEF paid
  <2> QED BY <1>5, DepositTakenShape DEF Follows
<1>7. Follows(p, t.books)
  <2>1. Shaped(t.books)
    BY <1>6 DEF Follows
  <2> HIDE DEF t
  <2> QED BY <2>1, TransferShape
<1>8. Follows(q, p)
  <2> HIDE DEF p, g
  <2> QED BY <1>7, RequireShape DEF Follows
<1>9. Follows(r, q)
  <2> HIDE DEF q
  <2> QED BY <1>8, NewTermsShape DEF Follows
<1>10. q.ok /\ p.ok /\ t.books.ok /\ paid.ok
  <2>1. r.ok
    BY <1>1 DEF Call
  <2> HIDE DEF r, q, p, t, paid
  <2> QED BY <1>6, <1>7, <1>8, <1>9, <2>1 DEF Follows
<1>11. PaidUp(paid, books, id)
  BY <1>2, <1>10, PaidForEffect
<1> HIDE DEF paid
<1>12. Good(paid)
  BY <1>11 DEF PaidUp
<1>13. Taken(t, paid, id, n)
  BY <1>2, <1>10, <1>12, DepositTakenEffect
<1> HIDE DEF t
<1>14. t.deposit \in Nat /\ t.deposit >= n
  BY <1>13 DEF Taken
<1>17. Underway(paid, books, id, 0)
  BY <1>2, <1>11, UnderwayBegins
<1>18. Underway(t.books, books, id, t.deposit)
  BY <1>2, <1>13, <1>17, UnderwayTakes
<1>19. Good(t.books)
  BY <1>18 DEF Underway
<1>20. Moved(p, t.books, "loan", -back)
  BY <1>4, <1>10, <1>19, TransferEffect
<1>21. t.deposit \in Int /\ -back \in Int
  BY <1>4, <1>14
<1>22. Underway(p, books, id, t.deposit + (-back))
  BY <1>2, <1>18, <1>20, <1>21, UnderwayPays
<1> HIDE DEF p
<1>23. q = p /\ ends - now > HOUR
  <2>1. p \in Books
    BY <1>22 DEF Underway, Good
  <2>2. \A h \in BOOLEAN : Require(p, h).ok => h /\ Require(p, h) = p
    BY <2>1, RequireEffect
  <2>3. g \in BOOLEAN
    OBVIOUS
  <2> HIDE DEF g
  <2>4. g /\ q = p
    BY <1>10, <2>2, <2>3
  <2> QED BY <2>4 DEF g
<1> HIDE DEF q
<1>24. deposit \in Nat /\ deposit = t.deposit - back
  BY <1>1, <1>4, <1>14
<1> HIDE DEF deposit
<1>25. ends \in Nat /\ ends = x.endTimestamp + MulDiv(deposit, DAY, x.owedPerDay)
  <2>1. DAY \in Nat
    BY LoanAssumption
  <2>2. MulDiv(deposit, DAY, x.owedPerDay) \in Nat
    BY <1>3, <1>24, <2>1, MulDivNat
  <2> QED BY <1>3, <2>2
<1> HIDE DEF ends
<1>26. Renewed(r, p, id, x.owedPerDay, ends, deposit)
  <2>1. p.loans[id].owedPerDay = x.owedPerDay
    <3>1. t.books.loans[id].owedPerDay = paid.loans[id].owedPerDay
      BY <1>13 DEF Taken, TokensOnly, Pledged
    <3> QED BY <1>11, <1>20, <3>1 DEF Moved, TokensOnly, PaidUp
  <2>2. Good(p)
    BY <1>22 DEF Underway
  <2>3. /\ p.loans[id].depositTotal \in Nat /\ p.lender.owedTotal \in Nat
        /\ p.lender.owedPerDay \in Nat
    BY <2>2, NumbersOf
  <2>4. /\ p.loans[id].depositTotal + deposit >= 0
        /\ p.lender.owedTotal + deposit >= 0
        /\ p.lender.owedPerDay + x.owedPerDay - p.loans[id].owedPerDay >= 0
    BY <1>3, <1>24, <2>1, <2>3
  <2>5. x.owedPerDay \in Nat /\ deposit \in Int
    BY <1>3, <1>24
  <2> HIDE DEF x
  <2> QED BY <1>23, <1>25, <2>2, <2>4, <2>5, NewTermsEffect
<1> HIDE DEF r
<1>27. Extends(r, id, n, ends, paid, t, p)
  <2>1. back = BackInterest(x) /\ deposit = t.deposit - BackInterest(x)
    BY <1>24 DEF back
  <2>2. /\ x.active /\ x.owedPerDay # 0 /\ Call(r) /\ balances' = balances
        /\ rounded' = rounded
    BY <1>1
  <2> HIDE DEF x
  <2>3. /\ deposit \in Nat
        /\ ends = x.endTimestamp + MulDiv(deposit, DAY, x.owedPerDay)
        /\ ends \in Nat /\ ends - now > HOUR
        /\ PaidUp(paid, books, id)
        /\ Taken(t, paid, id, n)
        /\ Moved(p, t.books, "loan", -back)
        /\ Renewed(r, p, id, x.owedPerDay, ends, deposit)
    BY <1>11, <1>13, <1>20, <1>23, <1>24, <1>25, <1>26
  <2> QED BY <2>1, <2>2, <2>3 DEF Extends, x
<1> QED BY <1>27

LEMMA ExtendedKeeps ==
    ASSUME LoanInv, NEW id \in LoanIds, NEW n \in Nat,
           NEW r, NEW ends, NEW p, NEW t, NEW q, Extends(r, id, n, ends, p, t, q)
    PROVE  LoanInv'
<1> DEFINE x == books.loans[id]
           back == BackInterest(x)
           deposit == t.deposit - back
<1>1. Good(books) /\ now \in Nat /\ SoundLoan(x, books.twice) /\ x \in Loans
      /\ x.owedPerDay \in Nat
  BY StateFacts, NumbersOf
<1>2. /\ x.active /\ Call(r) /\ balances' = balances /\ deposit \in Nat
      /\ PaidUp(p, books, id) /\ Taken(t, p, id, n)
      /\ Moved(q, t.books, "loan", -back)
      /\ Renewed(r, q, id, x.owedPerDay, ends, deposit)
  BY DEF Extends
<1>3. back \in Nat
  BY <1>1, BackInterestNat
<1>4. Underway(t.books, books, id, t.deposit) /\ t.deposit \in Nat
  <2>1. Underway(p, books, id, 0)
    BY <1>1, <1>2, UnderwayBegins
  <2> QED BY <1>1, <1>2, <2>1, UnderwayTakes
<1> HIDE DEF back
<1>5. Underway(q, books, id, t.deposit + (-back))
  <2>1. t.deposit \in Int /\ -back \in Int
    BY <1>3, <1>4
  <2> QED BY <1>1, <1>2, <1>4, <2>1, UnderwayPays
<1>6. t.deposit + (-back) = deposit
  BY <1>3, <1>4
<1> HIDE DEF deposit
<1>7. Underway(r, books, id, deposit - deposit)
  <2>1. deposit \in Int /\ Underway(q, books, id, deposit)
    BY <1>2, <1>5, <1>6
  <2> QED BY <1>1, <1>2, <2>1, UnderwayRenews
<1>8. deposit - deposit = 0
  BY <1>2
<1>9. Keeps(r, books, id) /\ SoundLoan(r.loans[id], r.twice)
  BY <1>1, <1>2, <1>7, <1>8, UnderwayEnds
<1> QED BY <1>2, <1>9, LoanCallKeeps

-----------------------------------------------------------------------------
(* Rolling over. *)

LEMMA ReturnExcessShape ==
    ASSUME NEW s, Shaped(s.books), NEW n
    PROVE  Follows(ReturnExcess(s, n).books, s.books)
<1> DEFINE excess == s.received - n
           back == LoanSwap(s.books, "loan", "collateral", excess, excess, 0, price, 0)
<1>1. CASE excess > paySwapExcessToBorrowerThreshold
  <2>1. ReturnExcess(s, n).books = back.books
    BY <1>1 DEF ReturnExcess
  <2> QED BY <2>1, LoanSwapShape
<1>2. CASE ~(excess > paySwapExcessToBorrowerThreshold)
  <2>1. ReturnExcess(s, n).books = HoldFee(s.books, "loan", excess)
    BY <1>2 DEF ReturnExcess
  <2> QED BY <2>1, DepositShape
<1> QED BY <1>1, <1>2

\* What was required of the loan token is left, for what was used.
Bought(t, a, n) ==
    /\ Good(t.books)
    /\ TokensOnly(t.books, a)
    /\ t.used \in Int
    /\ Free(t.books, "collateral") = Free(a, "collateral") - t.used
    /\ Spare(t.books) = Spare(a) + n

LEMMA ReturnExcessEffect ==
    ASSUME NEW a, Good(a), NEW s, Swapped(s, a, "collateral", "loan"), price \in Nat \ {0},
           NEW n \in Nat, s.received >= n, ReturnExcess(s, n).books.ok
    PROVE  Bought(ReturnExcess(s, n), a, n)
<1> DEFINE t == ReturnExcess(s, n)
           excess == s.received - n
           back == LoanSwap(s.books, "loan", "collateral", excess, excess, 0, price, 0)
<1>1. Good(s.books) /\ TokensOnly(s.books, a) /\ s.used \in Nat /\ s.received \in Nat
      /\ Free(s.books, "collateral") = Free(a, "collateral") - s.used
      /\ Free(s.books, "loan") = Free(a, "loan") + s.received
  BY DEF Swapped
<1>2. excess \in Nat /\ paySwapExcessToBorrowerThreshold \in Nat
  BY <1>1, LoanAssumption
<1> DEFINE lo == Free(a, "loan")
           co == Free(a, "collateral")
           o == a.lender.owedTotal
<1>3. lo \in Int /\ co \in Int /\ o \in Int
  BY FreeIsInt DEF Good, Books, Lenders, Tokens
<1>4. /\ Good(t.books) /\ TokensOnly(t.books, a) /\ t.used \in Int
      /\ Free(t.books, "collateral") = co - t.used
      /\ Free(t.books, "loan") = lo + n
  <2>1. CASE excess > paySwapExcessToBorrowerThreshold
    <3>1. t.books = back.books /\ t.used = s.used - back.received
      BY <2>1 DEF ReturnExcess
    <3>2. back.books.ok
      BY <3>1
    <3>3. 0 \in Nat /\ "collateral" \in Tokens /\ "loan" \in Tokens /\ "loan" # "collateral"
      BY DEF Tokens
    <3>4. Swapped(back, s.books, "loan", "collateral") /\ back.used = excess
      <4> HIDE DEF excess
      <4> QED BY <1>1, <1>2, <3>2, <3>3, LoanSwapEffect
    <3> HIDE DEF back, t
    <3>5. /\ Good(back.books) /\ TokensOnly(back.books, s.books) /\ back.received \in Nat
          /\ Free(back.books, "loan") = Free(s.books, "loan") - excess
          /\ Free(back.books, "collateral") = Free(s.books, "collateral") + back.received
      BY <3>4 DEF Swapped
    <3>6. TokensOnly(t.books, a)
      BY <1>1, <3>1, <3>5 DEF TokensOnly
    <3> HIDE DEF lo, co
    <3>7. Free(t.books, "loan") = lo + n
      BY <1>1, <1>3, <3>1, <3>5 DEF lo
    <3>8. Free(t.books, "collateral") = co - t.used /\ t.used \in Int
      BY <1>1, <1>3, <3>1, <3>5 DEF co
    <3>9. Good(t.books)
      BY <3>1, <3>5
    <3> QED BY <3>6, <3>7, <3>8, <3>9
  <2>2. CASE ~(excess > paySwapExcessToBorrowerThreshold)
    <3> DEFINE h == HoldFee(s.books, "loan", excess)
    <3>1. t.books = h /\ t.used = s.used
      BY <2>2 DEF ReturnExcess
    <3>2. Moved(h, s.books, "loan", -excess)
      <4> HIDE DEF excess
      <4> QED BY <1>1, <1>2, FeeEffect DEF Tokens
    <3> HIDE DEF h, t
    <3>3. /\ Good(h) /\ TokensOnly(h, s.books)
          /\ Free(h, "loan") = Free(s.books, "loan") + (-excess)
          /\ Free(h, "collateral") = Free(s.books, "collateral")
      BY <3>2 DEF Moved, Tokens
    <3>4. TokensOnly(t.books, a)
      BY <1>1, <3>1, <3>3 DEF TokensOnly
    <3> HIDE DEF lo, co
    <3>5. Free(t.books, "loan") = lo + n
      BY <1>1, <1>3, <3>1, <3>3 DEF lo
    <3>6. Free(t.books, "collateral") = co - t.used /\ t.used \in Int
      BY <1>1, <1>3, <3>1, <3>3 DEF co
    <3>7. Good(t.books)
      BY <3>1, <3>3
    <3> QED BY <3>4, <3>5, <3>6, <3>7
  <2> QED BY <2>1, <2>2
<1> HIDE DEF t, lo, o, co
<1>5. t.books.lender.owedTotal = o
  BY <1>4 DEF TokensOnly, o
<1>6. (lo + n) - o = (lo - o) + n
  BY <1>3
<1>7. Spare(t.books) = Spare(a) + n
  BY <1>4, <1>5, <1>6 DEF Spare, lo, o
<1>8. Bought(t, a, n)
  BY <1>4, <1>7 DEF Bought, co
<1> QED BY <1>8 DEF t

LEMMA RewardNat ==
    ASSUME NEW n \in Nat, price \in Nat \ {0} PROVE RolloverReward(n, price) \in Nat
<1>1. PRECISION \in Nat /\ rolloverBaseReward \in Nat /\ rolloverFlexFeePercent \in Nat
  BY LoanAssumption
<1> DEFINE u == ToCollateral(rolloverBaseReward, price)
           v == ToCollateral(n, price)
<1>2. u \in Nat /\ v \in Nat
  BY <1>1, MulDivNat DEF ToCollateral
<1> HIDE DEF u, v
<1>3. Percent(v, rolloverFlexFeePercent) \in Nat
  BY <1>1, <1>2, PercentNat
<1> DEFINE w == Percent(v, rolloverFlexFeePercent)
<1> HIDE DEF w
<1>4. u * 2 + w \in Nat
  BY <1>2, <1>3 DEF w
<1> QED BY <1>4 DEF RolloverReward, u, v, w

LEMMA RewardShape ==
    ASSUME NEW b, Shaped(b), NEW id PROVE Follows(PayRolloverReward(b, id), b)
<1> DEFINE x == b.loans[id]
           n == RolloverReward(x.principal, price)
           q == VaultWithdraw(b, "collateral", n)
<1>1. CASE n > x.collateral
  <2>1. PayRolloverReward(b, id) = ClosedWithSwap(b, id, x.collateral, FALSE, 0)
    BY <1>1 DEF PayRolloverReward
  <2> QED BY <2>1, ClosedWithSwapShape
<1>2. CASE ~(n > x.collateral)
  <2>1. PayRolloverReward(b, id) = WithCollateral(q, id, q.loans[id].collateral - n)
    BY <1>2 DEF PayRolloverReward, WithCollateral
  <2>2. Follows(q, b)
    BY WithdrawShape
  <2> HIDE DEF q, n
  <2>3. Follows(WithCollateral(q, id, q.loans[id].collateral - n), q)
    BY <2>2, CollateralShape DEF Follows
  <2> QED BY <2>1, <2>2, <2>3 DEF Follows
<1> QED BY <1>1, <1>2

LEMMA RewardEffect ==
    ASSUME NEW b, Good(b), NEW id \in LoanIds, now \in Nat, price \in Nat \ {0},
           b.lender.updatedTimestamp <= now, b.loans[id].active,
           SoundLoan(b.loans[id], b.twice), PayRolloverReward(b, id).ok
    PROVE  LET r == PayRolloverReward(b, id)
           IN  Keeps(r, b, id) /\ SoundLoan(r.loans[id], r.twice)
<1> DEFINE x == b.loans[id]
           n == RolloverReward(x.principal, price)
           q == VaultWithdraw(b, "collateral", n)
           w == WithCollateral(q, id, q.loans[id].collateral - n)
<1>1. x.principal \in Nat /\ x.collateral \in Nat
  BY NumbersOf
<1>2. n \in Nat
  <2> HIDE DEF x
  <2> QED BY <1>1, RewardNat
<1>3. CASE n > x.collateral
  <2> DEFINE r == ClosedWithSwap(b, id, x.collateral, FALSE, 0)
  <2>1. PayRolloverReward(b, id) = r
    BY <1>3 DEF PayRolloverReward
  <2>2. Keeps(r, b, id) /\ SoundLoan(r.loans[id], r.twice)
    BY <1>1, <2>1, ClosedWithSwapEffect, 0 \in Nat, FALSE \in BOOLEAN
  <2> QED BY <2>1, <2>2
<1>4. CASE ~(n > x.collateral)
  <2>1. PayRolloverReward(b, id) = w
    BY <1>4 DEF PayRolloverReward, WithCollateral
  <2> HIDE DEF n
  <2>2. Follows(q, b)
    BY WithdrawShape, GoodIsShaped
  <2>3. q.ok
    <3>1. w.ok
      BY <2>1
    <3> HIDE DEF q
    <3>2. Follows(w, q)
      BY <2>2, CollateralShape DEF Follows
    <3> QED BY <3>1, <3>2 DEF Follows
  <2>4. Moved(q, b, "collateral", -n)
    BY <1>2, <2>3, WithdrawEffect DEF Tokens
  <2>5. Good(q) /\ q.loans[id].collateral = x.collateral
    BY <2>4 DEF Moved, TokensOnly
  <2> HIDE DEF q, x
  <2>6. x.collateral - n \in Nat /\ x.collateral - n = x.collateral + (-n) /\ -n \in Int
    BY <1>1, <1>2, <1>4
  <2>7. w = WithCollateral(q, id, x.collateral - n)
    BY <2>5
  <2> HIDE DEF w
  <2>8. Pledged(w, q, id, x.collateral + (-n))
    BY <2>5, <2>6, <2>7, CollateralEffect
  <2>9. Keeps(w, b, id) /\ SoundLoan(w.loans[id], w.twice)
    BY <2>4, <2>6, <2>8, PledgedKeeps DEF x
  <2> QED BY <2>1, <2>9
<1> QED BY <1>3, <1>4

LEMMA KeepsItself ==
    ASSUME NEW b, Good(b), NEW id \in LoanIds, b.lender.updatedTimestamp <= now
    PROVE  Keeps(b, b, id)
<1>1. /\ Spare(b) \in Int /\ b.loans[id].principal \in Int
      /\ b.lender.principalTotal \in Int
  BY NumbersOf
<1>2. /\ Spare(b) <= Spare(b)
      /\ b.loans[id].principal - b.lender.principalTotal
             >= b.loans[id].principal - b.lender.principalTotal
  BY <1>1
<1> QED BY <1>2 DEF Keeps, OnlyLoan

LEMMA FinalRolloverShape ==
    ASSUME NEW b, Shaped(b), NEW id PROVE Follows(FinalizeRollover(b, id), b)
<1> DEFINE x == b.loans[id]
           g == CurrentMargin(x.principal, x.collateral, price) > 3
<1>1. \/ FinalizeRollover(b, id) = b
      \/ FinalizeRollover(b, id) = ClosedWithSwap(b, id, x.collateral, FALSE, 0)
      \/ FinalizeRollover(b, id) = Require(b, g)
  BY DEF FinalizeRollover
<1>2. Follows(b, b)
  BY DEF Follows
<1> HIDE DEF g, x
<1> QED BY <1>1, <1>2, ClosedWithSwapShape, RequireShape

LEMMA FinalRolloverEffect ==
    ASSUME NEW b, Good(b), NEW id \in LoanIds, now \in Nat, price \in Nat \ {0},
           b.lender.updatedTimestamp <= now, SoundLoan(b.loans[id], b.twice),
           FinalizeRollover(b, id).ok
    PROVE  LET r == FinalizeRollover(b, id)
           IN  Keeps(r, b, id) /\ SoundLoan(r.loans[id], r.twice)
<1> DEFINE x == b.loans[id]
           g == CurrentMargin(x.principal, x.collateral, price) > 3
           r == FinalizeRollover(b, id)
<1>1. \/ r = b
      \/ r = ClosedWithSwap(b, id, x.collateral, FALSE, 0)
      \/ r = Require(b, g)
  BY DEF FinalizeRollover
<1>2. CASE r = b
  <2> HIDE DEF r
  <2>1. Keeps(r, b, id) /\ SoundLoan(r.loans[id], r.twice)
    BY <1>2, KeepsItself
  <2> QED BY <2>1 DEF r
<1>3. CASE r = ClosedWithSwap(b, id, x.collateral, FALSE, 0)
  <2>1. x.collateral \in Nat
    BY NumbersOf
  <2>2. ClosedWithSwap(b, id, x.collateral, FALSE, 0).ok
    BY <1>3
  <2> HIDE DEF r, x
  <2>3. Keeps(r, b, id) /\ SoundLoan(r.loans[id], r.twice)
    BY <1>3, <2>1, <2>2, ClosedWithSwapEffect, 0 \in Nat, FALSE \in BOOLEAN
  <2> QED BY <2>3 DEF r
<1>4. CASE r = Require(b, g)
  <2>1. \A h \in BOOLEAN : Require(b, h).ok => Require(b, h) = b
    BY RequireEffect DEF Good
  <2>2. g \in BOOLEAN /\ Require(b, g).ok
    BY <1>4
  <2> HIDE DEF g, r
  <2>3. r = b
    BY <1>4, <2>1, <2>2
  <2>4. Keeps(r, b, id) /\ SoundLoan(r.loans[id], r.twice)
    BY <2>3, KeepsItself
  <2> QED BY <2>4 DEF r
<1> QED BY <1>1, <1>2, <1>3, <1>4

LEMMA RolledOverEndIs ==
    ASSUME NEW x \in Loans, now \in Nat
    PROVE  RolledOverEnd(x) \in Nat /\ RolledOverEnd(x) - now \in Nat
<1>1. {DAY, MONTH, maxLoanTerm} \subseteq Nat
  BY LoanAssumption
<1>2. x.endTimestamp \in Nat
  BY DEF Loans
<1> DEFINE term == IF x.kind = "trade" THEN maxLoanTerm ELSE MONTH
           back == Max2(0, now - x.endTimestamp)
<1>3. term \in Nat
  BY <1>1
<1>4. back \in Nat /\ back >= now - x.endTimestamp
  BY <1>2 DEF Max2
<1> HIDE DEF term, back
<1> DEFINE ends == x.endTimestamp + (IF back >= term THEN back + DAY ELSE term)
<1>5. ends \in Nat /\ ends - now \in Nat
  BY <1>1, <1>2, <1>3, <1>4
<1>6. RolledOverEnd(x) = ends
  BY DEF RolledOverEnd, term, back
<1> HIDE DEF ends
<1> QED BY <1>5, <1>6

\* The interest of a loan is part of what its lender is owed.
LEMMA OwedPart ==
    ASSUME BooksHold(books), NEW id \in LoanIds
    PROVE  books.loans[id].owedPerDay <= books.lender.owedPerDay
<1>1. IsFiniteSet(LoanIds) /\ Good(books)
  BY LoanAssumption DEF BooksHold
<1>2. \A j \in LoanIds : OwedPerDays(books)[j] \in Nat
  BY <1>1, LoansNat
<1>3. \A j \in LoanIds : OwedPerDays(books)[j] <= SumFunctionOnSet(OwedPerDays(books), LoanIds)
  BY <1>1, <1>2, SumOfNats
<1>4. OwedPerDays(books)[id] = books.loans[id].owedPerDay
  BY <1>1, LoansNat
<1>5. books.loans[id].owedPerDay <= SumFunctionOnSet(OwedPerDays(books), LoanIds)
  BY <1>3, <1>4
<1> QED BY <1>5 DEF BooksHold

\* The stages of a rollover, up to its reward.
RolloverTerms(id, rate) ==
    LET x == books.loans[id]
        perDay == IF x.kind = "trade" THEN Percent(x.principal, rate) ELSE x.owedPerDay
        ends == RolledOverEnd(x)
    IN  NewTerms(PaidFor(books, id), id, perDay, ends, MulDiv(ends - now, perDay, DAY))
RolloverNeeds(id, rate) ==
    LET x == books.loans[id]
        perDay == IF x.kind = "trade" THEN Percent(x.principal, rate) ELSE x.owedPerDay
    IN  MulDiv(RolledOverEnd(x) - now, perDay, DAY) + BackInterest(x)
RolloverSwap(id, rate, e) ==
    DoCollateralSwap(RolloverTerms(id, rate), books.loans[id], 0, RolloverNeeds(id, rate),
                     RolloverNeeds(id, rate), price, e)
RolloverBought(id, rate, e) == ReturnExcess(RolloverSwap(id, rate, e), RolloverNeeds(id, rate))
RolloverCharged(id, rate, e) ==
    LET t == RolloverBought(id, rate, e)
        q == Require(t.books, t.used \in 0..books.loans[id].collateral)
    IN  WithCollateral(q, id, q.loans[id].collateral - t.used)
RolloverPaid(id, rate, e) ==
    PayInterestTransfer(RolloverCharged(id, rate, e), BackInterest(books.loans[id]))

LEMMA RolloverShape ==
    ASSUME Shaped(books), NEW id, NEW rate, NEW e
    PROVE  /\ Follows(RolloverTerms(id, rate), PaidFor(books, id))
           /\ Follows(RolloverSwap(id, rate, e).books, RolloverTerms(id, rate))
           /\ Follows(RolloverBought(id, rate, e).books, RolloverSwap(id, rate, e).books)
           /\ Follows(RolloverCharged(id, rate, e), RolloverBought(id, rate, e).books)
           /\ Follows(RolloverPaid(id, rate, e), RolloverCharged(id, rate, e))
<1> DEFINE paid == PaidFor(books, id)
           terms == RolloverTerms(id, rate)
           s == RolloverSwap(id, rate, e)
           t == RolloverBought(id, rate, e)
           c == RolloverCharged(id, rate, e)
           p == RolloverPaid(id, rate, e)
<1>1. Shaped(paid)
  BY PaidForShape DEF Follows
<1> HIDE DEF paid
<1>2. Follows(terms, paid)
  BY <1>1, NewTermsShape DEF RolloverTerms, paid
<1> HIDE DEF terms
<1>3. Follows(s.books, terms)
  BY <1>2, CollateralSwapShape DEF RolloverSwap, terms, Follows
<1> HIDE DEF s
<1>4. Follows(t.books, s.books)
  BY <1>3, ReturnExcessShape DEF RolloverBought, s, Follows
<1> HIDE DEF t
<1>5. Follows(c, t.books)
  <2> DEFINE g == t.used \in 0..books.loans[id].collateral
             q == Require(t.books, g)
             m == q.loans[id].collateral - t.used
  <2>1. c = WithCollateral(q, id, m)
    BY DEF RolloverCharged, t
  <2> HIDE DEF g, c
  <2>2. Follows(q, t.books)
    BY <1>4, RequireShape DEF Follows
  <2> HIDE DEF q, m
  <2>3. Follows(WithCollateral(q, id, m), q)
    BY <2>2, CollateralShape DEF Follows
  <2> QED BY <2>1, <2>2, <2>3 DEF Follows
<1> HIDE DEF c
<1>6. Follows(p, c)
  BY <1>5, TransferShape DEF RolloverPaid, c, Follows
<1> QED BY <1>2, <1>3, <1>4, <1>5, <1>6 DEF paid, terms, s, t, c, p

\* Another term: interest is paid with p, the interest for the term, and for the
\* time beyond the end, is bought with t, whose collateral w has taken off the
\* loan, and the interest for the time beyond the end is paid with q.
RollsOver(q, id, rate, p, y, t, w) ==
    LET x        == books.loans[id]
        perDay   == IF x.kind = "trade" THEN Percent(x.principal, rate) ELSE x.owedPerDay
        ends     == RolledOverEnd(x)
        interest == MulDiv(ends - now, perDay, DAY)
        back     == BackInterest(x)
    IN  /\ perDay \in Nat /\ ends \in Nat /\ ends - now \in Nat
        /\ interest \in Nat /\ back \in Nat
        /\ PaidUp(p, books, id)
        /\ Renewed(y, p, id, perDay, ends, interest)
        /\ Bought(t, y, interest + back)
        /\ Pledged(w, t.books, id, y.loans[id].collateral + (-t.used))
        /\ Moved(q, w, "loan", -back)

LEMMA RolloverStages ==
    ASSUME LoanInv, NEW id \in LoanIds, NEW rate \in Nat, NEW e \in Nat,
           RolloverPaid(id, rate, e).ok
    PROVE  \E p, y, t, w : RollsOver(RolloverPaid(id, rate, e), id, rate, p, y, t, w)
<1> DEFINE x == books.loans[id]
           paid == PaidFor(books, id)
           perDay == IF x.kind = "trade" THEN Percent(x.principal, rate) ELSE x.owedPerDay
           ends == RolledOverEnd(x)
           interest == MulDiv(ends - now, perDay, DAY)
           back == BackInterest(x)
           needs == RolloverNeeds(id, rate)
           terms == RolloverTerms(id, rate)
           s == RolloverSwap(id, rate, e)
           t == RolloverBought(id, rate, e)
           c == RolloverCharged(id, rate, e)
           p == RolloverPaid(id, rate, e)
<1>1. Good(books) /\ Shaped(books) /\ BooksHold(books) /\ now \in Nat
      /\ books.lender.updatedTimestamp <= now /\ price \in Nat \ {0}
  BY StateFacts
<1>2. x \in Loans /\ x.owedPerDay \in Nat /\ x.principal \in Nat /\ x.collateral \in Nat
  BY <1>1, NumbersOf
<1>3. p.ok /\ c.ok /\ t.books.ok /\ s.books.ok /\ terms.ok /\ paid.ok
  <2> HIDE DEF p, c, t, s, terms, paid
  <2> QED BY <1>1, RolloverShape DEF Follows, p, c, t, s, terms, paid
<1>4. back \in Nat /\ ends \in Nat /\ ends - now \in Nat
  BY <1>1, <1>2, BackInterestNat, RolledOverEndIs
<1>5. perDay \in Nat
  <2> HIDE DEF x
  <2> QED BY <1>2, PercentNat
<1> HIDE DEF perDay, ends
<1>6. interest \in Nat
  <2>1. DAY \in Nat \ {0}
    BY LoanAssumption
  <2> QED BY <1>4, <1>5, <2>1, MulDivNat
<1> HIDE DEF interest, back
<1>7. needs = interest + back /\ terms = NewTerms(paid, id, perDay, ends, interest)
  BY DEF RolloverNeeds, RolloverTerms, interest, perDay, ends, back
<1>8. s = DoCollateralSwap(terms, x, 0, needs, needs, price, e) /\ t = ReturnExcess(s, needs)
  BY DEF RolloverSwap, RolloverBought
<1>9. PaidUp(paid, books, id)
  BY <1>1, <1>3, PaidForEffect
<1> HIDE DEF paid, needs, terms, s, t
<1>10. Good(paid) /\ paid.loans[id].owedPerDay = x.owedPerDay
       /\ paid.loans[id].collateral = x.collateral
       /\ paid.lender.owedPerDay = books.lender.owedPerDay
  BY <1>9 DEF PaidUp, SameLoan
<1>11. /\ paid.loans[id].depositTotal \in Nat /\ paid.lender.owedTotal \in Nat
       /\ paid.lender.owedPerDay \in Nat
  BY <1>10, NumbersOf
<1>12. Renewed(terms, paid, id, perDay, ends, interest)
  <2>1. x.owedPerDay <= books.lender.owedPerDay
    BY <1>1, OwedPart
  <2>2. /\ paid.loans[id].depositTotal + interest >= 0
        /\ paid.lender.owedTotal + interest >= 0
        /\ paid.lender.owedPerDay + perDay - paid.loans[id].owedPerDay >= 0
    BY <1>2, <1>5, <1>6, <1>10, <1>11, <2>1
  <2>3. interest \in Int
    BY <1>6
  <2> HIDE DEF x
  <2> QED BY <1>4, <1>5, <1>7, <1>10, <2>2, <2>3, NewTermsEffect
<1>13. Good(terms) /\ terms.loans[id].collateral = x.collateral
  BY <1>10, <1>12 DEF Renewed
<1>14. needs \in Nat
  BY <1>4, <1>6, <1>7
<1>15. Swapped(s, terms, "collateral", "loan") /\ s.received >= needs
  <2>1. DoCollateralSwap(terms, x, 0, needs, needs, price, e).books.ok
    BY <1>3, <1>8
  <2> HIDE DEF x
  <2> QED BY <1>1, <1>2, <1>8, <1>13, <1>14, <2>1, CollateralSwapEffect, 0 \in Nat
<1>16. Bought(t, terms, needs)
  <2>1. ReturnExcess(s, needs).books.ok
    BY <1>3, <1>8
  <2> QED BY <1>1, <1>8, <1>13, <1>14, <1>15, <2>1, ReturnExcessEffect
<1> DEFINE g == t.used \in 0..x.collateral
           q == Require(t.books, g)
<1>19. c = WithCollateral(q, id, q.loans[id].collateral - t.used)
  BY DEF RolloverCharged, t
<1>20. q = t.books /\ t.used \in 0..x.collateral
  <2>1. t.books \in Books
    BY <1>16 DEF Bought, Good
  <2>2. \A h \in BOOLEAN : Require(t.books, h).ok => h /\ Require(t.books, h) = t.books
    BY <2>1, RequireEffect
  <2>3. g \in BOOLEAN
    OBVIOUS
  <2> HIDE DEF g
  <2>4. Follows(q, t.books)
    BY <1>16, RequireShape, GoodIsShaped DEF Bought
  <2> HIDE DEF q, c
  <2>5. Follows(WithCollateral(q, id, q.loans[id].collateral - t.used), q)
    BY <2>4, CollateralShape DEF Follows
  <2>6. q.ok
    BY <1>3, <1>19, <2>5 DEF Follows
  <2>7. g /\ q = t.books
    BY <2>2, <2>3, <2>6 DEF q
  <2> QED BY <2>7 DEF g
<1> HIDE DEF q, g
<1>21. t.books.loans[id].collateral = x.collateral
       /\ x.collateral - t.used \in Nat
       /\ x.collateral - t.used = x.collateral + (-t.used)
  <2>1. t.books.loans[id].collateral = x.collateral
    BY <1>13, <1>16 DEF Bought, TokensOnly
  <2> HIDE DEF x
  <2> QED BY <1>2, <1>20, <2>1
<1>22. Pledged(c, t.books, id, terms.loans[id].collateral + (-t.used))
  <2>1. c = WithCollateral(t.books, id, x.collateral - t.used)
    BY <1>19, <1>20, <1>21
  <2>2. Good(t.books)
    BY <1>16 DEF Bought
  <2> HIDE DEF c, x
  <2>3. Pledged(c, t.books, id, x.collateral - t.used)
    BY <1>21, <2>1, <2>2, CollateralEffect
  <2> QED BY <1>13, <1>21, <2>3
<1> HIDE DEF c
<1>23. Good(c) /\ p = PayInterestTransfer(c, back)
  BY <1>22 DEF Pledged, RolloverPaid, c, back
<1>24. Moved(p, c, "loan", -back)
  <2> HIDE DEF p
  <2> QED BY <1>3, <1>4, <1>23, TransferEffect
<1> HIDE DEF p
<1>25. RollsOver(p, id, rate, paid, terms, t, c)
  BY <1>4, <1>5, <1>6, <1>7, <1>9, <1>12, <1>16, <1>22, <1>24
     DEF RollsOver, perDay, ends, interest, back
<1> QED BY <1>25 DEF p

\* What is bought is what the new term, and the time beyond the end, needs.
LEMMA RolledOverEffect ==
    ASSUME LoanInv, NEW id \in LoanIds, NEW rate \in Nat,
           NEW q, NEW p, NEW y, NEW t, NEW w, RollsOver(q, id, rate, p, y, t, w)
    PROVE  Underway(q, books, id, 0)
<1> DEFINE x == books.loans[id]
           perDay == IF x.kind = "trade" THEN Percent(x.principal, rate) ELSE x.owedPerDay
           ends == RolledOverEnd(x)
           interest == MulDiv(ends - now, perDay, DAY)
           back == BackInterest(x)
           needs == interest + back
<1>1. Good(books) /\ now \in Nat
  BY StateFacts
<1>2. /\ perDay \in Nat /\ interest \in Nat /\ back \in Nat
      /\ PaidUp(p, books, id)
      /\ Renewed(y, p, id, perDay, ends, interest)
      /\ Bought(t, y, needs)
      /\ Pledged(w, t.books, id, y.loans[id].collateral + (-t.used))
      /\ Moved(q, w, "loan", -back)
  BY DEF RollsOver
<1> HIDE DEF perDay, ends, interest, back
<1>3. Underway(p, books, id, 0)
  BY <1>1, <1>2, UnderwayBegins
<1>4. Underway(y, books, id, 0 - interest)
  <2>1. interest \in Int
    BY <1>2
  <2> QED BY <1>1, <1>2, <1>3, <2>1, UnderwayRenews
<1>5. Underway(w, books, id, (0 - interest) + needs)
  <2>1. /\ Good(t.books) /\ TokensOnly(t.books, y) /\ Spare(t.books) = Spare(y) + needs
        /\ Free(t.books, "collateral") = Free(y, "collateral") - t.used
        /\ t.used \in Int
    BY <1>2 DEF Bought
  <2>2. Free(y, "collateral") \in Int
    BY <1>2, NumbersOf DEF Renewed
  <2>3. Free(t.books, "collateral") = Free(y, "collateral") + (-t.used) /\ -t.used \in Int
    BY <2>1, <2>2
  <2>4. 0 - interest \in Int /\ needs \in Int
    BY <1>2
  <2> QED BY <1>1, <1>2, <1>4, <2>1, <2>3, <2>4, UnderwayPledges
<1>6. (0 - interest) + needs = back /\ back \in Int /\ -back \in Int /\ back + (-back) = 0
  BY <1>2
<1>7. Underway(q, books, id, back + (-back))
  BY <1>1, <1>2, <1>5, <1>6, UnderwayPays
<1> QED BY <1>6, <1>7

\* The whole call: w has the reward paid.
IsRolledOver(r, id, rate, e, w) ==
    LET x == books.loans[id]
        perDay == IF x.kind = "trade" THEN Percent(x.principal, rate) ELSE x.owedPerDay
        p == RolloverPaid(id, rate, e)
    IN  /\ x.active /\ Call(r) /\ balances' = balances
        /\ rounded' = rounded + RoundedOff((RolledOverEnd(x) - now) * perDay, DAY)
        /\ p.ok /\ w.ok /\ r.ok
        /\ w = PayRolloverReward(p, id)
        /\ r = FinalizeRollover(w, id)
        /\ Underway(p, books, id, 0)
        /\ Keeps(p, books, id) /\ SoundLoan(p.loans[id], p.twice)
        /\ Keeps(w, p, id) /\ SoundLoan(w.loans[id], w.twice)
        /\ Keeps(r, w, id) /\ SoundLoan(r.loans[id], r.twice)

LEMMA RolloverIs ==
    ASSUME LoanInv, NEW id \in LoanIds, NEW rate \in Nat, NEW e \in Nat,
           Rollover(id, rate, e)
    PROVE  \E r, w : IsRolledOver(r, id, rate, e, w)
<1> DEFINE x == books.loans[id]
           perDay == IF x.kind = "trade" THEN Percent(x.principal, rate) ELSE x.owedPerDay
           p == RolloverPaid(id, rate, e)
           w == PayRolloverReward(p, id)
           r == FinalizeRollover(w, id)
<1>1. x.active /\ Call(r) /\ balances' = balances
      /\ rounded' = rounded + RoundedOff((RolledOverEnd(x) - now) * perDay, DAY)
  BY DEF Rollover, poolVars, RolloverPaid, RolloverCharged, RolloverBought, RolloverSwap,
         RolloverNeeds, RolloverTerms, PaidFor, WithCollateral
<1>2. Good(books) /\ Shaped(books) /\ now \in Nat /\ books.lender.updatedTimestamp <= now
      /\ SoundLoan(x, books.twice) /\ price \in Nat \ {0}
  BY StateFacts
<1>3. Shaped(p)
  BY <1>2, RolloverShape DEF Follows
<1> HIDE DEF p
<1>4. Follows(w, p)
  BY <1>3, RewardShape
<1>5. Follows(r, w)
  <2> HIDE DEF w
  <2> QED BY <1>4, FinalRolloverShape DEF Follows
<1>6. r.ok /\ w.ok /\ p.ok
  <2>1. r.ok
    BY <1>1 DEF Call
  <2> HIDE DEF r, w
  <2> QED BY <1>4, <1>5, <2>1 DEF Follows
<1>7. Underway(p, books, id, 0)
  BY <1>6, RolloverStages, RolledOverEffect DEF p
<1>8. Keeps(p, books, id) /\ SoundLoan(p.loans[id], p.twice)
  BY <1>1, <1>2, <1>7, UnderwayEnds
<1>9. Good(p) /\ p.lender.updatedTimestamp <= now /\ p.loans[id].active
  BY <1>1, <1>7 DEF Underway
<1>10. Keeps(w, p, id) /\ SoundLoan(w.loans[id], w.twice)
  BY <1>2, <1>6, <1>8, <1>9, RewardEffect
<1>11. Good(w) /\ w.lender.updatedTimestamp <= now
  BY <1>10 DEF Keeps
<1>12. r = FinalizeRollover(w, id)
  OBVIOUS
<1>13. w = PayRolloverReward(p, id)
  OBVIOUS
<1> HIDE DEF w
<1>14. Keeps(r, w, id) /\ SoundLoan(r.loans[id], r.twice)
  BY <1>2, <1>6, <1>10, <1>11, FinalRolloverEffect
<1> HIDE DEF r
<1>15. IsRolledOver(r, id, rate, e, w)
  BY <1>1, <1>6, <1>7, <1>8, <1>10, <1>12, <1>13, <1>14 DEF IsRolledOver, p
<1> QED BY <1>15

LEMMA RolledOverKeeps ==
    ASSUME LoanInv, NEW id \in LoanIds, NEW rate, NEW e, NEW r, NEW w,
           IsRolledOver(r, id, rate, e, w)
    PROVE  LoanInv'
<1> DEFINE p == RolloverPaid(id, rate, e)
<1>1. Good(books)
  BY StateFacts
<1>2. /\ Call(r) /\ balances' = balances
      /\ Keeps(p, books, id) /\ Keeps(w, p, id) /\ Keeps(r, w, id)
      /\ SoundLoan(r.loans[id], r.twice)
  BY DEF IsRolledOver
<1> HIDE DEF p
<1>3. Keeps(r, books, id)
  <2>1. Keeps(w, books, id)
    BY <1>1, <1>2, KeepsTrans
  <2> QED BY <1>1, <1>2, <2>1, KeepsTrans
<1> QED BY <1>2, <1>3, LoanCallKeeps

-----------------------------------------------------------------------------
(* Opening a loan, or lending it more. *)

\* The stages that Torque loans and margin trades share.
OpeningFunds(n, i, k) ==
    VaultDeposit(VaultDeposit(SendPrincipal(Settled, n), "loan", i), "collateral", k)
OpeningLent(id, kind, n, i, k) == InitializeLoan(OpeningFunds(n, i, k), id, kind, n)

\* After them: i - amount loan tokens and k of the collateral are not yet
\* accounted for.
Opened(b, a, id, v, m) ==
    LET y == b.loans[id]
        x == a.loans[id]
    IN  /\ Good(b)
        /\ OnlyLoan(b, a, id)
        /\ b.twice = a.twice
        /\ b.lender.updatedTimestamp <= now
        /\ y.kind # "none"
        /\ y.active = TRUE
        /\ y.principal > 0
        /\ y.owedPerDay - b.lender.owedPerDay = x.owedPerDay - a.lender.owedPerDay
        /\ y.principal - b.lender.principalTotal = x.principal - a.lender.principalTotal
        /\ Free(b, "collateral") - y.collateral = Free(a, "collateral") - x.collateral + v
        /\ Spare(b) <= Spare(a) + m

LEMMA OpeningShape ==
    ASSUME Shaped(books), NEW id, NEW kind, NEW n, NEW i, NEW k, NEW rate, NEW ti
    PROVE  /\ Follows(Settled, books)
           /\ Follows(SendPrincipal(Settled, n), Settled)
           /\ Follows(OpeningFunds(n, i, k), SendPrincipal(Settled, n))
           /\ Follows(OpeningLent(id, kind, n, i, k), OpeningFunds(n, i, k))
           /\ Follows(BeginOpen(id, kind, n, i, k, rate, ti).books,
                      OpeningLent(id, kind, n, i, k))
<1> DEFINE q == Settled
           f == SendPrincipal(q, n)
           g == VaultDeposit(f, "loan", i)
           h == VaultDeposit(g, "collateral", k)
           l == InitializeLoan(h, id, kind, n)
           s == InitializeInterest(l, id, n, rate, ti)
<1>1. Follows(q, books)
  BY SettledShape
<1> HIDE DEF q
<1>2. Follows(f, q)
  BY <1>1, SendShape DEF Follows
<1> HIDE DEF f
<1>3. Follows(g, f)
  BY <1>2, DepositShape DEF Follows
<1> HIDE DEF g
<1>4. Follows(h, g)
  BY <1>3, DepositShape DEF Follows
<1>5. Follows(h, f)
  BY <1>3, <1>4, FollowsTrans
<1> HIDE DEF h
<1>6. Follows(l, h)
  BY <1>4, InitializeLoanShape DEF Follows
<1> HIDE DEF l
<1>7. Follows(s.books, l)
  BY <1>6, InitializeInterestShape DEF Follows
<1> QED BY <1>1, <1>2, <1>5, <1>6, <1>7
        DEF OpeningFunds, OpeningLent, BeginOpen, q, f, g, h, l, s

\* What was lent and sent is in the protocol: b after books a.
Funded(b, a, i, k) ==
    /\ Good(b)
    /\ b.loans = a.loans
    /\ b.twice = a.twice
    /\ b.lender.principalTotal = a.lender.principalTotal
    /\ b.lender.owedPerDay = a.lender.owedPerDay
    /\ b.lender.updatedTimestamp <= now
    /\ Free(b, "collateral") = Free(a, "collateral") + k
    /\ Spare(b) <= Spare(a) + i

\* They come in with h, by way of books f and g.
FundsCome(h, i, k, f, g) ==
    /\ Settled.ok
    /\ KeepsLoans(Settled, books)
    /\ SameButCash(f, Settled)
    /\ Moved(g, f, "loan", i)
    /\ Moved(h, g, "collateral", k)

LEMMA FundsStages ==
    ASSUME BooksHold(books), now \in Nat, NEW n \in Nat, NEW i \in Nat, NEW k \in Nat,
           OpeningFunds(n, i, k).ok
    PROVE  \E f, g : FundsCome(OpeningFunds(n, i, k), i, k, f, g)
<1> DEFINE q == Settled
           f == SendPrincipal(q, n)
           g == VaultDeposit(f, "loan", i)
           h == VaultDeposit(g, "collateral", k)
<1>1. Good(books) /\ Shaped(books)
  BY GoodIsShaped DEF BooksHold
<1>2. OpeningFunds(n, i, k) = h
  BY DEF OpeningFunds
<1>3. f.ok /\ q.ok
  <2>1. Follows(h, f) /\ Follows(f, q)
    BY <1>1, <1>2, OpeningShape
  <2> HIDE DEF h, f, q
  <2> QED BY <1>2, <2>1 DEF Follows
<1>4. KeepsLoans(q, books)
  BY <1>3, SettledEffect
<1> HIDE DEF q
<1>5. Good(q)
  BY <1>4 DEF KeepsLoans
<1>6. SameButCash(f, q)
  BY <1>3, <1>5, SendEffect
<1> HIDE DEF f
<1>7. Moved(g, f, "loan", i)
  BY <1>6, DepositEffect DEF SameButCash, Tokens
<1> HIDE DEF g
<1>8. Moved(h, g, "collateral", k)
  BY <1>7, DepositEffect DEF Moved, Tokens
<1> HIDE DEF h
<1>9. FundsCome(h, i, k, f, g)
  BY <1>3, <1>4, <1>6, <1>7, <1>8 DEF FundsCome, q
<1> QED BY <1>2, <1>9

LEMMA FundsEffect ==
    ASSUME BooksHold(books), now \in Nat, NEW n \in Nat, NEW i \in Nat, NEW k \in Nat,
           OpeningFunds(n, i, k).ok
    PROVE  Funded(OpeningFunds(n, i, k), books, i, k)
<1> DEFINE h == OpeningFunds(n, i, k)
           q == Settled
<1>1. Good(books)
  BY DEF BooksHold
<1>2. PICK f, g : FundsCome(h, i, k, f, g)
  BY FundsStages
<1> HIDE DEF h
<1>3. /\ KeepsLoans(q, books) /\ SameButCash(f, q)
      /\ Moved(g, f, "loan", i) /\ Moved(h, g, "collateral", k)
  BY <1>2 DEF FundsCome
<1> HIDE DEF q
<1>4. Good(q) /\ Good(f) /\ Good(g) /\ Good(h)
  BY <1>3 DEF KeepsLoans, SameButCash, Moved
<1>5. Spare(f) = Spare(q) /\ Free(f, "collateral") = Free(q, "collateral")
  BY <1>3 DEF SameButCash, TokensOnly, Spare, Free
<1>6. /\ Spare(g) = Spare(f) + i /\ Free(g, "collateral") = Free(f, "collateral")
      /\ Spare(h) = Spare(g) /\ Free(h, "collateral") = Free(g, "collateral") + k
  BY <1>3, <1>4, MovedSpare
<1>7. Spare(books) \in Int /\ Spare(q) \in Int
  BY <1>1, <1>4, FreeIsInt DEF Good, Books, Lenders, Tokens, Spare
<1>8. Spare(h) <= Spare(books) + i
  BY <1>3, <1>5, <1>6, <1>7 DEF KeepsLoans
<1>9. Free(h, "collateral") = Free(books, "collateral") + k
  BY <1>3, <1>5, <1>6 DEF KeepsLoans
<1>10. h.loans = books.loans /\ h.twice = books.twice /\ h.lender = q.lender
  BY <1>3 DEF KeepsLoans, SameButCash, Moved, TokensOnly
<1> QED BY <1>3, <1>4, <1>8, <1>9, <1>10 DEF Funded, KeepsLoans, h

\* The stages after them: the loan is lent with l, and its terms begin with s.
LEMMA BegunStages ==
    ASSUME LoanInv, NEW id \in LoanIds, NEW kind \in Kinds, NEW n \in Nat \ {0},
           NEW i \in Nat, NEW k \in Nat, NEW rate \in Nat, NEW ti \in Nat,
           BeginOpen(id, kind, n, i, k, rate, ti).books.ok
    PROVE  LET h == OpeningFunds(n, i, k)
               l == OpeningLent(id, kind, n, i, k)
               s == BeginOpen(id, kind, n, i, k, rate, ti)
           IN  /\ h.ok
               /\ Funded(h, books, i, k)
               /\ Lends(l, h, id, kind, n)
               /\ Begins(s, l, id, n)
               /\ BeginsFor(s, l, id, n, rate, ti)
               /\ kind = "torque" => s.amount = ti
<1> DEFINE x == books.loans[id]
           h == OpeningFunds(n, i, k)
           l == OpeningLent(id, kind, n, i, k)
           s == BeginOpen(id, kind, n, i, k, rate, ti)
<1>1. Good(books) /\ Shaped(books) /\ BooksHold(books) /\ now \in Nat
      /\ SoundLoan(x, books.twice)
  BY StateFacts
<1>2. l.ok /\ h.ok
  <2> HIDE DEF s, l, h
  <2> QED BY <1>1, OpeningShape DEF Follows, s, l, h
<1>3. Funded(h, books, i, k)
  BY <1>1, <1>2, FundsEffect
<1>4. l = InitializeLoan(h, id, kind, n) /\ s = InitializeInterest(l, id, n, rate, ti)
  BY DEF OpeningLent, OpeningFunds, BeginOpen
<1> HIDE DEF h, l, s
<1>5. Good(h) /\ SoundLoan(h.loans[id], h.twice)
  BY <1>1, <1>3 DEF Funded
<1>6. Lends(l, h, id, kind, n)
  <2>1. InitializeLoan(h, id, kind, n).ok
    BY <1>2, <1>4
  <2> QED BY <1>1, <1>4, <1>5, <2>1, InitializeLoanEffect
<1>7. Good(l) /\ l.lender.updatedTimestamp <= now /\ l.loans[id].kind = kind
      /\ (l.loans[id].endTimestamp = 0 \/ l.loans[id].endTimestamp > now)
  BY <1>3, <1>6 DEF Lends, Funded
<1>8. /\ Begins(s, l, id, n)
      /\ BeginsFor(s, l, id, n, rate, ti)
      /\ kind = "torque" => s.amount = ti
  <2>1. InitializeInterest(l, id, n, rate, ti).books.ok
    BY <1>4 DEF s
  <2> QED BY <1>1, <1>4, <1>7, <2>1, InitializeInterestEffect
<1> QED BY <1>2, <1>3, <1>6, <1>8 DEF h, l, s

LEMMA BegunEffect ==
    ASSUME LoanInv, NEW id \in LoanIds, NEW kind \in Kinds, NEW n \in Nat \ {0},
           NEW i \in Nat, NEW k \in Nat, NEW rate \in Nat, NEW ti \in Nat,
           BeginOpen(id, kind, n, i, k, rate, ti).books.ok
    PROVE  LET s == BeginOpen(id, kind, n, i, k, rate, ti)
           IN  /\ s.amount \in Nat
               /\ kind = "torque" => s.amount = ti
               /\ Opened(s.books, books, id, k, i - s.amount)
<1> DEFINE x == books.loans[id]
           h == OpeningFunds(n, i, k)
           l == OpeningLent(id, kind, n, i, k)
           s == BeginOpen(id, kind, n, i, k, rate, ti)
           y == s.books.loans[id]
<1>1. Good(books) /\ now \in Nat
  BY StateFacts
<1>3. Funded(h, books, i, k) /\ Lends(l, h, id, kind, n) /\ Begins(s, l, id, n)
      /\ (kind = "torque" => s.amount = ti)
  BY BegunStages
<1> HIDE DEF h, l, s
<1>5. Good(h)
  BY <1>3 DEF Funded
<1>9. /\ Good(s.books) /\ s.amount \in Nat /\ s.books.twice = books.twice
      /\ s.books.lender.updatedTimestamp = now
      /\ y.kind = kind /\ y.active = TRUE /\ y.collateral = x.collateral
      /\ y.principal = x.principal + n
      /\ y.owedPerDay - s.books.lender.owedPerDay = l.loans[id].owedPerDay - l.lender.owedPerDay
      /\ s.books.lender.principalTotal = l.lender.principalTotal + n
  BY <1>3 DEF Begins, Lends, Funded
<1>10. OnlyLoan(s.books, books, id)
  BY <1>3 DEF Begins, Lends, Funded, OnlyLoan
<1>11. /\ l.loans[id].owedPerDay = x.owedPerDay
       /\ l.lender.owedPerDay = books.lender.owedPerDay
       /\ l.lender.principalTotal = books.lender.principalTotal
  BY <1>3 DEF Lends, Funded
<1>12. /\ x.principal \in Nat /\ books.lender.principalTotal \in Nat
       /\ Free(books, "collateral") \in Int /\ x.collateral \in Nat /\ Spare(books) \in Int
  BY <1>1, NumbersOf
<1>13. y.principal > 0 /\ y.principal - s.books.lender.principalTotal
                              = x.principal - books.lender.principalTotal
  BY <1>9, <1>11, <1>12
<1>14. kind # "none"
  BY DEF Kinds
<1>15. Free(l, "collateral") = Free(h, "collateral") /\ Spare(l) = Spare(h)
  BY <1>3 DEF Lends, Free, Spare
<1>16. Free(s.books, "collateral") - y.collateral
           = Free(books, "collateral") - x.collateral + k
  BY <1>3, <1>9, <1>12, <1>15 DEF Begins, Funded
<1>17. Spare(s.books) <= Spare(books) + (i - s.amount)
  <2>1. Spare(h) \in Int
    BY <1>5, NumbersOf
  <2>2. Spare(s.books) = Spare(h) - s.amount
    BY <1>3, <1>15 DEF Begins
  <2> QED BY <1>3, <1>9, <1>12, <2>1, <2>2 DEF Funded
<1>18. now <= now
  BY <1>1
<1>19. Opened(s.books, books, id, k, i - s.amount)
  BY <1>9, <1>10, <1>11, <1>13, <1>14, <1>16, <1>17, <1>18 DEF Opened
<1> QED BY <1>3, <1>9, <1>19 DEF s

\* The collateral is pledged, and no loan token is left over.
LEMMA OpenedKeeps ==
    ASSUME NEW a, Good(a), NEW id \in LoanIds, NEW b, NEW v \in Int, Opened(b, a, id, v, 0),
           NEW r, Pledged(r, b, id, b.loans[id].collateral + v)
    PROVE  Keeps(r, a, id) /\ SoundLoan(r.loans[id], r.twice)
<1> DEFINE x == a.loans[id]
           y == r.loans[id]
<1>1. /\ Good(r) /\ OnlyLoan(r, a, id) /\ r.lender = b.lender /\ r.twice = a.twice
      /\ y.kind # "none" /\ y.active = TRUE /\ y.principal > 0
      /\ y.principal = b.loans[id].principal
      /\ y.owedPerDay - r.lender.owedPerDay = x.owedPerDay - a.lender.owedPerDay
      /\ y.principal - r.lender.principalTotal = x.principal - a.lender.principalTotal
      /\ y.collateral = b.loans[id].collateral + v
      /\ r.lender.updatedTimestamp <= now
  BY DEF Opened, Pledged, OnlyLoan
<1>2. Free(r, "collateral") = Free(b, "collateral") /\ Spare(r) = Spare(b)
  BY DEF Pledged, Free, Spare
<1>3. /\ {x.principal, a.lender.principalTotal, x.collateral, b.loans[id].collateral} \subseteq Int
      /\ {Free(a, "collateral"), Free(b, "collateral"), Spare(a)} \subseteq Int
  BY NumbersOf DEF Opened
<1>4. Free(r, "collateral") - y.collateral = Free(a, "collateral") - x.collateral
  <2> DEFINE f == Free(b, "collateral")
             c == b.loans[id].collateral
             g == Free(a, "collateral")
             d == x.collateral
  <2>1. {f, c, g, d} \subseteq Int
    BY <1>3
  <2>2. f - c = g - d + v
    BY DEF Opened
  <2> HIDE DEF f, c, g, d
  <2>3. f - (c + v) = g - d
    BY <2>1, <2>2
  <2> QED BY <1>1, <1>2, <2>3 DEF f, c, g, d
<1>5. Spare(r) <= Spare(a)
  BY <1>2, <1>3 DEF Opened
<1>6. x.principal - a.lender.principalTotal >= x.principal - a.lender.principalTotal
  BY <1>3
<1>7. Keeps(r, a, id)
  BY <1>1, <1>4, <1>5, <1>6 DEF Keeps
<1>8. SoundLoan(y, r.twice)
  BY <1>1 DEF SoundLoan
<1> QED BY <1>7, <1>8

\* An opening, from its first stages to f, where no loan token is left over and v
\* of the collateral is there to be pledged, and its end r.
Opens(r, id, kind, n, i, k, rate, ti, f, v) ==
    LET s == BeginOpen(id, kind, n, i, k, rate, ti)
    IN  /\ Call(r) /\ balances' = balances
        /\ rounded' = IF kind = "torque" THEN rounded ELSE rounded +
                RoundedOff((s.books.loans[id].endTimestamp - now) * Percent(n, rate), DAY)
        /\ kind \in Kinds /\ n \in Nat \ {0} /\ i \in Nat /\ k \in Nat /\ ti \in Nat
        /\ s.books.ok
        /\ Good(f) /\ TokensOnly(f, s.books) /\ v \in Nat
        /\ Free(f, "loan") = Free(s.books, "loan") - (i - s.amount)
        /\ Free(f, "collateral") = Free(s.books, "collateral") + (v - k)
        /\ Pledged(r, f, id, f.loans[id].collateral + v)

LEMMA OpensKeeps ==
    ASSUME LoanInv, NEW id \in LoanIds, NEW rate \in Nat,
           NEW r, NEW kind, NEW n, NEW i, NEW k, NEW ti, NEW f, NEW v,
           Opens(r, id, kind, n, i, k, rate, ti, f, v)
    PROVE  LoanInv'
<1> DEFINE s == BeginOpen(id, kind, n, i, k, rate, ti)
           m == i - s.amount
<1>1. Good(books)
  BY StateFacts
<1>2. /\ Call(r) /\ balances' = balances
      /\ kind \in Kinds /\ n \in Nat \ {0} /\ i \in Nat /\ k \in Nat /\ ti \in Nat
      /\ s.books.ok
      /\ Good(f) /\ TokensOnly(f, s.books) /\ v \in Nat
      /\ Free(f, "loan") = Free(s.books, "loan") - m
      /\ Free(f, "collateral") = Free(s.books, "collateral") + (v - k)
      /\ Pledged(r, f, id, f.loans[id].collateral + v)
  BY DEF Opens
<1>3. s.amount \in Nat /\ Opened(s.books, books, id, k, m)
  BY <1>2, BegunEffect
<1> HIDE DEF s
<1>4. m \in Int /\ Good(s.books)
  BY <1>2, <1>3 DEF Opened
<1> HIDE DEF m
<1>5. f.loans = s.books.loans /\ f.lender = s.books.lender /\ f.twice = s.books.twice
  BY <1>2 DEF TokensOnly
<1>6. /\ {Free(s.books, "collateral"), s.books.loans[id].collateral} \subseteq Int
      /\ {Free(books, "collateral"), books.loans[id].collateral} \subseteq Int
      /\ {Free(s.books, "loan"), s.books.lender.owedTotal, Spare(books)} \subseteq Int
  BY <1>1, <1>4, NumbersOf
<1>7. Free(f, "collateral") - f.loans[id].collateral
          = Free(books, "collateral") - books.loans[id].collateral + v
  <2> DEFINE g == Free(s.books, "collateral")
             c == s.books.loans[id].collateral
             h == Free(books, "collateral")
             d == books.loans[id].collateral
  <2>1. {g, c, h, d} \subseteq Int
    BY <1>6
  <2>2. g - c = h - d + k
    BY <1>3 DEF Opened
  <2> HIDE DEF g, c, h, d
  <2>3. (g + (v - k)) - c = h - d + v
    BY <1>2, <2>1, <2>2
  <2> QED BY <1>2, <1>5, <2>3 DEF g, c, h, d
<1>8. Spare(f) <= Spare(books) + 0
  <2> DEFINE g == Free(s.books, "loan")
             o == s.books.lender.owedTotal
             h == Spare(books)
  <2>1. {g, o, h} \subseteq Int
    BY <1>6
  <2>2. g - o <= h + m
    BY <1>3 DEF Opened, Spare
  <2> HIDE DEF g, o, h
  <2>3. (g - m) - o <= h + 0
    BY <1>4, <2>1, <2>2
  <2> QED BY <1>2, <1>5, <2>3 DEF Spare, g, o, h
<1>9. /\ OnlyLoan(f, books, id) /\ f.twice = books.twice
      /\ f.lender.updatedTimestamp <= now
      /\ f.loans[id].kind # "none" /\ f.loans[id].active = TRUE /\ f.loans[id].principal > 0
      /\ f.loans[id].owedPerDay - f.lender.owedPerDay
             = books.loans[id].owedPerDay - books.lender.owedPerDay
      /\ f.loans[id].principal - f.lender.principalTotal
             = books.loans[id].principal - books.lender.principalTotal
  BY <1>3, <1>5 DEF Opened, OnlyLoan
<1>10. Opened(f, books, id, v, 0)
  BY <1>2, <1>7, <1>8, <1>9 DEF Opened
<1>11. Keeps(r, books, id) /\ SoundLoan(r.loans[id], r.twice)
  <2>1. v \in Int
    BY <1>2
  <2> QED BY <1>1, <1>2, <1>10, <2>1, OpenedKeeps
<1> QED BY <1>2, <1>11, LoanCallKeeps

LEMMA BorrowOpens ==
    ASSUME LoanInv, NEW id \in LoanIds, NEW rate \in Nat,
           NEW ask \in [withdraw : Nat, duration : Nat, collateral : Nat],
           Borrow(id, ask, rate)
    PROVE  \E r, kind, n, i, k, ti, f, v : Opens(r, id, kind, n, i, k, rate, ti, f, v)
<1> DEFINE n == WithInterest(ask.withdraw, rate, ask.duration)
           i == n - ask.withdraw
           k == ask.collateral
           s == BeginOpen(id, "torque", n, i, k, rate, i)
           fee == BorrowingFee(k)
           f == HoldFee(s.books, "collateral", fee)
           r == FinalizeOpen(f, id, minInitialMargin, k - fee, n, n)
<1>1. /\ InterestFor(rate, ask.duration) < 100 /\ i # 0
      /\ Call(r) /\ balances' = balances /\ rounded' = rounded
  BY DEF Borrow
<1>2. Good(books) /\ Shaped(books)
  BY StateFacts
<1>3. n \in Nat \ {0} /\ i \in Nat
  <2>1. n \in Nat /\ n >= ask.withdraw
    BY <1>1, WithInterestNat
  <2> HIDE DEF n
  <2> QED BY <1>1, <2>1
<1> HIDE DEF n, i
<1>4. k \in Nat /\ fee \in Nat /\ k - fee \in Nat
  <2>1. k \in Nat
    OBVIOUS
  <2> HIDE DEF k
  <2>2. fee \in Nat /\ fee <= k
    BY <2>1, FeesNat
  <2> HIDE DEF fee
  <2> QED BY <2>1, <2>2
<1> HIDE DEF k, fee
<1>5. Shaped(s.books)
  BY <1>2, OpeningShape DEF Follows
<1> HIDE DEF s
<1>6. Follows(f, s.books)
  BY <1>5, DepositShape
<1>7. Follows(r, f)
  <2> HIDE DEF f
  <2> QED BY <1>6, FinalizeOpenShape DEF Follows
<1>8. r.ok /\ s.books.ok
  <2>1. r.ok
    BY <1>1 DEF Call
  <2> HIDE DEF r, f
  <2> QED BY <1>6, <1>7, <2>1 DEF Follows
<1>9. s.amount = i /\ Good(s.books)
  <2>1. s.amount = i /\ Opened(s.books, books, id, k, i - s.amount)
    BY <1>3, <1>4, <1>8, BegunEffect, SMTT(30) DEF Kinds, s
  <2> QED BY <2>1 DEF Opened
<1>10. Moved(f, s.books, "collateral", -fee)
  BY <1>4, <1>9, FeeEffect DEF Tokens
<1> HIDE DEF f
<1>11. /\ Good(f) /\ TokensOnly(f, s.books)
       /\ Free(f, "loan") = Free(s.books, "loan") - (i - s.amount)
       /\ Free(f, "collateral") = Free(s.books, "collateral") + ((k - fee) - k)
  <2>1. /\ Free(f, "loan") = Free(s.books, "loan")
        /\ Free(f, "collateral") = Free(s.books, "collateral") + (-fee)
    BY <1>10 DEF Moved, Tokens
  <2>2. Free(s.books, "loan") \in Int
    BY <1>9, NumbersOf
  <2> QED BY <1>3, <1>4, <1>9, <1>10, <2>1, <2>2 DEF Moved
<1>12. Pledged(r, f, id, f.loans[id].collateral + (k - fee))
  <2> DEFINE m == k - fee
  <2>1. m \in Nat /\ FinalizeOpen(f, id, minInitialMargin, m, n, n).ok
    BY <1>4, <1>8
  <2> HIDE DEF m
  <2>2. Pledged(FinalizeOpen(f, id, minInitialMargin, m, n, n), f, id, f.loans[id].collateral + m)
    BY <1>11, <2>1, FinalizeOpenEffect
  <2> QED BY <2>2 DEF m
<1> HIDE DEF r
<1>13. Opens(r, id, "torque", n, i, k, rate, i, f, k - fee)
  <2>1. "torque" \in Kinds
    BY DEF Kinds
  <2>2. rounded' = rounded
    BY <1>1
  <2> QED BY <1>1, <1>3, <1>4, <1>8, <1>11, <1>12, <2>1, <2>2 DEF Opens, s
<1> QED BY <1>13

LEMMA TradeOpens ==
    ASSUME LoanInv, NEW id \in LoanIds, NEW rate \in Nat,
           NEW ask \in [loanToken : Nat, collateral : Nat, leverage : Nat \ {0}],
           MarginTrade(id, ask, rate)
    PROVE  \E r, kind, n, i, k, ti, f, v : Opens(r, id, kind, n, i, k, rate, ti, f, v)
<1> DEFINE deposit == ask.loanToken + ToLoan(ask.collateral, price)
           n == WithInterest(deposit * ask.leverage, rate, maxLoanTerm)
           i == n + ask.loanToken
           k == ask.collateral
           s == BeginOpen(id, "trade", n, i, k, rate, 0)
           rest == n + ask.loanToken - s.amount
           swap == LoanSwap(s.books, "loan", "collateral", rest, rest, 0, price, 0)
           margin == 100 \div ask.leverage
           r == FinalizeOpen(swap.books, id, margin, k + swap.received, n, 0)
<1>1. InterestFor(rate, maxLoanTerm) < 100 /\ n > TINY_AMOUNT /\ rest >= 0
      /\ Call(r) /\ balances' = balances
      /\ rounded' = rounded + RoundedOff(
             (s.books.loans[id].endTimestamp - now) * Percent(n, rate), DAY)
  <2>1. InterestFor(rate, maxLoanTerm) < 100 /\ n > TINY_AMOUNT /\ balances' = balances
    BY DEF MarginTrade
  <2>2. rest >= 0
    BY DEF MarginTrade
  <2>3. Call(r)
    BY DEF MarginTrade
  <2>4. rounded' = rounded + RoundedOff(
             (s.books.loans[id].endTimestamp - now) * Percent(n, rate), DAY)
    BY DEF MarginTrade
  <2> QED BY <2>1, <2>2, <2>3, <2>4
<1>2. Good(books) /\ Shaped(books) /\ price \in Nat \ {0}
  BY StateFacts
<1>3. n \in Nat \ {0} /\ i \in Nat /\ k \in Nat
  <2>1. ToLoan(ask.collateral, price) \in Nat
    BY <1>2, MulDivNat, LoanAssumption DEF ToLoan
  <2>2. deposit \in Nat
    BY <2>1
  <2> HIDE DEF deposit
  <2>3. deposit * ask.leverage \in Nat
    BY <2>2
  <2>4. maxLoanTerm \in Nat /\ TINY_AMOUNT \in Nat
    BY LoanAssumption
  <2>5. n \in Nat
    BY <1>1, <2>3, <2>4, WithInterestNat
  <2> HIDE DEF n
  <2> QED BY <1>1, <2>4, <2>5
<1>20. ask.loanToken \in Nat /\ i = n + ask.loanToken
  OBVIOUS
<1> HIDE DEF n, i, k, margin
<1>4. Shaped(s.books)
  BY <1>2, OpeningShape DEF Follows
<1> HIDE DEF s
<1>5. Follows(swap.books, s.books)
  BY <1>4, LoanSwapShape
<1>6. Follows(r, swap.books)
  <2> HIDE DEF swap
  <2> QED BY <1>5, FinalizeOpenShape DEF Follows
<1>7. r.ok /\ swap.books.ok /\ s.books.ok
  <2>1. r.ok
    BY <1>1 DEF Call
  <2> HIDE DEF r, swap
  <2> QED BY <1>5, <1>6, <2>1 DEF Follows
<1>8. s.amount \in Nat /\ Opened(s.books, books, id, k, i - s.amount)
  BY <1>3, <1>7, BegunEffect, 0 \in Nat DEF Kinds, s
<1>9. rest \in Nat /\ rest = i - s.amount
  BY <1>1, <1>3, <1>8, <1>20
<1>10. Good(s.books)
  BY <1>8 DEF Opened
<1> HIDE DEF rest
<1>11. Swapped(swap, s.books, "loan", "collateral") /\ swap.used = rest
  <2>1. 0 \in Nat /\ "collateral" \in Tokens /\ "loan" \in Tokens /\ "loan" # "collateral"
    BY DEF Tokens
  <2>2. LoanSwap(s.books, "loan", "collateral", rest, rest, 0, price, 0).books.ok
    BY <1>7
  <2> HIDE DEF r
  <2>3. /\ Swapped(LoanSwap(s.books, "loan", "collateral", rest, rest, 0, price, 0),
                  s.books, "loan", "collateral")
        /\ LoanSwap(s.books, "loan", "collateral", rest, rest, 0, price, 0).used = rest
    <3> DEFINE c == s.books
    <3>1. Good(c) /\ rest \in Nat /\ price \in Nat \ {0} /\ 0 \in Nat
          /\ LoanSwap(c, "loan", "collateral", rest, rest, 0, price, 0).books.ok
      BY <1>2, <1>9, <1>10, <2>2
    <3> HIDE DEF c, swap
    <3>2. /\ Swapped(LoanSwap(c, "loan", "collateral", rest, rest, 0, price, 0),
                    c, "loan", "collateral")
          /\ LoanSwap(c, "loan", "collateral", rest, rest, 0, price, 0).used = rest
      BY <2>1, <3>1, LoanSwapEffect, SMTT(30)
    <3> QED BY <3>2 DEF c
  <2> QED BY <2>3
<1> HIDE DEF swap
<1> DEFINE f == swap.books
           v == k + swap.received
<1>12. /\ Good(f) /\ TokensOnly(f, s.books) /\ swap.received \in Nat
       /\ Free(f, "loan") = Free(s.books, "loan") - rest
       /\ Free(f, "collateral") = Free(s.books, "collateral") + swap.received
  BY <1>11 DEF Swapped
<1>13. v \in Nat /\ v - k = swap.received
  BY <1>3, <1>12
<1>14. Pledged(r, f, id, f.loans[id].collateral + v)
  <2>1. FinalizeOpen(f, id, margin, v, n, 0).ok
    BY <1>7
  <2> HIDE DEF v, f
  <2>2. Pledged(FinalizeOpen(f, id, margin, v, n, 0), f, id, f.loans[id].collateral + v)
    BY <1>12, <1>13, <2>1, FinalizeOpenEffect DEF f
  <2> QED BY <2>2 DEF v, f
<1> HIDE DEF r, f, v
<1>15. Opens(r, id, "trade", n, i, k, rate, 0, f, v)
  <2>1. "trade" \in Kinds /\ "trade" # "torque"
    BY DEF Kinds
  <2>2. /\ Good(f) /\ TokensOnly(f, s.books)
        /\ Free(f, "loan") = Free(s.books, "loan") - (i - s.amount)
        /\ Free(f, "collateral") = Free(s.books, "collateral") + (v - k)
    BY <1>9, <1>12, <1>13 DEF f
  <2> QED BY <1>1, <1>3, <1>7, <1>13, <1>14, <2>1, <2>2, 0 \in Nat DEF Opens, s
<1> QED BY <1>15

-----------------------------------------------------------------------------
(* The theorems. *)

LEMMA PoolKeeps == ASSUME LoanInv, PoolCall PROVE LoanInv'
<1>1. PICK s \in Suppliers : \/ \E a \in Deposits : Mint(s, a)
                             \/ \E a \in Burns : Burn(s, a)
  BY DEF PoolCall
<1>2. Deposits \subseteq Nat /\ Burns \subseteq Nat
  BY PoolAssumption
<1>3. CASE \E a \in Deposits : Mint(s, a)
  <2>1. PICK a \in Deposits : Mint(s, a)
    BY <1>3
  <2> QED BY <1>2, <2>1, MintIs, OnlyCashKeeps
<1>4. CASE \E a \in Burns : Burn(s, a)
  <2>1. PICK a \in Burns : Burn(s, a)
    BY <1>4
  <2> QED BY <1>2, <2>1, BurnIs, OnlyCashKeeps
<1> QED BY <1>1, <1>3, <1>4

LEMMA OpenKeeps == ASSUME LoanInv, OpenCall PROVE LoanInv'
<1>1. PICK id \in LoanIds, rate \in Rates : \/ \E ask \in Borrows : Borrow(id, ask, rate)
                                            \/ \E ask \in Trades : MarginTrade(id, ask, rate)
  BY DEF OpenCall
<1>2. /\ rate \in Nat
      /\ Borrows \subseteq [withdraw : Nat, duration : Nat, collateral : Nat]
      /\ Trades \subseteq [loanToken : Nat, collateral : Nat, leverage : Nat \ {0}]
  BY PoolAssumption
<1>3. CASE \E ask \in Borrows : Borrow(id, ask, rate)
  <2>1. PICK ask \in Borrows : Borrow(id, ask, rate)
    BY <1>3
  <2> QED BY <1>2, <2>1, BorrowOpens, OpensKeeps
<1>4. CASE \E ask \in Trades : MarginTrade(id, ask, rate)
  <2>1. PICK ask \in Trades : MarginTrade(id, ask, rate)
    BY <1>4
  <2> QED BY <1>2, <2>1, TradeOpens, OpensKeeps
<1> QED BY <1>1, <1>3, <1>4

LEMMA ClosingKeeps == ASSUME LoanInv, CloseCall PROVE LoanInv'
<1>1. PICK id \in LoanIds, n \in Adjustments :
          \/ CloseWithDeposit(id, n)
          \/ \E c \in BOOLEAN, e \in Buffers : CloseWithSwap(id, n, c, e)
          \/ Liquidate(id, n)
  BY DEF CloseCall
<1>2. n \in Nat \ {0} /\ Buffers \subseteq Nat
  BY PoolAssumption
<1>3. CASE CloseWithDeposit(id, n)
  BY <1>2, <1>3, CloseWithDepositRepays, RepaidKeeps
<1>4. CASE \E c \in BOOLEAN, e \in Buffers : CloseWithSwap(id, n, c, e)
  <2>1. PICK c \in BOOLEAN, e \in Buffers : CloseWithSwap(id, n, c, e)
    BY <1>4
  <2> QED BY <1>2, <2>1, CloseWithSwapKeeps
<1>5. CASE Liquidate(id, n)
  BY <1>2, <1>5, LiquidateRepays, RepaidKeeps
<1> QED BY <1>1, <1>3, <1>4, <1>5

LEMMA MaintenanceKeeps == ASSUME LoanInv, MaintenanceCall PROVE LoanInv'
<1>1. PICK id \in LoanIds :
          \/ \E rate \in RolloverRates, e \in Buffers : Rollover(id, rate, e)
          \/ \E steps \in Reductions :
                ReduceLoanDuration(id, MulDiv(steps, books.loans[id].owedPerDay, DAY))
          \/ \E n \in Adjustments : DepositCollateral(id, n) \/ WithdrawCollateral(id, n)
          \/ \E n \in Extensions :
                \E c \in BOOLEAN, e \in Buffers : ExtendLoanDuration(id, n, c, e)
  BY DEF MaintenanceCall
<1>2. /\ RolloverRates \subseteq Nat /\ Buffers \subseteq Nat /\ Adjustments \subseteq Nat
      /\ Extensions \subseteq Nat /\ Reductions \subseteq Nat
  BY PoolAssumption
<1>3. CASE \E rate \in RolloverRates, e \in Buffers : Rollover(id, rate, e)
  <2>1. PICK rate \in RolloverRates, e \in Buffers : Rollover(id, rate, e)
    BY <1>3
  <2> QED BY <1>2, <2>1, RolloverIs, RolledOverKeeps
<1>4. CASE \E steps \in Reductions :
               ReduceLoanDuration(id, MulDiv(steps, books.loans[id].owedPerDay, DAY))
  <2>1. PICK steps \in Reductions :
               ReduceLoanDuration(id, MulDiv(steps, books.loans[id].owedPerDay, DAY))
    BY <1>4
  <2> DEFINE n == MulDiv(steps, books.loans[id].owedPerDay, DAY)
  <2>2. n \in Nat
    <3>1. books.loans[id].owedPerDay \in Nat
      BY StateFacts, NumbersOf
    <3>2. DAY \in Nat \ {0}
      BY LoanAssumption
    <3> QED BY <1>2, <3>1, <3>2, MulDivNat
  <2>3. ReduceLoanDuration(id, n)
    BY <2>1
  <2> HIDE DEF n
  <2> QED BY <2>2, <2>3, ReduceRenews, ReducedKeeps
<1>5. CASE \E n \in Adjustments : DepositCollateral(id, n) \/ WithdrawCollateral(id, n)
  <2>1. PICK n \in Adjustments : DepositCollateral(id, n) \/ WithdrawCollateral(id, n)
    BY <1>5
  <2> QED BY <1>2, <2>1, DepositCollateralMoves, MovedCollateralKeeps, WithdrawCollateralMoves, MovedCollateralKeeps
<1>6. CASE \E n \in Extensions :
               \E c \in BOOLEAN, e \in Buffers : ExtendLoanDuration(id, n, c, e)
  <2>1. PICK n \in Extensions, c \in BOOLEAN, e \in Buffers : ExtendLoanDuration(id, n, c, e)
    BY <1>6
  <2> QED BY <1>2, <2>1, ExtendRenews, ExtendedKeeps
<1> QED BY <1>1, <1>3, <1>4, <1>5, <1>6

\* The invariant is inductive, whatever amounts, prices, rates and loans.
LEMMA LoanInvInductive == LoanInv /\ [Next]_vars => LoanInv'
<1> SUFFICES ASSUME LoanInv, [Next]_vars PROVE LoanInv'
  OBVIOUS
<1>1. CASE Tick
  BY <1>1, TickKeeps
<1>2. CASE PoolCall
  BY <1>2, PoolKeeps
<1>3. CASE OpenCall
  BY <1>3, OpenKeeps
<1>4. CASE CloseCall
  BY <1>4, ClosingKeeps
<1>5. CASE MaintenanceCall
  BY <1>5, MaintenanceKeeps
<1>6. CASE \E token \in Tokens : WithdrawFees(token)
  BY <1>6, WithdrawFeesIs, FeesLeaveKeeps
<1>7. CASE UNCHANGED vars
  BY <1>7, StutterKeeps
<1> QED BY <1>1, <1>2, <1>3, <1>4, <1>5, <1>6, <1>7 DEF Next

\* Openings, closings, liquidations, rollovers and changes of terms
\* (modules/LoanOpenings, LoanClosingsShared, LoanMaintenance) keep the books
\* sound: types, totals, collateral, no loan token stuck, nothing left of a
\* closed loan and nothing open that is not owed.
THEOREM LoanBooksAreInvariant == Spec => []LoanInv
<1>1. Init => LoanInv
  BY InitKeeps
<1> QED BY <1>1, LoanInvInductive, PTL DEF Spec

\* The lender's totals (LenderInterest) are those of its loans.
THEOREM LenderTotalsHold == Spec => []LenderTotalsAddUp
<1>1. LoanInv => LenderTotalsAddUp
  BY DEF LoanInv
<1> QED BY <1>1, LoanBooksAreInvariant, PTL

\* All collateral the protocol holds is some loan's or a fee.
THEOREM CollateralStaysAccounted == Spec => []CollateralAccounted
<1>1. LoanInv => CollateralAccounted
  BY DEF LoanInv
<1> QED BY <1>1, LoanBooksAreInvariant, PTL
=============================================================================
