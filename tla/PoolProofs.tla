----------------------------- MODULE PoolProofs -----------------------------
(***************************************************************************)
(* What the books of a pool's loans are worth to the pool's suppliers and  *)
(* to its borrowers, for any loans, amounts, prices, rates and fees.       *)
(*                                                                         *)
(* The first part: no step of the pool makes an iToken worth less.  What   *)
(* the pool has in cash and in principal lent is its worth.  Of every      *)
(* step of an operation a lemma says how the worth moves, whether or not   *)
(* the books stay ok (..Pays, ..Worth), and of every call that it leaves   *)
(* the pool worth at least what it had and the interest that was due       *)
(* (..Enriches).  The calls of suppliers change the supply of the token    *)
(* too, and are compared with the price itself (..Price).                  *)
(*                                                                         *)
(* The second part: the interest deposited lasts.  What every loan is      *)
(* still to pay is promised, and of every step a lemma says that what is   *)
(* deposited, and what is in hand, still covers the promises, but for what *)
(* was rounded off (Lasting..), and of every call that it keeps the        *)
(* invariant made of that (..Lasts).                                       *)
(***************************************************************************)
EXTENDS LendingProofs

-----------------------------------------------------------------------------
(* The worth of a pool. *)

Worth(b) == b.cash + b.lender.principalTotal

Valued(b) ==
    /\ {"cash", "lender"} \subseteq DOMAIN b
    /\ "principalTotal" \in DOMAIN b.lender
    /\ b.cash \in Int
    /\ b.lender.principalTotal \in Int

\* The pool gets n more of cash, and nothing else changes of it.
Pays(b, a, n) == Valued(b) /\ b.lender = a.lender /\ b.cash = a.cash + n

LEMMA PaidIsValued == ASSUME NEW b, NEW a, NEW n, Pays(b, a, n) PROVE Valued(b)
BY DEF Pays

LEMMA GoodIsValued == ASSUME NEW b, Good(b) PROVE Valued(b) /\ Worth(b) \in Nat
BY DEF Good, Books, Lenders, Valued, Worth

LEMMA ValuedInt == ASSUME NEW b, Valued(b) PROVE Worth(b) \in Int
BY DEF Valued, Worth

LEMMA PaysTwice ==
    ASSUME NEW a, Valued(a), NEW b, NEW c, NEW m \in Int, NEW n \in Int,
           Pays(b, a, m), Pays(c, b, n)
    PROVE  Pays(c, a, m + n)
BY DEF Pays, Valued

LEMMA PaysNothing ==
    ASSUME NEW a, NEW b, NEW c, NEW n \in Int, Valued(a),
           Pays(b, a, 0), Pays(c, b, n)
    PROVE  Pays(c, a, n)
BY DEF Pays, Valued

LEMMA PaysWorth ==
    ASSUME NEW a, Valued(a), NEW b, NEW n \in Int, Pays(b, a, n)
    PROVE  Valued(b) /\ Worth(b) = Worth(a) + n
BY DEF Pays, Valued, Worth

LEMMA RequirePays ==
    ASSUME NEW b, Valued(b), NEW c PROVE Pays(Require(b, c), b, 0)
BY DEF Pays, Valued, Require

LEMMA DepositPays ==
    ASSUME NEW b, Valued(b), NEW t, NEW n
    PROVE  Pays(VaultDeposit(b, t, n), b, 0) /\ Pays(HoldFee(b, t, n), b, 0)
BY DEF Pays, Valued, VaultDeposit, HoldFee

LEMMA WithdrawPays ==
    ASSUME NEW b, Valued(b), NEW t, NEW n PROVE Pays(VaultWithdraw(b, t, n), b, 0)
<1> DEFINE q == Require(b, n <= b.held[t])
<1>1. Pays(q, b, 0)
  BY RequirePays
<1>2. VaultWithdraw(b, t, n) = [q EXCEPT !.held[t] = @ - n]
  BY DEF VaultWithdraw
<1> HIDE DEF q
<1> QED BY <1>1, <1>2 DEF Pays, Valued

LEMMA PayLenderPays ==
    ASSUME NEW b, Valued(b), NEW n \in Int PROVE Pays(PayLender(b, n), b, n)
<1> DEFINE w == VaultWithdraw(b, "loan", n)
<1>1. Pays(w, b, 0)
  BY WithdrawPays
<1>2. PayLender(b, n) = [w EXCEPT !.cash = @ + n]
  BY DEF PayLender
<1> HIDE DEF w
<1> QED BY <1>1, <1>2 DEF Pays, Valued

LEMMA SellAllPays ==
    ASSUME NEW b, Valued(b), NEW f, NEW t, NEW n, NEW fee, NEW p
    PROVE  Pays(SellAll(b, f, t, n, fee, p).books, b, 0)
<1> DEFINE rec == Exchanged(f, n - fee, p)
           w == VaultWithdraw(b, f, n - fee)
           d == VaultDeposit(w, t, rec)
           h == HoldFee(d, f, fee)
<1>1. Pays(w, b, 0)
  BY WithdrawPays
<1>2. Pays(d, w, 0)
  BY <1>1, DepositPays DEF Pays
<1>3. Pays(h, d, 0)
  BY <1>2, DepositPays DEF Pays
<1>4. Pays(Require(h, rec > 0), h, 0)
  BY <1>3, RequirePays DEF Pays
<1>5. SellAll(b, f, t, n, fee, p).books = Require(h, rec > 0)
  BY DEF SellAll
<1> HIDE DEF rec, w, d, h
<1> QED BY <1>1, <1>2, <1>3, <1>4, <1>5, PaysNothing

LEMMA BuyRequiredPays ==
    ASSUME NEW b, Valued(b), NEW f, NEW t, NEW max, NEW q, NEW fee, NEW p, NEW e
    PROVE  Pays(BuyRequired(b, f, t, max, q, fee, p, e).books, b, 0)
<1> DEFINE u == Min2(max, Needed(f, q + fee, p) + e)
           rec == Exchanged(f, u, p)
           w == VaultWithdraw(b, f, u)
           d == VaultDeposit(w, t, rec)
           h == HoldFee(d, t, fee)
           r == Require(h, rec >= q + fee)
<1>1. Pays(w, b, 0)
  BY WithdrawPays
<1>2. Pays(d, w, 0)
  BY <1>1, DepositPays DEF Pays
<1>3. Pays(h, d, 0)
  BY <1>2, DepositPays DEF Pays
<1>4. Pays(r, h, 0)
  BY <1>3, RequirePays DEF Pays
<1>5. BuyRequired(b, f, t, max, q, fee, p, e).books = r
  BY DEF BuyRequired
<1> HIDE DEF u, rec, w, d, h, r
<1> QED BY <1>1, <1>2, <1>3, <1>4, <1>5, PaysNothing

LEMMA LoanSwapPays ==
    ASSUME NEW b, Valued(b), NEW f, NEW t, NEW min, NEW max, NEW q, NEW p, NEW e
    PROVE  Pays(LoanSwap(b, f, t, min, max, q, p, e).books, b, 0)
BY SellAllPays, BuyRequiredPays DEF LoanSwap

LEMMA CollateralSwapPays ==
    ASSUME NEW b, Valued(b), NEW loan, NEW min, NEW n, NEW q, NEW p, NEW e
    PROVE  Pays(DoCollateralSwap(b, loan, min, n, q, p, e).books, b, 0)
<1> DEFINE s == LoanSwap(b, "collateral", "loan", min, loan.collateral, q, p, e)
           c == s.received >= n /\ s.used <= loan.collateral
<1>1. Pays(s.books, b, 0)
  BY LoanSwapPays
<1>2. "books" \in DOMAIN s
  BY DEF LoanSwap, SellAll, BuyRequired
<1>3. DoCollateralSwap(b, loan, min, n, q, p, e) = [s EXCEPT !.books = Require(@, c)]
  BY DEF DoCollateralSwap
<1> HIDE DEF s, c
<1>4. DoCollateralSwap(b, loan, min, n, q, p, e).books = Require(s.books, c)
  BY <1>2, <1>3
<1>5. Pays(Require(s.books, c), s.books, 0)
  BY <1>1, RequirePays DEF Pays
<1> QED BY <1>1, <1>4, <1>5, PaysNothing
-----------------------------------------------------------------------------
(* What of the interest that is paid reaches the pool. *)

Earned(n) == n - Percent(n, lendingFeePercent)

LEMMA EarnedNat ==
    ASSUME NEW n \in Nat
    PROVE  /\ Earned(n) \in Nat
           /\ Percent(n, 100 - lendingFeePercent) \in Nat
           /\ Percent(n, 100 - lendingFeePercent) <= Earned(n)
<1> DEFINE f == lendingFeePercent
           g == 100 - f
           p == (n * f) \div 100
           q == (n * g) \div 100
<1>1. f \in Nat /\ f <= 100 /\ g \in Nat
  BY LoanAssumption
<1>2. Percent(n, f) = p /\ Percent(n, 100 - f) = q
  BY DEF Percent, MulDiv
<1> HIDE DEF f
<1>3. n * f \in Nat /\ n * g \in Nat
  BY <1>1
<1>4. n * f + n * g = 100 * n
  BY <1>1
<1>5. \A k \in Nat : k \div 100 \in Nat /\ 100 * (k \div 100) <= k
  OBVIOUS
<1>6. p \in Nat /\ q \in Nat /\ 100 * p <= n * f /\ 100 * q <= n * g
  BY <1>3, <1>5
<1> DEFINE u == n * f
           v == n * g
<1>7. p + q <= n
  <2>1. u \in Nat /\ v \in Nat /\ u + v = 100 * n /\ 100 * p <= u /\ 100 * q <= v
    BY <1>3, <1>4, <1>6
  <2> HIDE DEF u, v, p, q
  <2> QED BY <1>6, <2>1
<1> HIDE DEF p, q
<1> QED BY <1>2, <1>6, <1>7 DEF Earned, f

LEMMA TransferPays ==
    ASSUME NEW b, Valued(b), NEW n \in Nat
    PROVE  Pays(PayInterestTransfer(b, n), b, Earned(n))
<1> DEFINE fee == Percent(n, lendingFeePercent)
           h == HoldFee(b, "loan", fee)
<1>1. Earned(n) \in Nat /\ Earned(n) = n - fee
  BY EarnedNat DEF Earned
<1>2. PayInterestTransfer(b, n) = PayLender(h, n - fee)
  BY DEF PayInterestTransfer
<1> HIDE DEF fee
<1>3. Pays(h, b, 0)
  BY DepositPays
<1> HIDE DEF h
<1>4. Pays(PayLender(h, n - fee), h, Earned(n))
  <2>1. \A m \in Int : Pays(PayLender(h, m), h, m)
    BY <1>3, PayLenderPays DEF Pays
  <2> QED BY <1>1, <2>1
<1> QED BY <1>1, <1>2, <1>3, <1>4, PaysNothing

LEMMA UnpaidNat ==
    ASSUME NEW b, b.lender \in Lenders, NEW m \in Nat, b.lender.updatedTimestamp <= m
    PROVE  InterestUnpaid(b, m) \in Nat
<1>1. /\ DAY \in Nat \ {0} /\ m - b.lender.updatedTimestamp \in Nat
      /\ b.lender.owedPerDay \in Nat /\ b.lender.owedTotal \in Nat
  BY LoanAssumption DEF Lenders
<1>2. MulDiv(m - b.lender.updatedTimestamp, b.lender.owedPerDay, DAY) \in Nat
  BY <1>1, MulDivNat
<1> QED BY <1>1, <1>2 DEF InterestUnpaid, Min2

LEMMA PayInterestWorth ==
    ASSUME NEW b, Valued(b), NEW m, InterestUnpaid(b, m) \in Nat
    PROVE  /\ Valued(PayInterest(b, m))
           /\ Worth(PayInterest(b, m)) = Worth(b) + Earned(InterestUnpaid(b, m))
<1> DEFINE owed == InterestUnpaid(b, m)
           c == [b EXCEPT !.lender.owedTotal = @ - owed, !.lender.updatedTimestamp = m]
<1>1. PayInterest(b, m) = PayInterestTransfer(c, owed)
  BY DEF PayInterest
<1>2. owed \in Nat /\ Earned(owed) \in Int
  BY EarnedNat
<1> HIDE DEF owed
<1>3. Valued(c) /\ Worth(c) = Worth(b)
  BY DEF Valued, Worth
<1> HIDE DEF c
<1>4. Pays(PayInterestTransfer(c, owed), c, Earned(owed))
  BY <1>2, <1>3, TransferPays
<1>5. Valued(PayInterest(b, m)) /\ Worth(PayInterest(b, m)) = Worth(b) + Earned(owed)
  BY <1>1, <1>2, <1>3, <1>4, PaysWorth
<1> QED BY <1>5 DEF owed

LEMMA FeeRewardPays ==
    ASSUME NEW b, Valued(b), NEW id, NEW m PROVE Pays(SettleFeeReward(b, id, m), b, 0)
<1> DEFINE q == Require(b, b.loans[id].updatedTimestamp <= m)
<1>1. Pays(q, b, 0)
  BY RequirePays
<1>2. SettleFeeReward(b, id, m) = [q EXCEPT !.loans[id].updatedTimestamp = m]
  BY DEF SettleFeeReward
<1> HIDE DEF q
<1> QED BY <1>1, <1>2 DEF Pays, Valued

LEMMA PaidForWorth ==
    ASSUME NEW b, Valued(b), NEW id, InterestUnpaid(b, now) \in Nat
    PROVE  /\ Valued(PaidFor(b, id))
           /\ Worth(PaidFor(b, id)) = Worth(b) + Earned(InterestUnpaid(b, now))
<1> DEFINE p == PayInterest(b, now)
<1>1. Valued(p) /\ Worth(p) = Worth(b) + Earned(InterestUnpaid(b, now))
  BY PayInterestWorth
<1>2. PaidFor(b, id) = SettleFeeReward(p, id, now)
  BY DEF PaidFor
<1> HIDE DEF p
<1>3. Pays(SettleFeeReward(p, id, now), p, 0)
  BY <1>1, FeeRewardPays
<1>4. Valued(PaidFor(b, id)) /\ Worth(PaidFor(b, id)) = Worth(p) + 0
  BY <1>1, <1>2, <1>3, PaysWorth
<1> QED BY <1>1, <1>4, ValuedInt

LEMMA NewTermsWorth ==
    ASSUME NEW b, Valued(b), NEW id, NEW w, NEW e, NEW d
    PROVE  Valued(NewTerms(b, id, w, e, d)) /\ Worth(NewTerms(b, id, w, e, d)) = Worth(b)
BY DEF Valued, Worth, NewTerms

LEMMA OneByOneWorth ==
    ASSUME NEW b, Valued(b), NEW id, NEW w, NEW d, NEW u, NEW v \in Int, NEW o
    PROVE  /\ Valued(OneByOne(b, id, w, d, u, v, o))
           /\ Worth(OneByOne(b, id, w, d, u, v, o)) = b.cash + v
BY DEF Valued, Worth, OneByOne

LEMMA SettleWorth ==
    ASSUME NEW b, Valued(b), NEW id, NEW close \in Int, NEW m, InterestUnpaid(b, m) \in Nat
    PROVE  LET r == SettleInterest(b, id, close, m).books
           IN  Valued(r) /\ Worth(r) = Worth(b) + Earned(InterestUnpaid(b, m)) - close
<1> DEFINE paid   == PayInterest(b, m)
           loan   == paid.loans[id]
           time   == Min2(m, loan.endTimestamp)
           perDay == OwedPerDayRefund(loan, close)
           refund == MulDiv(loan.endTimestamp - time, perDay, DAY)
           partly == close < loan.principal
           fed    == SettleFeeReward(paid, id, time)
           left   == Require(fed,
                      /\ perDay <= paid.lender.owedPerDay
                      /\ close <= paid.lender.principalTotal
                      /\ partly => refund <= loan.depositTotal)
           r == SettleInterest(b, id, close, m).books
<1>1. \E w, d, u, o :
        r = OneByOne(left, id, w, d, u, left.lender.principalTotal - close, o)
  BY ZenonT(40) DEF SettleInterest, OneByOne
<1>2. Valued(paid) /\ Worth(paid) = Worth(b) + Earned(InterestUnpaid(b, m))
  BY PayInterestWorth
<1> HIDE DEF paid, loan
<1>3. Pays(fed, paid, 0)
  BY <1>2, FeeRewardPays
<1> HIDE DEF fed
<1>4. Pays(left, fed, 0)
  BY <1>3, RequirePays DEF Pays
<1> HIDE DEF left
<1>5. Pays(left, paid, 0)
  BY <1>2, <1>3, <1>4, PaysNothing
<1>6. Valued(left) /\ Worth(left) = Worth(paid)
  BY <1>2, <1>5, PaysWorth, ValuedInt
<1> HIDE DEF r
<1>7. PICK w, d, u, o :
        r = OneByOne(left, id, w, d, u, left.lender.principalTotal - close, o)
  BY <1>1
<1>8. left.lender.principalTotal \in Int /\ left.cash \in Int
  BY <1>6 DEF Valued
<1>9. Valued(r) /\ Worth(r) = left.cash + (left.lender.principalTotal - close)
  <2>1. left.lender.principalTotal - close \in Int
    BY <1>8
  <2> QED BY <1>6, <1>7, <2>1, OneByOneWorth
<1>10. Worth(r) = Worth(left) - close
  BY <1>8, <1>9 DEF Worth
<1>11. Valued(r) /\ Worth(r) = Worth(b) + Earned(InterestUnpaid(b, m)) - close
  <2>1. Worth(b) \in Int /\ Earned(InterestUnpaid(b, m)) \in Int
    BY ValuedInt, EarnedNat
  <2> QED BY <1>2, <1>6, <1>9, <1>10, <2>1
<1> QED BY <1>11 DEF r

\* Settling a closing leaves of the principal what is still to be repaid.
LEMMA ToPrincipalWorth ==
    ASSUME NEW b, Good(b), NEW id \in LoanIds, NEW close \in Nat, NEW m \in Nat,
           b.lender.updatedTimestamp <= m,
           SettleInterestToPrincipal(b, id, close, m).books.ok
    PROVE  LET s == SettleInterestToPrincipal(b, id, close, m)
           IN  /\ Valued(s.books)
               /\ Worth(s.books) + s.lessInterest = Worth(b) + Earned(InterestUnpaid(b, m))
<1> DEFINE s == SettleInterest(b, id, close, m)
           applied == Min2(s.refund, close)
           w == VaultWithdraw(s.books, "loan", s.refund - applied)
           q == PayLender(w, applied)
           p == SettleInterestToPrincipal(b, id, close, m)
           gain == Earned(InterestUnpaid(b, m))
<1>1. p.books = q /\ p.lessInterest = close - applied
  BY DEF SettleInterestToPrincipal
<1>2. s.books.ok
  <2>1. Follows(s.books, b)
    BY SettleShape, GoodIsShaped
  <2>2. Follows(w, s.books)
    BY <2>1, WithdrawShape DEF Follows
  <2>3. Follows(q, w)
    BY <2>2, PayLenderShape DEF Follows
  <2> QED BY <1>1, <2>1, <2>2, <2>3 DEF Follows
<1>3. s.refund \in Nat
  BY <1>2, SettleEffect
<1>4. applied \in Nat
  BY <1>3 DEF Min2
<1>5. Valued(b) /\ InterestUnpaid(b, m) \in Nat /\ Worth(b) \in Int
  BY GoodIsValued, UnpaidNat DEF Good, Books
<1>6. Valued(s.books) /\ Worth(s.books) = Worth(b) + gain - close
  BY <1>5, SettleWorth
<1>7. gain \in Int
  BY <1>5, EarnedNat
<1> HIDE DEF s, applied, gain
<1>8. Pays(w, s.books, 0)
  BY <1>6, WithdrawPays
<1> HIDE DEF w
<1>9. Pays(q, w, applied)
  <2>1. Valued(w) /\ applied \in Int
    BY <1>4, <1>8 DEF Pays
  <2> QED BY <2>1, PayLenderPays
<1> HIDE DEF q
<1>10. Pays(q, s.books, applied)
  BY <1>4, <1>6, <1>8, <1>9, PaysNothing
<1>11. Valued(q) /\ Worth(q) = Worth(s.books) + applied
  BY <1>4, <1>6, <1>10, PaysWorth
<1>12. Worth(q) + (close - applied) = Worth(b) + gain
  BY <1>4, <1>5, <1>6, <1>7, <1>11
<1> HIDE DEF p
<1>13. Valued(p.books) /\ Worth(p.books) + p.lessInterest = Worth(b) + gain
  BY <1>1, <1>11, <1>12
<1> QED BY <1>13 DEF p, gain

-----------------------------------------------------------------------------
(* Closing by a swap. *)

\* What the pool is worth once the interest that is due is paid.
Due(b) == Worth(b) + Earned(InterestUnpaid(b, now))

LEMMA DueFacts ==
    ASSUME NEW b, Good(b), now \in Nat, b.lender.updatedTimestamp <= now
    PROVE  /\ Valued(b) /\ Worth(b) \in Int /\ Due(b) \in Int /\ Due(b) >= Worth(b)
           /\ InterestUnpaid(b, now) \in Nat
<1>1. Valued(b) /\ Worth(b) \in Int /\ InterestUnpaid(b, now) \in Nat
  BY GoodIsValued, UnpaidNat DEF Good, Books
<1>2. Earned(InterestUnpaid(b, now)) \in Nat
  BY <1>1, EarnedNat
<1> QED BY <1>1, <1>2 DEF Due

LEMMA DueIs ==
    ASSUME NEW a, NEW b, Valued(a), Pays(b, a, 0) PROVE Due(b) = Due(a)
<1>1. Worth(b) = Worth(a) /\ b.lender = a.lender
  BY PaysWorth, ValuedInt DEF Pays
<1> QED BY <1>1 DEF Due, InterestUnpaid

LEMMA SettledForWorth ==
    ASSUME NEW b, Good(b), NEW id \in LoanIds, NEW close \in Nat, now \in Nat,
           b.lender.updatedTimestamp <= now, SettledFor(b, id, close).books.ok
    PROVE  Worth(SettledFor(b, id, close).books) + SettledFor(b, id, close).lessInterest
               = Due(b)
<1>1. close # 0
  BY SettledForEffect
<1>2. Require(b, close # 0) = b
  BY <1>1 DEF Good, Books, Require
<1>3. SettledFor(b, id, close) = SettleInterestToPrincipal(b, id, close, now)
  BY <1>2 DEF SettledFor
<1> QED BY <1>3, ToPrincipalWorth DEF Due

LEMMA ClosingParts ==
    ASSUME NEW b, NEW x, NEW n, NEW k, NEW l, NEW co, NEW u, NEW w,
           NEW bb, NEW xx, NEW nn, NEW kk, NEW ll, NEW cc, NEW uu, NEW ww,
           Closing(b, x, n, k, l, co, u, w) = Closing(bb, xx, nn, kk, ll, cc, uu, ww)
    PROVE  b = bb /\ k = kk /\ l = ll /\ w = ww
BY DEF Closing

LEMMA BeforeSwapWorth ==
    ASSUME NEW b, Good(b), NEW id \in LoanIds, now \in Nat,
           b.lender.updatedTimestamp <= now,
           NEW x, NEW n, NEW c, NEW d, d.ok, NEW k \in Nat, NEW l,
           SettleBeforeSwap(Closing(b, x, n, 0, 0, 0, 0, 0), id, c)
               = Closing(d, x, n, k, l, 0, 0, 0)
    PROVE  (d = b /\ l = 0) \/ Worth(d) + l = Due(b)
<1> DEFINE C == Closing(b, x, n, 0, 0, 0, 0, 0)
           r == SettleBeforeSwap(C, id, c)
<1>1. r = C \/ \E m : r = SettleClosing(C, id, m)
  BY DEF SettleBeforeSwap
<1>2. r = Closing(d, x, n, k, l, 0, 0, 0)
  OBVIOUS
<1> HIDE DEF r
<1>3. CASE r = C
  BY <1>2, <1>3, ClosingParts
<1>4. CASE \E m : r = SettleClosing(C, id, m)
  <2>1. PICK m : r = SettleClosing(C, id, m)
    BY <1>4
  <2>2. r = Closing(SettledFor(b, id, m).books, x, n, m,
                    SettledFor(b, id, m).lessInterest, 0, 0, 0)
    BY <2>1, SettleClosingIs
  <2>3. d = SettledFor(b, id, m).books /\ l = SettledFor(b, id, m).lessInterest /\ k = m
    BY <1>2, <2>2, ClosingParts
  <2> QED BY <2>3, SettledForWorth
<1> QED BY <1>1, <1>3, <1>4

LEMMA CoverPays ==
    ASSUME NEW d, Valued(d), NEW x, NEW n, NEW k, NEW l, NEW c, NEW e
    PROVE  Pays(CoverPrincipalWithSwap(Closing(d, x, n, k, l, 0, 0, 0), c, e).books, d, 0)
<1> DEFINE C == Closing(d, x, n, k, l, 0, 0, 0)
           s == DoCollateralSwap(d, x, n, l, IF c THEN l ELSE 0, price, e)
           r == CoverPrincipalWithSwap(C, c, e)
           a == Require(s.books, s.used = n)
<1>1. r = IF c THEN CoverInCollateral(C, s) ELSE CoverInLoanToken(C, s)
  BY DEF CoverPrincipalWithSwap, Closing
<1>2. Pays(s.books, d, 0)
  BY CollateralSwapPays
<1> HIDE DEF s
<1>3. Valued(s.books)
  BY <1>2 DEF Pays
<1>4. Pays(a, s.books, 0) /\ Valued(a)
  BY <1>3, RequirePays, PaidIsValued
<1> HIDE DEF a
<1>5. /\ \A m : Pays(VaultWithdraw(s.books, "loan", m), s.books, 0)
      /\ \A m : Pays(VaultWithdraw(a, "collateral", m), a, 0)
  BY <1>3, <1>4, WithdrawPays
<1>6. \/ r.books = s.books
      \/ \E m : r.books = VaultWithdraw(s.books, "loan", m)
      \/ r.books = a
      \/ \E m : r.books = VaultWithdraw(a, "collateral", m)
  <2>1. CASE c
    <3>1. r = CoverInCollateral(C, s)
      BY <1>1, <2>1
    <3>2. r.books = s.books \/ r.books = VaultWithdraw(s.books, "loan", s.received - l)
      BY <3>1, InCollateralBooks DEF C
    <3> QED BY <3>2
  <2>2. CASE ~c
    <3>1. r = CoverInLoanToken(C, s)
      BY <1>1, <2>2
    <3>2. r.books = a \/ r.books = VaultWithdraw(a, "collateral", x.collateral - s.used)
      BY <3>1, InLoanTokenBooks DEF C, a
    <3> QED BY <3>2
  <2> QED BY <2>1, <2>2
<1> HIDE DEF r
<1>7. Pays(a, d, 0)
  BY <1>2, <1>4, PaysNothing
<1>8. Pays(r.books, d, 0)
  BY <1>2, <1>5, <1>6, <1>7, PaysNothing
<1> QED BY <1>8 DEF r, C

\* What is to be repaid once all is settled makes up for what is not there yet.
LEMMA AfterSwapWorth ==
    ASSUME NEW f, Good(f), NEW id \in LoanIds, now \in Nat, f.lender.updatedTimestamp <= now,
           NEW x, NEW n, NEW k \in Nat, NEW l \in Nat, NEW co \in Nat, l <= co, NEW u, NEW w,
           NEW g, g.ok, NEW close \in Nat, NEW less \in Nat, NEW v,
           SettleAfterSwap(Closing(f, x, n, k, l, co, u, w), id)
               = Closing(g, x, n, close, less, co, u, v)
    PROVE  /\ l # 0 => Worth(g) + less >= Worth(f) + l
           /\ l = 0 => Worth(g) + less = Due(f)
<1> DEFINE r == SettleAfterSwap(Closing(f, x, n, k, l, co, u, w), id)
           part == IF co = x.principal THEN co ELSE MulDiv(co, u, x.collateral)
           again == AgainSettled(f, k)
           s == SettledFor(again, id, part)
<1>1. /\ l # 0 => r = Closing(f, x, n, k, co, co, u, w)
      /\ l = 0 => r = Closing(s.books, x, n, part, s.lessInterest, co, u,
                              w + co - s.lessInterest)
  BY AfterSwapIs
<1>2. r = Closing(g, x, n, close, less, co, u, v)
  OBVIOUS
<1> HIDE DEF r, part
<1>3. CASE l # 0
  <2>1. g = f /\ less = co
    BY <1>1, <1>2, <1>3, ClosingParts
  <2>2. Worth(f) \in Int
    BY GoodIsValued
  <2> QED BY <1>3, <2>1, <2>2
<1>4. CASE l = 0
  <2>1. g = s.books /\ less = s.lessInterest /\ close = part
    BY <1>1, <1>2, <1>4, ClosingParts
  <2>2. Good(again) /\ again.lender = f.lender
    BY AgainIs
  <2>3. Pays(again, f, 0) /\ Valued(f)
    BY GoodIsValued DEF Pays, Valued, AgainSettled
  <2>4. Due(again) = Due(f)
    BY <2>3, DueIs
  <2> HIDE DEF again
  <2>5. Worth(s.books) + s.lessInterest = Due(again)
    BY <2>1, <2>2, SettledForWorth
  <2> QED BY <1>4, <2>1, <2>4, <2>5
<1> QED BY <1>3, <1>4

LEMMA CollateralPays ==
    ASSUME NEW b, Valued(b), NEW id, NEW v PROVE Pays(WithCollateral(b, id, v), b, 0)
BY DEF Pays, Valued, WithCollateral

LEMMA ClosePays ==
    ASSUME NEW b, Valued(b), NEW id, NEW close PROVE Pays(CloseLoan(b, id, close), b, 0)
<1> DEFINE asked == Require(b, close # 0 /\ close <= b.loans[id].principal)
<1>1. Pays(asked, b, 0)
  BY RequirePays
<1>2. \/ CloseLoan(b, id, close) = [asked EXCEPT !.loans[id].principal = 0,
                                                 !.loans[id].active = FALSE,
                                                 !.loans[id].endTimestamp = now]
      \/ CloseLoan(b, id, close) = [asked EXCEPT !.loans[id].principal = @ - close]
  BY DEF CloseLoan
<1> HIDE DEF asked
<1> QED BY <1>1, <1>2 DEF Pays, Valued

LEMMA FinalizePays ==
    ASSUME NEW f, Valued(f), NEW x, NEW n, NEW k, NEW l \in Int, NEW co, NEW u, NEW w,
           NEW id, NEW c
    PROVE  Pays(FinalizeSwap(Closing(f, x, n, k, l, co, u, w), id, c), f, l)
<1> DEFINE q == Require(f, l # 0)
           p == Charged(f, id, l, u)
           m == PayLender(p, l)
           v == Returned(f, id, c, l, u, w)
           e == CloseLoan(v, id, k)
           r == RequireHealthy(e, id)
<1>1. Pays(q, f, 0)
  BY RequirePays
<1>2. p = WithCollateral(q, id, q.loans[id].collateral - u)
  BY DEF Charged
<1>3. v = VaultWithdraw(m, IF c THEN "collateral" ELSE "loan", w)
  BY DEF Returned
<1>4. FinalizeSwap(Closing(f, x, n, k, l, co, u, w), id, c) = r
  BY FinalizeSwapIs
<1> HIDE DEF q, p, v
<1>5. Pays(p, q, 0) /\ Valued(p)
  BY <1>1, <1>2, CollateralPays, PaidIsValued
<1>6. Pays(m, p, l) /\ Valued(m)
  BY <1>5, PayLenderPays DEF Pays
<1> HIDE DEF m
<1>7. Pays(v, m, 0) /\ Valued(v)
  BY <1>3, <1>6, WithdrawPays, PaidIsValued
<1>8. Pays(e, v, 0) /\ Valued(e)
  BY <1>7, ClosePays DEF Pays
<1> HIDE DEF e
<1>9. Pays(r, e, 0)
  BY <1>8, RequirePays DEF RequireHealthy
<1> HIDE DEF r
<1>10. Pays(m, f, l)
  BY <1>1, <1>5, <1>6, PaysNothing
<1>11. Pays(r, m, 0)
  BY <1>6, <1>7, <1>8, <1>9, PaysNothing
<1>12. Pays(r, f, l)
  BY <1>10, <1>11, PaysTwice
<1> QED BY <1>4, <1>12

LEMMA ClosedWithSwapWorth ==
    ASSUME NEW b, Good(b), NEW id \in LoanIds, now \in Nat, price \in Nat \ {0},
           b.lender.updatedTimestamp <= now,
           SoundLoan(b.loans[id], b.twice),
           NEW amount \in Nat, NEW c \in BOOLEAN, NEW e \in Nat,
           ClosedWithSwap(b, id, amount, c, e).ok
    PROVE  Worth(ClosedWithSwap(b, id, amount, c, e)) >= Due(b)
<1> DEFINE x == b.loans[id]
           n       == SwapAmount(x, amount)
           settled == ClosingSettled(b, id, amount, c)
           covered == ClosingCovered(b, id, amount, c, e)
           after   == ClosingSold(b, id, amount, c, e)
           r       == ClosingDone(b, id, amount, c, e)
<1>1. x.collateral # 0 /\ ClosedWithSwap(b, id, amount, c, e) = r
  <2>1. ~Require(b, FALSE).ok
    BY DEF Good, Books, Require
  <2> HIDE DEF r
  <2> QED BY <2>1, ClosedWithSwapIs DEF r
<1>2. /\ settled = SettleBeforeSwap(Closing(b, x, n, 0, 0, 0, 0, 0), id, c)
      /\ covered = CoverPrincipalWithSwap(settled, c, e)
      /\ after = SettleAfterSwap(covered, id)
      /\ r = FinalizeSwap(after, id, c)
  BY DEF ClosingDone, ClosingSold, ClosingCovered, ClosingSettled, BeginClosing, Closing
<1>3. r.ok /\ after.books.ok /\ covered.books.ok /\ settled.books.ok
  <2>1. Shaped(b)
    BY GoodIsShaped
  <2> HIDE DEF r, after, covered, settled
  <2>2. /\ Follows(settled.books, b) /\ Follows(covered.books, settled.books)
        /\ Follows(after.books, covered.books) /\ Follows(r, after.books)
    BY <2>1, ClosingShape DEF r, after, covered, settled
  <2>3. r.ok
    BY <1>1
  <2> QED BY <2>2, <2>3 DEF Follows
<1>4. x \in Loans /\ n \in 0..x.collateral /\ x.collateral \in Nat /\ n \in Nat
      /\ n <= x.collateral
  <2>1. x \in Loans /\ x.collateral \in Nat
    BY NumbersOf
  <2>2. n \in 0..x.collateral
    BY <2>1, SwapAmountIs
  <2> HIDE DEF n, x
  <2> QED BY <2>1, <2>2
<1> HIDE DEF n, settled, covered, after, r
<1>5. PICK d, k, l : settled = Closing(d, x, n, k, l, 0, 0, 0) /\ Begun(d, b, id, n, c, k, l)
  BY <1>1, <1>2, <1>3, <1>4, BeforeSwapEffect
<1>6. Good(d) /\ l \in Nat /\ k \in Nat /\ (~c /\ n # x.collateral => l = 0)
  <2>1. x.principal \in Nat
    BY NumbersOf
  <2>2. CASE SettledYet(d, b, id, k, l) /\ k \in 0..x.principal
             /\ (n = x.collateral \/ (k < x.principal /\ c))
    BY <2>1, <2>2 DEF SettledYet, Settles
  <2>3. CASE d = b /\ k = 0 /\ l = 0 /\ ~c /\ n # x.collateral
    BY <2>3
  <2> QED BY <1>5, <2>2, <2>3 DEF Begun
<1>7. PICK f, co, u, w : /\ covered = Closing(f, x, n, k, l, co, u, w)
                         /\ Covers(f, d, x, n, c, l, co, u, w)
  BY <1>2, <1>3, <1>4, <1>5, <1>6, CoverEffect
<1>8. /\ HalfClosed(f, b, id, c, k, co, u, w)
      /\ k \in 0..x.principal /\ l \in 0..k /\ l <= co
  BY <1>4, <1>5, <1>7, HalfClosedIs
<1>9. PICK g, close, less, v :
          /\ after = Closing(g, x, n, close, less, co, u, v)
          /\ Sold(g, b, id, c, close, less, u, v)
  <2>1. after = SettleAfterSwap(Closing(f, x, n, k, l, co, u, w), id)
    BY <1>2, <1>7
  <2>2. SoldBy(SettleAfterSwap(Closing(f, b.loans[id], n, k, l, co, u, w), id),
               b, id, c, n, co, u)
    <3>1. SettleAfterSwap(Closing(f, b.loans[id], n, k, l, co, u, w), id).books.ok
      BY <1>3, <2>1
    <3>2. HalfClosed(f, b, id, c, k, co, u, w) /\ l <= co
      BY <1>8
    <3>3. k \in 0..b.loans[id].principal /\ l \in 0..k
      BY <1>8
    <3>4. b.loans[id].collateral # 0
      BY <1>1
    <3> HIDE DEF x
    <3> QED BY <3>1, <3>2, <3>3, <3>4, AfterSwapEffect
  <2> HIDE DEF after
  <2> QED BY <2>1, <2>2 DEF SoldBy
<1>10. (d = b /\ l = 0) \/ Worth(d) + l = Due(b)
  <2>1. d.ok
    BY <1>6 DEF Good
  <2>2. SettleBeforeSwap(Closing(b, x, n, 0, 0, 0, 0, 0), id, c) = Closing(d, x, n, k, l, 0, 0, 0)
    BY <1>2, <1>5
  <2> HIDE DEF x
  <2> QED BY <1>6, <2>1, <2>2, BeforeSwapWorth
<1>11. Good(f) /\ f.lender.updatedTimestamp <= now /\ co \in Nat
  BY <1>8 DEF HalfClosed, KeepsInterest
<1>12. Pays(f, d, 0)
  <2>1. CoverPrincipalWithSwap(Closing(d, x, n, k, l, 0, 0, 0), c, e).books = f
    <3>1. CoverPrincipalWithSwap(Closing(d, x, n, k, l, 0, 0, 0), c, e)
              = Closing(f, x, n, k, l, co, u, w)
      BY <1>2, <1>5, <1>7
    <3> HIDE DEF x
    <3> QED BY <3>1 DEF Closing
  <2>2. Valued(d)
    BY <1>6, GoodIsValued
  <2> HIDE DEF x
  <2> QED BY <2>1, <2>2, CoverPays
<1>13. Good(g) /\ close \in Nat /\ less \in Nat
  BY <1>9 DEF Sold, KeepsInterest
<1>14. /\ l # 0 => Worth(g) + less >= Worth(f) + l
       /\ l = 0 => Worth(g) + less = Due(f)
  <2>1. SettleAfterSwap(Closing(f, x, n, k, l, co, u, w), id)
            = Closing(g, x, n, close, less, co, u, v)
    BY <1>2, <1>7, <1>9
  <2>2. g.ok
    BY <1>13 DEF Good
  <2> HIDE DEF x
  <2> QED BY <1>6, <1>8, <1>11, <1>13, <2>1, <2>2, AfterSwapWorth
<1>15. Worth(g) + less >= Due(b)
  <2>1. Worth(f) = Worth(d) /\ Due(f) = Due(d) /\ Worth(d) \in Int
    BY <1>6, <1>12, GoodIsValued, PaysWorth, DueIs
  <2>2. Due(f) \in Int /\ Due(f) >= Worth(f) /\ Due(b) \in Int
    BY <1>11, DueFacts
  <2>3. Worth(g) \in Int
    BY <1>13, GoodIsValued
  <2> QED BY <1>6, <1>10, <1>13, <1>14, <2>1, <2>2, <2>3
<1>16. Worth(r) = Worth(g) + less
  <2>1. r = FinalizeSwap(Closing(g, x, n, close, less, co, u, v), id, c)
    BY <1>2, <1>9
  <2>2. Valued(g)
    BY <1>13, GoodIsValued
  <2> HIDE DEF x
  <2>3. Pays(r, g, less)
    BY <1>13, <2>1, <2>2, FinalizePays
  <2> QED BY <1>13, <2>2, <2>3, PaysWorth
<1> QED BY <1>1, <1>15, <1>16

-----------------------------------------------------------------------------
(* The price. *)

\* What a price is taken of: what the pool is worth, and interest that is due.
PoolWorth ==
    Worth(books) + (IF lastSettleTime = now THEN 0
                    ELSE Percent(InterestUnpaid(books, now), 100 - lendingFeePercent))

PriceKept == TotalSupply # 0 /\ TotalSupply' # 0 => TokenPrice' >= TokenPrice

LEMMA PoolWorthIs ==
    LoanInv => /\ PoolWorth \in Nat
               /\ Worth(books) \in Nat
               /\ PoolWorth >= Worth(books)
               /\ PoolWorth <= Due(books)
               /\ lastSettleTime = now => PoolWorth = Worth(books)
<1> SUFFICES ASSUME LoanInv
             PROVE  /\ PoolWorth \in Nat
                    /\ Worth(books) \in Nat
                    /\ PoolWorth >= Worth(books)
                    /\ PoolWorth <= Due(books)
                    /\ lastSettleTime = now => PoolWorth = Worth(books)
  OBVIOUS
<1>1. Good(books) /\ now \in Nat /\ books.lender.updatedTimestamp <= now
  BY StateFacts
<1>2. Worth(books) \in Nat /\ InterestUnpaid(books, now) \in Nat
  BY <1>1, GoodIsValued, DueFacts
<1> DEFINE u == InterestUnpaid(books, now)
           n == Percent(u, 100 - lendingFeePercent)
<1>3. n \in Nat /\ Earned(u) \in Nat /\ n <= Earned(u)
  BY <1>2, EarnedNat
<1>4. Due(books) = Worth(books) + Earned(u)
  BY DEF Due
<1>5. PoolWorth = Worth(books) + (IF lastSettleTime = now THEN 0 ELSE n)
  BY DEF PoolWorth
<1> HIDE DEF u, n
<1> QED BY <1>2, <1>3, <1>4, <1>5

LEMMA SupplyIs == LoanInv => TotalSupply \in Nat
<1> SUFFICES ASSUME LoanInv PROVE TotalSupply \in Nat
  OBVIOUS
<1>1. IsFiniteSet(Suppliers) /\ balances \in [Suppliers -> Nat]
  BY PoolAssumption, StateFacts
<1>2. TotalSupply = SumFunctionOnSet(balances, Suppliers)
  BY <1>1, SumOfFunction DEF TotalSupply
<1> QED BY <1>1, <1>2, SumOfNats

LEMMA TokenPriceIs ==
    TotalSupply # 0 => TokenPrice = MulDiv(PoolWorth, WEI, TotalSupply)
BY DEF TokenPrice, PriceOf, TotalAssetSupply, PoolWorth, Worth

\* The facts of the next state too.
LEMMA PoolWorthNext ==
    LoanInv' => /\ PoolWorth' \in Nat
                /\ Worth(books)' \in Nat
                /\ PoolWorth' >= Worth(books)'
                /\ (lastSettleTime = now)' => PoolWorth' = Worth(books)'
                /\ TotalSupply' \in Nat
<1>1. LoanInv' => (/\ PoolWorth \in Nat
                   /\ Worth(books) \in Nat
                   /\ PoolWorth >= Worth(books)
                   /\ PoolWorth <= Due(books)
                   /\ lastSettleTime = now => PoolWorth = Worth(books))'
  BY PoolWorthIs, PTL
<1>2. LoanInv' => (TotalSupply \in Nat)'
  BY SupplyIs, PTL
<1> QED BY <1>1, <1>2

LEMMA TokenPriceNext ==
    TotalSupply' # 0 => TokenPrice' = MulDiv(PoolWorth', WEI, TotalSupply')
<1>1. (TotalSupply # 0 => TokenPrice = MulDiv(PoolWorth, WEI, TotalSupply))'
  BY TokenPriceIs, PTL
<1> QED BY <1>1 DEF MulDiv

LEMMA GrowingQuotient ==
    ASSUME NEW a \in Nat, NEW b \in Nat, a <= b, NEW w \in Nat, NEW c \in Nat \ {0}
    PROVE  MulDiv(a, w, c) <= MulDiv(b, w, c)
<1> DEFINE q == (a * w) \div c
           p == (b * w) \div c
<1>1. a * w \in Nat /\ b * w \in Nat /\ a * w <= b * w
  BY SMTT(30)
<1>2. \A k \in Nat : k \div c \in Nat /\ c * (k \div c) <= k /\ k < c * (k \div c + 1)
  OBVIOUS
<1>3. q \in Nat /\ p \in Nat /\ c * q <= a * w /\ b * w < c * (p + 1)
  BY <1>1, <1>2
<1> HIDE DEF q, p
<1>4. q >= p + 1 => c * q >= c * (p + 1)
  BY <1>3
<1>5. c * q \in Nat /\ c * (p + 1) \in Nat
  BY <1>3
<1> QED BY <1>1, <1>3, <1>4, <1>5 DEF MulDiv, q, p

\* A quotient is at least what fits in.
LEMMA AtLeastQuotient ==
    ASSUME NEW x \in Nat, NEW c \in Nat \ {0}, NEW p \in Nat, c * p <= x
    PROVE  x \div c >= p
<1> DEFINE q == x \div c
<1>1. q \in Nat /\ x < c * (q + 1)
  OBVIOUS
<1> HIDE DEF q
<1>2. p >= q + 1 => c * p >= c * (q + 1)
  BY <1>1
<1>3. c * p \in Nat /\ c * (q + 1) \in Nat
  BY <1>1
<1> QED BY <1>1, <1>2, <1>3 DEF q

LEMMA WorthMorePrice ==
    ASSUME LoanInv, LoanInv', balances' = balances, PoolWorth' >= PoolWorth
    PROVE  PriceKept
<1>1. TotalSupply' = TotalSupply
  BY DEF TotalSupply
<1>2. CASE TotalSupply # 0
  <2>1. /\ TokenPrice = MulDiv(PoolWorth, WEI, TotalSupply)
        /\ TokenPrice' = MulDiv(PoolWorth', WEI, TotalSupply)
    BY <1>1, <1>2, TokenPriceIs, TokenPriceNext
  <2>2. PoolWorth \in Nat /\ PoolWorth' \in Nat /\ TotalSupply \in Nat /\ WEI \in Nat
    BY PoolWorthIs, PoolWorthNext, SupplyIs, PoolAssumption
  <2> DEFINE a == PoolWorth
             b == PoolWorth'
             c == TotalSupply
  <2> HIDE DEF a, b, c
  <2>3. MulDiv(a, WEI, c) <= MulDiv(b, WEI, c)
    BY <1>2, <2>2, GrowingQuotient DEF a, b, c
  <2>4. MulDiv(a, WEI, c) \in Nat /\ MulDiv(b, WEI, c) \in Nat
    BY <1>2, <2>2, MulDivNat DEF a, b, c
  <2>5. MulDiv(b, WEI, c) >= MulDiv(a, WEI, c)
    BY <2>3, <2>4
  <2> QED BY <2>1, <2>5 DEF PriceKept, a, b, c
<1>3. CASE TotalSupply = 0
  BY <1>3 DEF PriceKept
<1> QED BY <1>2, <1>3

\* A call that leaves the pool all that is due to it, or pays it nothing.
Enriches(b) ==
    /\ Call(b)
    /\ balances' = balances
    /\ \/ Worth(b) >= Due(books)
       \/ Pays(b, books, 0) /\ lastSettleTime' = lastSettleTime

LEMMA EnrichingPrice ==
    ASSUME LoanInv, LoanInv', NEW b, Enriches(b) PROVE PriceKept
<1>1. books' = b /\ now' = now /\ balances' = balances
  BY DEF Enriches, Call, worldVars
<1>2. /\ PoolWorth \in Nat /\ Worth(books) \in Nat /\ PoolWorth <= Due(books)
      /\ PoolWorth' \in Nat /\ Worth(b) \in Nat /\ PoolWorth' >= Worth(b)
  <2>1. Worth(books)' = Worth(b)
    BY <1>1 DEF Worth
  <2> QED BY <2>1, PoolWorthIs, PoolWorthNext
<1>3. CASE Worth(b) >= Due(books)
  <2>1. Due(books) \in Int
    BY StateFacts, DueFacts
  <2>2. PoolWorth' >= PoolWorth
    BY <1>2, <1>3, <2>1
  <2> QED BY <1>1, <2>2, WorthMorePrice
<1>4. CASE Pays(b, books, 0) /\ lastSettleTime' = lastSettleTime
  <2>1. b.lender = books.lender /\ Worth(b) = Worth(books)
    BY <1>2, <1>4, GoodIsValued, StateFacts, PaysWorth DEF Pays
  <2>2. PoolWorth' = PoolWorth
    BY <1>1, <1>4, <2>1 DEF PoolWorth, InterestUnpaid, Worth, Percent, MulDiv, Min2
  <2>3. PoolWorth' >= PoolWorth
    BY <1>2, <2>2
  <2> QED BY <1>1, <2>3, WorthMorePrice
<1> QED BY <1>3, <1>4 DEF Enriches

-----------------------------------------------------------------------------
(* What each call leaves the pool. *)

LEMMA DepositCollateralEnriches ==
    ASSUME LoanInv, NEW id \in LoanIds, NEW n \in Nat, DepositCollateral(id, n)
    PROVE  \E b : Enriches(b)
<1> DEFINE q == VaultDeposit(books, "collateral", n)
           m == q.loans[id].collateral + n
           b == WithCollateral(q, id, m)
<1>1. Call(b) /\ balances' = balances /\ lastSettleTime' = lastSettleTime
  BY DEF DepositCollateral, poolVars, WithCollateral
<1>2. Valued(books)
  BY StateFacts, GoodIsValued
<1>3. Pays(q, books, 0) /\ Valued(q)
  BY <1>2, DepositPays, PaidIsValued
<1> HIDE DEF q, m
<1>4. Pays(b, q, 0)
  BY <1>3, CollateralPays
<1> HIDE DEF b
<1>5. Pays(b, books, 0)
  BY <1>2, <1>3, <1>4, PaysNothing
<1> QED BY <1>1, <1>5 DEF Enriches

LEMMA WithdrawCollateralEnriches ==
    ASSUME LoanInv, NEW id \in LoanIds, NEW m \in Nat, WithdrawCollateral(id, m)
    PROVE  \E b : Enriches(b)
<1> DEFINE x == books.loans[id]
           n == Min2(m, MaxDrawdown(x.principal, x.collateral, maintenanceMargin, price))
           q == VaultWithdraw(books, "collateral", n)
           v == q.loans[id].collateral - n
           b == WithCollateral(q, id, v)
<1>1. Call(b) /\ balances' = balances /\ lastSettleTime' = lastSettleTime
  BY DEF WithdrawCollateral, poolVars, WithCollateral
<1>2. Valued(books)
  BY StateFacts, GoodIsValued
<1> HIDE DEF n
<1>3. Pays(q, books, 0) /\ Valued(q)
  BY <1>2, WithdrawPays, PaidIsValued
<1> HIDE DEF q, v
<1>4. Pays(b, q, 0)
  BY <1>3, CollateralPays
<1> HIDE DEF b
<1>5. Pays(b, books, 0)
  BY <1>2, <1>3, <1>4, PaysNothing
<1> QED BY <1>1, <1>5 DEF Enriches

LEMMA WithdrawFeesEnriches ==
    ASSUME LoanInv, NEW token \in Tokens, WithdrawFees(token)
    PROVE  \E b : Enriches(b)
<1> DEFINE n == FeesHeld(token)
           q == VaultWithdraw(books, token, n)
           b == [q EXCEPT !.fees[token] = 0]
<1>1. Call(b) /\ balances' = balances /\ lastSettleTime' = lastSettleTime
  BY DEF WithdrawFees, poolVars
<1>2. Valued(books)
  BY StateFacts, GoodIsValued
<1> HIDE DEF n
<1>3. Pays(q, books, 0)
  BY <1>2, WithdrawPays
<1> HIDE DEF q
<1>4. Pays(b, books, 0)
  BY <1>3 DEF Pays, Valued
<1> HIDE DEF b
<1> QED BY <1>1, <1>4 DEF Enriches

LEMMA CloseWithSwapEnriches ==
    ASSUME LoanInv, NEW id \in LoanIds, NEW n \in Nat, NEW c \in BOOLEAN, NEW e \in Nat,
           CloseWithSwap(id, n, c, e)
    PROVE  \E b : Enriches(b)
<1> DEFINE b == ClosedWithSwap(books, id, n, c, e)
<1>1. Call(b) /\ balances' = balances
  BY DEF CloseWithSwap, poolVars
<1>2. Good(books) /\ now \in Nat /\ books.lender.updatedTimestamp <= now
      /\ price \in Nat \ {0} /\ SoundLoan(books.loans[id], books.twice)
  BY StateFacts
<1>3. b.ok
  BY <1>1 DEF Call
<1>4. Worth(b) >= Due(books)
  BY <1>2, <1>3, ClosedWithSwapWorth
<1> HIDE DEF b
<1> QED BY <1>1, <1>4 DEF Enriches

LEMMA CloseWithDepositEnriches ==
    ASSUME LoanInv, NEW id \in LoanIds, NEW n \in Nat, CloseWithDeposit(id, n)
    PROVE  \E b : Enriches(b)
<1> DEFINE x == books.loans[id]
           close == Min2(n, x.principal)
           settled == SettleInterestToPrincipal(books, id, close, now)
           s == settled.books
           l == settled.lessInterest
           t == [s EXCEPT !.cash = @ + l]
           v == MulDiv(x.collateral, close, x.principal)
           p == VaultWithdraw(t, "collateral", v)
           w == WithCollateral(p, id, p.loans[id].collateral - v)
           r == CloseLoan(w, id, close)
<1>1. Call(r) /\ balances' = balances
  BY DEF CloseWithDeposit, poolVars, WithCollateral
<1>2. Good(books) /\ Shaped(books) /\ now \in Nat /\ books.lender.updatedTimestamp <= now
  BY StateFacts
<1>3. close \in Nat
  <2>1. x.principal \in Nat
    BY <1>2, NumbersOf
  <2> HIDE DEF x
  <2> QED BY <2>1 DEF Min2
<1> HIDE DEF v, close
<1>4. Follows(s, books)
  BY <1>2, ToPrincipalShape
<1>5. Follows(t, s)
  <2> HIDE DEF s, l
  <2> QED BY <1>4 DEF Follows, Shaped
<1>6. Follows(p, t)
  <2> HIDE DEF t
  <2> QED BY <1>5, WithdrawShape DEF Follows
<1>7. Follows(w, p)
  <2> HIDE DEF p
  <2> QED BY <1>6, CollateralShape DEF Follows
<1>8. Follows(r, w)
  <2> HIDE DEF w
  <2> QED BY <1>7, CloseShape DEF Follows
<1>9. s.ok
  <2>1. r.ok
    BY <1>1 DEF Call
  <2> HIDE DEF r, w, p, t, s
  <2> QED BY <1>5, <1>6, <1>7, <1>8, <2>1 DEF Follows
<1>10. Valued(s) /\ Worth(s) + l = Due(books) /\ l \in Nat
  <2>1. Valued(s) /\ Worth(s) + l = Due(books)
    BY <1>2, <1>3, <1>9, ToPrincipalWorth DEF Due
  <2>2. l \in Nat
    BY <1>2, <1>3, <1>9, ToPrincipalEffect
  <2> QED BY <2>1, <2>2
<1> HIDE DEF s, l
<1>11. Pays(t, s, l) /\ Valued(t)
  BY <1>10 DEF Pays, Valued
<1> HIDE DEF t
<1>12. Pays(p, t, 0) /\ Valued(p)
  BY <1>11, WithdrawPays, PaidIsValued
<1> HIDE DEF p
<1>13. Pays(w, p, 0) /\ Valued(w)
  BY <1>12, CollateralPays, PaidIsValued
<1> HIDE DEF w
<1>14. Pays(r, w, 0)
  BY <1>13, ClosePays
<1> HIDE DEF r
<1>15. Pays(r, t, 0)
  BY <1>11, <1>12, <1>13, <1>14, PaysNothing
<1>16. Worth(r) >= Due(books)
  <2>1. Worth(t) = Worth(s) + l
    BY <1>10, <1>11, PaysWorth
  <2>2. Worth(r) = Worth(t) + 0
    BY <1>11, <1>15, PaysWorth
  <2>3. Worth(s) \in Int
    BY <1>10, ValuedInt
  <2> QED BY <1>10, <2>1, <2>2, <2>3
<1> QED BY <1>1, <1>16 DEF Enriches

LEMMA LiquidateEnriches ==
    ASSUME LoanInv, NEW id \in LoanIds, NEW n \in Nat \ {0}, Liquidate(id, n)
    PROVE  \E b : Enriches(b)
<1> DEFINE x == books.loans[id]
           margin == CurrentMargin(x.principal, x.collateral, price)
           max == LiquidationAmounts(x, margin, price)
           all == n >= max.liquidatable \/ IsTiny(max.liquidatable - n)
           close == IF all THEN max.liquidatable ELSE n
           v == IF all THEN max.seizable ELSE MulDiv(max.seizable, n, max.liquidatable)
           d == VaultDeposit(books, "loan", close)
           settled == SettleInterestToPrincipal(d, id, close, now)
           s == settled.books
           l == settled.lessInterest
           f == VaultWithdraw(s, "loan", close - l)
           g == PayLender(f, l)
           p == VaultWithdraw(g, "collateral", v)
           w == WithCollateral(p, id, p.loans[id].collateral - v)
           r == CloseLoan(w, id, close)
<1>1. x.active /\ close > 0 /\ Call(r) /\ balances' = balances
  BY DEF Liquidate, poolVars, WithCollateral
<1>2. Good(books) /\ Shaped(books) /\ now \in Nat /\ books.lender.updatedTimestamp <= now
      /\ SoundLoan(x, books.twice) /\ price \in Nat \ {0}
  BY StateFacts
<1>3. close \in Nat
  <2>1. x.principal > 0 /\ x \in Loans
    BY <1>1, <1>2, NumbersOf DEF SoundLoan
  <2>2. max.liquidatable \in Int
    BY <1>2, <2>1, LiquidatableInt
  <2> HIDE DEF max, all
  <2>3. close \in Int
    BY <2>2
  <2> HIDE DEF close
  <2> QED BY <1>1, <2>3
<1> HIDE DEF v, close
<1>4. Good(d) /\ Shaped(d) /\ d.lender = books.lender
  <2>1. Moved(d, books, "loan", close)
    BY <1>2, <1>3, DepositEffect DEF Tokens
  <2> HIDE DEF d
  <2> QED BY <2>1, GoodIsShaped DEF Moved, TokensOnly
<1>5. Due(d) = Due(books)
  <2>1. Pays(d, books, 0) /\ Valued(books)
    BY <1>2, GoodIsValued, DepositPays
  <2> QED BY <2>1, DueIs
<1> HIDE DEF d
<1>6. Follows(s, d)
  BY <1>4, ToPrincipalShape
<1>7. Follows(f, s)
  <2> HIDE DEF s, l
  <2> QED BY <1>6, WithdrawShape DEF Follows
<1>8. Follows(g, f)
  <2> HIDE DEF f, l
  <2> QED BY <1>7, PayLenderShape DEF Follows
<1>9. Follows(p, g)
  <2> HIDE DEF g
  <2> QED BY <1>8, WithdrawShape DEF Follows
<1>10. Follows(w, p)
  <2> HIDE DEF p
  <2> QED BY <1>9, CollateralShape DEF Follows
<1>11. Follows(r, w)
  <2> HIDE DEF w
  <2> QED BY <1>10, CloseShape DEF Follows
<1>12. s.ok
  <2>1. r.ok
    BY <1>1 DEF Call
  <2> HIDE DEF r, w, p, g, f, s
  <2> QED BY <1>7, <1>8, <1>9, <1>10, <1>11, <2>1 DEF Follows
<1>13. Valued(s) /\ Worth(s) + l = Due(books) /\ l \in Nat
  <2>1. d.lender.updatedTimestamp <= now
    BY <1>2, <1>4
  <2>2. Valued(s) /\ Worth(s) + l = Due(d)
    BY <1>2, <1>3, <1>4, <1>12, <2>1, ToPrincipalWorth DEF Due
  <2>3. l \in Nat
    BY <1>2, <1>3, <1>4, <1>12, <2>1, ToPrincipalEffect
  <2> QED BY <1>5, <2>2, <2>3
<1> HIDE DEF s, l
<1>14. Pays(f, s, 0) /\ Valued(f)
  BY <1>13, WithdrawPays, PaidIsValued
<1> HIDE DEF f
<1>15. Pays(g, f, l) /\ Valued(g)
  BY <1>13, <1>14, PayLenderPays, PaidIsValued
<1> HIDE DEF g
<1>16. Pays(p, g, 0) /\ Valued(p)
  BY <1>15, WithdrawPays, PaidIsValued
<1> HIDE DEF p
<1>17. Pays(w, p, 0) /\ Valued(w)
  BY <1>16, CollateralPays, PaidIsValued
<1> HIDE DEF w
<1>18. Pays(r, w, 0)
  BY <1>17, ClosePays
<1> HIDE DEF r
<1>19. Pays(g, s, l)
  BY <1>13, <1>14, <1>15, PaysNothing
<1>20. Pays(r, g, 0)
  BY <1>15, <1>16, <1>17, <1>18, PaysNothing
<1>21. Worth(r) >= Due(books)
  <2>1. Worth(g) = Worth(s) + l
    BY <1>13, <1>19, PaysWorth
  <2>2. Worth(r) = Worth(g) + 0
    BY <1>15, <1>20, PaysWorth
  <2>3. Worth(s) \in Int
    BY <1>13, ValuedInt
  <2> QED BY <1>13, <2>1, <2>2, <2>3
<1> QED BY <1>1, <1>21 DEF Enriches

-----------------------------------------------------------------------------
LEMMA PaidForDue ==
    ASSUME LoanInv, NEW id
    PROVE  Valued(PaidFor(books, id)) /\ Worth(PaidFor(books, id)) = Due(books)
           /\ Due(books) \in Int
<1>1. Good(books) /\ now \in Nat /\ books.lender.updatedTimestamp <= now
  BY StateFacts
<1>2. Valued(books) /\ InterestUnpaid(books, now) \in Nat /\ Due(books) \in Int
  BY <1>1, DueFacts
<1> QED BY <1>2, PaidForWorth DEF Due

LEMMA ReduceEnriches ==
    ASSUME LoanInv, NEW id \in LoanIds, NEW n \in Nat, ReduceLoanDuration(id, n)
    PROVE  \E b : Enriches(b)
<1> DEFINE x == books.loans[id]
           paid == PaidFor(books, id)
           ends == x.endTimestamp - MulDiv(n, DAY, x.owedPerDay)
           f == VaultWithdraw(paid, "loan", n)
           cond == /\ ends - now > HOUR
                   /\ n <= x.depositTotal
                   /\ n <= paid.lender.owedTotal
           q == Require(f, cond)
           r == NewTerms(q, id, x.owedPerDay, ends, -n)
<1>1. Call(r) /\ balances' = balances
  BY DEF ReduceLoanDuration, PaidFor, poolVars
<1>2. Valued(paid) /\ Worth(paid) = Due(books) /\ Due(books) \in Int
  BY PaidForDue
<1> HIDE DEF paid, cond, ends
<1>3. Pays(f, paid, 0) /\ Valued(f)
  BY <1>2, WithdrawPays, PaidIsValued
<1> HIDE DEF f
<1>4. Pays(q, f, 0) /\ Valued(q)
  BY <1>3, RequirePays, PaidIsValued
<1> HIDE DEF q
<1>5. Worth(r) = Worth(q)
  BY <1>4, NewTermsWorth
<1> HIDE DEF r
<1>6. Pays(q, paid, 0)
  BY <1>2, <1>3, <1>4, PaysNothing
<1>7. Worth(q) = Worth(paid) + 0
  BY <1>2, <1>6, PaysWorth
<1>8. Worth(r) >= Due(books)
  BY <1>2, <1>5, <1>7
<1> QED BY <1>1, <1>8 DEF Enriches

LEMMA DepositTakenPays ==
    ASSUME NEW b, Valued(b), NEW id, NEW n, NEW c \in BOOLEAN, NEW e
    PROVE  Pays(ExtensionDeposit(b, id, n, c, e).books, b, 0)
<1>1. CASE ~c
  <2>1. ExtensionDeposit(b, id, n, c, e).books = VaultDeposit(b, "loan", n)
    BY <1>1 DEF ExtensionDeposit
  <2> QED BY <2>1, DepositPays
<1>2. CASE c
  <2> DEFINE x == b.loans[id]
             s == BuyRequired(b, "collateral", "loan", x.collateral, n, 0, price, e)
             f == s.books
             left == x.collateral - s.used
             g == CurrentMargin(x.principal, left, price) > maintenanceMargin
             q == Require(f, g)
             w == WithCollateral(q, id, left)
  <2>1. ExtensionDeposit(b, id, n, c, e).books = w
    BY <1>2 DEF ExtensionDeposit, WithCollateral
  <2>2. Pays(f, b, 0) /\ Valued(f)
    BY BuyRequiredPays, PaidIsValued
  <2> HIDE DEF f, g, left
  <2>3. Pays(q, f, 0) /\ Valued(q)
    BY <2>2, RequirePays, PaidIsValued
  <2> HIDE DEF q
  <2>4. Pays(w, q, 0)
    BY <2>3, CollateralPays
  <2> HIDE DEF w
  <2>5. Pays(w, b, 0)
    BY <2>2, <2>3, <2>4, PaysNothing
  <2> QED BY <2>1, <2>5
<1> QED BY <1>1, <1>2

LEMMA ExtendEnriches ==
    ASSUME LoanInv, NEW id \in LoanIds, NEW n \in Nat, NEW c \in BOOLEAN, NEW e \in Nat,
           ExtendLoanDuration(id, n, c, e)
    PROVE  \E b : Enriches(b)
<1> DEFINE x == books.loans[id]
           back == BackInterest(x)
           paid == PaidFor(books, id)
           t == ExtensionDeposit(paid, id, n, c, e)
           f == t.books
           deposit == t.deposit - back
           ends == x.endTimestamp + MulDiv(deposit, DAY, x.owedPerDay)
           p == PayInterestTransfer(f, back)
           g == ends - now > HOUR
           q == Require(p, g)
           r == NewTerms(q, id, x.owedPerDay, ends, deposit)
<1>1. Call(r) /\ balances' = balances
  BY DEF ExtendLoanDuration, PaidFor, poolVars
<1>2. Valued(paid) /\ Worth(paid) = Due(books) /\ Due(books) \in Int
  BY PaidForDue
<1>3. back \in Nat
  <2>1. x \in Loans /\ now \in Nat
    BY StateFacts, NumbersOf
  <2> HIDE DEF x
  <2> QED BY <2>1, BackInterestNat
<1> DEFINE m == Earned(back)
<1>4. m \in Nat
  BY <1>3, EarnedNat
<1> HIDE DEF paid, back, ends, deposit, g
<1>5. Pays(f, paid, 0) /\ Valued(f)
  BY <1>2, DepositTakenPays, PaidIsValued
<1> HIDE DEF t, f
<1>6. Pays(p, f, m) /\ Valued(p)
  BY <1>3, <1>5, TransferPays, PaidIsValued
<1> HIDE DEF p, m
<1>7. Pays(q, p, 0) /\ Valued(q)
  BY <1>6, RequirePays, PaidIsValued
<1> HIDE DEF q
<1>8. Worth(r) = Worth(q)
  BY <1>7, NewTermsWorth
<1> HIDE DEF r
<1>9. Pays(p, paid, m)
  BY <1>2, <1>4, <1>5, <1>6, PaysNothing
<1>10. Worth(p) = Worth(paid) + m /\ Worth(q) = Worth(p) + 0
  BY <1>2, <1>4, <1>6, <1>7, <1>9, PaysWorth
<1>11. Worth(r) >= Due(books)
  BY <1>2, <1>4, <1>8, <1>10
<1> QED BY <1>1, <1>11 DEF Enriches

LEMMA ReturnExcessPays ==
    ASSUME NEW s, Valued(s.books), NEW n
    PROVE  Pays(ReturnExcess(s, n).books, s.books, 0)
<1> DEFINE m == s.received - n
           k == LoanSwap(s.books, "loan", "collateral", m, m, 0, price, 0)
<1>1. \/ ReturnExcess(s, n).books = k.books
      \/ ReturnExcess(s, n).books = HoldFee(s.books, "loan", m)
  BY DEF ReturnExcess
<1>2. Pays(k.books, s.books, 0) /\ Pays(HoldFee(s.books, "loan", m), s.books, 0)
  BY LoanSwapPays, DepositPays
<1> HIDE DEF k, m
<1> QED BY <1>1, <1>2

LEMMA RolloverWorth ==
    ASSUME LoanInv, NEW id \in LoanIds, NEW rate, NEW e
    PROVE  Worth(RolloverPaid(id, rate, e)) >= Due(books)
<1> DEFINE x == books.loans[id]
           paid == PaidFor(books, id)
           terms == RolloverTerms(id, rate)
           needs == RolloverNeeds(id, rate)
           s == RolloverSwap(id, rate, e)
           t == RolloverBought(id, rate, e)
           f == t.books
           c == RolloverCharged(id, rate, e)
           back == BackInterest(x)
           m == Earned(back)
           p == RolloverPaid(id, rate, e)
<1>1. Valued(paid) /\ Worth(paid) = Due(books) /\ Due(books) \in Int
  BY PaidForDue
<1>2. back \in Nat /\ m \in Nat
  <2>1. x \in Loans /\ now \in Nat
    BY StateFacts, NumbersOf
  <2> HIDE DEF x
  <2>2. back \in Nat
    BY <2>1, BackInterestNat
  <2> HIDE DEF back
  <2> QED BY <2>2, EarnedNat
<1>3. \E w, ends, i : terms = NewTerms(paid, id, w, ends, i)
  BY DEF RolloverTerms
<1> HIDE DEF paid, terms
<1>4. Valued(terms) /\ Worth(terms) = Due(books)
  BY <1>1, <1>3, NewTermsWorth
<1>5. Pays(s.books, terms, 0)
  <2>1. s = DoCollateralSwap(terms, x, 0, needs, needs, price, e)
    BY DEF RolloverSwap, terms
  <2> HIDE DEF needs, x, s
  <2> QED BY <1>4, <2>1, CollateralSwapPays
<1>6. Valued(s.books) /\ t = ReturnExcess(s, needs)
  BY <1>5 DEF Pays, RolloverBought
<1> HIDE DEF s, t, needs
<1>7. Pays(f, s.books, 0) /\ Valued(f)
  BY <1>6, ReturnExcessPays, PaidIsValued
<1>8. Pays(c, f, 0)
  <2>1. \E g, v : c = WithCollateral(Require(f, g), id, v)
    BY DEF RolloverCharged, t
  <2> HIDE DEF f, c
  <2>2. PICK g, v : c = WithCollateral(Require(f, g), id, v)
    BY <2>1
  <2> DEFINE q == Require(f, g)
  <2>3. Pays(q, f, 0) /\ Valued(q)
    BY <1>7, RequirePays, PaidIsValued
  <2> HIDE DEF q
  <2>4. Pays(WithCollateral(q, id, v), q, 0)
    BY <2>3, CollateralPays
  <2>5. Pays(c, q, 0)
    BY <2>2, <2>4 DEF q
  <2> QED BY <1>7, <2>3, <2>5, PaysNothing
<1>9. Valued(c) /\ p = PayInterestTransfer(c, back)
  BY <1>8 DEF Pays, RolloverPaid
<1> HIDE DEF f, c
<1>10. Pays(p, c, m)
  <2> HIDE DEF back, p
  <2> QED BY <1>2, <1>9, TransferPays
<1> HIDE DEF p, m, back
<1>11. Pays(c, terms, 0)
  BY <1>4, <1>5, <1>7, <1>8, PaysNothing
<1>12. Pays(p, terms, m)
  BY <1>2, <1>4, <1>10, <1>11, PaysNothing
<1>13. Worth(p) = Worth(terms) + m
  BY <1>2, <1>4, <1>12, PaysWorth
<1>14. Worth(p) >= Due(books)
  BY <1>1, <1>2, <1>4, <1>13
<1> QED BY <1>14 DEF p

LEMMA RewardWorth ==
    ASSUME NEW b, Good(b), NEW id \in LoanIds, now \in Nat, price \in Nat \ {0},
           b.lender.updatedTimestamp <= now, SoundLoan(b.loans[id], b.twice),
           PayRolloverReward(b, id).ok
    PROVE  Worth(PayRolloverReward(b, id)) >= Worth(b)
<1> DEFINE x == b.loans[id]
           reward == RolloverReward(x.principal, price)
           q == VaultWithdraw(b, "collateral", reward)
           v == q.loans[id].collateral - reward
           w == ClosedWithSwap(b, id, x.collateral, FALSE, 0)
<1>1. \/ PayRolloverReward(b, id) = w
      \/ PayRolloverReward(b, id) = WithCollateral(q, id, v)
  BY DEF PayRolloverReward, WithCollateral
<1>2. Valued(b) /\ Worth(b) \in Int /\ Due(b) \in Int /\ Due(b) >= Worth(b)
  BY DueFacts
<1>3. CASE PayRolloverReward(b, id) = w
  <2>1. w.ok
    BY <1>3
  <2>2. x.collateral \in Nat /\ 0 \in Nat /\ FALSE \in BOOLEAN
    BY NumbersOf
  <2>3. Worth(w) >= Due(b) /\ Good(w)
    BY <2>1, <2>2, ClosedWithSwapWorth, ClosedWithSwapEffect DEF Keeps
  <2> HIDE DEF w
  <2>4. Worth(w) \in Int
    BY <2>3, GoodIsValued
  <2> QED BY <1>2, <1>3, <2>3, <2>4
<1>4. CASE PayRolloverReward(b, id) = WithCollateral(q, id, v)
  <2> DEFINE r == WithCollateral(q, id, v)
  <2> HIDE DEF reward
  <2>1. Pays(q, b, 0) /\ Valued(q)
    BY <1>2, WithdrawPays, PaidIsValued
  <2> HIDE DEF q, v
  <2>2. Pays(r, q, 0)
    BY <2>1, CollateralPays
  <2>3. PayRolloverReward(b, id) = r
    BY <1>4
  <2> HIDE DEF r
  <2>4. Pays(r, b, 0)
    BY <1>2, <2>1, <2>2, PaysNothing
  <2>5. Worth(r) = Worth(b) + 0
    BY <1>2, <2>4, PaysWorth
  <2> QED BY <1>2, <2>3, <2>5
<1> QED BY <1>1, <1>3, <1>4

LEMMA FinalRolloverWorth ==
    ASSUME NEW b, Good(b), NEW id \in LoanIds, now \in Nat, price \in Nat \ {0},
           b.lender.updatedTimestamp <= now, SoundLoan(b.loans[id], b.twice),
           FinalizeRollover(b, id).ok
    PROVE  Worth(FinalizeRollover(b, id)) >= Worth(b)
<1> DEFINE x == b.loans[id]
           w == ClosedWithSwap(b, id, x.collateral, FALSE, 0)
           g == CurrentMargin(x.principal, x.collateral, price) > 3
           q == Require(b, g)
<1>1. \/ FinalizeRollover(b, id) = b
      \/ FinalizeRollover(b, id) = w
      \/ FinalizeRollover(b, id) = q
  BY DEF FinalizeRollover
<1>2. Valued(b) /\ Worth(b) \in Int /\ Due(b) \in Int /\ Due(b) >= Worth(b)
  BY DueFacts
<1>3. CASE FinalizeRollover(b, id) = w
  <2>1. w.ok
    BY <1>3
  <2>2. x.collateral \in Nat /\ 0 \in Nat /\ FALSE \in BOOLEAN
    BY NumbersOf
  <2>3. Worth(w) >= Due(b) /\ Good(w)
    BY <2>1, <2>2, ClosedWithSwapWorth, ClosedWithSwapEffect DEF Keeps
  <2> HIDE DEF w
  <2>4. Worth(w) \in Int
    BY <2>3, GoodIsValued
  <2> QED BY <1>2, <1>3, <2>3, <2>4
<1>4. CASE FinalizeRollover(b, id) = q
  <2> HIDE DEF g
  <2>1. Pays(q, b, 0)
    BY <1>2, RequirePays
  <2> HIDE DEF q
  <2>2. Worth(q) = Worth(b) + 0
    BY <1>2, <2>1, PaysWorth
  <2> QED BY <1>2, <1>4, <2>2
<1>5. CASE FinalizeRollover(b, id) = b
  BY <1>2, <1>5
<1> QED BY <1>1, <1>3, <1>4, <1>5

LEMMA RolloverEnriches ==
    ASSUME LoanInv, NEW id \in LoanIds, NEW rate \in Nat, NEW e \in Nat,
           Rollover(id, rate, e)
    PROVE  \E b : Enriches(b)
<1> DEFINE x == books.loans[id]
           p == RolloverPaid(id, rate, e)
           w == PayRolloverReward(p, id)
           r == FinalizeRollover(w, id)
<1>1. x.active /\ Call(r) /\ balances' = balances
  BY DEF Rollover, poolVars, RolloverPaid, RolloverCharged, RolloverBought, RolloverSwap,
         RolloverNeeds, RolloverTerms, PaidFor, WithCollateral
<1>2. Good(books) /\ Shaped(books) /\ now \in Nat /\ books.lender.updatedTimestamp <= now
      /\ SoundLoan(x, books.twice) /\ price \in Nat \ {0}
  BY StateFacts
<1>3. Shaped(p)
  BY <1>2, RolloverShape DEF Follows
<1>4. Worth(p) >= Due(books)
  BY RolloverWorth
<1> HIDE DEF p
<1>5. Follows(w, p)
  BY <1>3, RewardShape
<1>6. Follows(r, w)
  <2> HIDE DEF w
  <2> QED BY <1>5, FinalRolloverShape DEF Follows
<1>7. r.ok /\ w.ok /\ p.ok
  <2>1. r.ok
    BY <1>1 DEF Call
  <2> HIDE DEF r, w
  <2> QED BY <1>5, <1>6, <2>1 DEF Follows
<1>8. Underway(p, books, id, 0)
  BY <1>7, RolloverStages, RolledOverEffect DEF p
<1>9. Keeps(p, books, id) /\ SoundLoan(p.loans[id], p.twice)
  BY <1>1, <1>2, <1>8, UnderwayEnds
<1>10. Good(p) /\ p.lender.updatedTimestamp <= now /\ p.loans[id].active
  BY <1>1, <1>8 DEF Underway
<1>11. Keeps(w, p, id) /\ SoundLoan(w.loans[id], w.twice) /\ Worth(w) >= Worth(p)
  BY <1>2, <1>7, <1>9, <1>10, RewardEffect, RewardWorth
<1> HIDE DEF w
<1>12. Good(w) /\ w.lender.updatedTimestamp <= now
  BY <1>11 DEF Keeps
<1>13. Keeps(r, w, id) /\ Worth(r) >= Worth(w)
  BY <1>2, <1>7, <1>11, <1>12, FinalRolloverEffect, FinalRolloverWorth
<1> HIDE DEF r
<1>14. Worth(r) \in Int /\ Worth(w) \in Int /\ Worth(p) \in Int /\ Due(books) \in Int
  BY <1>2, <1>10, <1>12, <1>13, GoodIsValued, DueFacts DEF Keeps
<1>15. Worth(r) >= Due(books)
  BY <1>4, <1>11, <1>13, <1>14
<1> QED BY <1>1, <1>15 DEF Enriches

-----------------------------------------------------------------------------
LEMMA SendPays ==
    ASSUME NEW b, Valued(b), NEW n \in Int PROVE Pays(SendPrincipal(b, n), b, -n)
<1> DEFINE q == Require(b, n <= b.cash)
<1>1. Pays(q, b, 0)
  BY RequirePays
<1>2. SendPrincipal(b, n) = [q EXCEPT !.cash = @ - n]
  BY DEF SendPrincipal
<1> HIDE DEF q
<1>3. q.cash - n = b.cash + (-n)
  BY <1>1 DEF Pays, Valued
<1> QED BY <1>1, <1>2, <1>3 DEF Pays, Valued

LEMMA InitializeLoanPays ==
    ASSUME NEW b, Valued(b), NEW id, NEW kind, NEW n
    PROVE  Pays(InitializeLoan(b, id, kind, n), b, 0)
<1> DEFINE x == b.loans[id]
           q == Require(b, x.active /\ now < x.endTimestamp /\ x.kind = kind)
<1>1. Pays(q, b, 0)
  BY RequirePays
<1>2. \/ InitializeLoan(b, id, kind, n) = [b EXCEPT !.loans[id] = NewLoan(kind, n)]
      \/ InitializeLoan(b, id, kind, n) = [q EXCEPT !.loans[id].principal = @ + n]
  BY DEF InitializeLoan
<1> HIDE DEF q
<1> QED BY <1>1, <1>2 DEF Pays, Valued

LEMMA InitializeInterestWorth ==
    ASSUME NEW b, Valued(b), InterestUnpaid(b, now) \in Nat,
           NEW id, NEW n \in Int, NEW rate, NEW i
    PROVE  LET r == InitializeInterest(b, id, n, rate, i).books
           IN  Valued(r) /\ Worth(r) = Due(b) + n
<1> DEFINE p == PaidFor(b, id)
           r == InitializeInterest(b, id, n, rate, i).books
<1>1. \E c, w, e, d : r = NewTerms([Require(p, c) EXCEPT !.lender.principalTotal = @ + n], id, w, e, d)
  BY DEF InitializeInterest, PaidFor
<1>2. Valued(p) /\ Worth(p) = Due(b)
  BY PaidForWorth DEF Due
<1> HIDE DEF p, r
<1>3. PICK c, w, e, d : r = NewTerms([Require(p, c) EXCEPT !.lender.principalTotal = @ + n], id, w, e, d)
  BY <1>1
<1> DEFINE q == Require(p, c)
           t == [q EXCEPT !.lender.principalTotal = @ + n]
<1>4. Pays(q, p, 0) /\ Valued(q)
  BY <1>2, RequirePays, PaidIsValued
<1>5. Worth(q) = Worth(p)
  BY <1>2, <1>4, PaysWorth, ValuedInt
<1>6. r = NewTerms(t, id, w, e, d)
  BY <1>3
<1> HIDE DEF q
<1>7. Valued(t) /\ Worth(t) = Worth(q) + n
  BY <1>4 DEF Valued, Worth
<1> HIDE DEF t
<1>8. Valued(r) /\ Worth(r) = Worth(t)
  BY <1>6, <1>7, NewTermsWorth
<1> QED BY <1>2, <1>5, <1>7, <1>8 DEF r

LEMMA FinalizeOpenPays ==
    ASSUME NEW b, Valued(b), NEW id, NEW m, NEW k, NEW n, NEW t
    PROVE  Pays(FinalizeOpen(b, id, m, k, n, t), b, 0)
<1>1. \E c : FinalizeOpen(b, id, m, k, n, t)
                 = [Require(b, c) EXCEPT !.loans[id].collateral = @ + k]
  BY DEF FinalizeOpen
<1>2. PICK c : FinalizeOpen(b, id, m, k, n, t)
                   = [Require(b, c) EXCEPT !.loans[id].collateral = @ + k]
  BY <1>1
<1> DEFINE q == Require(b, c)
<1>3. Pays(q, b, 0)
  BY RequirePays
<1>4. FinalizeOpen(b, id, m, k, n, t) = [q EXCEPT !.loans[id].collateral = @ + k]
  BY <1>2
<1> HIDE DEF q
<1> QED BY <1>3, <1>4 DEF Pays, Valued

\* The pool's interest, collected or not.
LEMMA SettledWorth ==
    ASSUME LoanInv
    PROVE  /\ Valued(Settled)
           /\ Worth(Settled) \in Nat
           /\ Worth(Settled) >= PoolWorth
           /\ \/ Settled = books
              \/ Worth(Settled) = Due(books)
<1>1. Good(books) /\ now \in Nat /\ books.lender.updatedTimestamp <= now
  BY StateFacts
<1>2. Valued(books) /\ InterestUnpaid(books, now) \in Nat /\ Due(books) \in Int
      /\ Worth(books) \in Nat
  BY <1>1, DueFacts, GoodIsValued
<1>3. /\ PoolWorth \in Nat /\ PoolWorth <= Due(books)
      /\ lastSettleTime = now => PoolWorth = Worth(books)
  BY PoolWorthIs
<1>4. CASE lastSettleTime = now
  <2>1. Settled = books
    BY <1>4 DEF Settled
  <2> QED BY <1>2, <1>3, <1>4, <2>1
<1>5. CASE lastSettleTime # now
  <2>1. Settled = PayInterest(books, now)
    BY <1>5 DEF Settled
  <2>2. Valued(Settled) /\ Worth(Settled) = Due(books)
    BY <1>2, <2>1, PayInterestWorth DEF Due
  <2> QED BY <1>2, <1>3, <2>2
<1> QED BY <1>4, <1>5

\* What is lent leaves the cash of the pool and is owed to it.
LEMMA BegunWorth ==
    ASSUME LoanInv, NEW id \in LoanIds, NEW kind \in Kinds, NEW n \in Nat \ {0},
           NEW i \in Nat, NEW k \in Nat, NEW rate \in Nat, NEW ti \in Nat,
           BeginOpen(id, kind, n, i, k, rate, ti).books.ok
    PROVE  LET s == BeginOpen(id, kind, n, i, k, rate, ti)
           IN  Valued(s.books) /\ Worth(s.books) >= Due(books) /\ Worth(s.books) \in Int
<1> DEFINE q == Settled
           f == SendPrincipal(q, n)
           g == VaultDeposit(f, "loan", i)
           h == OpeningFunds(n, i, k)
           l == OpeningLent(id, kind, n, i, k)
           s == BeginOpen(id, kind, n, i, k, rate, ti)
<1>1. Good(books) /\ Shaped(books) /\ BooksHold(books) /\ now \in Nat
      /\ \A j \in LoanIds : SoundLoan(books.loans[j], books.twice)
  BY StateFacts
<1>2. l.ok /\ h.ok
  <2> HIDE DEF s, l, h, q
  <2> QED BY <1>1, OpeningShape DEF Follows, s, l, h
<1>3. Funded(h, books, i, k)
  BY <1>1, <1>2, FundsEffect
<1>4. l = InitializeLoan(h, id, kind, n) /\ s = InitializeInterest(l, id, n, rate, ti)
      /\ h = VaultDeposit(g, "collateral", k)
  BY DEF OpeningLent, OpeningFunds, BeginOpen
<1> HIDE DEF h, l, s
<1>5. Good(h) /\ SoundLoan(h.loans[id], h.twice)
  BY <1>1, <1>3 DEF Funded
<1>6. Lends(l, h, id, kind, n)
  <2>1. InitializeLoan(h, id, kind, n).ok
    BY <1>2, <1>4
  <2> QED BY <1>1, <1>4, <1>5, <2>1, InitializeLoanEffect
<1>7. Good(l) /\ l.lender.updatedTimestamp <= now /\ l.lender = h.lender
  BY <1>3, <1>6 DEF Lends, Funded
<1>8. Valued(l) /\ Worth(l) \in Int /\ Due(l) \in Int /\ Due(l) >= Worth(l)
      /\ InterestUnpaid(l, now) \in Nat
  BY <1>1, <1>7, DueFacts
<1>9. Valued(s.books) /\ Worth(s.books) = Due(l) + n
  BY <1>4, <1>8, InitializeInterestWorth
<1>10. Valued(q) /\ Worth(q) \in Nat /\ (q = books \/ Worth(q) = Due(books))
  BY SettledWorth
<1> HIDE DEF q
<1>11. Pays(f, q, -n) /\ Valued(f)
  BY <1>10, SendPays, PaidIsValued
<1> HIDE DEF f
<1>12. Pays(g, f, 0) /\ Valued(g)
  BY <1>11, DepositPays, PaidIsValued
<1> HIDE DEF g
<1>13. Pays(h, g, 0)
  BY <1>4, <1>12, DepositPays
<1>14. Pays(l, h, 0)
  BY <1>4, <1>5, GoodIsValued, InitializeLoanPays
<1>15. Pays(l, f, 0)
  BY <1>11, <1>12, <1>13, <1>14, PaysNothing
<1>16. Worth(l) = Worth(q) - n /\ l.lender = q.lender
  <2>1. -n \in Int
    OBVIOUS
  <2>2. Worth(f) = Worth(q) + (-n)
    BY <1>10, <1>11, <2>1, PaysWorth
  <2>3. Worth(l) = Worth(f) + 0
    BY <1>11, <1>15, PaysWorth
  <2> QED BY <1>10, <1>11, <1>15, <2>2, <2>3 DEF Pays
<1>17. Worth(s.books) >= Due(books)
  <2>1. Due(books) \in Int
    BY <1>1, DueFacts DEF BooksHold
  <2>2. CASE q = books
    <3>1. InterestUnpaid(l, now) = InterestUnpaid(books, now)
      BY <1>16, <2>2 DEF InterestUnpaid
    <3>2. Earned(InterestUnpaid(l, now)) \in Int
      BY <1>8, EarnedNat
    <3>3. Due(l) = Due(books) - n
      BY <1>10, <1>16, <2>2, <3>1, <3>2 DEF Due
    <3> QED BY <1>9, <2>1, <3>3
  <2>3. CASE Worth(q) = Due(books)
    BY <1>8, <1>9, <1>16, <2>1, <2>3
  <2> QED BY <1>10, <2>2, <2>3
<1>18. Worth(s.books) \in Int
  BY <1>8, <1>9
<1> QED BY <1>9, <1>17, <1>18 DEF s

LEMMA BorrowEnriches ==
    ASSUME LoanInv, NEW id \in LoanIds, NEW rate \in Nat,
           NEW ask \in [withdraw : Nat, duration : Nat, collateral : Nat],
           Borrow(id, ask, rate)
    PROVE  \E b : Enriches(b)
<1> DEFINE n == WithInterest(ask.withdraw, rate, ask.duration)
           i == n - ask.withdraw
           k == ask.collateral
           s == BeginOpen(id, "torque", n, i, k, rate, i)
           fee == BorrowingFee(k)
           f == HoldFee(s.books, "collateral", fee)
           m == k - fee
           r == FinalizeOpen(f, id, minInitialMargin, m, n, n)
<1>1. InterestFor(rate, ask.duration) < 100 /\ i # 0 /\ Call(r) /\ balances' = balances
  BY DEF Borrow
<1>2. Good(books) /\ Shaped(books)
  BY StateFacts
<1>3. n \in Nat \ {0} /\ i \in Nat /\ k \in Nat
  <2>1. n \in Nat /\ n >= ask.withdraw
    BY <1>1, WithInterestNat
  <2> HIDE DEF n
  <2> QED BY <1>1, <2>1
<1> HIDE DEF n, i, k, fee, m
<1>4. Shaped(s.books)
  BY <1>2, OpeningShape DEF Follows
<1> HIDE DEF s
<1>5. Follows(f, s.books)
  BY <1>4, DepositShape
<1>6. Follows(r, f)
  <2> HIDE DEF f
  <2> QED BY <1>5, FinalizeOpenShape DEF Follows
<1>7. s.books.ok
  <2>1. r.ok
    BY <1>1 DEF Call
  <2> HIDE DEF r, f
  <2> QED BY <1>5, <1>6, <2>1 DEF Follows
<1>8. Valued(s.books) /\ Worth(s.books) >= Due(books) /\ Worth(s.books) \in Int
  BY <1>3, <1>7, BegunWorth DEF Kinds, s
<1>9. Pays(f, s.books, 0) /\ Valued(f)
  BY <1>8, DepositPays, PaidIsValued
<1> HIDE DEF f
<1>10. Pays(r, f, 0)
  BY <1>9, FinalizeOpenPays
<1> HIDE DEF r
<1>11. Worth(r) >= Due(books)
  <2>1. Pays(r, s.books, 0)
    BY <1>8, <1>9, <1>10, PaysNothing
  <2>2. Worth(r) = Worth(s.books) + 0
    BY <1>8, <2>1, PaysWorth
  <2> QED BY <1>8, <2>2
<1> QED BY <1>1, <1>11 DEF Enriches

LEMMA TradeEnriches ==
    ASSUME LoanInv, NEW id \in LoanIds, NEW rate \in Nat,
           NEW ask \in [loanToken : Nat, collateral : Nat, leverage : Nat \ {0}],
           MarginTrade(id, ask, rate)
    PROVE  \E b : Enriches(b)
<1> DEFINE deposit == ask.loanToken + ToLoan(ask.collateral, price)
           n == WithInterest(deposit * ask.leverage, rate, maxLoanTerm)
           i == n + ask.loanToken
           k == ask.collateral
           s == BeginOpen(id, "trade", n, i, k, rate, 0)
           rest == n + ask.loanToken - s.amount
           swap == LoanSwap(s.books, "loan", "collateral", rest, rest, 0, price, 0)
           f == swap.books
           margin == 100 \div ask.leverage
           m == k + swap.received
           r == FinalizeOpen(f, id, margin, m, n, 0)
<1>1. InterestFor(rate, maxLoanTerm) < 100 /\ n > TINY_AMOUNT
      /\ Call(r) /\ balances' = balances
  <2>1. InterestFor(rate, maxLoanTerm) < 100 /\ n > TINY_AMOUNT /\ balances' = balances
    BY DEF MarginTrade
  <2>2. Call(r)
    BY DEF MarginTrade
  <2> QED BY <2>1, <2>2
<1>2. Good(books) /\ Shaped(books) /\ price \in Nat \ {0}
  BY StateFacts
<1>3. n \in Nat \ {0} /\ i \in Nat /\ k \in Nat
  <2>1. ToLoan(ask.collateral, price) \in Nat
    BY <1>2, MulDivNat, LoanAssumption DEF ToLoan
  <2>2. deposit \in Nat
    BY <2>1
  <2> HIDE DEF deposit
  <2>3. deposit * ask.leverage \in Nat
    BY <2>2
  <2>4. maxLoanTerm \in Nat /\ TINY_AMOUNT \in Nat
    BY LoanAssumption
  <2>5. n \in Nat
    BY <1>1, <2>3, <2>4, WithInterestNat
  <2> HIDE DEF n
  <2> QED BY <1>1, <2>4, <2>5
<1> HIDE DEF n, i, k, margin, m
<1>4. Shaped(s.books)
  BY <1>2, OpeningShape DEF Follows
<1> HIDE DEF s, rest
<1>5. Follows(f, s.books)
  BY <1>4, LoanSwapShape
<1>6. Follows(r, f)
  <2> HIDE DEF f
  <2> QED BY <1>5, FinalizeOpenShape DEF Follows
<1>7. s.books.ok
  <2>1. r.ok
    BY <1>1 DEF Call
  <2> HIDE DEF r, f
  <2> QED BY <1>5, <1>6, <2>1 DEF Follows
<1>8. Valued(s.books) /\ Worth(s.books) >= Due(books) /\ Worth(s.books) \in Int
  BY <1>3, <1>7, BegunWorth, 0 \in Nat DEF Kinds, s
<1>9. Pays(f, s.books, 0) /\ Valued(f)
  BY <1>8, LoanSwapPays, PaidIsValued
<1> HIDE DEF f
<1>10. Pays(r, f, 0)
  BY <1>9, FinalizeOpenPays
<1> HIDE DEF r
<1>11. Worth(r) >= Due(books)
  <2>1. Pays(r, s.books, 0)
    BY <1>8, <1>9, <1>10, PaysNothing
  <2>2. Worth(r) = Worth(s.books) + 0
    BY <1>8, <2>1, PaysWorth
  <2> QED BY <1>8, <2>2
<1> QED BY <1>1, <1>11 DEF Enriches

-----------------------------------------------------------------------------
(* The calls of suppliers, at the price of the pool with its interest. *)

SettledPrice == MulDiv(Worth(Settled), WEI, TotalSupply)

LEMMA SettledPriceIs ==
    ASSUME LoanInv, TotalSupply # 0
    PROVE  /\ PriceOf(TotalAssetSupply(Settled, 0)) = SettledPrice
           /\ SettledPrice \in Nat
           /\ TotalSupply * SettledPrice <= Worth(Settled) * WEI
           /\ TokenPrice <= SettledPrice
           /\ TokenPrice \in Nat
<1> DEFINE a == PoolWorth
           b == Worth(Settled)
           c == TotalSupply
<1>1. /\ a \in Nat /\ b \in Nat /\ a <= b /\ c \in Nat \ {0} /\ WEI \in Nat
      /\ Valued(Settled)
  BY PoolWorthIs, SettledWorth, SupplyIs, PoolAssumption
<1>2. TokenPrice = MulDiv(a, WEI, c) /\ SettledPrice = MulDiv(b, WEI, c)
  BY TokenPriceIs DEF SettledPrice
<1>3. PriceOf(TotalAssetSupply(Settled, 0)) = MulDiv(b, WEI, c)
  <2>1. PriceOf(TotalAssetSupply(Settled, 0)) = MulDiv(TotalAssetSupply(Settled, 0), WEI, c)
    BY DEF PriceOf
  <2>2. TotalAssetSupply(Settled, 0) = Settled.cash + Settled.lender.principalTotal + 0
    BY DEF TotalAssetSupply
  <2> DEFINE q == Settled
  <2> HIDE DEF q, c
  <2>3. q.cash + q.lender.principalTotal + 0 = Worth(q)
    BY <1>1 DEF q, Valued, Worth
  <2> QED BY <2>1, <2>2, <2>3 DEF q
<1> HIDE DEF a, b, c
<1>4. MulDiv(a, WEI, c) <= MulDiv(b, WEI, c)
  BY <1>1, GrowingQuotient
<1>5. MulDiv(a, WEI, c) \in Nat /\ MulDiv(b, WEI, c) \in Nat
  BY <1>1, MulDivNat
<1>6. c * MulDiv(b, WEI, c) <= b * WEI
  <2>1. b * WEI \in Nat
    BY <1>1
  <2>2. \A k \in Nat : c * (k \div c) <= k
    BY <1>1
  <2> QED BY <2>1, <2>2 DEF MulDiv
<1> QED BY <1>2, <1>3, <1>4, <1>5, <1>6 DEF b, c

LEMMA SuppliersPrice ==
    ASSUME LoanInv, LoanInv', TotalSupply # 0, NEW b, Call(b), lastSettleTime' = now,
           TotalSupply' * SettledPrice <= Worth(b) * WEI
    PROVE  PriceKept
<1> SUFFICES ASSUME TotalSupply' # 0 PROVE TokenPrice' >= TokenPrice
  BY DEF PriceKept
<1>1. books' = b /\ now' = now
  BY DEF Call, worldVars
<1>2. PoolWorth' = Worth(b) /\ Worth(b) \in Nat
  <2>1. Worth(books)' = Worth(b)
    BY <1>1 DEF Worth
  <2>2. (lastSettleTime = now)'
    BY <1>1
  <2> QED BY <2>1, <2>2, PoolWorthNext
<1> DEFINE x == Worth(b) * WEI
           c == TotalSupply'
           p == SettledPrice
<1>3. TokenPrice' = x \div c
  BY <1>2, TokenPriceNext DEF MulDiv
<1>4. c \in Nat \ {0} /\ p \in Nat /\ x \in Nat /\ c * p <= x
  <2>1. c \in Nat \ {0}
    BY PoolWorthNext
  <2>2. p \in Nat
    BY SettledPriceIs
  <2>3. WEI \in Nat
    BY PoolAssumption
  <2> QED BY <1>2, <2>1, <2>2, <2>3
<1>5. TokenPrice <= p /\ TokenPrice \in Nat
  BY SettledPriceIs
<1> HIDE DEF x, c, p
<1>6. x \div c >= p /\ x \div c \in Nat
  BY <1>4, AtLeastQuotient
<1> QED BY <1>3, <1>4, <1>5, <1>6

\* The supply when one balance changes.
LEMMA SupplyNext ==
    ASSUME LoanInv, NEW s \in Suppliers, NEW n \in Nat,
           balances' = [balances EXCEPT ![s] = n]
    PROVE  /\ TotalSupply' = TotalSupply - balances[s] + n
           /\ balances[s] \in Nat /\ TotalSupply \in Nat /\ balances[s] <= TotalSupply
<1>1. IsFiniteSet(Suppliers) /\ balances \in [Suppliers -> Nat]
  BY PoolAssumption, StateFacts
<1> DEFINE g == [balances EXCEPT ![s] = n]
<1>2. g \in [Suppliers -> Nat] /\ g[s] = n /\ \A t \in Suppliers \ {s} : g[t] = balances[t]
  BY <1>1
<1>3. TotalSupply = SumFunctionOnSet(balances, Suppliers)
  BY <1>1, SumOfFunction DEF TotalSupply
<1>4. TotalSupply' = SumFunctionOnSet(g, Suppliers)
  <2>1. TotalSupply' = SumFunction(g)
    BY DEF TotalSupply
  <2> HIDE DEF g
  <2> QED BY <1>2, <2>1, SumOfFunction
<1> HIDE DEF g
<1>5. SumFunctionOnSet(g, Suppliers)
          = SumFunctionOnSet(balances, Suppliers) - balances[s] + g[s]
  <2>1. (\A t \in Suppliers : balances[t] \in Int) /\ g[s] \in Int
    BY <1>1, <1>2
  <2> QED BY <1>1, <1>2, <2>1, SumChange
<1>6. TotalSupply \in Nat /\ balances[s] <= TotalSupply /\ balances[s] \in Nat
  BY <1>1, <1>3, SumOfNats
<1> QED BY <1>2, <1>3, <1>4, <1>5, <1>6

LEMMA MintPrice ==
    ASSUME LoanInv, LoanInv', NEW s \in Suppliers, NEW d \in Nat, Mint(s, d)
    PROVE  PriceKept
<1>1. CASE TotalSupply = 0
  BY <1>1 DEF PriceKept
<1>2. CASE TotalSupply # 0
  <2> DEFINE p == PriceOf(TotalAssetSupply(Settled, 0))
             m == MulDiv(d, WEI, p)
             q == Settled
             b == [q EXCEPT !.cash = @ + d]
  <2>1. p # 0 /\ Call(b) /\ balances' = [balances EXCEPT ![s] = @ + m]
        /\ lastSettleTime' = now
    BY DEF Mint
  <2>2. p = SettledPrice /\ p \in Nat /\ TotalSupply * p <= Worth(q) * WEI
    BY <1>2, SettledPriceIs
  <2> HIDE DEF p
  <2>3. Valued(q) /\ Worth(q) \in Nat
    BY SettledWorth
  <2> HIDE DEF q
  <2>4. Worth(b) = Worth(q) + d
    BY <2>3 DEF Valued, Worth
  <2> HIDE DEF b
  <2>5. WEI \in Nat /\ m \in Nat /\ p * m <= d * WEI
    <3>1. WEI \in Nat
      BY PoolAssumption
    <3>2. d * WEI \in Nat
      BY <3>1
    <3>3. \A k \in Nat : k \div p \in Nat /\ p * (k \div p) <= k
      BY <2>1, <2>2
    <3> QED BY <3>1, <3>2, <3>3 DEF MulDiv
  <2> HIDE DEF m
  <2>6. balances[s] \in Nat /\ balances' = [balances EXCEPT ![s] = balances[s] + m]
    BY <2>1, StateFacts
  <2>7. TotalSupply' = TotalSupply + m /\ TotalSupply \in Nat
    <3> DEFINE n == balances[s] + m
    <3>1. n \in Nat /\ balances' = [balances EXCEPT ![s] = n]
      BY <2>5, <2>6
    <3> HIDE DEF n
    <3>2. TotalSupply' = TotalSupply - balances[s] + n /\ TotalSupply \in Nat
      BY <3>1, SupplyNext
    <3> QED BY <2>5, <2>6, <3>2 DEF n
  <2>8. TotalSupply' * p <= Worth(b) * WEI
    <3> DEFINE t == TotalSupply
               w == Worth(q)
    <3>1. t \in Nat /\ w \in Nat /\ t * p <= w * WEI
      BY <2>2, <2>3, <2>7
    <3> HIDE DEF t, w
    <3>2. /\ (t + m) * p = t * p + p * m
          /\ (w + d) * WEI = w * WEI + d * WEI
      BY <2>2, <2>5, <3>1
    <3>3. t * p \in Nat /\ p * m \in Nat /\ w * WEI \in Nat /\ d * WEI \in Nat
      BY <2>2, <2>5, <3>1
    <3>4. (t + m) * p <= (w + d) * WEI
      BY <2>5, <3>1, <3>2, <3>3
    <3> QED BY <2>4, <2>7, <3>4 DEF t, w
  <2> QED BY <1>2, <2>1, <2>2, <2>8, SuppliersPrice
<1> QED BY <1>1, <1>2

LEMMA BurnPrice ==
    ASSUME LoanInv, LoanInv', NEW s \in Suppliers, NEW k \in Nat, Burn(s, k)
    PROVE  PriceKept
<1>1. CASE TotalSupply = 0
  BY <1>1 DEF PriceKept
<1>2. CASE TotalSupply # 0
  <2> DEFINE p == PriceOf(TotalAssetSupply(Settled, 0))
             amount == Min2(k, balances[s])
             paid == MulDiv(amount, p, WEI)
             rest == balances[s] - amount
             n == IF rest <= Dust THEN 0 ELSE rest
             q == Settled
             r == Require(q, paid <= q.cash)
             b == [r EXCEPT !.cash = @ - paid]
  <2>1. Call(b) /\ balances' = [balances EXCEPT ![s] = n] /\ lastSettleTime' = now
    BY DEF Burn
  <2>2. p = SettledPrice /\ p \in Nat /\ TotalSupply * p <= Worth(q) * WEI
    BY <1>2, SettledPriceIs
  <2> HIDE DEF p
  <2>3. Valued(q) /\ Worth(q) \in Nat
    BY SettledWorth
  <2>4. balances[s] \in Nat /\ WEI \in Nat \ {0}
    BY StateFacts, PoolAssumption
  <2>5. amount \in Nat /\ amount <= balances[s]
    BY <2>4, MinMax
  <2> HIDE DEF amount
  <2>6. n \in Nat /\ n <= balances[s] - amount
    BY <2>4, <2>5
  <2>7. paid \in Nat /\ WEI * paid <= amount * p
    <3>1. amount * p \in Nat
      BY <2>2, <2>5
    <3>2. \A j \in Nat : j \div WEI \in Nat /\ WEI * (j \div WEI) <= j
      BY <2>4
    <3> QED BY <3>1, <3>2 DEF MulDiv
  <2> HIDE DEF paid, n, q
  <2>8. Pays(r, q, 0)
    BY <2>3, RequirePays
  <2> HIDE DEF r
  <2>9. Worth(b) = Worth(q) - paid
    BY <2>3, <2>7, <2>8 DEF Pays, Valued, Worth
  <2> HIDE DEF b
  <2>10. /\ TotalSupply' = TotalSupply - balances[s] + n
         /\ TotalSupply \in Nat
    BY <2>1, <2>6, SupplyNext
  <2>11. TotalSupply' * p <= Worth(b) * WEI
    <3> DEFINE t == TotalSupply
               u == TotalSupply'
               w == Worth(q)
    <3>1. t \in Nat /\ w \in Nat /\ t * p <= w * WEI
      BY <2>2, <2>3, <2>10
    <3>2. u \in Int /\ u <= t - amount
      BY <2>4, <2>5, <2>6, <2>10
    <3> HIDE DEF t, u, w
    <3>3. u * p <= (t - amount) * p
      <4>1. \A i, j \in Int : i <= j => i * p <= j * p
        BY <2>2
      <4>2. t - amount \in Int
        BY <2>5, <3>1
      <4> QED BY <3>2, <4>1, <4>2
    <3>4. /\ (t - amount) * p = t * p - amount * p
          /\ (w - paid) * WEI = w * WEI - WEI * paid
      BY <2>2, <2>4, <2>5, <2>7, <3>1
    <3>5. t * p \in Int /\ amount * p \in Int /\ w * WEI \in Int /\ WEI * paid \in Int
          /\ u * p \in Int
      BY <2>2, <2>4, <2>5, <2>7, <3>1, <3>2
    <3>6. u * p <= (w - paid) * WEI
      BY <2>7, <3>1, <3>3, <3>4, <3>5
    <3> QED BY <2>9, <3>6 DEF u, w
  <2> QED BY <1>2, <2>1, <2>2, <2>11, SuppliersPrice
<1> QED BY <1>1, <1>2

\* Interest only grows.
LEMMA TickPrice ==
    ASSUME LoanInv, LoanInv', lastSettleTime \in Nat, lastSettleTime <= now, Tick
    PROVE  PriceKept
<1>1. books' = books /\ balances' = balances /\ now' = now + 1
      /\ lastSettleTime' = lastSettleTime
  BY DEF Tick, poolVars
<1>2. Good(books) /\ now \in Nat /\ books.lender.updatedTimestamp <= now
      /\ books.lender \in Lenders
  BY StateFacts DEF Good, Books
<1>3. PoolWorth \in Nat /\ PoolWorth' \in Nat /\ Worth(books) \in Nat
      /\ PoolWorth' >= Worth(books)'
  BY PoolWorthIs, PoolWorthNext
<1>4. Worth(books)' = Worth(books)
  BY <1>1 DEF Worth
<1>5. CASE lastSettleTime = now
  <2>1. PoolWorth = Worth(books)
    BY <1>5, PoolWorthIs
  <2>2. PoolWorth' >= PoolWorth
    BY <1>3, <1>4, <2>1
  <2> QED BY <1>1, <2>2, WorthMorePrice
<1>6. CASE lastSettleTime # now
  <2>1. lastSettleTime # now + 1
    BY <1>2
  <2> DEFINE u == InterestUnpaid(books, now)
             v == InterestUnpaid(books, now + 1)
             g == 100 - lendingFeePercent
  <2>2. PoolWorth = Worth(books) + Percent(u, g)
    BY <1>6 DEF PoolWorth
  <2>3. PoolWorth' = Worth(books) + Percent(v, g)
    BY <1>1, <1>4, <2>1 DEF PoolWorth, InterestUnpaid, Percent, MulDiv, Min2
  <2>4. u \in Nat /\ v \in Nat
    <3>1. books.lender.updatedTimestamp <= now + 1 /\ now + 1 \in Nat
      BY <1>2 DEF Lenders
    <3> QED BY <1>2, <3>1, UnpaidNat
  <2>5. u <= v
    <3> DEFINE t == books.lender.updatedTimestamp
               o == books.lender.owedPerDay
               e == books.lender.owedTotal
               a == now - t
               b == (now + 1) - t
               i == MulDiv(a, o, DAY)
               j == MulDiv(b, o, DAY)
    <3>1. t \in Nat /\ o \in Nat /\ e \in Nat /\ t <= now /\ DAY \in Nat \ {0}
      BY <1>2, LoanAssumption DEF Lenders
    <3>2. u = Min2(i, e) /\ v = Min2(j, e)
      BY DEF InterestUnpaid
    <3> HIDE DEF t, o, e
    <3>3. a \in Nat /\ b \in Nat /\ a <= b
      BY <1>2, <3>1
    <3> HIDE DEF a, b
    <3>4. i <= j
      BY <3>1, <3>3, GrowingQuotient
    <3>5. i \in Nat /\ j \in Nat
      BY <3>1, <3>3, MulDivNat
    <3> HIDE DEF i, j, u, v
    <3> QED BY <3>1, <3>2, <3>4, <3>5 DEF Min2
  <2> HIDE DEF u, v
  <2>6. g \in Nat
    BY LoanAssumption
  <2> HIDE DEF g
  <2>7. Percent(u, g) <= Percent(v, g) /\ Percent(u, g) \in Nat /\ Percent(v, g) \in Nat
    <3>1. MulDiv(u, g, 100) <= MulDiv(v, g, 100)
      <4>1. 100 \in Nat \ {0}
        OBVIOUS
      <4> QED BY <2>4, <2>5, <2>6, <4>1, GrowingQuotient
    <3>2. Percent(u, g) = MulDiv(u, g, 100) /\ Percent(v, g) = MulDiv(v, g, 100)
      BY DEF Percent
    <3>3. Percent(u, g) \in Nat /\ Percent(v, g) \in Nat
      BY <2>4, <2>6, PercentNat
    <3> QED BY <3>1, <3>2, <3>3
  <2>8. PoolWorth' >= PoolWorth
    BY <1>3, <2>2, <2>3, <2>7
  <2> QED BY <1>1, <2>8, WorthMorePrice
<1> QED BY <1>5, <1>6

-----------------------------------------------------------------------------
(* The price, whatever is called. *)

\* The block in which interest was last settled is not ahead.
SettledInPast == lastSettleTime \in Nat /\ lastSettleTime <= now

\* A call leaves the time alone, and settles now if it settles.
SettlesNow == now' = now /\ lastSettleTime' \in {lastSettleTime, now}

LEMMA PoolCallSettles == PoolCall => SettlesNow
<1>1. ASSUME NEW s \in Suppliers, NEW a \in Deposits, Mint(s, a) PROVE SettlesNow
  BY <1>1 DEF Mint, Call, worldVars, SettlesNow
<1>2. ASSUME NEW s \in Suppliers, NEW a \in Burns, Burn(s, a) PROVE SettlesNow
  BY <1>2 DEF Burn, Call, worldVars, SettlesNow
<1> QED BY <1>1, <1>2 DEF PoolCall

LEMMA OpenCallSettles == OpenCall => SettlesNow
<1>1. ASSUME NEW id \in LoanIds, NEW rate \in Rates, NEW ask \in Borrows,
             Borrow(id, ask, rate)
      PROVE  SettlesNow
  BY <1>1 DEF Borrow, Call, worldVars, SettlesNow
<1>2. ASSUME NEW id \in LoanIds, NEW rate \in Rates, NEW ask \in Trades,
             MarginTrade(id, ask, rate)
      PROVE  SettlesNow
  BY <1>2 DEF MarginTrade, Call, worldVars, SettlesNow
<1> QED BY <1>1, <1>2 DEF OpenCall

LEMMA CloseCallSettles == CloseCall => SettlesNow
<1>1. ASSUME NEW id \in LoanIds, NEW n, CloseWithDeposit(id, n) PROVE SettlesNow
  BY <1>1 DEF CloseWithDeposit, Call, poolVars, worldVars, SettlesNow
<1>2. ASSUME NEW id \in LoanIds, NEW n, NEW c, NEW e, CloseWithSwap(id, n, c, e)
      PROVE  SettlesNow
  BY <1>2 DEF CloseWithSwap, Call, poolVars, worldVars, SettlesNow
<1>3. ASSUME NEW id \in LoanIds, NEW n, Liquidate(id, n) PROVE SettlesNow
  BY <1>3 DEF Liquidate, Call, poolVars, worldVars, SettlesNow
<1> QED BY <1>1, <1>2, <1>3 DEF CloseCall

LEMMA MaintenanceCallSettles == MaintenanceCall => SettlesNow
<1>1. ASSUME NEW id, NEW rate, NEW e, Rollover(id, rate, e) PROVE SettlesNow
  BY <1>1 DEF Rollover, Call, poolVars, worldVars, SettlesNow
<1>2. ASSUME NEW id, NEW n, ReduceLoanDuration(id, n) PROVE SettlesNow
  BY <1>2 DEF ReduceLoanDuration, Call, poolVars, worldVars, SettlesNow
<1>3. ASSUME NEW id, NEW n, DepositCollateral(id, n) PROVE SettlesNow
  BY <1>3 DEF DepositCollateral, Call, poolVars, worldVars, SettlesNow
<1>4. ASSUME NEW id, NEW n, WithdrawCollateral(id, n) PROVE SettlesNow
  BY <1>4 DEF WithdrawCollateral, Call, poolVars, worldVars, SettlesNow
<1>5. ASSUME NEW id, NEW n, NEW c, NEW e, ExtendLoanDuration(id, n, c, e) PROVE SettlesNow
  BY <1>5 DEF ExtendLoanDuration, Call, poolVars, worldVars, SettlesNow
<1> QED BY <1>1, <1>2, <1>3, <1>4, <1>5 DEF MaintenanceCall

LEMMA SettledInPastKeeps ==
    LoanInv /\ SettledInPast /\ [Next]_vars => SettledInPast'
<1> SUFFICES ASSUME LoanInv, SettledInPast, [Next]_vars PROVE SettledInPast'
  OBVIOUS
<1>1. now \in Nat
  BY StateFacts
<1>2. CASE SettlesNow
  BY <1>1, <1>2 DEF SettledInPast, SettlesNow
<1>3. CASE Tick
  BY <1>1, <1>3 DEF Tick, poolVars, SettledInPast
<1>4. ASSUME NEW token \in Tokens, WithdrawFees(token) PROVE SettlesNow
  BY <1>4 DEF WithdrawFees, Call, poolVars, worldVars, SettlesNow
<1>5. CASE UNCHANGED vars
  BY <1>5 DEF vars, poolVars, worldVars, SettledInPast
<1> QED BY <1>2, <1>3, <1>4, <1>5, PoolCallSettles, OpenCallSettles, CloseCallSettles,
       MaintenanceCallSettles DEF Next

LEMMA PoolCallPrice == ASSUME LoanInv, LoanInv', PoolCall PROVE PriceKept
<1>1. Deposits \subseteq Nat /\ Burns \subseteq Nat
  BY PoolAssumption
<1>2. ASSUME NEW s \in Suppliers, NEW a \in Deposits, Mint(s, a) PROVE PriceKept
  BY <1>1, <1>2, MintPrice
<1>3. ASSUME NEW s \in Suppliers, NEW a \in Burns, Burn(s, a) PROVE PriceKept
  BY <1>1, <1>3, BurnPrice
<1> QED BY <1>2, <1>3 DEF PoolCall

LEMMA OpenCallEnriches == ASSUME LoanInv, OpenCall PROVE \E b : Enriches(b)
<1>1. /\ Rates \subseteq Nat
      /\ Borrows \subseteq [withdraw : Nat, duration : Nat, collateral : Nat]
      /\ Trades \subseteq [loanToken : Nat, collateral : Nat, leverage : Nat \ {0}]
  BY PoolAssumption
<1>2. ASSUME NEW id \in LoanIds, NEW rate \in Rates, NEW ask \in Borrows,
             Borrow(id, ask, rate)
      PROVE  \E b : Enriches(b)
  BY <1>1, <1>2, BorrowEnriches
<1>3. ASSUME NEW id \in LoanIds, NEW rate \in Rates, NEW ask \in Trades,
             MarginTrade(id, ask, rate)
      PROVE  \E b : Enriches(b)
  BY <1>1, <1>3, TradeEnriches
<1> QED BY <1>2, <1>3 DEF OpenCall

LEMMA CloseCallEnriches == ASSUME LoanInv, CloseCall PROVE \E b : Enriches(b)
<1>1. Adjustments \subseteq Nat \ {0} /\ Buffers \subseteq Nat
  BY PoolAssumption
<1>2. ASSUME NEW id \in LoanIds, NEW n \in Adjustments, CloseWithDeposit(id, n)
      PROVE  \E b : Enriches(b)
  BY <1>1, <1>2, CloseWithDepositEnriches
<1>3. ASSUME NEW id \in LoanIds, NEW n \in Adjustments, NEW c \in BOOLEAN, NEW e \in Buffers,
             CloseWithSwap(id, n, c, e)
      PROVE  \E b : Enriches(b)
  BY <1>1, <1>3, CloseWithSwapEnriches
<1>4. ASSUME NEW id \in LoanIds, NEW n \in Adjustments, Liquidate(id, n)
      PROVE  \E b : Enriches(b)
  BY <1>1, <1>4, LiquidateEnriches
<1> QED BY <1>2, <1>3, <1>4 DEF CloseCall

LEMMA MaintenanceCallEnriches ==
    ASSUME LoanInv, MaintenanceCall PROVE \E b : Enriches(b)
<1>1. /\ RolloverRates \subseteq Nat /\ Buffers \subseteq Nat /\ Adjustments \subseteq Nat
      /\ Extensions \subseteq Nat /\ Reductions \subseteq Nat
  BY PoolAssumption
<1>2. ASSUME NEW id \in LoanIds, NEW rate \in RolloverRates, NEW e \in Buffers,
             Rollover(id, rate, e)
      PROVE  \E b : Enriches(b)
  BY <1>1, <1>2, RolloverEnriches
<1>3. ASSUME NEW id \in LoanIds, NEW steps \in Reductions,
             ReduceLoanDuration(id, MulDiv(steps, books.loans[id].owedPerDay, DAY))
      PROVE  \E b : Enriches(b)
  <2> DEFINE n == MulDiv(steps, books.loans[id].owedPerDay, DAY)
  <2>1. n \in Nat
    <3>1. books.loans[id].owedPerDay \in Nat
      BY StateFacts, NumbersOf
    <3>2. DAY \in Nat \ {0}
      BY LoanAssumption
    <3> QED BY <1>1, <3>1, <3>2, MulDivNat
  <2>2. ReduceLoanDuration(id, n)
    BY <1>3
  <2> HIDE DEF n
  <2> QED BY <2>1, <2>2, ReduceEnriches
<1>4. ASSUME NEW id \in LoanIds, NEW n \in Adjustments, DepositCollateral(id, n)
      PROVE  \E b : Enriches(b)
  BY <1>1, <1>4, DepositCollateralEnriches
<1>5. ASSUME NEW id \in LoanIds, NEW n \in Adjustments, WithdrawCollateral(id, n)
      PROVE  \E b : Enriches(b)
  BY <1>1, <1>5, WithdrawCollateralEnriches
<1>6. ASSUME NEW id \in LoanIds, NEW n \in Extensions, NEW c \in BOOLEAN, NEW e \in Buffers,
             ExtendLoanDuration(id, n, c, e)
      PROVE  \E b : Enriches(b)
  BY <1>1, <1>6, ExtendEnriches
<1> QED BY <1>2, <1>3, <1>4, <1>5, <1>6 DEF MaintenanceCall

\* No step lowers the price of the token.
LEMMA PriceStep ==
    LoanInv /\ LoanInv' /\ SettledInPast /\ [Next]_vars => [PriceKept]_vars
<1> SUFFICES ASSUME LoanInv, LoanInv', SettledInPast, Next PROVE PriceKept
  OBVIOUS
<1>1. CASE Tick
  BY <1>1, TickPrice DEF SettledInPast
<1>2. CASE PoolCall
  BY <1>2, PoolCallPrice
<1>3. CASE OpenCall \/ CloseCall \/ MaintenanceCall \/ \E token \in Tokens : WithdrawFees(token)
  <2>1. \E b : Enriches(b)
    BY <1>3, OpenCallEnriches, CloseCallEnriches, MaintenanceCallEnriches,
       WithdrawFeesEnriches
  <2>2. ASSUME NEW b, Enriches(b) PROVE PriceKept
    BY <2>2, EnrichingPrice
  <2> QED BY <2>1, <2>2
<1> QED BY <1>1, <1>2, <1>3 DEF Next

\* No call of a supplier, a borrower or a liquidator (mint, burn, borrow,
\* marginTrade, the closings, maintenance), and no block that passes, lowers
\* the iToken's tokenPrice: the interest suppliers are paid, what they are
\* owed and every rounding only move towards them.
THEOREM TokensKeepTheirWorth == Spec => TokenPriceNeverDrops
<1>1. Init => SettledInPast
  BY DEF Init, SettledInPast
<1>2. Spec => []SettledInPast
  BY <1>1, LoanBooksAreInvariant, SettledInPastKeeps, PTL DEF Spec
<1>3. Spec => [][PriceKept]_vars
  BY <1>2, LoanBooksAreInvariant, PriceStep, PTL DEF Spec
<1>4. [][PriceKept]_vars => TokenPriceNeverDrops
  BY DEF PriceKept, TokenPriceNeverDrops
<1> QED BY <1>3, <1>4

-----------------------------------------------------------------------------
(* The interest that is still to come. *)

\* A common factor.
LEMMA SumTimes ==
    ASSUME NEW S, IsFiniteSet(S), NEW f, \A x \in S : f[x] \in Int,
           NEW c \in Int, NEW h, \A x \in S : h[x] = c * f[x]
    PROVE  SumFunctionOnSet(h, S) = c * SumFunctionOnSet(f, S)
<1>0. \A x \in S : h[x] \in Int
  OBVIOUS
<1> DEFINE G == {s \in SUBSET S : SumFunctionOnSet(h, s) = c * SumFunctionOnSet(f, s)}
<1>1. {} \in G
  BY SumEmpty
<1>2. ASSUME NEW t \in SUBSET S, NEW x \in S \ t, t \in G
      PROVE  t \cup {x} \in G
  <2>1. ASSUME NEW k, \A y \in S : k[y] \in Int
        PROVE  /\ SumFunctionOnSet(k, t) \in Int
               /\ SumFunctionOnSet(k, t \cup {x}) = k[x] + SumFunctionOnSet(k, t)
    BY ONLY IsFiniteSet(S), <2>1, t \in SUBSET S, x \in S \ t, SumAddElement
  <2>2. /\ SumFunctionOnSet(f, t) \in Int
        /\ SumFunctionOnSet(f, t \cup {x}) = f[x] + SumFunctionOnSet(f, t)
    BY <2>1
  <2>3. SumFunctionOnSet(h, t \cup {x}) = h[x] + SumFunctionOnSet(h, t)
    BY <1>0, <2>1
  <2>4. f[x] \in Int /\ h[x] = c * f[x]
    OBVIOUS
  <2>5. SumFunctionOnSet(h, t) = c * SumFunctionOnSet(f, t)
    BY <1>2
  <2>6. \A p, q \in Int : c * p + c * q = c * (p + q)
    OBVIOUS
  <2>7. SumFunctionOnSet(h, t \cup {x}) = c * SumFunctionOnSet(f, t \cup {x})
    BY <2>2, <2>3, <2>4, <2>5, <2>6
  <2> QED BY <2>7
<1>3. S \in G
  <2> HIDE DEF G
  <2> QED BY <1>1, <1>2, GrowingSets
<1>4. QED BY <1>3

\* Of one loan, and of all, what there is to come after a time, in parts of a
\* token, DAY of which make one.
Promise(x, u)  == (x.endTimestamp - u) * x.owedPerDay
Promises(b, u) == [id \in LoanIds |-> Promise(b.loans[id], u)]
Promised(b, u) == SumFunctionOnSet(Promises(b, u), LoanIds)

LEMMA ProductFacts ==
    ASSUME NEW a \in Int, NEW b \in Int, NEW c \in Int
    PROVE  /\ a * b \in Int
           /\ a >= 0 /\ b >= 0 => a * b >= 0
           /\ (a + b) * c = a * c + b * c
           /\ (a - b) * c = a * c - b * c
           /\ c * (a - b) = c * a - c * b
           /\ c >= 0 /\ a <= b => a * c <= b * c
           /\ a = 0 \/ b = 0 => a * b = 0
<1>1. a * b \in Int
  OBVIOUS
<1>2. a >= 0 /\ b >= 0 => a * b >= 0
  OBVIOUS
<1>3. (a + b) * c = a * c + b * c
  OBVIOUS
<1>4. (a - b) * c = a * c - b * c
  OBVIOUS
<1>5. c * (a - b) = c * a - c * b
  OBVIOUS
<1>6. c >= 0 /\ a <= b => a * c <= b * c
  <2> SUFFICES ASSUME c >= 0, a <= b PROVE a * c <= b * c
    OBVIOUS
  <2>1. (b - a) * c >= 0
    <3> DEFINE e == b - a
    <3>1. e \in Int /\ e >= 0
      OBVIOUS
    <3> HIDE DEF e
    <3>2. e * c >= 0
      BY <3>1
    <3> QED BY <3>2 DEF e
  <2>2. (b - a) * c = b * c - a * c
    OBVIOUS
  <2> QED BY <2>1, <2>2
<1>7. a = 0 \/ b = 0 => a * b = 0
  OBVIOUS
<1> QED BY <1>1, <1>2, <1>3, <1>4, <1>5, <1>6, <1>7

LEMMA LoanNumbers ==
    ASSUME NEW x \in Loans, NEW u \in Int
    PROVE  /\ Promise(x, u) \in Int
           /\ x.endTimestamp \in Nat /\ x.owedPerDay \in Nat /\ x.updatedTimestamp \in Nat
           /\ u <= x.endTimestamp \/ x.owedPerDay = 0 => Promise(x, u) >= 0
           /\ x.owedPerDay = 0 => Promise(x, u) = 0
<1>1. x.endTimestamp \in Nat /\ x.owedPerDay \in Nat /\ x.updatedTimestamp \in Nat
  BY DEF Loans
<1>2. x.endTimestamp - u \in Int /\ x.owedPerDay \in Int
  BY <1>1
<1>3. /\ Promise(x, u) \in Int
      /\ x.endTimestamp - u >= 0 /\ x.owedPerDay >= 0 => Promise(x, u) >= 0
      /\ x.owedPerDay = 0 => Promise(x, u) = 0
  BY <1>2, ProductFacts DEF Promise
<1> QED BY <1>1, <1>3

LEMMA PromisesAre ==
    ASSUME NEW b, Good(b), NEW u \in Int
    PROVE  /\ \A id \in LoanIds : /\ Promises(b, u)[id] = Promise(b.loans[id], u)
                                  /\ Promises(b, u)[id] \in Int
           /\ Promised(b, u) \in Int
<1>1. ASSUME NEW id \in LoanIds
      PROVE  Promises(b, u)[id] = Promise(b.loans[id], u) /\ Promises(b, u)[id] \in Int
  <2>1. b.loans[id] \in Loans
    BY DEF Good, Books
  <2> QED BY <2>1, LoanNumbers DEF Promises
<1>2. Promised(b, u) \in Int
  BY <1>1, SumType, LoanAssumption DEF Promised
<1> QED BY <1>1, <1>2

\* Time goes by.
LEMMA PromisedLater ==
    ASSUME NEW b, Good(b), NEW u \in Int, NEW v \in Int,
           b.lender.owedPerDay = SumFunctionOnSet(OwedPerDays(b), LoanIds)
    PROVE  Promised(b, v) = Promised(b, u) - (v - u) * b.lender.owedPerDay
<1> DEFINE o == OwedPerDays(b)
           g == [id \in LoanIds |-> (v - u) * o[id]]
           f == Promises(b, v)
           h == Promises(b, u)
<1>1. \A id \in LoanIds : o[id] = b.loans[id].owedPerDay /\ o[id] \in Nat
  BY LoansNat
<1>2. v - u \in Int
  OBVIOUS
<1>3. \A id \in LoanIds : g[id] = (v - u) * o[id] /\ g[id] \in Int
  BY <1>1, <1>2, ProductFacts
<1>4. /\ \A id \in LoanIds : f[id] = Promise(b.loans[id], v) /\ f[id] \in Int
      /\ \A id \in LoanIds : h[id] = Promise(b.loans[id], u) /\ h[id] \in Int
  BY PromisesAre
<1>5. ASSUME NEW id \in LoanIds PROVE h[id] = f[id] + g[id]
  <2> DEFINE e == b.loans[id].endTimestamp
             p == b.loans[id].owedPerDay
  <2>1. e \in Int /\ p \in Int
    BY DEF Good, Books, Loans
  <2>2. f[id] = (e - v) * p /\ h[id] = (e - u) * p /\ g[id] = (v - u) * p
    BY <1>1, <1>3, <1>4 DEF Promise
  <2> HIDE DEF e, p, f, g, h
  <2>3. (e - v) * p = e * p - v * p /\ (e - u) * p = e * p - u * p /\ (v - u) * p = v * p - u * p
    BY <2>1, ProductFacts
  <2>4. e * p \in Int /\ v * p \in Int /\ u * p \in Int
    BY <2>1
  <2> QED BY <2>2, <2>3, <2>4
<1> HIDE DEF f, g, h, o
<1>6. SumFunctionOnSet(h, LoanIds) = SumFunctionOnSet(f, LoanIds) + SumFunctionOnSet(g, LoanIds)
  BY <1>3, <1>4, <1>5, SumPlus, LoanAssumption
<1>7. SumFunctionOnSet(g, LoanIds) = (v - u) * SumFunctionOnSet(o, LoanIds)
  BY <1>1, <1>2, <1>3, SumTimes, LoanAssumption
<1>8. SumFunctionOnSet(f, LoanIds) \in Int /\ (v - u) * SumFunctionOnSet(o, LoanIds) \in Int
  <2>1. SumFunctionOnSet(o, LoanIds) \in Int
    BY <1>1, SumType, LoanAssumption
  <2> QED BY <1>2, <1>4, <2>1, SumType, LoanAssumption, ProductFacts
<1> QED BY <1>6, <1>7, <1>8 DEF Promised, f, h, o

\* One loan changes.
LEMMA PromisedChanges ==
    ASSUME NEW a, Good(a), NEW b, Good(b), NEW id \in LoanIds, OnlyLoan(b, a, id),
           NEW u \in Int
    PROVE  Promised(b, u) = Promised(a, u) - Promise(a.loans[id], u) + Promise(b.loans[id], u)
<1> DEFINE f == Promises(a, u)
           g == Promises(b, u)
<1>1. /\ \A j \in LoanIds : f[j] = Promise(a.loans[j], u) /\ f[j] \in Int
      /\ \A j \in LoanIds : g[j] = Promise(b.loans[j], u) /\ g[j] \in Int
  BY PromisesAre
<1>2. \A j \in LoanIds \ {id} : g[j] = f[j]
  BY <1>1 DEF OnlyLoan
<1> HIDE DEF f, g
<1>3. SumFunctionOnSet(g, LoanIds) = SumFunctionOnSet(f, LoanIds) - f[id] + g[id]
  BY <1>1, <1>2, SumChange, LoanAssumption
<1> QED BY <1>1, <1>3 DEF Promised, f, g

\* A loan that is open has not ended, and one that is not costs nothing.
Runs(x) == IF x.active THEN now <= x.endTimestamp ELSE x.owedPerDay = 0

\* The interest that is to come is covered, but for s parts of a token: by what
\* was deposited for it, and by the tokens there are, less n that are for
\* something else; and no more was deposited than there is of them.
Lasting(b, s, n) ==
    /\ Good(b)
    /\ b.lender.updatedTimestamp <= now
    /\ b.lender.owedPerDay = SumFunctionOnSet(OwedPerDays(b), LoanIds)
    /\ \A id \in LoanIds : Runs(b.loans[id]) /\ b.loans[id].updatedTimestamp <= now
    /\ Promised(b, b.lender.updatedTimestamp) <= b.lender.owedTotal * DAY + s
    /\ ~b.twice =>
         /\ Promised(b, b.lender.updatedTimestamp) <= (Free(b, "loan") - n) * DAY + s
         /\ (b.lender.owedTotal - (Free(b, "loan") - n)) * DAY <= s

LEMMA LastingNumbers ==
    ASSUME NEW b, Good(b)
    PROVE  /\ Free(b, "loan") \in Int
           /\ b.lender.owedTotal \in Nat /\ b.lender.owedPerDay \in Nat
           /\ b.lender.updatedTimestamp \in Nat
           /\ b.twice \in BOOLEAN
           /\ \A id \in LoanIds : b.loans[id] \in Loans
           /\ DAY \in Nat \ {0}
BY FreeIsInt, LoanAssumption DEF Good, Books, Lenders, Tokens

\* What runs promises something, or nothing.
LEMMA PromisedNat ==
    ASSUME NEW b, Good(b), now \in Nat, NEW u \in Int, u <= now,
           \A id \in LoanIds : Runs(b.loans[id])
    PROVE  /\ Promised(b, u) \in Nat
           /\ \A id \in LoanIds : /\ Promise(b.loans[id], u) \in Nat
                                  /\ Promise(b.loans[id], u) <= Promised(b, u)
<1>1. ASSUME NEW id \in LoanIds PROVE Promise(b.loans[id], u) \in Nat
  <2> DEFINE x == b.loans[id]
  <2>1. x \in Loans /\ Runs(x)
    BY LastingNumbers
  <2> HIDE DEF x
  <2>2. x.endTimestamp \in Nat
    BY <2>1, LoanNumbers
  <2>3. u <= x.endTimestamp \/ x.owedPerDay = 0
    BY <2>1, <2>2 DEF Runs
  <2>4. Promise(x, u) \in Int /\ Promise(x, u) >= 0
    BY <2>1, <2>3, LoanNumbers
  <2> QED BY <2>4 DEF x
<1>2. \A id \in LoanIds : Promises(b, u)[id] = Promise(b.loans[id], u)
  BY PromisesAre
<1>3. /\ SumFunctionOnSet(Promises(b, u), LoanIds) \in Nat
      /\ \A id \in LoanIds : Promises(b, u)[id] <= SumFunctionOnSet(Promises(b, u), LoanIds)
  BY <1>1, <1>2, SumOfNats, LoanAssumption
<1> QED BY <1>1, <1>2, <1>3 DEF Promised

\* One loan changes, and of what was deposited, `owed` is paid and d more
\* deposited: r parts too few to last as long as it did.
Changes(b, a, id, owed, d, r) ==
    LET x == a.loans[id]
        y == b.loans[id]
        u == a.lender.updatedTimestamp
        v == b.lender.updatedTimestamp
    IN  /\ Good(b)
        /\ OnlyLoan(b, a, id)
        /\ v <= now
        /\ owed \in 0..a.lender.owedTotal
        /\ owed * DAY <= (v - u) * a.lender.owedPerDay
        /\ b.lender.owedTotal = Max2(0, a.lender.owedTotal - owed + d)
        /\ y.owedPerDay - b.lender.owedPerDay = x.owedPerDay - a.lender.owedPerDay
        /\ Runs(y)
        /\ y.updatedTimestamp <= now
        /\ Promise(y, v) <= Promise(x, v) + d * DAY + r
        /\ a.twice => b.twice

\* What is there lasts as long as it did when what is promised changes as it does.
LEMMA Covered ==
    ASSUME NEW p \in Int, NEW q \in Int, NEW f \in Int, NEW g \in Int, NEW t \in Int,
           NEW owed \in Int, NEW d \in Int, NEW s \in Int, NEW r \in Int,
           owed * DAY <= t, p <= f * DAY + s, q <= p - t + d * DAY + r, g >= f - owed + d
    PROVE  q <= g * DAY + (s + r)
<1>1. DAY \in Nat
  BY LoanAssumption
<1>2. /\ (f - owed + d) * DAY = f * DAY - owed * DAY + d * DAY
      /\ (f - owed + d) * DAY <= g * DAY
  <2>1. f - owed + d \in Int
    OBVIOUS
  <2>2. (f - owed + d) * DAY <= g * DAY
    BY <1>1, <2>1, ProductFacts
  <2>3. (f - owed + d) * DAY = f * DAY - owed * DAY + d * DAY
    BY <1>1
  <2> QED BY <2>2, <2>3
<1>3. f * DAY \in Int /\ owed * DAY \in Int /\ d * DAY \in Int /\ g * DAY \in Int
  BY <1>1
<1> DEFINE fD == f * DAY
           oD == owed * DAY
           dD == d * DAY
           gD == g * DAY
           z == (f - owed + d) * DAY
<1>4. z = fD - oD + dD /\ z <= gD /\ oD <= t /\ p <= fD + s /\ q <= p - t + dD + r
  BY <1>2
<1>5. fD \in Int /\ oD \in Int /\ dD \in Int /\ gD \in Int
  BY <1>3
<1> HIDE DEF fD, oD, dD, gD, z
<1>6. q <= gD + (s + r)
  BY <1>4, <1>5
<1> QED BY <1>6 DEF gD

LEMMA LastingChanges ==
    ASSUME NEW a, NEW s \in Int, NEW n \in Int, Lasting(a, s, n), now \in Nat,
           NEW b, NEW id \in LoanIds, NEW owed, NEW d \in Int, NEW r \in Nat,
           Changes(b, a, id, owed, d, r),
           NEW k \in Int, ~b.twice => Free(b, "loan") - k = Free(a, "loan") - n - owed + d
    PROVE  Lasting(b, s + r, k)
<1> DEFINE u == a.lender.updatedTimestamp
           v == b.lender.updatedTimestamp
           x == a.loans[id]
           y == b.loans[id]
           p == Promised(a, u)
           q == Promised(b, v)
           t == (v - u) * a.lender.owedPerDay
           o == a.lender.owedTotal
           w == b.lender.owedTotal
<1>1. Good(a) /\ Good(b)
  BY DEF Lasting, Changes
<1>2. /\ u \in Nat /\ v \in Nat /\ x \in Loans /\ y \in Loans /\ o \in Nat /\ w \in Nat
      /\ owed \in Nat /\ Free(a, "loan") \in Int /\ Free(b, "loan") \in Int
      /\ a.lender.owedPerDay \in Nat /\ b.lender.owedPerDay \in Nat
      /\ x.owedPerDay \in Nat /\ y.owedPerDay \in Nat
      /\ DAY \in Nat \ {0}
  <2>1. owed \in Nat
    BY DEF Changes
  <2> QED BY <1>1, <2>1, LastingNumbers, LoanNumbers
<1>3. b.lender.owedPerDay = SumFunctionOnSet(OwedPerDays(b), LoanIds)
  <2> DEFINE f == OwedPerDays(a)
             g == OwedPerDays(b)
  <2>1. \A j \in LoanIds : f[j] = a.loans[j].owedPerDay /\ f[j] \in Nat
    BY <1>1, LoansNat
  <2>2. \A j \in LoanIds : g[j] = b.loans[j].owedPerDay /\ g[j] \in Nat
    BY <1>1, LoansNat
  <2>3. \A j \in LoanIds \ {id} : g[j] = f[j]
    BY <2>1, <2>2 DEF Changes, OnlyLoan
  <2> HIDE DEF f, g
  <2>4. SumFunctionOnSet(g, LoanIds) = SumFunctionOnSet(f, LoanIds) - f[id] + g[id]
    BY <2>1, <2>2, <2>3, SumChange, LoanAssumption
  <2>5. y.owedPerDay - b.lender.owedPerDay = x.owedPerDay - a.lender.owedPerDay
    BY DEF Changes
  <2>6. a.lender.owedPerDay = SumFunctionOnSet(f, LoanIds)
    BY DEF Lasting, f
  <2>7. f[id] = x.owedPerDay /\ g[id] = y.owedPerDay
    BY <2>1, <2>2
  <2>8. b.lender.owedPerDay = SumFunctionOnSet(g, LoanIds)
    BY <1>2, <2>4, <2>5, <2>6, <2>7
  <2> QED BY <2>8 DEF g
<1>4. \A j \in LoanIds : Runs(b.loans[j]) /\ b.loans[j].updatedTimestamp <= now
  BY DEF Lasting, Changes, OnlyLoan
<1>5. p \in Int /\ q \in Nat /\ t \in Int
  <2>1. p \in Int
    <3>1. u \in Int
      BY <1>2
    <3> HIDE DEF u
    <3> QED BY <1>1, <3>1, PromisesAre
  <2>2. v <= now
    BY DEF Changes
  <2>3. q \in Nat
    BY <1>1, <1>2, <1>4, <2>2, PromisedNat
  <2> QED BY <1>2, <2>1, <2>3
<1>6. q <= p - t + d * DAY + r
  <2>1. Promised(b, v) = Promised(a, v) - Promise(x, v) + Promise(y, v)
    BY <1>1, <1>2, PromisedChanges DEF Changes
  <2>2. Promised(a, v) = p - t
    <3>1. u \in Int /\ v \in Int
      BY <1>2
    <3>2. a.lender.owedPerDay = SumFunctionOnSet(OwedPerDays(a), LoanIds)
      BY DEF Lasting
    <3> HIDE DEF u, v
    <3> QED BY <1>1, <3>1, <3>2, PromisedLater
  <2>3. Promise(y, v) <= Promise(x, v) + d * DAY + r
    BY DEF Changes
  <2>4. Promise(x, v) \in Int /\ Promise(y, v) \in Int /\ d * DAY \in Int
    BY <1>2, LoanNumbers
  <2> HIDE DEF x, y, u, v, p, t
  <2> DEFINE dD == d * DAY
  <2>5. dD \in Int /\ Promise(y, v) <= Promise(x, v) + dD + r
    BY <2>3, <2>4
  <2> HIDE DEF dD
  <2>6. q <= p - t + dD + r
    BY <1>5, <2>1, <2>2, <2>4, <2>5
  <2> QED BY <2>6 DEF dD
<1>7. owed * DAY <= t
  BY DEF Changes
<1>8. w >= o - owed + d /\ (w = o - owed + d \/ w = 0)
  BY <1>2 DEF Changes, Max2
<1>9. p <= o * DAY + s
  BY DEF Lasting
<1>10. q <= w * DAY + (s + r)
  <2> HIDE DEF p, q, t, o, w
  <2> QED BY <1>2, <1>5, <1>6, <1>7, <1>8, <1>9, Covered
<1>11. ASSUME ~b.twice
       PROVE  /\ q <= (Free(b, "loan") - k) * DAY + (s + r)
              /\ (w - (Free(b, "loan") - k)) * DAY <= s + r
  <2> DEFINE f == Free(a, "loan") - n
             g == Free(b, "loan") - k
  <2>1. /\ p <= f * DAY + s
        /\ (o - f) * DAY <= s
    BY <1>11 DEF Lasting, Changes
  <2>2. g = f - owed + d
    BY <1>11
  <2>3. f \in Int /\ g \in Int
    BY <1>2
  <2> HIDE DEF p, q, t, o, w, f, g
  <2>4. q <= g * DAY + (s + r)
    BY <1>2, <1>5, <1>6, <1>7, <2>1, <2>2, <2>3, Covered
  <2>5. CASE w = o - owed + d
    <3>1. w - g = o - f
      BY <1>2, <2>2, <2>3, <2>5
    <3>2. (w - g) * DAY <= s
      BY <2>1, <3>1
    <3>3. (w - g) * DAY \in Int
      BY <1>2, <2>3
    <3> QED BY <2>4, <3>2, <3>3 DEF g
  <2>6. CASE w = 0
    <3>1. g * DAY \in Int /\ (0 - g) * DAY = 0 - g * DAY
      BY <1>2, <2>3
    <3>2. (0 - g) * DAY <= s + r
      BY <1>5, <2>4, <3>1
    <3> QED BY <2>4, <2>6, <3>2 DEF g
  <2> QED BY <1>8, <2>5, <2>6
<1>12. v <= now
  BY DEF Changes
<1> QED BY <1>1, <1>3, <1>4, <1>10, <1>11, <1>12 DEF Lasting

\* Neither loans nor totals change.
LEMMA LastingSame ==
    ASSUME NEW a, NEW s, NEW n \in Int, Lasting(a, s, n),
           NEW b, Good(b), b.loans = a.loans, b.lender = a.lender, a.twice => b.twice,
           NEW k \in Int, ~b.twice => Free(b, "loan") - k = Free(a, "loan") - n
    PROVE  Lasting(b, s, k)
<1>1. /\ b.loans = a.loans /\ b.lender = a.lender /\ ~b.twice => ~a.twice
  OBVIOUS
<1>2. OwedPerDays(b) = OwedPerDays(a) /\ \A u : Promised(b, u) = Promised(a, u)
  BY <1>1 DEF OwedPerDays, Promised, Promises
<1>3. ASSUME ~b.twice
      PROVE  /\ Promised(b, b.lender.updatedTimestamp) <= (Free(b, "loan") - k) * DAY + s
             /\ (b.lender.owedTotal - (Free(b, "loan") - k)) * DAY <= s
  <2>1. Free(b, "loan") - k = Free(a, "loan") - n
    BY <1>3
  <2>2. /\ Promised(a, a.lender.updatedTimestamp) <= (Free(a, "loan") - n) * DAY + s
        /\ (a.lender.owedTotal - (Free(a, "loan") - n)) * DAY <= s
    BY <1>1, <1>3 DEF Lasting
  <2> QED BY <1>1, <1>2, <2>1, <2>2
<1>4. /\ b.lender.updatedTimestamp <= now
      /\ b.lender.owedPerDay = SumFunctionOnSet(OwedPerDays(b), LoanIds)
      /\ \A id \in LoanIds : Runs(b.loans[id]) /\ b.loans[id].updatedTimestamp <= now
      /\ Promised(b, b.lender.updatedTimestamp) <= b.lender.owedTotal * DAY + s
  BY <1>1, <1>2 DEF Lasting
<1> QED BY <1>3, <1>4 DEF Lasting

\* Only tokens move.
LEMMA LastingMoves ==
    ASSUME NEW a, NEW s, NEW n \in Int, Lasting(a, s, n),
           NEW b, Good(b), TokensOnly(b, a),
           NEW k \in Int, ~b.twice => Free(b, "loan") - k = Free(a, "loan") - n
    PROVE  Lasting(b, s, k)
BY LastingSame DEF TokensOnly

\* A quotient times its divisor is no more than what is divided, by what is
\* rounded off.
LEMMA QuotientOf ==
    ASSUME NEW a \in Nat, NEW b \in Nat, NEW c \in Nat \ {0}
    PROVE  /\ MulDiv(a, b, c) \in Nat
           /\ RoundedOff(a * b, c) \in Nat
           /\ MulDiv(a, b, c) * c <= a * b
           /\ MulDiv(a, b, c) * c + RoundedOff(a * b, c) = a * b
<1>1. c \in Nat /\ c > 0
  OBVIOUS
<1> DEFINE x == a * b
<1>2. x \in Nat
  BY ProductFacts
<1> HIDE DEF x
<1>3. x = c * (x \div c) + (x % c) /\ x % c \in 0..(c - 1) /\ x \div c \in Int
  BY <1>1, <1>2
<1>4. MulDiv(a, b, c) = x \div c /\ RoundedOff(x, c) = x % c
  BY DEF MulDiv, RoundedOff, x
<1>5. MulDiv(a, b, c) \in Nat
  BY <1>1, MulDivNat
<1>6. (x \div c) * c = c * (x \div c) /\ c * (x \div c) \in Int
  BY <1>1, <1>3
<1>7. (x \div c) * c + (x % c) = x /\ (x \div c) * c <= x
  BY <1>2, <1>3, <1>6
<1> QED BY <1>3, <1>4, <1>5, <1>7 DEF x

LEMMA QuotientFits ==
    ASSUME NEW a \in Nat, NEW b \in Nat
    PROVE  /\ MulDiv(a, b, DAY) \in Nat
           /\ MulDiv(a, b, DAY) * DAY <= a * b
           /\ MulDiv(a, b, DAY) * DAY + RoundedOff(a * b, DAY) = a * b
           /\ RoundedOff(a * b, DAY) \in Nat
BY QuotientOf, LoanAssumption

\* The interest that is owed by now, and what is left when it is paid.
LEMMA PaidNumbers ==
    ASSUME NEW a, Good(a), now \in Nat, a.lender.updatedTimestamp <= now
    PROVE  /\ InterestUnpaid(a, now) \in 0..a.lender.owedTotal
           /\ InterestUnpaid(a, now) * DAY
                  <= (now - a.lender.updatedTimestamp) * a.lender.owedPerDay
           /\ PayInterest(a, now).lender.owedTotal = a.lender.owedTotal - InterestUnpaid(a, now)
<1> DEFINE owed == InterestUnpaid(a, now)
           t == now - a.lender.updatedTimestamp
           q == MulDiv(t, a.lender.owedPerDay, DAY)
           l == [a.lender EXCEPT !.owedTotal = @ - owed, !.updatedTimestamp = now]
           c == [a EXCEPT !.lender = l]
<1>1. /\ a.lender.owedTotal \in Nat /\ a.lender.owedPerDay \in Nat /\ DAY \in Nat
      /\ t \in Nat
  BY LastingNumbers
<1>2. q \in Nat /\ q * DAY <= t * a.lender.owedPerDay
  <2> HIDE DEF t
  <2> QED BY <1>1, QuotientFits
<1>3. owed \in 0..a.lender.owedTotal /\ owed <= q
  <2> HIDE DEF q
  <2>1. owed = Min2(q, a.lender.owedTotal)
    BY DEF InterestUnpaid, q
  <2> QED BY <1>1, <1>2, <2>1 DEF Min2
<1>4. owed * DAY <= t * a.lender.owedPerDay
  <2> HIDE DEF owed, q, t
  <2>1. owed * DAY <= q * DAY
    BY <1>1, <1>2, <1>3, ProductFacts
  <2>2. owed * DAY \in Int /\ q * DAY \in Int /\ t * a.lender.owedPerDay \in Int
    BY <1>1, <1>2, <1>3
  <2> QED BY <1>2, <2>1, <2>2
<1>5. PayInterest(a, now).lender.owedTotal = a.lender.owedTotal - owed
  <2>1. PayInterest(a, now) = PayInterestTransfer(c, owed)
    BY DEF PayInterest
  <2>2. l.owedTotal = a.lender.owedTotal - owed
    <3>1. a.lender \in Lenders
      BY DEF Good, Books
    <3> HIDE DEF owed
    <3> QED BY <3>1 DEF Lenders
  <2> HIDE DEF l, owed
  <2>3. c.lender = l /\ "ok" \in DOMAIN c
    BY DEF Good, Books
  <2> HIDE DEF c
  <2>4. PayInterestTransfer(c, owed).lender = c.lender
    <3> DEFINE fee == Percent(owed, lendingFeePercent)
               h   == HoldFee(c, "loan", fee)
               w   == VaultWithdraw(h, "loan", owed - fee)
    <3>1. h.lender = c.lender
      BY DEF HoldFee
    <3>2. w.lender = h.lender
      BY DEF VaultWithdraw, Require
    <3>3. PayLender(h, owed - fee).lender = w.lender
      BY DEF PayLender
    <3>4. PayInterestTransfer(c, owed) = PayLender(h, owed - fee)
      BY DEF PayInterestTransfer
    <3> QED BY <3>1, <3>2, <3>3, <3>4
  <2> QED BY <2>1, <2>2, <2>3, <2>4
<1> QED BY <1>3, <1>4, <1>5

\* Spare tokens, with what is deposited, are the free ones.
LEMMA FreeIs ==
    ASSUME NEW a, Good(a), NEW b, Good(b)
    PROVE  /\ Free(b, "loan") = Spare(b) + b.lender.owedTotal
           /\ Spare(b) \in Int /\ b.lender.owedTotal \in Nat
           /\ Spare(b) = Spare(a) =>
                Free(b, "loan") = Free(a, "loan") - a.lender.owedTotal + b.lender.owedTotal
BY FreeIsInt DEF Spare, Good, Books, Lenders, Tokens

\* Interest is paid.
LEMMA LastingPays ==
    ASSUME NEW a, NEW s \in Int, NEW n \in Int, Lasting(a, s, n), now \in Nat,
           PayInterest(a, now).ok
    PROVE  Lasting(PayInterest(a, now), s, n)
<1> DEFINE b == PayInterest(a, now)
           owed == InterestUnpaid(a, now)
           u == a.lender.updatedTimestamp
           t == (now - u) * a.lender.owedPerDay
           p == Promised(a, u)
           q == Promised(b, now)
           o == a.lender.owedTotal
           w == b.lender.owedTotal
<1>1. Good(a) /\ u <= now
  BY DEF Lasting
<1>2. InterestPaid(b, a, now)
  BY <1>1, PayInterestEffect
<1>3. Good(b) /\ b.loans = a.loans /\ b.lender.owedPerDay = a.lender.owedPerDay
      /\ b.lender.updatedTimestamp = now /\ b.twice = a.twice /\ Spare(b) = Spare(a)
  BY <1>2 DEF InterestPaid
<1>4. owed \in 0..o /\ owed * DAY <= t /\ w = o - owed
  BY <1>1, PaidNumbers
<1> HIDE DEF b, owed
<1>5. /\ u \in Nat /\ o \in Nat /\ w \in Nat /\ Free(a, "loan") \in Int /\ Free(b, "loan") \in Int
      /\ a.lender.owedPerDay \in Nat /\ owed \in Int /\ DAY \in Nat
  BY <1>1, <1>3, <1>4, LastingNumbers
<1>6. Free(b, "loan") = Free(a, "loan") - owed
  <2>1. Free(b, "loan") = Free(a, "loan") - o + w
    BY <1>1, <1>3, FreeIs
  <2> QED BY <1>4, <1>5, <2>1
<1>7. OwedPerDays(b) = OwedPerDays(a) /\ \A v : Promised(b, v) = Promised(a, v)
  BY <1>3 DEF OwedPerDays, Promised, Promises
<1>8. q = p - t /\ p \in Int /\ q \in Int /\ t \in Int
  <2>1. u \in Int /\ now \in Int /\ a.lender.owedPerDay = SumFunctionOnSet(OwedPerDays(a), LoanIds)
    BY <1>5 DEF Lasting
  <2> HIDE DEF u
  <2>2. Promised(a, now) = Promised(a, u) - (now - u) * a.lender.owedPerDay
    BY <1>1, <2>1, PromisedLater
  <2>3. Promised(a, u) \in Int /\ Promised(a, now) \in Int
    BY <1>1, <2>1, PromisesAre
  <2>4. (now - u) * a.lender.owedPerDay \in Int
    BY <1>5, <2>1
  <2> QED BY <1>7, <2>2, <2>3, <2>4
<1>9. p <= o * DAY + s
  BY DEF Lasting
<1> HIDE DEF u, p, q, t, o, w
<1>10. \A f, g \in Int : p <= f * DAY + s /\ g = f - owed => q <= g * DAY + s
  <2> SUFFICES ASSUME NEW f \in Int, NEW g \in Int, p <= f * DAY + s, g = f - owed
               PROVE  q <= g * DAY + s
    OBVIOUS
  <2>1. q <= p - t + 0 * DAY + 0 /\ g >= f - owed + 0
    BY <1>5, <1>8
  <2>2. q <= g * DAY + (s + 0)
    BY <1>4, <1>5, <1>8, <2>1, Covered
  <2> QED BY <2>2
<1>11. q <= w * DAY + s
  BY <1>4, <1>5, <1>9, <1>10
<1>12. ASSUME ~b.twice
       PROVE  /\ q <= (Free(b, "loan") - n) * DAY + s
              /\ (w - (Free(b, "loan") - n)) * DAY <= s
  <2> DEFINE f == Free(a, "loan") - n
             g == Free(b, "loan") - n
  <2>1. p <= f * DAY + s /\ (o - f) * DAY <= s
    BY <1>3, <1>12 DEF Lasting, p, u, o
  <2>2. f \in Int /\ g \in Int /\ g = f - owed
    BY <1>5, <1>6
  <2> HIDE DEF f, g
  <2>3. w - g = o - f
    BY <1>4, <1>5, <2>2
  <2>4. q <= g * DAY + s
    BY <1>10, <2>1, <2>2
  <2>5. (w - g) * DAY <= s
    BY <2>1, <2>3
  <2> QED BY <2>4, <2>5 DEF g
<1>13. \A id \in LoanIds : Runs(b.loans[id]) /\ b.loans[id].updatedTimestamp <= now
  BY <1>3 DEF Lasting
<1>14. b.lender.owedPerDay = SumFunctionOnSet(OwedPerDays(b), LoanIds)
  BY <1>3, <1>7 DEF Lasting
<1>15. Lasting(b, s, n)
  BY <1>3, <1>11, <1>12, <1>13, <1>14 DEF Lasting, q, w
<1> QED BY <1>15 DEF b

\* The first step of a call that changes the terms of a loan.
LEMMA LastingPaidUp ==
    ASSUME NEW a, NEW s \in Int, NEW n \in Int, Lasting(a, s, n), now \in Nat,
           NEW id \in LoanIds, NEW b, PaidUp(b, a, id)
    PROVE  Lasting(b, s, n)
<1> DEFINE x == a.loans[id]
           y == b.loans[id]
           owed == InterestUnpaid(a, now)
<1>1. Good(a) /\ Good(b) /\ a.lender.updatedTimestamp <= now
  BY DEF Lasting, PaidUp
<1>2. /\ owed \in 0..a.lender.owedTotal
      /\ owed * DAY <= (now - a.lender.updatedTimestamp) * a.lender.owedPerDay
      /\ b.lender.owedTotal = a.lender.owedTotal - owed
  BY <1>1, PaidNumbers DEF PaidUp
<1> HIDE DEF owed
<1>3. /\ a.lender.owedTotal \in Nat /\ b.lender.owedTotal \in Nat /\ owed \in Nat
      /\ x \in Loans /\ y \in Loans /\ x.owedPerDay \in Nat
      /\ a.lender.owedPerDay \in Nat
      /\ Free(a, "loan") \in Int /\ Free(b, "loan") \in Int /\ DAY \in Nat
  BY <1>1, <1>2, LastingNumbers, LoanNumbers
<1>4. b.lender.owedTotal = Max2(0, a.lender.owedTotal - owed + 0)
  BY <1>2, <1>3 DEF Max2
<1>5. Runs(y) /\ y.endTimestamp = x.endTimestamp /\ y.owedPerDay = x.owedPerDay
  <2>1. Runs(x)
    BY DEF Lasting
  <2> QED BY <2>1 DEF PaidUp, SameLoan, Runs
<1>6. Promise(y, now) <= Promise(x, now) + 0 * DAY + 0
  <2>1. Promise(y, now) = Promise(x, now)
    BY <1>5 DEF Promise
  <2>2. Promise(x, now) \in Int
    BY <1>3, LoanNumbers
  <2> QED BY <1>3, <2>1, <2>2
<1>7. y.owedPerDay - b.lender.owedPerDay = x.owedPerDay - a.lender.owedPerDay
  BY <1>5 DEF PaidUp
<1>8. y.updatedTimestamp <= now /\ b.lender.updatedTimestamp = now
  BY DEF PaidUp
<1>9. a.twice = b.twice /\ OnlyLoan(b, a, id) /\ Spare(b) = Spare(a)
  BY DEF PaidUp
<1>10. Changes(b, a, id, owed, 0, 0)
  BY <1>1, <1>2, <1>4, <1>5, <1>6, <1>7, <1>8, <1>9 DEF Changes
<1>11. Free(b, "loan") - n = Free(a, "loan") - n - owed + 0
  <2>1. Free(b, "loan") = Free(a, "loan") - a.lender.owedTotal + b.lender.owedTotal
    BY <1>1, <1>9, FreeIs
  <2> QED BY <1>2, <1>3, <2>1
<1>12. Lasting(b, s + 0, n)
  BY <1>10, <1>11, LastingChanges
<1> QED BY <1>12

\* A loan changes, and no interest is paid.
LEMMA LastingLoan ==
    ASSUME NEW a, NEW s \in Int, NEW n \in Int, Lasting(a, s, n), now \in Nat,
           NEW id \in LoanIds, NEW b, Good(b), OnlyLoan(b, a, id),
           b.lender.updatedTimestamp = a.lender.updatedTimestamp,
           b.twice = a.twice, b.held = a.held, b.fees = a.fees,
           NEW d \in Int, NEW r \in Nat, b.lender.owedTotal = a.lender.owedTotal + d,
           b.loans[id].owedPerDay - b.lender.owedPerDay
               = a.loans[id].owedPerDay - a.lender.owedPerDay,
           Runs(b.loans[id]), b.loans[id].updatedTimestamp <= now,
           Promise(b.loans[id], b.lender.updatedTimestamp)
               <= Promise(a.loans[id], b.lender.updatedTimestamp) + d * DAY + r
    PROVE  Lasting(b, s + r, n - d)
<1> DEFINE u == a.lender.updatedTimestamp
           o == a.lender.owedTotal
           w == b.lender.owedTotal
<1>1. Good(a) /\ u <= now
  BY DEF Lasting
<1>2. /\ o \in Nat /\ w \in Nat /\ u \in Nat /\ DAY \in Nat
      /\ a.lender.owedPerDay \in Nat /\ Free(a, "loan") \in Int
  BY <1>1, LastingNumbers
<1>3. 0 \in 0..o /\ 0 * DAY <= (b.lender.updatedTimestamp - u) * a.lender.owedPerDay
  BY <1>2
<1>4. w = Max2(0, o - 0 + d)
  BY <1>2 DEF Max2
<1>5. Changes(b, a, id, 0, d, r)
  BY <1>1, <1>3, <1>4 DEF Changes
<1>6. Free(b, "loan") - (n - d) = Free(a, "loan") - n - 0 + d
  <2>1. Free(b, "loan") = Free(a, "loan")
    BY DEF Free
  <2> QED BY <1>2, <2>1
<1>7. n - d \in Int /\ 0 \in Int
  OBVIOUS
<1>8. ~b.twice => Free(b, "loan") - (n - d) = Free(a, "loan") - n - 0 + d
  BY <1>6
<1>9. Lasting(b, s + r, n - d)
  BY <1>5, <1>7, <1>8, LastingChanges
<1> QED BY <1>9

\* Another collateral.
LEMMA LastingPledged ==
    ASSUME NEW a, NEW s \in Int, NEW n \in Int, Lasting(a, s, n), now \in Nat,
           NEW id \in LoanIds, NEW b, NEW v, Pledged(b, a, id, v)
    PROVE  Lasting(b, s, n)
<1> DEFINE x == a.loans[id]
           y == b.loans[id]
           u == b.lender.updatedTimestamp
<1>1. /\ Good(a) /\ Good(b) /\ OnlyLoan(b, a, id) /\ b.lender = a.lender
      /\ b.held = a.held /\ b.fees = a.fees /\ b.twice = a.twice
  BY DEF Lasting, Pledged
<1>2. /\ y.active = x.active /\ y.owedPerDay = x.owedPerDay /\ y.endTimestamp = x.endTimestamp
      /\ y.updatedTimestamp = x.updatedTimestamp
  BY DEF Pledged
<1>3. Runs(y) /\ y.updatedTimestamp <= now
  BY <1>2 DEF Lasting, Runs
<1>4. Promise(y, u) <= Promise(x, u) + 0 * DAY + 0
  <2>1. Promise(y, u) = Promise(x, u)
    BY <1>2 DEF Promise
  <2>2. u \in Int /\ x \in Loans /\ DAY \in Nat
    BY <1>1, LastingNumbers
  <2>3. Promise(x, u) \in Int
    <3> HIDE DEF u, x
    <3> QED BY <2>2, LoanNumbers
  <2> QED BY <2>1, <2>2, <2>3
<1>5. b.lender.owedTotal = a.lender.owedTotal + 0
  BY <1>1, LastingNumbers
<1>6. y.owedPerDay - b.lender.owedPerDay = x.owedPerDay - a.lender.owedPerDay
  BY <1>1, <1>2
<1>7. Lasting(b, s + 0, n - 0)
  <2>1. b.lender.updatedTimestamp = a.lender.updatedTimestamp /\ 0 \in Int /\ 0 \in Nat
    BY <1>1
  <2>2. Promise(b.loans[id], b.lender.updatedTimestamp)
            <= Promise(a.loans[id], b.lender.updatedTimestamp) + 0 * DAY + 0
    BY <1>4
  <2>3. /\ Runs(b.loans[id]) /\ b.loans[id].updatedTimestamp <= now
        /\ b.loans[id].owedPerDay - b.lender.owedPerDay
               = a.loans[id].owedPerDay - a.lender.owedPerDay
    BY <1>3, <1>6
  <2> HIDE DEF x, y, u
  <2> QED BY <1>1, <1>5, <2>1, <2>2, <2>3, LastingLoan
<1> QED BY <1>7

\* New terms: what is deposited for them lasts, but for r parts.
LEMMA LastingRenewed ==
    ASSUME NEW a, NEW s \in Int, NEW n \in Int, Lasting(a, s, n), now \in Nat,
           NEW id \in LoanIds, a.lender.updatedTimestamp = now,
           NEW perDay \in Nat, NEW ends \in Nat, now <= ends, NEW d \in Int, NEW r \in Nat,
           (ends - now) * perDay <= Promise(a.loans[id], now) + d * DAY + r,
           a.loans[id].active,
           NEW b, Renewed(b, a, id, perDay, ends, d)
    PROVE  Lasting(b, s + r, n - d)
<1> DEFINE x == a.loans[id]
           y == b.loans[id]
<1>1. /\ Good(a) /\ Good(b) /\ OnlyLoan(b, a, id)
      /\ b.lender.updatedTimestamp = now
      /\ b.held = a.held /\ b.fees = a.fees /\ b.twice = a.twice
      /\ b.lender.owedTotal = a.lender.owedTotal + d
  BY DEF Lasting, Renewed
<1>2. /\ y.active = x.active /\ y.owedPerDay = perDay /\ y.endTimestamp = ends
      /\ y.updatedTimestamp = x.updatedTimestamp
      /\ b.lender.owedPerDay = a.lender.owedPerDay + perDay - x.owedPerDay
  BY DEF Renewed
<1>3. Runs(y) /\ y.updatedTimestamp <= now
  BY <1>2 DEF Lasting, Runs
<1>4. Promise(y, now) <= Promise(x, now) + d * DAY + r
  BY <1>2 DEF Promise
<1>5. y.owedPerDay - b.lender.owedPerDay = x.owedPerDay - a.lender.owedPerDay
  <2>1. x.owedPerDay \in Nat /\ a.lender.owedPerDay \in Nat
    BY <1>1, LastingNumbers, LoanNumbers
  <2> QED BY <1>2, <2>1
<1> QED BY <1>1, <1>3, <1>4, <1>5, LastingLoan

\* What is settled was paid before.
LEMMA SettlingPays ==
    ASSUME NEW a, Good(a), NEW id, NEW close, NEW m, SettleInterest(a, id, close, m).books.ok
    PROVE  PayInterest(a, m).ok
<1> DEFINE paid   == PayInterest(a, m)
           loan   == paid.loans[id]
           time   == Min2(m, loan.endTimestamp)
           perDay == OwedPerDayRefund(loan, close)
           refund == MulDiv(loan.endTimestamp - time, perDay, DAY)
           partly == close < loan.principal
           f      == SettleFeeReward(paid, id, time)
           left   == Require(f, /\ perDay <= paid.lender.owedPerDay
                                /\ close <= paid.lender.principalTotal
                                /\ partly => refund <= loan.depositTotal)
           dep    == DepositLeft(loan, refund, partly)
           b      == SettleInterest(a, id, close, m).books
<1>1. Follows(paid, a)
  BY PayInterestShape, GoodIsShaped
<1>2. Follows(f, paid)
  BY <1>1, FeeRewardShape DEF Follows
<1>3. Follows(left, f)
  BY <1>2, RequireShape DEF Follows
<1>4. b = [left EXCEPT
             !.loans[id].owedPerDay = @ - perDay,
             !.loans[id].depositTotal = dep,
             !.lender.owedPerDay = @ - perDay,
             !.lender.principalTotal = @ - close,
             !.lender.owedTotal = Max2(0, @ - refund)]
  BY DEF SettleInterest
<1>5. b.ok
  OBVIOUS
<1> HIDE DEF paid, loan, time, perDay, refund, partly, f, left, dep, b
<1>6. b.ok = left.ok
  BY <1>3, <1>4 DEF Follows, Shaped
<1>7. paid.ok
  BY <1>2, <1>3, <1>5, <1>6 DEF Follows
<1> QED BY <1>7 DEF paid

\* Part of a loan, or all of it, is settled, and given back to the loan.
LEMMA LastingSettles ==
    ASSUME NEW a, NEW s \in Int, NEW n \in Int, Lasting(a, s, n), now \in Nat,
           NEW id \in LoanIds, NEW close \in Nat, SettleInterest(a, id, close, now).books.ok
    PROVE  Lasting(SettleInterest(a, id, close, now).books, s,
                   n + SettleInterest(a, id, close, now).refund)
<1> DEFINE t == SettleInterest(a, id, close, now)
           b == t.books
           x == a.loans[id]
           y == b.loans[id]
           owed == InterestUnpaid(a, now)
           o == a.lender.owedTotal
           w == b.lender.owedTotal
           refund == t.refund
           k == x.owedPerDay - y.owedPerDay
<1>1. Good(a) /\ a.lender.updatedTimestamp <= now
  BY DEF Lasting
<1>2. Settles(b, a, id, close, now) /\ refund \in Nat /\ Refunds(t, a, id, now)
  BY <1>1, SettleEffect
<1>3. owed \in 0..o /\ owed * DAY <= (now - a.lender.updatedTimestamp) * a.lender.owedPerDay
      /\ PayInterest(a, now).lender.owedTotal = o - owed
  BY <1>1, PaidNumbers
<1>4. Good(PayInterest(a, now)) /\ Spare(PayInterest(a, now)) = Spare(a)
  <2>1. PayInterest(a, now).ok
    BY <1>1, SettlingPays
  <2>2. InterestPaid(PayInterest(a, now), a, now)
    BY <1>1, <2>1, PayInterestEffect
  <2> QED BY <2>2 DEF InterestPaid
<1>5. /\ Good(b) /\ OnlyLoan(b, a, id) /\ b.twice = a.twice /\ SameLoan(y, x)
      /\ y.owedPerDay - b.lender.owedPerDay = x.owedPerDay - a.lender.owedPerDay
      /\ b.lender.updatedTimestamp = now
  BY <1>2 DEF Settles
<1>6. /\ y.owedPerDay <= x.owedPerDay
      /\ refund = MulDiv(x.endTimestamp - Min2(now, x.endTimestamp), k, DAY)
      /\ w = Max2(0, o - owed - refund)
      /\ y.updatedTimestamp <= now
      /\ Free(b, "loan") = Free(PayInterest(a, now), "loan")
  BY <1>2, <1>3 DEF Refunds
<1> HIDE DEF t, b, owed, refund
<1>7. /\ o \in Nat /\ w \in Nat /\ owed \in Nat /\ refund \in Nat
      /\ x \in Loans /\ y \in Loans /\ x.owedPerDay \in Nat /\ y.owedPerDay \in Nat
      /\ x.endTimestamp \in Nat
      /\ Free(a, "loan") \in Int /\ Free(b, "loan") \in Int /\ DAY \in Nat
  BY <1>1, <1>2, <1>3, <1>5, LastingNumbers, LoanNumbers
<1>8. Runs(x) /\ Runs(y) /\ y.endTimestamp = x.endTimestamp
  <2>1. Runs(x)
    BY DEF Lasting
  <2>2. x.owedPerDay = 0 => y.owedPerDay = 0
    BY <1>6, <1>7
  <2> QED BY <1>5, <2>1, <2>2 DEF SameLoan, Runs
<1>9. Promise(y, now) <= Promise(x, now) + (-refund) * DAY + 0
  <2> DEFINE e == x.endTimestamp - now
  <2>1. /\ Promise(y, now) = e * y.owedPerDay /\ Promise(x, now) = e * x.owedPerDay
    BY <1>8 DEF Promise
  <2>2. k \in Nat /\ e \in Int
    BY <1>6, <1>7
  <2>3. e * k = e * x.owedPerDay - e * y.owedPerDay
    BY <1>7, <2>2, ProductFacts
  <2>4. refund * DAY <= e * k
    <3>1. CASE now <= x.endTimestamp
      <4>1. x.endTimestamp - Min2(now, x.endTimestamp) = e /\ e \in Nat
        BY <1>7, <3>1 DEF Min2
      <4>2. refund = MulDiv(e, k, DAY)
        BY <1>6, <4>1
      <4> HIDE DEF e, k
      <4> QED BY <2>2, <4>1, <4>2, QuotientFits
    <3>2. CASE ~(now <= x.endTimestamp)
      <4>1. x.owedPerDay = 0 /\ k = 0
        BY <1>6, <1>7, <1>8, <3>2 DEF Runs
      <4>2. x.endTimestamp - Min2(now, x.endTimestamp) \in Nat
        BY <1>7 DEF Min2
      <4>3. refund = 0
        <5> DEFINE z == x.endTimestamp - Min2(now, x.endTimestamp)
        <5>1. z \in Nat /\ refund = MulDiv(z, 0, DAY)
          BY <1>6, <4>1, <4>2
        <5> HIDE DEF z
        <5> QED BY <5>1, MulDivNat, LoanAssumption
      <4> HIDE DEF e, k
      <4> QED BY <1>7, <2>2, <4>1, <4>3
    <3> QED BY <3>1, <3>2
  <2>5. (-refund) * DAY = -(refund * DAY) /\ refund * DAY \in Int
    BY <1>7
  <2>6. e * x.owedPerDay \in Int /\ e * y.owedPerDay \in Int
    BY <1>7, <2>2, ProductFacts
  <2> HIDE DEF e, k
  <2> DEFINE rD == refund * DAY
             ex == e * x.owedPerDay
             ey == e * y.owedPerDay
  <2>7. rD <= ex - ey /\ rD \in Int /\ ex \in Int /\ ey \in Int
    BY <2>3, <2>4, <2>5, <2>6
  <2>8. Promise(y, now) = ey /\ Promise(x, now) = ex /\ (-refund) * DAY = -rD
    BY <2>1, <2>5
  <2> HIDE DEF rD, ex, ey
  <2>9. ey <= ex + (-rD) + 0
    BY <2>7
  <2> QED BY <2>8, <2>9
<1>10. Changes(b, a, id, owed, -refund, 0)
  <2>1. w = Max2(0, o - owed + (-refund))
    BY <1>6, <1>7 DEF Max2
  <2> QED BY <1>3, <1>5, <1>6, <1>8, <1>9, <2>1 DEF Changes
<1>11. Free(b, "loan") - (n + refund) = Free(a, "loan") - n - owed + (-refund)
  <2>1. Free(PayInterest(a, now), "loan") = Free(a, "loan") - o + (o - owed)
    BY <1>1, <1>3, <1>4, FreeIs
  <2> QED BY <1>6, <1>7, <2>1
<1>12. Lasting(b, s + 0, n + refund)
  <2>1. -refund \in Int /\ n + refund \in Int
    BY <1>7
  <2> QED BY <1>10, <1>11, <2>1, LastingChanges
<1> QED BY <1>12 DEF b, t, refund

LEMMA LastingSettled ==
    ASSUME NEW a, NEW s \in Int, NEW n \in Int, Lasting(a, s, n), now \in Nat,
           NEW id \in LoanIds, NEW close \in Nat,
           SettleInterestToPrincipal(a, id, close, now).books.ok
    PROVE  Lasting(SettleInterestToPrincipal(a, id, close, now).books, s, n)
<1> DEFINE t == SettleInterest(a, id, close, now)
           b == t.books
           refund == t.refund
           applied == Min2(refund, close)
           w == VaultWithdraw(b, "loan", refund - applied)
           q == PayLender(w, applied)
<1>1. SettleInterestToPrincipal(a, id, close, now).books = q
  BY DEF SettleInterestToPrincipal
<1>2. Good(a) /\ a.lender.updatedTimestamp <= now
  BY DEF Lasting
<1>3. Follows(b, a) /\ Follows(w, b) /\ Follows(q, w)
  <2>1. Follows(b, a)
    BY <1>2, SettleShape, GoodIsShaped
  <2>2. Follows(w, b)
    BY <2>1, WithdrawShape DEF Follows
  <2>3. Follows(q, w)
    BY <2>2, PayLenderShape DEF Follows
  <2> QED BY <2>1, <2>2, <2>3
<1>4. q.ok /\ w.ok /\ b.ok
  BY <1>1, <1>3 DEF Follows
<1>5. Good(b) /\ refund \in Nat
  BY <1>2, <1>4, SettleEffect DEF Settles
<1>6. Lasting(b, s, n + refund)
  BY <1>4, LastingSettles
<1>7. applied \in Nat /\ refund - applied \in Nat
  BY <1>5 DEF Min2
<1> HIDE DEF t, b, refund, applied
<1>8. Moved(w, b, "loan", -(refund - applied))
  BY <1>4, <1>5, <1>7, WithdrawEffect DEF Tokens
<1>9. Moved(q, w, "loan", -applied)
  <2>1. Good(w)
    BY <1>8 DEF Moved
  <2> HIDE DEF w
  <2> QED BY <1>4, <1>7, <2>1, PayLenderEffect
<1> HIDE DEF w, q
<1>10. Good(q) /\ TokensOnly(q, b)
  BY <1>8, <1>9 DEF Moved, TokensOnly
<1>11. Free(q, "loan") - n = Free(b, "loan") - (n + refund)
  <2>1. Free(b, "loan") \in Int
    BY <1>5, LastingNumbers
  <2> QED BY <1>5, <1>7, <1>8, <1>9, <2>1 DEF Moved
<1>12. Lasting(q, s, n)
  <2>1. n + refund \in Int
    BY <1>5
  <2> QED BY <1>6, <1>10, <1>11, <2>1, LastingMoves
<1> QED BY <1>1, <1>12

-----------------------------------------------------------------------------
(* Closing. *)

\* Principal is closed; all of it only when no interest is left.
LEMMA LastingCloses ==
    ASSUME NEW a, NEW s \in Int, NEW n \in Int, Lasting(a, s, n), now \in Nat,
           NEW id \in LoanIds, NEW close,
           close = a.loans[id].principal => a.loans[id].owedPerDay = 0,
           NEW b, Closes(b, a, id, close)
    PROVE  Lasting(b, s, n)
<1> DEFINE x == a.loans[id]
           y == b.loans[id]
           u == b.lender.updatedTimestamp
<1>1. /\ Good(a) /\ Good(b) /\ OnlyLoan(b, a, id) /\ b.lender = a.lender
      /\ b.held = a.held /\ b.fees = a.fees /\ b.twice = a.twice
      /\ close \in 1..x.principal
  BY DEF Lasting, Closes
<1>2. /\ y.owedPerDay = x.owedPerDay /\ y.updatedTimestamp = x.updatedTimestamp
      /\ y.active = (IF close < x.principal THEN x.active ELSE FALSE)
      /\ close < x.principal => y.endTimestamp = x.endTimestamp
  BY DEF Closes
<1>3. x.principal \in Nat /\ x \in Loans /\ y \in Loans /\ u \in Int /\ DAY \in Nat
  BY <1>1, NumbersOf, LastingNumbers
<1>4. Runs(x) /\ x.updatedTimestamp <= now
  BY DEF Lasting
<1>5. close < x.principal \/ x.owedPerDay = 0
  BY <1>1, <1>3
<1>6. Runs(y)
  BY <1>2, <1>4, <1>5 DEF Runs
<1>7. Promise(y, u) <= Promise(x, u) + 0 * DAY + 0
  <2>1. Promise(x, u) \in Int /\ (x.owedPerDay = 0 => Promise(x, u) = 0)
    <3> HIDE DEF x, u
    <3> QED BY <1>3, LoanNumbers
  <2>2. y.owedPerDay = 0 => Promise(y, u) = 0
    <3> HIDE DEF y, u
    <3> QED BY <1>3, LoanNumbers
  <2>3. Promise(y, u) = Promise(x, u)
    <3>1. CASE close < x.principal
      BY <1>2, <3>1 DEF Promise
    <3>2. CASE x.owedPerDay = 0
      BY <1>2, <2>1, <2>2, <3>2
    <3> QED BY <1>5, <3>1, <3>2
  <2> HIDE DEF x, y, u
  <2> QED BY <1>3, <2>1, <2>3
<1>8. Lasting(b, s + 0, n - 0)
  <2>1. /\ b.lender.updatedTimestamp = a.lender.updatedTimestamp /\ 0 \in Int /\ 0 \in Nat
        /\ b.lender.owedTotal = a.lender.owedTotal + 0
    BY <1>1, LastingNumbers
  <2>2. Promise(b.loans[id], b.lender.updatedTimestamp)
            <= Promise(a.loans[id], b.lender.updatedTimestamp) + 0 * DAY + 0
    BY <1>7
  <2>3. /\ Runs(b.loans[id]) /\ b.loans[id].updatedTimestamp <= now
        /\ b.loans[id].owedPerDay - b.lender.owedPerDay
               = a.loans[id].owedPerDay - a.lender.owedPerDay
    BY <1>1, <1>2, <1>4, <1>6
  <2> HIDE DEF x, y, u
  <2> QED BY <1>1, <2>1, <2>2, <2>3, LastingLoan
<1> QED BY <1>8

LEMMA LastingSettledFor ==
    ASSUME NEW a, NEW s \in Int, NEW n \in Int, Lasting(a, s, n), now \in Nat,
           NEW id \in LoanIds, NEW close \in Nat, SettledFor(a, id, close).books.ok
    PROVE  Lasting(SettledFor(a, id, close).books, s, n)
<1> DEFINE r == Require(a, close # 0)
           t == SettledFor(a, id, close)
<1>1. Good(a)
  BY DEF Lasting
<1>2. t = SettleInterestToPrincipal(r, id, close, now)
  BY DEF SettledFor
<1>3. r = a
  <2>1. \A g \in BOOLEAN : Require(a, g).ok => Require(a, g) = a
    BY <1>1, RequireEffect DEF Good
  <2>2. (close # 0) \in BOOLEAN
    OBVIOUS
  <2>3. Follows(r, a)
    BY <1>1, RequireShape, GoodIsShaped
  <2> HIDE DEF r
  <2>4. Follows(t.books, r)
    BY <1>2, <2>3, ToPrincipalShape DEF Follows
  <2> HIDE DEF t
  <2> QED BY <2>1, <2>2, <2>4 DEF Follows, r, t
<1> HIDE DEF r, t
<1> QED BY <1>2, <1>3, LastingSettled DEF t

LEMMA LastingBefore ==
    ASSUME NEW b, NEW s \in Int, Lasting(b, s, 0), now \in Nat, NEW id \in LoanIds,
           NEW x, NEW n, NEW c, NEW d, d.ok, NEW k \in Nat, NEW l,
           SettleBeforeSwap(Closing(b, x, n, 0, 0, 0, 0, 0), id, c)
               = Closing(d, x, n, k, l, 0, 0, 0)
    PROVE  Lasting(d, s, 0)
<1> DEFINE C == Closing(b, x, n, 0, 0, 0, 0, 0)
           r == SettleBeforeSwap(C, id, c)
<1>1. r = C \/ \E m : r = SettleClosing(C, id, m)
  BY DEF SettleBeforeSwap
<1>2. r = Closing(d, x, n, k, l, 0, 0, 0)
  OBVIOUS
<1> HIDE DEF r
<1>3. CASE r = C
  BY <1>2, <1>3, ClosingParts
<1>4. CASE \E m : r = SettleClosing(C, id, m)
  <2>1. PICK m : r = SettleClosing(C, id, m)
    BY <1>4
  <2>2. r = Closing(SettledFor(b, id, m).books, x, n, m,
                    SettledFor(b, id, m).lessInterest, 0, 0, 0)
    BY <2>1, SettleClosingIs
  <2>3. d = SettledFor(b, id, m).books /\ k = m
    BY <1>2, <2>2, ClosingParts
  <2> QED BY <2>3, LastingSettledFor
<1> QED BY <1>1, <1>3, <1>4

\* For once it does not matter what is in hand.
LEMMA LastingTwice ==
    ASSUME NEW b, NEW s, NEW n \in Int, Lasting(b, s, n), b.twice, NEW k \in Int
    PROVE  Lasting(b, s, k)
BY DEF Lasting

LEMMA LastingAfter ==
    ASSUME NEW f, NEW s \in Int, now \in Nat, NEW id \in LoanIds, NEW c \in BOOLEAN,
           NEW co \in Nat, NEW w \in Nat, Lasting(f, s, co + (IF c THEN 0 ELSE w)),
           NEW x, NEW n, NEW k \in Nat, k = 0 => ~c, NEW l \in Nat, NEW u,
           NEW g, g.ok, NEW close \in Nat, NEW less \in Nat, NEW v \in Nat,
           SettleAfterSwap(Closing(f, x, n, k, l, co, u, w), id)
               = Closing(g, x, n, close, less, co, u, v)
    PROVE  Lasting(g, s, less + (IF c THEN 0 ELSE v))
<1> DEFINE r == SettleAfterSwap(Closing(f, x, n, k, l, co, u, w), id)
           part == IF co = x.principal THEN co ELSE MulDiv(co, u, x.collateral)
           again == AgainSettled(f, k)
           q == SettledFor(again, id, part)
<1>1. /\ l # 0 => r = Closing(f, x, n, k, co, co, u, w)
      /\ l = 0 => r = Closing(q.books, x, n, part, q.lessInterest, co, u,
                              w + co - q.lessInterest)
  BY AfterSwapIs
<1>2. r = Closing(g, x, n, close, less, co, u, v)
  OBVIOUS
<1>3. Good(f)
  BY DEF Lasting
<1> HIDE DEF r, part
<1>4. CASE l # 0
  <2>1. g = f /\ less = co /\ v = w
    BY <1>1, <1>2, <1>4, ClosingParts
  <2> QED BY <2>1
<1>5. CASE l = 0
  <2>1. g = q.books /\ less = q.lessInterest /\ close = part /\ v = w + co - q.lessInterest
    BY <1>1, <1>2, <1>5, ClosingParts
  <2>2. /\ Good(again) /\ again.loans = f.loans /\ again.lender = f.lender
        /\ Spare(again) = Spare(f)
        /\ (f.twice => again.twice)
        /\ (~again.twice => k = 0)
    BY <1>3, AgainIs
  <2> HIDE DEF again
  <2>3. Lasting(again, s, co + w)
    <3> HIDE DEF q
    <3>0. Good(again) /\ Good(f) /\ Spare(again) = Spare(f) /\ again.lender = f.lender
      BY <1>3, <2>2
    <3>1. Free(again, "loan") = Free(f, "loan")
      <4>1. Free(f, "loan") \in Int /\ f.lender.owedTotal \in Nat
        BY <3>0, LastingNumbers
      <4>2. Free(again, "loan") = Free(f, "loan") - f.lender.owedTotal + again.lender.owedTotal
        BY ONLY <3>0, FreeIs
      <4> QED BY <3>0, <4>1, <4>2
    <3> DEFINE m == co + (IF c THEN 0 ELSE w)
               h == co + w
    <3>2. ~again.twice => h = m
      BY <2>2
    <3>3. h \in Int /\ m \in Int /\ Lasting(f, s, m)
      OBVIOUS
    <3> HIDE DEF m, h
    <3>4. again.loans = f.loans /\ (f.twice => again.twice)
      BY <2>2
    <3>5. ~again.twice => Free(again, "loan") - h = Free(f, "loan") - m
      BY <3>1, <3>2
    <3>6. Lasting(again, s, h)
      BY <3>0, <3>3, <3>4, <3>5, LastingSame
    <3> QED BY <3>6 DEF h
  <2>4. Lasting(q.books, s, co + w)
    <3>1. q.books.ok /\ part \in Nat
      BY <2>1
    <3>2. co + w \in Int
      OBVIOUS
    <3> QED BY <2>3, <3>1, <3>2, LastingSettledFor
  <2>5. g.twice = again.twice
    <3>1. again.lender.updatedTimestamp <= now
      BY <2>3 DEF Lasting
    <3>2. Settles(q.books, again, id, part, now)
      BY <2>1, <2>2, <3>1, SettledForEffect
    <3> QED BY <2>1, <3>2 DEF Settles
  <2>6. less + v = co + w
    BY <2>1
  <2>7. CASE ~c
    BY <2>1, <2>4, <2>6, <2>7
  <2>8. CASE c
    <3>1. g.twice
      <4>1. again.twice \in BOOLEAN
        BY <2>2, LastingNumbers
      <4> QED BY <2>2, <2>5, <2>8, <4>1
    <3>2. co + w \in Int /\ less + 0 \in Int
      OBVIOUS
    <3>3. Lasting(g, s, less + 0)
      BY <2>1, <2>4, <3>1, <3>2, LastingTwice
    <3> QED BY <2>8, <3>3
  <2> QED BY <2>7, <2>8
<1> QED BY <1>4, <1>5

LEMMA LastingFinal ==
    ASSUME NEW a, Good(a), NEW id \in LoanIds, now \in Nat, NEW c \in BOOLEAN,
           NEW f, NEW n, NEW k, NEW l, NEW co, NEW u, NEW w,
           Sold(f, a, id, c, k, l, u, w), NEW s \in Int,
           Lasting(f, s, l + (IF c THEN 0 ELSE w)),
           FinalizeSwap(Closing(f, a.loans[id], n, k, l, co, u, w), id, c).ok
    PROVE  Lasting(FinalizeSwap(Closing(f, a.loans[id], n, k, l, co, u, w), id, c), s, 0)
<1> DEFINE x == a.loans[id]
           t == IF c THEN "collateral" ELSE "loan"
           q == Require(f, l # 0)
           p == Charged(f, id, l, u)
           m == PayLender(p, l)
           v == Returned(f, id, c, l, u, w)
           e == CloseLoan(v, id, k)
           r == RequireHealthy(e, id)
           h == IF c THEN 0 ELSE w
<1>1. FinalizeSwap(Closing(f, x, n, k, l, co, u, w), id, c) = r
  BY FinalizeSwapIs
<1>2. Good(f) /\ Shaped(f)
  BY GoodIsShaped DEF Lasting
<1>3. Follows(p, f) /\ Follows(m, p) /\ Follows(v, m) /\ Follows(e, v) /\ Follows(r, e)
  <2>1. Follows(p, f) /\ Follows(m, p) /\ Follows(v, m)
    BY <1>2, ReturnedShape
  <2> HIDE DEF p, m, v
  <2>2. Follows(e, v)
    BY <2>1, CloseShape DEF Follows
  <2> HIDE DEF e
  <2>3. Follows(r, e)
    BY <2>2, HealthyShape DEF Follows
  <2> QED BY <2>1, <2>2, <2>3
<1>4. r.ok /\ e.ok /\ v.ok /\ m.ok /\ p.ok
  BY <1>1, <1>3 DEF Follows
<1>5. q = f
  <2>1. \A g \in BOOLEAN : Require(f, g).ok => Require(f, g) = f
    BY <1>2, RequireEffect DEF Good
  <2>2. (l # 0) \in BOOLEAN
    OBVIOUS
  <2>3. p = WithCollateral(q, id, q.loans[id].collateral - u)
    BY DEF Charged
  <2>4. Follows(q, f)
    BY <1>2, RequireShape
  <2> HIDE DEF p, q
  <2>5. Follows(p, q)
    BY <2>3, <2>4, CollateralShape DEF Follows
  <2> QED BY <1>4, <2>1, <2>2, <2>5 DEF Follows, q
<1>6. /\ {k, l, w} \subseteq Nat /\ u \in 0..x.collateral
      /\ f.loans[id].collateral = x.collateral /\ f.loans[id].principal = x.principal
  BY DEF Sold, KeepsInterest, SameLoan
<1>7. x.collateral \in Nat /\ x.principal \in Nat
  BY NumbersOf
<1> DEFINE z == x.collateral - u
<1>8. z \in Nat
  BY <1>6, <1>7
<1>9. p = WithCollateral(f, id, z)
  BY <1>5, <1>6 DEF Charged
<1> HIDE DEF z, q
<1>10. Pledged(p, f, id, z)
  BY <1>2, <1>8, <1>9, CollateralEffect
<1>11. h \in Nat /\ l + h \in Int /\ l \in Nat
  BY <1>6
<1> HIDE DEF h
<1>12. Lasting(p, s, l + h)
  <2> HIDE DEF p
  <2>1. Lasting(f, s, l + h)
    BY DEF h
  <2> QED BY <1>10, <1>11, <2>1, LastingPledged
<1> HIDE DEF p
<1>13. Moved(m, p, "loan", -l)
  BY <1>4, <1>6, <1>10, PayLenderEffect DEF Pledged
<1>14. v = VaultWithdraw(m, t, w) /\ t \in Tokens /\ (c => t = "collateral") /\ (~c => t = "loan")
  BY DEF Returned, p, Tokens
<1> HIDE DEF m, t
<1>15. Moved(v, m, t, -w)
  BY <1>4, <1>6, <1>13, <1>14, WithdrawEffect DEF Moved
<1> HIDE DEF v
<1>16. Lasting(m, s, h)
  <2>1. Good(m) /\ TokensOnly(m, p) /\ Free(m, "loan") = Free(p, "loan") + (-l)
    BY <1>13 DEF Moved
  <2>2. Free(p, "loan") \in Int
    BY <1>12, LastingNumbers DEF Lasting
  <2>3. Free(m, "loan") - h = Free(p, "loan") - (l + h) /\ h \in Int
    BY <1>11, <2>1, <2>2
  <2> QED BY <1>11, <1>12, <2>1, <2>3, LastingMoves
<1>17. Lasting(v, s, 0)
  <2>1. Good(v) /\ TokensOnly(v, m)
    BY <1>15 DEF Moved
  <2>2. Free(m, "loan") \in Int /\ w \in Nat
    BY <1>6, <1>16, LastingNumbers DEF Lasting
  <2>3. Free(v, "loan") - 0 = Free(m, "loan") - h
    <3>1. CASE c
      <4>1. t = "collateral" /\ h = 0 /\ "loan" \in Tokens \ {"collateral"}
        BY <1>14, <3>1 DEF h, Tokens
      <4>2. Free(v, "loan") = Free(m, "loan")
        BY <1>15, <4>1 DEF Moved
      <4> QED BY <2>2, <4>1, <4>2
    <3>2. CASE ~c
      <4>1. t = "loan" /\ h = w
        BY <1>14, <3>2 DEF h
      <4>2. Free(v, "loan") = Free(m, "loan") + (-w)
        BY <1>15, <4>1 DEF Moved
      <4> QED BY <2>2, <4>1, <4>2
    <3> QED BY <3>1, <3>2
  <2>4. h \in Int /\ 0 \in Int
    BY <1>11
  <2> QED BY <1>16, <2>1, <2>3, <2>4, LastingMoves
<1>18. Closes(e, v, id, k)
  BY <1>4, <1>6, <1>15, CloseEffect DEF Moved
<1> HIDE DEF e
<1>19. r = e
  BY <1>4, <1>18, HealthyEffect DEF Closes
<1> HIDE DEF r
<1>20. v.loans[id].principal = x.principal /\ v.loans[id].owedPerDay = f.loans[id].owedPerDay
  <2>1. v.loans = p.loans
    BY <1>13, <1>15 DEF Moved, TokensOnly
  <2> QED BY <1>6, <1>10, <2>1 DEF Pledged
<1>21. k = v.loans[id].principal => v.loans[id].owedPerDay = 0
  <2>1. k \in 1..x.principal
    BY <1>18, <1>20 DEF Closes
  <2>2. k # 0
    BY <1>7, <2>1
  <2> QED BY <1>7, <1>20, <2>2 DEF Sold, NoneLeft
<1>22. Lasting(e, s, 0)
  BY <1>17, <1>18, <1>21, LastingCloses
<1> QED BY <1>1, <1>19, <1>22

\* The stages of a closing by a swap: settled into d, covered by the swap into
\* f, settled after it into g.
Stages(b, id, c, e, n, d, k, l, f, co, u, w, g, close, less, v) ==
    LET x == b.loans[id]
    IN  /\ Begun(d, b, id, n, c, k, l)
        /\ Covers(f, d, x, n, c, l, co, u, w)
        /\ HalfClosed(f, b, id, c, k, co, u, w)
        /\ k \in 0..x.principal /\ l \in 0..k /\ l <= co
        /\ Sold(g, b, id, c, close, less, u, v)
        /\ SettleBeforeSwap(Closing(b, x, n, 0, 0, 0, 0, 0), id, c)
               = Closing(d, x, n, k, l, 0, 0, 0)
        /\ CoverPrincipalWithSwap(Closing(d, x, n, k, l, 0, 0, 0), c, e)
               = Closing(f, x, n, k, l, co, u, w)
        /\ SettleAfterSwap(Closing(f, x, n, k, l, co, u, w), id)
               = Closing(g, x, n, close, less, co, u, v)

LEMMA ClosingStages ==
    ASSUME NEW b, Good(b), NEW id \in LoanIds, now \in Nat, price \in Nat \ {0},
           b.lender.updatedTimestamp <= now,
           SoundLoan(b.loans[id], b.twice),
           NEW amount \in Nat, NEW c \in BOOLEAN, NEW e \in Nat,
           ClosedWithSwap(b, id, amount, c, e).ok
    PROVE  \E n, d, k, l, f, co, u, w, g, close, less, v :
             /\ Stages(b, id, c, e, n, d, k, l, f, co, u, w, g, close, less, v)
             /\ ClosedWithSwap(b, id, amount, c, e) =
                    FinalizeSwap(Closing(g, b.loans[id], n, close, less, co, u, v), id, c)
<1> DEFINE x == b.loans[id]
           n       == SwapAmount(x, amount)
           settled == ClosingSettled(b, id, amount, c)
           covered == ClosingCovered(b, id, amount, c, e)
           after   == ClosingSold(b, id, amount, c, e)
           r       == ClosingDone(b, id, amount, c, e)
<1>1. x.collateral # 0 /\ ClosedWithSwap(b, id, amount, c, e) = r
  <2>1. ~Require(b, FALSE).ok
    BY DEF Good, Books, Require
  <2> HIDE DEF r
  <2> QED BY <2>1, ClosedWithSwapIs DEF r
<1>2. /\ settled = SettleBeforeSwap(Closing(b, x, n, 0, 0, 0, 0, 0), id, c)
      /\ covered = CoverPrincipalWithSwap(settled, c, e)
      /\ after = SettleAfterSwap(covered, id)
      /\ r = FinalizeSwap(after, id, c)
  BY DEF ClosingDone, ClosingSold, ClosingCovered, ClosingSettled, BeginClosing, Closing
<1>3. r.ok /\ after.books.ok /\ covered.books.ok /\ settled.books.ok
  <2>1. Shaped(b)
    BY GoodIsShaped
  <2> HIDE DEF r, after, covered, settled
  <2>2. /\ Follows(settled.books, b) /\ Follows(covered.books, settled.books)
        /\ Follows(after.books, covered.books) /\ Follows(r, after.books)
    BY <2>1, ClosingShape DEF r, after, covered, settled
  <2>3. r.ok
    BY <1>1
  <2> QED BY <2>2, <2>3 DEF Follows
<1>4. x \in Loans /\ n \in 0..x.collateral /\ x.collateral \in Nat /\ n \in Nat
      /\ n <= x.collateral
  <2>1. x \in Loans /\ x.collateral \in Nat
    BY NumbersOf
  <2>2. n \in 0..x.collateral
    BY <2>1, SwapAmountIs
  <2> HIDE DEF n, x
  <2> QED BY <2>1, <2>2
<1> HIDE DEF n, settled, covered, after, r
<1>5. PICK d, k, l : settled = Closing(d, x, n, k, l, 0, 0, 0) /\ Begun(d, b, id, n, c, k, l)
  BY <1>1, <1>2, <1>3, <1>4, BeforeSwapEffect
<1>6. Good(d) /\ l \in Nat /\ k \in Nat /\ (~c /\ n # x.collateral => l = 0)
  <2>1. x.principal \in Nat
    BY NumbersOf
  <2>2. CASE SettledYet(d, b, id, k, l) /\ k \in 0..x.principal
             /\ (n = x.collateral \/ (k < x.principal /\ c))
    BY <2>1, <2>2 DEF SettledYet, Settles
  <2>3. CASE d = b /\ k = 0 /\ l = 0 /\ ~c /\ n # x.collateral
    BY <2>3
  <2> QED BY <1>5, <2>2, <2>3 DEF Begun
<1>7. PICK f, co, u, w : /\ covered = Closing(f, x, n, k, l, co, u, w)
                         /\ Covers(f, d, x, n, c, l, co, u, w)
  BY <1>2, <1>3, <1>4, <1>5, <1>6, CoverEffect
<1>8. /\ HalfClosed(f, b, id, c, k, co, u, w)
      /\ k \in 0..x.principal /\ l \in 0..k /\ l <= co
  BY <1>4, <1>5, <1>7, HalfClosedIs
<1>9. PICK g, close, less, v :
          /\ after = Closing(g, x, n, close, less, co, u, v)
          /\ Sold(g, b, id, c, close, less, u, v)
  <2>1. after = SettleAfterSwap(Closing(f, x, n, k, l, co, u, w), id)
    BY <1>2, <1>7
  <2>2. SoldBy(SettleAfterSwap(Closing(f, b.loans[id], n, k, l, co, u, w), id),
               b, id, c, n, co, u)
    <3>1. SettleAfterSwap(Closing(f, b.loans[id], n, k, l, co, u, w), id).books.ok
      BY <1>3, <2>1
    <3>2. HalfClosed(f, b, id, c, k, co, u, w) /\ l <= co
      BY <1>8
    <3>3. k \in 0..b.loans[id].principal /\ l \in 0..k
      BY <1>8
    <3>4. b.loans[id].collateral # 0
      BY <1>1
    <3> HIDE DEF x
    <3> QED BY <3>1, <3>2, <3>3, <3>4, AfterSwapEffect
  <2> HIDE DEF after
  <2> QED BY <2>1, <2>2 DEF SoldBy
<1>10. Stages(b, id, c, e, n, d, k, l, f, co, u, w, g, close, less, v)
  <2>1. /\ SettleBeforeSwap(Closing(b, x, n, 0, 0, 0, 0, 0), id, c)
               = Closing(d, x, n, k, l, 0, 0, 0)
        /\ CoverPrincipalWithSwap(Closing(d, x, n, k, l, 0, 0, 0), c, e)
               = Closing(f, x, n, k, l, co, u, w)
        /\ SettleAfterSwap(Closing(f, x, n, k, l, co, u, w), id)
               = Closing(g, x, n, close, less, co, u, v)
    BY <1>2, <1>5, <1>7, <1>9
  <2> QED BY <1>5, <1>7, <1>8, <1>9, <2>1 DEF Stages
<1>11. ClosedWithSwap(b, id, amount, c, e) = FinalizeSwap(Closing(g, x, n, close, less, co, u, v), id, c)
  BY <1>1, <1>2, <1>9
<1> QED BY <1>10, <1>11

LEMMA LastingClosedWithSwap ==
    ASSUME NEW b, NEW s \in Int, Lasting(b, s, 0), NEW id \in LoanIds,
           now \in Nat, price \in Nat \ {0}, SoundLoan(b.loans[id], b.twice),
           NEW amount \in Nat, NEW c \in BOOLEAN, NEW e \in Nat,
           ClosedWithSwap(b, id, amount, c, e).ok
    PROVE  Lasting(ClosedWithSwap(b, id, amount, c, e), s, 0)
<1> DEFINE x == b.loans[id]
           r == ClosedWithSwap(b, id, amount, c, e)
<1>1. Good(b) /\ b.lender.updatedTimestamp <= now
  BY DEF Lasting
<1>2. PICK n, d, k, l, f, co, u, w, g, close, less, v :
          /\ Stages(b, id, c, e, n, d, k, l, f, co, u, w, g, close, less, v)
          /\ r = FinalizeSwap(Closing(g, x, n, close, less, co, u, v), id, c)
  BY <1>1, ClosingStages
<1>3. r.ok
  OBVIOUS
<1> HIDE DEF r, x
<1>4. /\ Begun(d, b, id, n, c, k, l)
      /\ Covers(f, d, x, n, c, l, co, u, w)
      /\ HalfClosed(f, b, id, c, k, co, u, w)
      /\ k \in 0..x.principal /\ l \in 0..k
      /\ Sold(g, b, id, c, close, less, u, v)
  BY <1>2 DEF Stages, x
<1>5. /\ SettleBeforeSwap(Closing(b, x, n, 0, 0, 0, 0, 0), id, c)
             = Closing(d, x, n, k, l, 0, 0, 0)
      /\ SettleAfterSwap(Closing(f, x, n, k, l, co, u, w), id)
             = Closing(g, x, n, close, less, co, u, v)
  BY <1>2 DEF Stages, x
<1>6. Good(d) /\ k \in Nat /\ l \in Nat
  <2>1. x.principal \in Nat
    BY <1>1, NumbersOf DEF x
  <2>2. Good(d)
    BY <1>1, <1>4 DEF Begun, SettledYet, Settles
  <2> QED BY <1>4, <2>1, <2>2
<1>7. Good(f) /\ TokensOnly(f, d) /\ co \in Nat /\ w \in Nat
      /\ Free(f, "loan") = Free(d, "loan") + co + (IF c THEN 0 ELSE w)
  BY <1>4 DEF Covers
<1>8. k = 0 => ~c
  BY <1>4 DEF HalfClosed
<1>9. {close, less, v} \subseteq Nat /\ Good(g) /\ g.ok
  BY <1>4 DEF Sold, KeepsInterest, Good
<1>10. Lasting(d, s, 0)
  <2>1. d.ok
    BY <1>6 DEF Good
  <2> QED BY <1>5, <1>6, <2>1, LastingBefore
<1>11. Lasting(f, s, co + (IF c THEN 0 ELSE w))
  <2> DEFINE m == co + (IF c THEN 0 ELSE w)
  <2>1. m \in Int /\ 0 \in Int /\ Free(d, "loan") \in Int
    BY <1>6, <1>7, LastingNumbers
  <2>2. Free(f, "loan") = Free(d, "loan") + m
    BY <1>7, <2>1
  <2> HIDE DEF m
  <2>3. Free(f, "loan") - m = Free(d, "loan") - 0
    BY <2>1, <2>2
  <2>4. Lasting(f, s, m)
    BY <1>7, <1>10, <2>1, <2>3, LastingMoves
  <2> QED BY <2>4 DEF m
<1>12. Lasting(g, s, less + (IF c THEN 0 ELSE v))
  <2>1. close \in Nat /\ less \in Nat /\ v \in Nat /\ g.ok
    BY <1>9
  <2> QED BY <1>5, <1>6, <1>7, <1>8, <1>11, <2>1, LastingAfter
<1>13. Lasting(FinalizeSwap(Closing(g, b.loans[id], n, close, less, co, u, v), id, c), s, 0)
  <2>1. FinalizeSwap(Closing(g, b.loans[id], n, close, less, co, u, v), id, c).ok
    BY <1>2, <1>3 DEF x
  <2> QED BY <1>1, <1>4, <1>12, <2>1, LastingFinal
<1> QED BY <1>2, <1>13 DEF x, r

-----------------------------------------------------------------------------
(* Calls on what is there. *)

\* What makes the interest inductive: on time it lasts, but for what was rounded
\* off.
InterestInv ==
    /\ rounded \in Nat
    /\ ~late => Lasting(books, rounded, 0)

LEMMA LastsNext ==
    ASSUME InterestInv, NEW b, Call(b), NEW r \in Nat, rounded' = rounded + r,
           ~late => Lasting(b, rounded + r, 0)
    PROVE  InterestInv'
<1>1. books' = b /\ now' = now /\ late' = late
  BY DEF Call, worldVars
<1>2. rounded' \in Nat
  BY DEF InterestInv
<1>3. Lasting(books, rounded, 0)' <=> Lasting(b, rounded + r, 0)
  BY <1>1 DEF Lasting, Runs, Good, Promised, Promises, Promise, OwedPerDays, Free
<1> QED BY <1>1, <1>2, <1>3 DEF InterestInv

LEMMA LastsAsBefore ==
    ASSUME InterestInv, NEW b, Call(b), rounded' = rounded,
           ~late => Lasting(b, rounded, 0)
    PROVE  InterestInv'
<1>1. rounded + 0 = rounded
  BY DEF InterestInv
<1> QED BY <1>1, LastsNext, 0 \in Nat

\* The pool has its interest paid.
LEMMA LastingCash ==
    ASSUME LoanInv, NEW s \in Int, Lasting(books, s, 0), Settled.ok
    PROVE  Lasting(Settled, s, 0)
<1>1. now \in Nat
  BY StateFacts
<1>2. Settled = books \/ Settled = PayInterest(books, now)
  BY DEF Settled
<1>3. CASE Settled = books
  BY <1>3
<1>4. CASE Settled = PayInterest(books, now)
  BY <1>1, <1>4, LastingPays
<1> QED BY <1>2, <1>3, <1>4

LEMMA SameButCashFree ==
    ASSUME NEW a, NEW b, SameButCash(b, a) PROVE Free(b, "loan") = Free(a, "loan")
BY DEF SameButCash, Free

LEMMA LastingSameButCash ==
    ASSUME NEW a, NEW s \in Int, Lasting(a, s, 0), NEW b, SameButCash(b, a)
    PROVE  Lasting(b, s, 0)
<1>1. Good(b) /\ TokensOnly(b, a)
  BY DEF SameButCash
<1>2. Free(b, "loan") - 0 = Free(a, "loan") - 0
  BY SameButCashFree
<1> QED BY <1>1, <1>2, LastingMoves

LEMMA OnlyCashLasts ==
    ASSUME LoanInv, InterestInv, NEW b, OnlyCash(b)
    PROVE  InterestInv'
<1>1. Call(b) /\ rounded' = rounded /\ Settled.ok /\ SameButCash(b, Settled)
  BY DEF OnlyCash
<1>2. ASSUME ~late PROVE Lasting(b, rounded, 0)
  <2>1. rounded \in Int /\ Lasting(books, rounded, 0)
    BY <1>2 DEF InterestInv
  <2> QED BY <1>1, <2>1, LastingCash, LastingSameButCash
<1> QED BY <1>1, <1>2, LastsAsBefore

LEMMA FeesLeaveLasts ==
    ASSUME LoanInv, InterestInv, NEW b, FeesLeave(b)
    PROVE  InterestInv'
<1>1. /\ Call(b) /\ rounded' = rounded
      /\ Good(b) /\ b.loans = books.loans /\ b.lender = books.lender /\ b.twice = books.twice
      /\ Free(b, "loan") = Free(books, "loan")
  BY DEF FeesLeave, KeepsLoans
<1>2. ASSUME ~late PROVE Lasting(b, rounded, 0)
  <2>1. Lasting(books, rounded, 0)
    BY <1>2 DEF InterestInv
  <2> QED BY <1>1, <2>1, LastingSame
<1> QED BY <1>1, <1>2, LastsAsBefore

LEMMA MovedCollateralLasts ==
    ASSUME LoanInv, InterestInv, NEW id \in LoanIds, NEW b, NEW q, NEW n,
           MovesCollateral(b, q, id, n)
    PROVE  InterestInv'
<1>1. /\ Call(b) /\ rounded' = rounded
      /\ Moved(q, books, "collateral", n)
      /\ Pledged(b, q, id, books.loans[id].collateral + n)
  BY DEF MovesCollateral
<1>2. ASSUME ~late PROVE Lasting(b, rounded, 0)
  <2>1. rounded \in Int /\ Lasting(books, rounded, 0) /\ now \in Nat
    BY <1>2, StateFacts DEF InterestInv
  <2>2. Good(q) /\ TokensOnly(q, books) /\ Free(q, "loan") - 0 = Free(books, "loan") - 0
    BY <1>1 DEF Moved, Tokens
  <2>3. Lasting(q, rounded, 0)
    BY <2>1, <2>2, LastingMoves
  <2> QED BY <1>1, <2>1, <2>3, LastingPledged
<1> QED BY <1>1, <1>2, LastsAsBefore

\* A closing without a swap.
LEMMA RepaidLasts ==
    ASSUME LoanInv, InterestInv, NEW id \in LoanIds,
           NEW r, NEW close, NEW v, NEW m, NEW d, NEW s, NEW p, NEW w,
           Repays(r, id, close, v, m, d, s, p, w)
    PROVE  InterestInv'
<1> DEFINE x == books.loans[id]
<1>1. /\ Call(r) /\ rounded' = rounded /\ close \in Nat
      /\ m \in Nat /\ Moved(d, books, "loan", m)
      /\ s = SettleInterestToPrincipal(d, id, close, now).books
      /\ Settles(s, books, id, close, now)
      /\ Good(p) /\ TokensOnly(p, s)
      /\ Free(p, "loan") = Free(s, "loan") - m
      /\ Pledged(w, p, id, x.collateral - v)
      /\ Closes(r, w, id, close)
  BY DEF Repays
<1>2. ASSUME ~late PROVE Lasting(r, rounded, 0)
  <2>1. rounded \in Int /\ Lasting(books, rounded, 0) /\ now \in Nat /\ Good(books)
    BY <1>2, StateFacts DEF InterestInv
  <2>2. {Free(books, "loan"), Free(s, "loan")} \subseteq Int /\ m \in Int
    BY <1>1, <2>1, NumbersOf DEF Settles
  <2>3. Lasting(d, rounded, m)
    <3>1. Good(d) /\ TokensOnly(d, books) /\ Free(d, "loan") - m = Free(books, "loan") - 0
      BY <1>1, <2>2 DEF Moved
    <3> QED BY <2>1, <2>2, <3>1, LastingMoves
  <2>4. Lasting(s, rounded, m)
    <3>1. SettleInterestToPrincipal(d, id, close, now).books.ok
      BY <1>1 DEF Settles, Good
    <3> QED BY <1>1, <2>1, <2>2, <2>3, <3>1, LastingSettled
  <2>5. Lasting(p, rounded, 0)
    <3>1. Free(p, "loan") - 0 = Free(s, "loan") - m
      BY <1>1, <2>2
    <3> QED BY <1>1, <2>2, <2>4, <3>1, LastingMoves
  <2>6. Lasting(w, rounded, 0)
    BY <1>1, <2>1, <2>5, LastingPledged
  <2>7. close = w.loans[id].principal => w.loans[id].owedPerDay = 0
    <3>1. w.loans[id].principal = x.principal /\ w.loans[id].owedPerDay = s.loans[id].owedPerDay
      BY <1>1 DEF Pledged, TokensOnly, Settles, SameLoan
    <3>2. x.principal \in Nat
      BY <2>1, NumbersOf
    <3>3. close >= x.principal => s.loans[id].owedPerDay = 0
      BY <1>1 DEF Settles
    <3> QED BY <3>1, <3>2, <3>3
  <2> QED BY <1>1, <2>1, <2>6, <2>7, LastingCloses
<1> QED BY <1>1, <1>2, LastsAsBefore

LEMMA ClosedWithSwapLasts ==
    ASSUME LoanInv, InterestInv, NEW id \in LoanIds, NEW n \in Nat, NEW c \in BOOLEAN,
           NEW e \in Nat, CloseWithSwap(id, n, c, e)
    PROVE  InterestInv'
<1> DEFINE r == ClosedWithSwap(books, id, n, c, e)
<1>1. Call(r) /\ rounded' = rounded
  BY DEF CloseWithSwap
<1>2. r.ok
  BY <1>1 DEF Call
<1> HIDE DEF r
<1>3. ASSUME ~late PROVE Lasting(r, rounded, 0)
  <2>1. /\ rounded \in Int /\ Lasting(books, rounded, 0)
        /\ now \in Nat /\ price \in Nat \ {0} /\ SoundLoan(books.loans[id], books.twice)
    BY <1>3, StateFacts DEF InterestInv
  <2> QED BY <1>2, <2>1, LastingClosedWithSwap DEF r
<1> QED BY <1>1, <1>3, LastsAsBefore

-----------------------------------------------------------------------------
(* New terms. *)

\* On time, nothing is due for the time beyond the end.
LEMMA NoBackInterest ==
    ASSUME NEW x \in Loans, now \in Nat, now <= x.endTimestamp
    PROVE  BackInterest(x) = 0
<1>1. x.endTimestamp \in Nat /\ x.owedPerDay \in Nat
  BY LoanNumbers
<1>2. Max2(0, now - x.endTimestamp) = 0
  BY <1>1 DEF Max2
<1>3. MulDiv(0, x.owedPerDay, DAY) = 0
  BY <1>1, MulDivNat, LoanAssumption
<1> QED BY <1>2, <1>3 DEF BackInterest

\* The interest for a shorter or longer term.
LEMMA TermReduced ==
    ASSUME NEW e \in Int, NEW perDay \in Nat \ {0}, NEW n \in Nat
    PROVE  /\ RoundedOff(n * DAY, perDay) \in Nat
           /\ (e - MulDiv(n, DAY, perDay)) * perDay
                  = e * perDay + (-n) * DAY + RoundedOff(n * DAY, perDay)
           /\ (e + MulDiv(n, DAY, perDay)) * perDay <= e * perDay + n * DAY
<1> DEFINE q == MulDiv(n, DAY, perDay)
           r == RoundedOff(n * DAY, perDay)
           nD == n * DAY
           qp == q * perDay
           ep == e * perDay
<1>1. q \in Nat /\ r \in Nat /\ qp <= nD /\ qp + r = nD
  BY QuotientOf, LoanAssumption
<1>2. DAY \in Nat
  BY LoanAssumption
<1> HIDE DEF q, r
<1>3. (e - q) * perDay = ep - qp /\ (e + q) * perDay = ep + qp /\ qp \in Int /\ ep \in Int
  BY <1>1, ProductFacts
<1>4. (-n) * DAY = -nD /\ nD \in Int
  BY <1>2
<1>5. r \in Nat /\ (e - q) * perDay = ep + (-n) * DAY + r /\ (e + q) * perDay <= ep + nD
  <2> DEFINE z == (e - q) * perDay
             w == (e + q) * perDay
             m == (-n) * DAY
  <2>1. z = ep - qp /\ w = ep + qp /\ m = -nD
    BY <1>3, <1>4
  <2> HIDE DEF z, w, m, nD, qp, ep
  <2>2. z = ep + m + r /\ w <= ep + nD
    BY <1>1, <1>3, <1>4, <2>1
  <2> QED BY <1>1, <2>2 DEF z, w, m
<1> QED BY <1>5 DEF q, r

LEMMA ReducedLasts ==
    ASSUME LoanInv, InterestInv, NEW id \in LoanIds, NEW n \in Nat, NEW r, NEW ends,
           NEW p, NEW f, Reduces(r, id, n, ends, p, f)
    PROVE  InterestInv'
<1> DEFINE x == books.loans[id]
           z == RoundedOff(n * DAY, x.owedPerDay)
<1>1. /\ x.active /\ x.owedPerDay # 0 /\ Call(r)
      /\ rounded' = rounded + z
      /\ ends = x.endTimestamp - MulDiv(n, DAY, x.owedPerDay)
      /\ ends \in Nat /\ ends - now > HOUR
      /\ PaidUp(p, books, id)
      /\ Moved(f, p, "loan", -n)
      /\ Renewed(r, f, id, x.owedPerDay, ends, -n)
  BY DEF Reduces
<1>2. Good(books) /\ now \in Nat /\ HOUR \in Nat
  BY StateFacts, LoanAssumption
<1>3. x \in Loans /\ x.owedPerDay \in Nat \ {0} /\ x.endTimestamp \in Nat
  <2>1. x \in Loans
    BY <1>2, LastingNumbers
  <2> HIDE DEF x
  <2> QED BY <1>1, <2>1, LoanNumbers
<1>4. z \in Nat /\ (ends - now) * x.owedPerDay = Promise(x, now) + (-n) * DAY + z
  <2> DEFINE e == x.endTimestamp - now
             y == x.owedPerDay
             q == MulDiv(n, DAY, y)
  <2>1. e \in Int /\ y \in Nat \ {0} /\ q \in Nat /\ DAY \in Nat \ {0}
    <3>1. e \in Int /\ y \in Nat \ {0} /\ DAY \in Nat \ {0}
      BY <1>2, <1>3, LoanAssumption
    <3> HIDE DEF e, y
    <3> QED BY <3>1, MulDivNat
  <2>2. ends - now = e - q
    <3> HIDE DEF q
    <3>1. ends = x.endTimestamp - q
      BY <1>1 DEF q
    <3> QED BY <1>2, <1>3, <2>1, <3>1
  <2>3. Promise(x, now) = e * y
    BY DEF Promise
  <2> HIDE DEF e, y
  <2>4. RoundedOff(n * DAY, y) \in Nat
        /\ (e - q) * y = e * y + (-n) * DAY + RoundedOff(n * DAY, y)
    BY <2>1, TermReduced
  <2> QED BY <2>2, <2>3, <2>4 DEF y
<1> HIDE DEF z
<1>5. ASSUME ~late PROVE Lasting(r, rounded + z, 0)
  <2>1. rounded \in Int /\ Lasting(books, rounded, 0)
    BY <1>5 DEF InterestInv
  <2>2. Lasting(p, rounded, 0) /\ Good(p)
    BY <1>1, <1>2, <2>1, LastingPaidUp DEF PaidUp
  <2>3. Lasting(f, rounded, -n)
    <3>1. Free(p, "loan") \in Int
      BY <2>2, NumbersOf
    <3>2. Good(f) /\ TokensOnly(f, p) /\ Free(f, "loan") - (-n) = Free(p, "loan") - 0
      BY <1>1, <3>1 DEF Moved
    <3> QED BY <2>1, <2>2, <3>2, LastingMoves
  <2>4. /\ f.lender.updatedTimestamp = now /\ f.loans[id].active
        /\ Promise(f.loans[id], now) = Promise(x, now)
    <3>1. f.lender = p.lender /\ f.loans[id] = p.loans[id]
      BY <1>1 DEF Moved, TokensOnly
    <3>2. /\ p.loans[id].owedPerDay = x.owedPerDay /\ p.loans[id].endTimestamp = x.endTimestamp
          /\ p.loans[id].active = x.active /\ p.lender.updatedTimestamp = now
      BY <1>1 DEF PaidUp, SameLoan
    <3> QED BY <1>1, <3>1, <3>2 DEF Promise
  <2>5. now <= ends
    BY <1>1, <1>2
  <2>6. (ends - now) * x.owedPerDay <= Promise(f.loans[id], now) + (-n) * DAY + z
    <3>1. Promise(x, now) \in Int /\ (-n) * DAY \in Int
      BY <1>2, <1>3, LoanNumbers, LoanAssumption
    <3> QED BY <1>4, <2>4, <3>1
  <2>7. Lasting(r, rounded + z, (-n) - (-n))
    <3> DEFINE y == x.owedPerDay
               m == -n
    <3>1. y \in Nat /\ m \in Int
      BY <1>3
    <3>2. Renewed(r, f, id, y, ends, m) /\ (ends - now) * y <= Promise(f.loans[id], now) + m * DAY + z
      BY <1>1, <2>6
    <3>3. Lasting(f, rounded, m)
      BY <2>3
    <3> HIDE DEF y, m, x
    <3>4. Lasting(r, rounded + z, m - m)
      BY <1>1, <1>2, <1>4, <2>1, <2>4, <2>5, <3>1, <3>2, <3>3, LastingRenewed
    <3> QED BY <3>4 DEF m
  <2> QED BY <2>7
<1> QED BY <1>1, <1>4, <1>5, LastsNext

LEMMA ExtendedLasts ==
    ASSUME LoanInv, InterestInv, NEW id \in LoanIds, NEW n \in Nat,
           NEW r, NEW ends, NEW p, NEW t, NEW q, Extends(r, id, n, ends, p, t, q)
    PROVE  InterestInv'
<1> DEFINE x == books.loans[id]
           back == BackInterest(x)
           m == t.deposit - back
<1>1. /\ x.active /\ x.owedPerDay # 0 /\ Call(r) /\ rounded' = rounded
      /\ m \in Nat
      /\ ends = x.endTimestamp + MulDiv(m, DAY, x.owedPerDay)
      /\ ends \in Nat /\ ends - now > HOUR
      /\ PaidUp(p, books, id)
      /\ Taken(t, p, id, n)
      /\ Moved(q, t.books, "loan", -back)
      /\ Renewed(r, q, id, x.owedPerDay, ends, m)
  BY DEF Extends
<1>2. Good(books) /\ now \in Nat /\ HOUR \in Nat
  BY StateFacts, LoanAssumption
<1>3. x \in Loans /\ x.owedPerDay \in Nat \ {0} /\ x.endTimestamp \in Nat
  <2>1. x \in Loans
    BY <1>2, LastingNumbers
  <2> HIDE DEF x
  <2> QED BY <1>1, <2>1, LoanNumbers
<1>4. (ends - now) * x.owedPerDay <= Promise(x, now) + m * DAY + 0
  <2> DEFINE e == x.endTimestamp - now
             y == x.owedPerDay
             k == MulDiv(m, DAY, y)
  <2>0. m \in Nat
    BY <1>1
  <2> HIDE DEF m
  <2>1. e \in Int /\ y \in Nat \ {0} /\ k \in Nat /\ DAY \in Nat \ {0}
    <3>1. e \in Int /\ y \in Nat \ {0} /\ DAY \in Nat \ {0}
      BY <1>2, <1>3, LoanAssumption
    <3> HIDE DEF e, y
    <3> QED BY <2>0, <3>1, MulDivNat
  <2>2. ends - now = e + k
    <3> HIDE DEF k
    <3>1. ends = x.endTimestamp + k
      BY <1>1 DEF k
    <3> QED BY <1>2, <1>3, <2>1, <3>1
  <2>3. Promise(x, now) = e * y
    BY DEF Promise
  <2> HIDE DEF e, y
  <2>4. (e + k) * y <= e * y + m * DAY
    BY <2>0, <2>1, TermReduced
  <2>5. e * y + m * DAY + 0 = e * y + m * DAY
    BY <2>0, <2>1
  <2> QED BY <2>2, <2>3, <2>4, <2>5 DEF y
<1>5. ASSUME ~late PROVE Lasting(r, rounded, 0)
  <2>1. rounded \in Int /\ Lasting(books, rounded, 0)
    BY <1>5 DEF InterestInv
  <2>2. Lasting(p, rounded, 0) /\ Good(p)
    BY <1>1, <1>2, <2>1, LastingPaidUp DEF PaidUp
  <2>3. back = 0 /\ m = t.deposit /\ t.deposit \in Nat
    <3>1. now <= x.endTimestamp
      BY <1>1, <2>1 DEF Lasting, Runs
    <3>2. t.deposit \in Nat
      BY <1>1 DEF Taken
    <3>3. back = 0
      <4> HIDE DEF x
      <4> QED BY <1>2, <1>3, <3>1, NoBackInterest
    <3> QED BY <3>2, <3>3
  <2> HIDE DEF back
  <2>4. PICK c, k : /\ Good(c) /\ TokensOnly(c, p)
                    /\ Spare(c) = Spare(p) + t.deposit
                    /\ Pledged(t.books, c, id, p.loans[id].collateral + k)
    BY <1>1 DEF Taken
  <2>5. m \in Int /\ Free(p, "loan") \in Int /\ p.lender.owedTotal \in Int /\ c.lender = p.lender
    BY <1>1, <2>2, <2>4, LastingNumbers DEF TokensOnly
  <2> HIDE DEF m
  <2>6. Free(c, "loan") = Free(p, "loan") + m
    <3>1. Free(c, "loan") \in Int
      BY <2>4, NumbersOf
    <3> QED BY <2>3, <2>4, <2>5, <3>1 DEF Spare
  <2>7. Lasting(c, rounded, m)
    <3>1. Free(c, "loan") - m = Free(p, "loan") - 0
      BY <2>5, <2>6
    <3> QED BY <2>1, <2>2, <2>4, <2>5, <3>1, LastingMoves
  <2>8. Lasting(t.books, rounded, m) /\ Good(t.books)
    BY <1>2, <2>1, <2>4, <2>5, <2>7, LastingPledged DEF Pledged
  <2>9. Lasting(q, rounded, m)
    <3>1. Free(t.books, "loan") \in Int
      BY <2>8, NumbersOf
    <3>2. Good(q) /\ TokensOnly(q, t.books) /\ Free(q, "loan") = Free(t.books, "loan") + (-back)
      BY <1>1 DEF Moved
    <3>3. Free(q, "loan") - m = Free(t.books, "loan") - m
      BY <2>3, <2>5, <3>1, <3>2
    <3> QED BY <2>1, <2>5, <2>8, <3>2, <3>3, LastingMoves
  <2>10. /\ q.lender.updatedTimestamp = now /\ q.loans[id].active
         /\ Promise(q.loans[id], now) = Promise(x, now)
    <3>1. /\ q.lender = t.books.lender /\ q.loans[id] = t.books.loans[id]
          /\ c.lender = p.lender /\ c.loans[id] = p.loans[id]
      BY <1>1, <2>4 DEF Moved, TokensOnly
    <3>2. /\ p.loans[id].owedPerDay = x.owedPerDay /\ p.loans[id].endTimestamp = x.endTimestamp
          /\ p.loans[id].active = x.active /\ p.lender.updatedTimestamp = now
      BY <1>1 DEF PaidUp, SameLoan
    <3>3. /\ t.books.loans[id].owedPerDay = c.loans[id].owedPerDay
          /\ t.books.loans[id].endTimestamp = c.loans[id].endTimestamp
          /\ t.books.loans[id].active = c.loans[id].active /\ t.books.lender = c.lender
      BY <2>4 DEF Pledged
    <3> QED BY <1>1, <3>1, <3>2, <3>3 DEF Promise
  <2>11. now <= ends
    BY <1>1, <1>2
  <2>12. Lasting(r, rounded + 0, m - m)
    <3> DEFINE y == x.owedPerDay
    <3>1. y \in Nat
      BY <1>3
    <3>2. Renewed(r, q, id, y, ends, m) /\ (ends - now) * y <= Promise(q.loans[id], now) + m * DAY + 0
      BY <1>1, <1>4, <2>10 DEF m
    <3> HIDE DEF y, x
    <3> QED BY <1>1, <1>2, <2>1, <2>5, <2>9, <2>10, <2>11, <3>1, <3>2, LastingRenewed
  <2>13. rounded + 0 = rounded /\ m - m = 0
    BY <2>1, <2>5
  <2> QED BY <2>12, <2>13
<1> QED BY <1>1, <1>5, LastsAsBefore

\* A loan that is rolled over on time: what is bought for its new term lasts,
\* but for what is rounded off of it.
LEMMA LastingRollsOver ==
    ASSUME LoanInv, NEW id \in LoanIds, books.loans[id].active, NEW rate \in Nat,
           NEW q, NEW p, NEW y, NEW t, NEW w, RollsOver(q, id, rate, p, y, t, w),
           NEW s \in Int, Lasting(books, s, 0)
    PROVE  LET x      == books.loans[id]
               perDay == IF x.kind = "trade" THEN Percent(x.principal, rate) ELSE x.owedPerDay
               r      == RoundedOff((RolledOverEnd(x) - now) * perDay, DAY)
           IN  r \in Nat /\ Lasting(q, s + r, 0)
<1> DEFINE x        == books.loans[id]
           perDay   == IF x.kind = "trade" THEN Percent(x.principal, rate) ELSE x.owedPerDay
           ends     == RolledOverEnd(x)
           interest == MulDiv(ends - now, perDay, DAY)
           back     == BackInterest(x)
           r        == RoundedOff((ends - now) * perDay, DAY)
<1>1. /\ perDay \in Nat /\ ends \in Nat /\ ends - now \in Nat
      /\ interest \in Nat /\ back \in Nat
      /\ PaidUp(p, books, id)
      /\ Renewed(y, p, id, perDay, ends, interest)
      /\ Bought(t, y, interest + back)
      /\ Pledged(w, t.books, id, y.loans[id].collateral + (-t.used))
      /\ Moved(q, w, "loan", -back)
  BY DEF RollsOver
<1>2. Good(books) /\ now \in Nat /\ DAY \in Nat
  BY StateFacts, LoanAssumption
<1>3. x \in Loans /\ now <= x.endTimestamp /\ x.active
  BY <1>2, LastingNumbers DEF Lasting, Runs
<1>4. back = 0
  <2> HIDE DEF x
  <2> QED BY <1>2, <1>3, NoBackInterest
<1>5. r \in Nat /\ (ends - now) * perDay = interest * DAY + r
  <2> DEFINE m == ends - now
  <2>1. m \in Nat /\ perDay \in Nat
    BY <1>1
  <2> HIDE DEF m, perDay, r, interest
  <2>2. /\ RoundedOff(m * perDay, DAY) \in Nat
        /\ MulDiv(m, perDay, DAY) * DAY + RoundedOff(m * perDay, DAY) = m * perDay
    BY <2>1, QuotientFits
  <2>3. r = RoundedOff(m * perDay, DAY) /\ interest = MulDiv(m, perDay, DAY)
    BY DEF r, interest, m
  <2>4. (ends - now) * perDay = m * perDay
    BY DEF m
  <2> QED BY <2>2, <2>3, <2>4
<1>6. Lasting(p, s, 0) /\ Good(p)
  BY <1>1, <1>2, LastingPaidUp DEF PaidUp
<1>7. /\ p.loans[id].active /\ p.lender.updatedTimestamp = now
      /\ Promise(p.loans[id], now) \in Nat
  <2>1. /\ p.loans[id].active = x.active /\ p.loans[id].endTimestamp = x.endTimestamp
        /\ p.lender.updatedTimestamp = now /\ p.loans[id] \in Loans
    BY <1>1, <1>6, LastingNumbers DEF PaidUp, SameLoan
  <2> DEFINE z == p.loans[id]
  <2>2. z \in Loans /\ now <= z.endTimestamp
    BY <1>3, <2>1
  <2> HIDE DEF z
  <2>3. Promise(z, now) \in Int /\ Promise(z, now) >= 0
    BY <1>2, <2>2, LoanNumbers
  <2> QED BY <1>3, <2>1, <2>3 DEF z
<1>8. now <= ends /\ interest \in Int
  BY <1>1, <1>2
<1>9. (ends - now) * perDay <= Promise(p.loans[id], now) + interest * DAY + r
  <2> DEFINE u == (ends - now) * perDay
             v == interest * DAY
             z == Promise(p.loans[id], now)
  <2>1. u = v + r /\ v \in Int /\ z \in Nat /\ r \in Nat
    BY <1>2, <1>5, <1>7, <1>8
  <2> HIDE DEF u, v, z, r
  <2> QED BY <2>1 DEF u, v, z
<1> HIDE DEF r, interest, back, ends, perDay
<1>10. Lasting(y, s + r, 0 - interest) /\ Good(y)
  <2>1. Lasting(y, s + r, 0 - interest)
    BY <1>1, <1>2, <1>5, <1>6, <1>7, <1>8, <1>9, LastingRenewed
  <2> QED BY <2>1 DEF Lasting
<1>11. s + r \in Int /\ 0 - interest \in Int /\ 0 \in Int
  BY <1>5, <1>8
<1>12. Lasting(t.books, s + r, 0) /\ Good(t.books)
  <2>1. Good(t.books) /\ TokensOnly(t.books, y) /\ Spare(t.books) = Spare(y) + (interest + back)
    BY <1>1 DEF Bought
  <2>2. {Free(y, "loan"), Free(t.books, "loan"), y.lender.owedTotal} \subseteq Int
    BY <1>10, <2>1, NumbersOf
  <2>3. Free(t.books, "loan") - 0 = Free(y, "loan") - (0 - interest)
    BY <1>4, <1>8, <2>1, <2>2 DEF Spare, TokensOnly
  <2> QED BY <1>10, <1>11, <2>1, <2>3, LastingMoves
<1>13. Lasting(w, s + r, 0) /\ Good(w)
  <2>1. Lasting(w, s + r, 0)
    BY <1>1, <1>2, <1>11, <1>12, LastingPledged
  <2> QED BY <2>1 DEF Lasting
<1>14. Lasting(q, s + r, 0)
  <2>1. Good(q) /\ TokensOnly(q, w) /\ Free(q, "loan") = Free(w, "loan") + (-back)
    BY <1>1 DEF Moved
  <2>2. Free(w, "loan") \in Int
    BY <1>13, NumbersOf
  <2>3. Free(q, "loan") - 0 = Free(w, "loan") - 0
    BY <1>4, <2>1, <2>2
  <2> QED BY <1>11, <1>13, <2>1, <2>3, LastingMoves
<1> QED BY <1>5, <1>14 DEF r, ends, perDay

\* The reward is paid.
LEMMA LastingReward ==
    ASSUME NEW b, NEW s \in Int, Lasting(b, s, 0), NEW id \in LoanIds,
           now \in Nat, price \in Nat \ {0}, SoundLoan(b.loans[id], b.twice),
           PayRolloverReward(b, id).ok
    PROVE  Lasting(PayRolloverReward(b, id), s, 0)
<1> DEFINE x == b.loans[id]
           n == RolloverReward(x.principal, price)
           q == VaultWithdraw(b, "collateral", n)
           w == WithCollateral(q, id, q.loans[id].collateral - n)
<1>0. Good(b)
  BY DEF Lasting
<1>1. x.principal \in Nat /\ x.collateral \in Nat
  BY <1>0, NumbersOf
<1>2. n \in Nat
  <2> HIDE DEF x
  <2> QED BY <1>1, RewardNat
<1>3. CASE n > x.collateral
  <2> DEFINE k == x.collateral
  <2>1. PayRolloverReward(b, id) = ClosedWithSwap(b, id, k, FALSE, 0)
    BY <1>3 DEF PayRolloverReward
  <2>2. k \in Nat
    BY <1>1
  <2> HIDE DEF k, x, n
  <2> QED BY <2>1, <2>2, LastingClosedWithSwap, 0 \in Nat, FALSE \in BOOLEAN
<1>4. CASE ~(n > x.collateral)
  <2>1. PayRolloverReward(b, id) = w
    BY <1>4 DEF PayRolloverReward, WithCollateral
  <2> HIDE DEF n
  <2>2. Follows(q, b)
    BY <1>0, WithdrawShape, GoodIsShaped
  <2>3. q.ok
    <3>1. w.ok
      BY <2>1
    <3> HIDE DEF q
    <3>2. Follows(w, q)
      BY <2>2, CollateralShape DEF Follows
    <3> QED BY <3>1, <3>2 DEF Follows
  <2>4. Moved(q, b, "collateral", -n)
    BY <1>0, <1>2, <2>3, WithdrawEffect DEF Tokens
  <2>5. Good(q) /\ TokensOnly(q, b) /\ Free(q, "loan") - 0 = Free(b, "loan") - 0
    BY <2>4 DEF Moved, Tokens
  <2>6. q.loans[id].collateral - n \in Nat
    BY <1>1, <1>2, <1>4, <2>5 DEF TokensOnly
  <2> DEFINE v == q.loans[id].collateral - n
  <2> HIDE DEF q, x, v
  <2>7. Pledged(w, q, id, v)
    BY <2>5, <2>6, CollateralEffect DEF v
  <2> HIDE DEF w
  <2>8. Lasting(q, s, 0)
    BY <2>5, LastingMoves
  <2>9. Lasting(w, s, 0)
    BY <2>7, <2>8, LastingPledged
  <2> QED BY <2>1, <2>9
<1> QED BY <1>3, <1>4

LEMMA LastingFinalRollover ==
    ASSUME NEW b, NEW s \in Int, Lasting(b, s, 0), NEW id \in LoanIds,
           now \in Nat, price \in Nat \ {0}, SoundLoan(b.loans[id], b.twice),
           FinalizeRollover(b, id).ok
    PROVE  Lasting(FinalizeRollover(b, id), s, 0)
<1> DEFINE x == b.loans[id]
           k == x.collateral
           g == CurrentMargin(x.principal, x.collateral, price) > 3
           r == FinalizeRollover(b, id)
<1>1. \/ r = b
      \/ r = ClosedWithSwap(b, id, k, FALSE, 0)
      \/ r = Require(b, g)
  BY DEF FinalizeRollover
<1>2. Good(b) /\ r.ok
  BY DEF Lasting
<1>3. k \in Nat
  BY <1>2, NumbersOf
<1>4. g \in BOOLEAN
  OBVIOUS
<1> HIDE DEF r, g, k
<1>5. CASE r = ClosedWithSwap(b, id, k, FALSE, 0)
  <2>1. Lasting(r, s, 0)
    BY <1>2, <1>3, <1>5, LastingClosedWithSwap, 0 \in Nat, FALSE \in BOOLEAN
  <2> QED BY <2>1 DEF r
<1>6. CASE r = Require(b, g)
  <2>1. \A h \in BOOLEAN : Require(b, h).ok => Require(b, h) = b
    BY <1>2, RequireEffect DEF Good
  <2>2. r = b
    BY <1>2, <1>4, <1>6, <2>1
  <2> QED BY <2>2 DEF r
<1>7. CASE r = b
  BY <1>7 DEF r
<1> QED BY <1>1, <1>5, <1>6, <1>7

LEMMA RolledOverLasts ==
    ASSUME LoanInv, InterestInv, NEW id \in LoanIds, NEW rate \in Nat, NEW e \in Nat,
           NEW r, NEW w, IsRolledOver(r, id, rate, e, w)
    PROVE  InterestInv'
<1> DEFINE x      == books.loans[id]
           perDay == IF x.kind = "trade" THEN Percent(x.principal, rate) ELSE x.owedPerDay
           z      == RoundedOff((RolledOverEnd(x) - now) * perDay, DAY)
           p      == RolloverPaid(id, rate, e)
<1>1. /\ x.active /\ Call(r) /\ rounded' = rounded + z
      /\ p.ok /\ w.ok /\ r.ok
      /\ w = PayRolloverReward(p, id)
      /\ r = FinalizeRollover(w, id)
      /\ SoundLoan(p.loans[id], p.twice)
      /\ SoundLoan(w.loans[id], w.twice)
  BY DEF IsRolledOver
<1>2. PICK pp, y, t, ww : RollsOver(p, id, rate, pp, y, t, ww)
  BY <1>1, RolloverStages
<1>3. now \in Nat /\ price \in Nat \ {0} /\ Good(books)
  BY StateFacts
<1>4. z \in Nat
  <2> DEFINE m == RolledOverEnd(x) - now
  <2>1. m \in Nat /\ perDay \in Nat
    BY <1>2 DEF RollsOver
  <2> HIDE DEF m, perDay, z
  <2>2. RoundedOff(m * perDay, DAY) \in Nat
    BY <2>1, QuotientFits
  <2> QED BY <2>2 DEF z, m
<1>5. ASSUME ~late PROVE Lasting(r, rounded + z, 0)
  <2>1. rounded \in Int /\ Lasting(books, rounded, 0)
    BY <1>5 DEF InterestInv
  <2>2. Lasting(p, rounded + z, 0)
    <3> HIDE DEF p
    <3> QED BY <1>1, <1>2, <2>1, LastingRollsOver
  <2> HIDE DEF z, p
  <2>3. rounded + z \in Int
    BY <1>4, <2>1
  <2>4. Lasting(w, rounded + z, 0)
    BY <1>1, <1>3, <2>2, <2>3, LastingReward
  <2> QED BY <1>1, <1>3, <2>3, <2>4, LastingFinalRollover
<1> HIDE DEF z
<1> QED BY <1>1, <1>4, <1>5, LastsNext

-----------------------------------------------------------------------------
(* Opening. *)

\* The loan z that is lent is the loan x there was, if that ran.
Lent(z, x) ==
    /\ z.owedPerDay = x.owedPerDay
    /\ z.endTimestamp = 0 \/ z.endTimestamp > now
    /\ x.owedPerDay = 0 \/ (z.endTimestamp = x.endTimestamp /\ z.endTimestamp > now)

\* What remains of the interest is no more than is promised.
LEMMA RemainsPromised ==
    ASSUME NEW x \in Loans, NEW z \in Loans, now \in Nat, Lent(z, x)
    PROVE  RemainingInterest(z) \in Nat /\ RemainingInterest(z) * DAY <= Promise(x, now)
<1> DEFINE R == RemainingInterest(z)
           e == z.endTimestamp - now
           o == z.owedPerDay
<1>1. /\ o \in Nat /\ z.endTimestamp \in Nat /\ DAY \in Nat \ {0}
      /\ x.owedPerDay = 0 => Promise(x, now) = 0
      /\ Promise(x, now) \in Int
  BY LoanNumbers, LoanAssumption
<1>2. R \in Nat
  BY RemainingNat DEF Lent
<1>3. CASE z.endTimestamp = 0
  <2>1. R = 0
    BY <1>3 DEF RemainingInterest
  <2>2. x.owedPerDay = 0
    BY <1>1, <1>3 DEF Lent
  <2> HIDE DEF R
  <2> QED BY <1>1, <1>2, <2>1, <2>2 DEF R
<1>4. CASE z.endTimestamp # 0
  <2>1. e \in Nat /\ R = MulDiv(e, o, DAY)
    BY <1>1, <1>4 DEF Lent, RemainingInterest
  <2>2. e * o = Promise(x, now)
    <3>1. CASE x.owedPerDay = 0
      <4>1. o = 0
        BY <3>1 DEF Lent
      <4> QED BY <1>1, <2>1, <3>1, <4>1
    <3>2. CASE x.owedPerDay # 0
      BY <3>2 DEF Lent, Promise
    <3> QED BY <3>1, <3>2
  <2> HIDE DEF R, e, o
  <2>3. R * DAY <= e * o
    BY <1>1, <2>1, QuotientFits
  <2> QED BY <1>2, <2>2, <2>3 DEF R
<1> QED BY <1>3, <1>4

\* The end of a Torque loan is when what was deposited is used up.
LEMMA TorqueLasts ==
    ASSUME NEW x \in Loans, NEW z \in Loans, NEW y \in Loans, now \in Nat, Lent(z, x),
           NEW i \in Nat, y.owedPerDay # 0,
           y.endTimestamp = now + MulDiv(i + RemainingInterest(z), DAY, y.owedPerDay)
    PROVE  now <= y.endTimestamp /\ Promise(y, now) <= Promise(x, now) + i * DAY + 0
<1> DEFINE R == RemainingInterest(z)
           o == y.owedPerDay
           q == MulDiv(i + R, DAY, o)
<1>1. R \in Nat /\ R * DAY <= Promise(x, now) /\ Promise(x, now) \in Int
  BY RemainsPromised, LoanNumbers
<1>2. o \in Nat \ {0} /\ DAY \in Nat \ {0}
  BY LoanNumbers, LoanAssumption
<1>3. y.endTimestamp = now + q
  OBVIOUS
<1> HIDE DEF R, o
<1>4. q \in Nat /\ q * o <= (i + R) * DAY
  <2> DEFINE c == i + R
  <2>1. c \in Nat /\ DAY \in Nat
    BY <1>1, <1>2
  <2> HIDE DEF c
  <2>2. MulDiv(c, DAY, o) \in Nat /\ MulDiv(c, DAY, o) * o <= c * DAY
    BY <1>2, <2>1, QuotientOf
  <2> QED BY <2>2 DEF c
<1> HIDE DEF q
<1>5. y.endTimestamp - now = q /\ now <= y.endTimestamp
  BY <1>3, <1>4
<1>6. Promise(y, now) = q * o
  BY <1>5 DEF Promise, o
<1>7. (i + R) * DAY = i * DAY + R * DAY /\ i * DAY \in Int /\ R * DAY \in Int /\ q * o \in Int
  BY <1>1, <1>2, <1>4
<1> DEFINE iD == i * DAY
           rD == R * DAY
           qo == q * o
           m == (i + R) * DAY
           px == Promise(x, now)
<1>8. qo <= m /\ m = iD + rD /\ rD <= px /\ {qo, iD, rD, px} \subseteq Int
  BY <1>1, <1>4, <1>7
<1> HIDE DEF iD, rD, qo, m, px
<1>9. qo <= px + iD + 0
  BY <1>8
<1> QED BY <1>5, <1>6, <1>9 DEF qo, px, iD

\* Interest for the rest of its term is deposited for a margin trade, rounded
\* down.
LEMMA TradeLasts ==
    ASSUME NEW x \in Loans, NEW z \in Loans, NEW y \in Loans, now \in Nat, Lent(z, x),
           NEW p \in Nat, y.owedPerDay = z.owedPerDay + p, y.endTimestamp >= now,
           z.endTimestamp # 0 => y.endTimestamp = z.endTimestamp
    PROVE  LET e == y.endTimestamp - now
           IN  /\ RoundedOff(e * p, DAY) \in Nat
               /\ Promise(y, now) <= Promise(x, now) + MulDiv(e, p, DAY) * DAY
                                         + RoundedOff(e * p, DAY)
<1> DEFINE e == y.endTimestamp - now
           o == z.owedPerDay
           a == MulDiv(e, p, DAY) * DAY
           r == RoundedOff(e * p, DAY)
           px == Promise(x, now)
<1>1. e \in Nat /\ o \in Nat /\ px \in Int
  BY LoanNumbers
<1>2. px = e * o
  <2>1. CASE x.owedPerDay = 0
    <3>1. o = 0 /\ px = 0
      BY <2>1, LoanNumbers DEF Lent
    <3> HIDE DEF e, o, px
    <3> QED BY <1>1, <3>1
  <2>2. CASE x.owedPerDay # 0
    <3>1. z.endTimestamp = x.endTimestamp /\ z.endTimestamp # 0 /\ o = x.owedPerDay
      BY <2>2 DEF Lent
    <3> QED BY <3>1 DEF Promise
  <2> QED BY <2>1, <2>2
<1>3. Promise(y, now) = e * (o + p)
  BY DEF Promise
<1>4. a + r = e * p /\ r \in Nat /\ a \in Int
  <2> HIDE DEF e
  <2>1. MulDiv(e, p, DAY) \in Nat /\ DAY \in Nat
    BY <1>1, QuotientFits, LoanAssumption
  <2> QED BY <1>1, <2>1, QuotientFits
<1> HIDE DEF e, o, a, r, px
<1>5. e * (o + p) = e * o + e * p /\ e * o \in Int /\ e * p \in Int
  BY <1>1
<1>6. e * (o + p) = px + a + r
  BY <1>1, <1>2, <1>4, <1>5
<1>7. px + a + r <= px + a + r
  BY <1>1, <1>4
<1>8. r \in Nat /\ Promise(y, now) <= px + a + r
  BY <1>3, <1>4, <1>6, <1>7
<1> QED BY <1>8 DEF r, a, px, e

\* What was lent and sent is there.
LEMMA LastingFunds ==
    ASSUME LoanInv, NEW n \in Nat, NEW i \in Nat, NEW k \in Nat,
           OpeningFunds(n, i, k).ok,
           NEW s \in Int, Lasting(books, s, 0)
    PROVE  Lasting(OpeningFunds(n, i, k), s, i)
<1> DEFINE h == OpeningFunds(n, i, k)
<1>1. PICK f, g : FundsCome(h, i, k, f, g)
  BY StateFacts, FundsStages
<1> HIDE DEF h
<1>2. /\ Settled.ok /\ SameButCash(f, Settled)
      /\ Moved(g, f, "loan", i) /\ Moved(h, g, "collateral", k)
  BY <1>1 DEF FundsCome
<1>3. Lasting(f, s, 0) /\ Good(f)
  <2>1. Lasting(Settled, s, 0)
    BY <1>2, LastingCash
  <2> QED BY <1>2, <2>1, LastingSameButCash DEF SameButCash
<1>4. Lasting(g, s, i) /\ Good(g)
  <2>1. Free(f, "loan") \in Int
    BY <1>3, LastingNumbers
  <2>2. Good(g) /\ TokensOnly(g, f) /\ Free(g, "loan") - i = Free(f, "loan") - 0
    BY <1>2, <2>1 DEF Moved
  <2> QED BY <1>3, <2>2, LastingMoves
<1>5. Lasting(h, s, i)
  <2>1. Good(h) /\ TokensOnly(h, g) /\ Free(h, "loan") - i = Free(g, "loan") - i
    BY <1>2 DEF Moved, Tokens
  <2> QED BY <1>4, <2>1, LastingMoves
<1> QED BY <1>5 DEF h

\* The terms of a new loan begin.
LEMMA LastingBegun ==
    ASSUME NEW h, NEW S \in Int, NEW i \in Int, Lasting(h, S, i), now \in Nat,
           NEW id \in LoanIds, NEW kind \in Kinds, NEW n \in Nat, NEW rate \in Nat, NEW ti \in Nat,
           NEW l, Lends(l, h, id, kind, n),
           NEW s, Begins(s, l, id, n), BeginsFor(s, l, id, n, rate, ti)
    PROVE  LET r == IF kind = "torque" THEN 0 ELSE
                    RoundedOff((s.books.loans[id].endTimestamp - now) * Percent(n, rate), DAY)
           IN  r \in Nat /\ Lasting(s.books, S + r, i - s.amount)
<1> DEFINE b == s.books
           x == h.loans[id]
           z == l.loans[id]
           y == b.loans[id]
           m == s.amount
           p == Percent(n, rate)
           r == IF kind = "torque" THEN 0 ELSE RoundedOff((y.endTimestamp - now) * p, DAY)
           owed == InterestUnpaid(h, now)
<1>1. /\ Good(h) /\ Good(l) /\ Good(b) /\ m \in Nat
      /\ OnlyLoan(b, h, id) /\ l.lender = h.lender
      /\ h.lender.updatedTimestamp <= now
  BY DEF Lasting, Lends, Begins, OnlyLoan
<1>2. /\ x \in Loans /\ z \in Loans /\ y \in Loans
      /\ h.lender.owedTotal \in Nat /\ b.lender.owedTotal \in Nat
      /\ Free(h, "loan") \in Int /\ Free(b, "loan") \in Int
  BY <1>1, LastingNumbers
<1>3. Lent(z, x) /\ z.kind = kind /\ y.active
  BY DEF Lends, Begins, Lent
<1>4. p \in Nat
  BY PercentNat
<1>5. now <= y.endTimestamp /\ r \in Nat /\ Promise(y, now) <= Promise(x, now) + m * DAY + r
  <2>1. CASE kind = "torque"
    <3>1. /\ y.owedPerDay # 0 /\ m = ti
          /\ y.endTimestamp = now + MulDiv(ti + RemainingInterest(z), DAY, y.owedPerDay)
      BY <1>3, <2>1 DEF BeginsFor
    <3> HIDE DEF x, y, z, m
    <3>2. now <= y.endTimestamp /\ Promise(y, now) <= Promise(x, now) + ti * DAY + 0
      BY <1>2, <1>3, <3>1, TorqueLasts
    <3> QED BY <2>1, <3>1, <3>2
  <2>2. CASE kind # "torque"
    <3>1. /\ y.endTimestamp = (IF z.endTimestamp = 0 THEN now + maxLoanTerm ELSE z.endTimestamp)
          /\ y.endTimestamp >= now
          /\ y.owedPerDay = z.owedPerDay + p
          /\ m = MulDiv(y.endTimestamp - now, p, DAY)
      BY <1>3, <2>2 DEF BeginsFor
    <3>2. r = RoundedOff((y.endTimestamp - now) * p, DAY)
      BY <2>2
    <3> HIDE DEF x, y, z, m, p, r
    <3>3. /\ RoundedOff((y.endTimestamp - now) * p, DAY) \in Nat
          /\ Promise(y, now) <= Promise(x, now) + MulDiv(y.endTimestamp - now, p, DAY) * DAY
                                    + RoundedOff((y.endTimestamp - now) * p, DAY)
      BY <1>2, <1>3, <1>4, <3>1, TradeLasts
    <3>4. y.endTimestamp \in Nat
      BY <1>2, LoanNumbers
    <3> QED BY <3>1, <3>2, <3>3, <3>4
  <2> QED BY <2>1, <2>2
<1>6. /\ owed \in 0..h.lender.owedTotal
      /\ owed * DAY <= (now - h.lender.updatedTimestamp) * h.lender.owedPerDay
  BY <1>1, PaidNumbers
<1>7. b.lender.owedTotal = h.lender.owedTotal - owed + m
  <2>1. b.lender.owedTotal = PayInterest(l, now).lender.owedTotal + m
    BY DEF BeginsFor
  <2>2. PayInterest(l, now).lender.owedTotal = l.lender.owedTotal - InterestUnpaid(l, now)
    BY <1>1, PaidNumbers
  <2>3. InterestUnpaid(l, now) = owed
    BY <1>1 DEF InterestUnpaid
  <2> QED BY <1>1, <2>1, <2>2, <2>3
<1>8. /\ y.owedPerDay - b.lender.owedPerDay = x.owedPerDay - h.lender.owedPerDay
      /\ b.lender.updatedTimestamp = now /\ y.updatedTimestamp = now
      /\ b.twice = h.twice
      /\ Spare(b) = Spare(h) - m
  <2>1. Spare(l) = Spare(h)
    BY DEF Lends, Spare, Free
  <2> QED BY <2>1 DEF Begins, Lends, BeginsFor
<1> HIDE DEF owed, r
<1>9. Changes(b, h, id, owed, m, r)
  <2>1. b.lender.owedTotal = Max2(0, h.lender.owedTotal - owed + m)
    BY <1>1, <1>2, <1>6, <1>7 DEF Max2
  <2>2. Runs(y) /\ now <= now
    BY <1>3, <1>5 DEF Runs
  <2> QED BY <1>1, <1>5, <1>6, <1>8, <2>1, <2>2 DEF Changes
<1>10. Free(b, "loan") - (i - m) = Free(h, "loan") - i - owed + m
  <2>1. owed \in Int /\ m \in Int
    BY <1>1, <1>2, <1>6
  <2>2. /\ Free(b, "loan") = Spare(b) + b.lender.owedTotal
        /\ Free(h, "loan") = Spare(h) + h.lender.owedTotal
        /\ Spare(b) \in Int /\ Spare(h) \in Int
    BY <1>1, FreeIs
  <2> HIDE DEF b, m
  <2> QED BY <1>2, <1>7, <1>8, <2>1, <2>2
<1>11. Lasting(b, S + r, i - m)
  <2>1. m \in Int /\ i - m \in Int
    BY <1>1
  <2> HIDE DEF b, m
  <2> QED BY <1>5, <1>9, <1>10, <2>1, LastingChanges
<1> QED BY <1>5, <1>11 DEF r

LEMMA OpenedLasts ==
    ASSUME LoanInv, InterestInv, NEW id \in LoanIds, NEW rate \in Nat,
           NEW r, NEW kind, NEW n, NEW i, NEW k, NEW ti, NEW f, NEW v,
           Opens(r, id, kind, n, i, k, rate, ti, f, v)
    PROVE  InterestInv'
<1> DEFINE s == BeginOpen(id, kind, n, i, k, rate, ti)
           z == IF kind = "torque" THEN 0 ELSE
                RoundedOff((s.books.loans[id].endTimestamp - now) * Percent(n, rate), DAY)
           m == i - s.amount
           h == OpeningFunds(n, i, k)
           l == OpeningLent(id, kind, n, i, k)
<1>1. /\ Call(r)
      /\ rounded' = IF kind = "torque" THEN rounded ELSE rounded +
             RoundedOff((s.books.loans[id].endTimestamp - now) * Percent(n, rate), DAY)
      /\ kind \in Kinds /\ n \in Nat \ {0} /\ i \in Nat /\ k \in Nat /\ ti \in Nat
      /\ s.books.ok
      /\ Good(f) /\ TokensOnly(f, s.books)
      /\ Free(f, "loan") = Free(s.books, "loan") - m
      /\ Pledged(r, f, id, f.loans[id].collateral + v)
  BY DEF Opens
<1>2. /\ h.ok
      /\ Lends(l, h, id, kind, n)
      /\ Begins(s, l, id, n)
      /\ BeginsFor(s, l, id, n, rate, ti)
  BY <1>1, BegunStages
<1>3. now \in Nat /\ n \in Nat /\ i \in Int
  BY <1>1, StateFacts
<1>4. rounded' = rounded + z
  BY <1>1 DEF InterestInv
<1>5. z \in Nat
  <2>1. CASE kind = "torque"
    BY <2>1
  <2>2. CASE kind # "torque"
    <3> DEFINE e == s.books.loans[id].endTimestamp - now
               p == Percent(n, rate)
    <3>1. p \in Nat
      BY <1>3, PercentNat
    <3>2. e \in Nat
      <4>1. l.loans[id].kind = kind /\ Good(s.books)
        BY <1>2 DEF Lends, Begins
      <4>2. s.books.loans[id].endTimestamp >= now
        BY <1>2, <2>2, <4>1 DEF BeginsFor
      <4>3. s.books.loans[id].endTimestamp \in Nat
        <5> HIDE DEF s
        <5> QED BY <4>1, NumbersOf
      <4> QED BY <1>3, <4>2, <4>3
    <3>3. z = RoundedOff(e * p, DAY)
      BY <2>2
    <3> HIDE DEF e, p, z
    <3> QED BY <3>1, <3>2, <3>3, QuotientFits
  <2> QED BY <2>1, <2>2
<1>6. ASSUME ~late PROVE Lasting(r, rounded + z, 0)
  <2>1. rounded \in Int /\ Lasting(books, rounded, 0)
    BY <1>6 DEF InterestInv
  <2>2. Lasting(h, rounded, i)
    <3> HIDE DEF s, l, m, z
    <3> QED BY <1>1, <1>2, <1>3, <2>1, LastingFunds
  <2>3. Lasting(s.books, rounded + z, m)
    <3> HIDE DEF h, l, s
    <3> QED BY <1>1, <1>2, <1>3, <2>1, <2>2, LastingBegun
  <2>4. m \in Int /\ rounded + z \in Int /\ Free(s.books, "loan") \in Int
    <3>1. s.amount \in Nat /\ Good(s.books)
      BY <1>2 DEF Begins
    <3> HIDE DEF s, z
    <3> QED BY <1>3, <1>5, <2>1, <3>1, NumbersOf
  <2> HIDE DEF m, z, s, h, l
  <2>5. Lasting(f, rounded + z, 0)
    <3>1. Free(f, "loan") - 0 = Free(s.books, "loan") - m
      BY <1>1, <2>4
    <3> QED BY <1>1, <2>3, <2>4, <3>1, LastingMoves
  <2> QED BY <1>1, <1>3, <2>4, <2>5, LastingPledged
<1> HIDE DEF z
<1> QED BY <1>1, <1>4, <1>5, <1>6, LastsNext

-----------------------------------------------------------------------------
(* Every call and every tick keeps it. *)

LEMMA PoolLasts == ASSUME LoanInv, InterestInv, PoolCall PROVE InterestInv'
<1>1. PICK s \in Suppliers : \/ \E a \in Deposits : Mint(s, a)
                             \/ \E a \in Burns : Burn(s, a)
  BY DEF PoolCall
<1>2. Deposits \subseteq Nat /\ Burns \subseteq Nat
  BY PoolAssumption
<1>3. CASE \E a \in Deposits : Mint(s, a)
  <2>1. PICK a \in Deposits : Mint(s, a)
    BY <1>3
  <2> QED BY <1>2, <2>1, MintIs, OnlyCashLasts
<1>4. CASE \E a \in Burns : Burn(s, a)
  <2>1. PICK a \in Burns : Burn(s, a)
    BY <1>4
  <2> QED BY <1>2, <2>1, BurnIs, OnlyCashLasts
<1> QED BY <1>1, <1>3, <1>4

LEMMA OpenLasts == ASSUME LoanInv, InterestInv, OpenCall PROVE InterestInv'
<1>1. PICK id \in LoanIds, rate \in Rates : \/ \E ask \in Borrows : Borrow(id, ask, rate)
                                            \/ \E ask \in Trades : MarginTrade(id, ask, rate)
  BY DEF OpenCall
<1>2. /\ rate \in Nat
      /\ Borrows \subseteq [withdraw : Nat, duration : Nat, collateral : Nat]
      /\ Trades \subseteq [loanToken : Nat, collateral : Nat, leverage : Nat \ {0}]
  BY PoolAssumption
<1>3. CASE \E ask \in Borrows : Borrow(id, ask, rate)
  <2>1. PICK ask \in Borrows : Borrow(id, ask, rate)
    BY <1>3
  <2> QED BY <1>2, <2>1, BorrowOpens, OpenedLasts
<1>4. CASE \E ask \in Trades : MarginTrade(id, ask, rate)
  <2>1. PICK ask \in Trades : MarginTrade(id, ask, rate)
    BY <1>4
  <2> QED BY <1>2, <2>1, TradeOpens, OpenedLasts
<1> QED BY <1>1, <1>3, <1>4

LEMMA ClosingLasts == ASSUME LoanInv, InterestInv, CloseCall PROVE InterestInv'
<1>1. PICK id \in LoanIds, n \in Adjustments :
          \/ CloseWithDeposit(id, n)
          \/ \E c \in BOOLEAN, e \in Buffers : CloseWithSwap(id, n, c, e)
          \/ Liquidate(id, n)
  BY DEF CloseCall
<1>2. n \in Nat \ {0} /\ Buffers \subseteq Nat
  BY PoolAssumption
<1>3. CASE CloseWithDeposit(id, n)
  BY <1>2, <1>3, CloseWithDepositRepays, RepaidLasts
<1>4. CASE \E c \in BOOLEAN, e \in Buffers : CloseWithSwap(id, n, c, e)
  <2>1. PICK c \in BOOLEAN, e \in Buffers : CloseWithSwap(id, n, c, e)
    BY <1>4
  <2> QED BY <1>2, <2>1, ClosedWithSwapLasts
<1>5. CASE Liquidate(id, n)
  BY <1>2, <1>5, LiquidateRepays, RepaidLasts
<1> QED BY <1>1, <1>3, <1>4, <1>5

LEMMA MaintenanceLasts == ASSUME LoanInv, InterestInv, MaintenanceCall PROVE InterestInv'
<1>1. PICK id \in LoanIds :
          \/ \E rate \in RolloverRates, e \in Buffers : Rollover(id, rate, e)
          \/ \E steps \in Reductions :
                ReduceLoanDuration(id, MulDiv(steps, books.loans[id].owedPerDay, DAY))
          \/ \E n \in Adjustments : DepositCollateral(id, n) \/ WithdrawCollateral(id, n)
          \/ \E n \in Extensions :
                \E c \in BOOLEAN, e \in Buffers : ExtendLoanDuration(id, n, c, e)
  BY DEF MaintenanceCall
<1>2. /\ RolloverRates \subseteq Nat /\ Buffers \subseteq Nat /\ Adjustments \subseteq Nat
      /\ Extensions \subseteq Nat /\ Reductions \subseteq Nat
  BY PoolAssumption
<1>3. CASE \E rate \in RolloverRates, e \in Buffers : Rollover(id, rate, e)
  <2>1. PICK rate \in RolloverRates, e \in Buffers : Rollover(id, rate, e)
    BY <1>3
  <2> QED BY <1>2, <2>1, RolloverIs, RolledOverLasts
<1>4. CASE \E steps \in Reductions :
               ReduceLoanDuration(id, MulDiv(steps, books.loans[id].owedPerDay, DAY))
  <2>1. PICK steps \in Reductions :
               ReduceLoanDuration(id, MulDiv(steps, books.loans[id].owedPerDay, DAY))
    BY <1>4
  <2> DEFINE n == MulDiv(steps, books.loans[id].owedPerDay, DAY)
  <2>2. n \in Nat
    <3>1. books.loans[id].owedPerDay \in Nat
      BY StateFacts, NumbersOf
    <3>2. DAY \in Nat \ {0}
      BY LoanAssumption
    <3> QED BY <1>2, <3>1, <3>2, MulDivNat
  <2>3. ReduceLoanDuration(id, n)
    BY <2>1
  <2> HIDE DEF n
  <2> QED BY <2>2, <2>3, ReduceRenews, ReducedLasts
<1>5. CASE \E n \in Adjustments : DepositCollateral(id, n) \/ WithdrawCollateral(id, n)
  <2>1. PICK n \in Adjustments : DepositCollateral(id, n) \/ WithdrawCollateral(id, n)
    BY <1>5
  <2> QED BY <1>2, <2>1, DepositCollateralMoves, WithdrawCollateralMoves,
                        MovedCollateralLasts
<1>6. CASE \E n \in Extensions :
               \E c \in BOOLEAN, e \in Buffers : ExtendLoanDuration(id, n, c, e)
  <2>1. PICK n \in Extensions, c \in BOOLEAN, e \in Buffers : ExtendLoanDuration(id, n, c, e)
    BY <1>6
  <2> QED BY <1>2, <2>1, ExtendRenews, ExtendedLasts
<1> QED BY <1>1, <1>3, <1>4, <1>5, <1>6

LEMMA InitLasts == ASSUME Init PROVE InterestInv
<1>1. /\ books = NoBooks /\ now = 1 /\ rounded = 0
  BY DEF Init
<1>2. BooksHold(NoBooks) /\ now \in Nat
  BY <1>1, InitKeeps, StateFacts
<1>3. /\ NoBooks.lender.updatedTimestamp = 0 /\ NoBooks.lender.owedTotal = 0
      /\ Free(NoBooks, "loan") = 0 /\ ~NoBooks.twice
  BY DEF NoBooks, Free, Tokens
<1>4. ASSUME NEW id \in LoanIds
      PROVE  /\ Runs(NoBooks.loans[id]) /\ NoBooks.loans[id].updatedTimestamp <= now
             /\ Promises(NoBooks, 0)[id] = 0
  <2>1. /\ ~NoBooks.loans[id].active /\ NoBooks.loans[id].owedPerDay = 0
        /\ NoBooks.loans[id].updatedTimestamp = 0 /\ NoBooks.loans[id].endTimestamp = 0
    BY DEF NoBooks, NoLoan
  <2> QED BY <1>1, <2>1 DEF Runs, Promises, Promise
<1>5. Promised(NoBooks, 0) = 0
  BY <1>4, SumZero, LoanAssumption DEF Promised
<1>6. /\ Good(NoBooks)
      /\ NoBooks.lender.owedPerDay = SumFunctionOnSet(OwedPerDays(NoBooks), LoanIds)
  BY <1>2 DEF BooksHold
<1>7. DAY \in Nat
  BY LoanAssumption
<1>8. Lasting(NoBooks, 0, 0)
  BY <1>1, <1>3, <1>4, <1>5, <1>6, <1>7 DEF Lasting
<1> QED BY <1>1, <1>8 DEF InterestInv

\* Time goes by: a loan that is open beyond its end makes it late.
LEMMA TickLasts == ASSUME LoanInv, InterestInv, Tick PROVE InterestInv'
<1>1. /\ books' = books /\ now' = now + 1 /\ rounded' = rounded
      /\ late' = (late \/ \E id \in Active : now' > books.loans[id].endTimestamp)
  BY DEF Tick
<1>2. rounded \in Nat /\ now \in Nat /\ Good(books)
  BY StateFacts DEF InterestInv
<1>3. ASSUME ~late' PROVE Lasting(books, rounded, 0)'
  <2>1. ~late /\ \A id \in Active : ~(now' > books.loans[id].endTimestamp)
    BY <1>1, <1>3
  <2>2. Lasting(books, rounded, 0)
    BY <2>1 DEF InterestInv
  <2>3. ASSUME NEW id \in LoanIds
        PROVE  Runs(books.loans[id])' /\ books.loans[id].updatedTimestamp <= now'
    <3>1. /\ books.loans[id].endTimestamp \in Nat /\ books.loans[id].updatedTimestamp \in Nat
          /\ books.loans[id].updatedTimestamp <= now /\ Runs(books.loans[id])
      BY <1>2, <2>2, LastingNumbers, LoanNumbers DEF Lasting
    <3>2. books.loans[id].active => now' <= books.loans[id].endTimestamp
      BY <1>1, <1>2, <2>1, <3>1 DEF Active
    <3> QED BY <1>1, <1>2, <3>1, <3>2 DEF Runs
  <2>4. books.lender.updatedTimestamp <= now'
    <3>1. books.lender.updatedTimestamp \in Nat
      BY <1>2, LastingNumbers
    <3> QED BY <1>1, <1>2, <2>2, <3>1 DEF Lasting
  <2> QED BY <1>1, <2>2, <2>3, <2>4 DEF Lasting, Good, Promised, Promises, Promise,
                                        OwedPerDays, Free
<1> QED BY <1>1, <1>2, <1>3 DEF InterestInv

LEMMA StutterLasts == ASSUME InterestInv, UNCHANGED vars PROVE InterestInv'
<1>1. books' = books /\ now' = now /\ rounded' = rounded /\ late' = late
  BY DEF vars, worldVars
<1> QED BY <1>1 DEF InterestInv, Lasting, Runs, Good, Promised, Promises, Promise,
                    OwedPerDays, Free

\* The invariant of the interest is inductive, given that of the books.
LEMMA InterestInvInductive == LoanInv /\ InterestInv /\ [Next]_vars => InterestInv'
<1> SUFFICES ASSUME LoanInv, InterestInv, [Next]_vars PROVE InterestInv'
  OBVIOUS
<1>1. CASE Tick
  BY <1>1, TickLasts
<1>2. CASE PoolCall
  BY <1>2, PoolLasts
<1>3. CASE OpenCall
  BY <1>3, OpenLasts
<1>4. CASE CloseCall
  BY <1>4, ClosingLasts
<1>5. CASE MaintenanceCall
  BY <1>5, MaintenanceLasts
<1>6. CASE \E token \in Tokens : WithdrawFees(token)
  BY <1>6, WithdrawFeesIs, FeesLeaveLasts
<1>7. CASE UNCHANGED vars
  BY <1>7, StutterLasts
<1> QED BY <1>1, <1>2, <1>3, <1>4, <1>5, <1>6, <1>7 DEF Next

LEMMA InterestIsInvariant == Spec => [](LoanInv /\ InterestInv)
<1>1. Init => InterestInv
  BY InitLasts
<1>2. LoanInv /\ InterestInv /\ [Next]_vars => InterestInv'
  BY InterestInvInductive
<1>3. Spec => []LoanInv
  BY LoanBooksAreInvariant
<1> QED BY <1>1, <1>2, <1>3, PTL DEF Spec

-----------------------------------------------------------------------------
(* What is there can be paid: steps that do not revert. *)

LEMMA RequireOk ==
    ASSUME NEW b, Good(b), NEW c, c PROVE Require(b, c) = b
<1>1. b \in Books /\ b.ok
  BY DEF Good
<1>2. b.ok = TRUE
  BY <1>1 DEF Books
<1>3. Require(b, c) = [b EXCEPT !.ok = TRUE]
  BY <1>2 DEF Require
<1> QED BY <1>1, <1>2, <1>3 DEF Books

LEMMA WithdrawOk ==
    ASSUME NEW b, Good(b), NEW t \in Tokens, NEW n \in Nat, n <= b.held[t]
    PROVE  /\ VaultWithdraw(b, t, n).ok
           /\ VaultWithdraw(b, t, n).held[t] = b.held[t] - n
<1>1. VaultWithdraw(b, t, n) = [b EXCEPT !.held[t] = @ - n]
  BY RequireOk DEF VaultWithdraw
<1>2. b \in Books /\ b.ok
  BY DEF Good
<1> QED BY <1>1, <1>2 DEF Books

LEMMA PayLenderOk ==
    ASSUME NEW b, Good(b), NEW n \in Nat, n <= b.held["loan"]
    PROVE  /\ PayLender(b, n).ok
           /\ PayLender(b, n).held["loan"] = b.held["loan"] - n
<1> DEFINE w == VaultWithdraw(b, "loan", n)
<1>1. w.ok /\ w.held["loan"] = b.held["loan"] - n
  BY WithdrawOk DEF Tokens
<1>2. PayLender(b, n) = [w EXCEPT !.cash = @ + n]
  BY DEF PayLender
<1>3. w \in Books
  BY <1>1, WithdrawEffect DEF Moved, Good, Tokens
<1> HIDE DEF w
<1> QED BY <1>1, <1>2, <1>3 DEF Books

LEMMA TransferOk ==
    ASSUME NEW b, Good(b), NEW n \in Nat, n <= b.held["loan"]
    PROVE  /\ PayInterestTransfer(b, n).ok
           /\ PayInterestTransfer(b, n).held["loan"] >= b.held["loan"] - n
<1> DEFINE fee == Percent(n, lendingFeePercent)
           h == HoldFee(b, "loan", fee)
<1>1. fee \in Nat /\ fee <= n
  <2>1. lendingFeePercent \in Nat /\ lendingFeePercent <= 100
    BY LoanAssumption
  <2> QED BY <2>1, PercentNat
<1>2. b.held["loan"] \in Nat
  BY DEF Good, Books, Tokens
<1> HIDE DEF fee
<1>3. Good(h) /\ h.held = b.held
  <2>1. Good(h)
    BY <1>1, FeeEffect DEF Moved, Tokens
  <2>2. h.held = b.held
    BY DEF HoldFee, Good, Books
  <2> QED BY <2>1, <2>2
<1>4. PayInterestTransfer(b, n) = PayLender(h, n - fee)
  BY DEF PayInterestTransfer, fee
<1>5. n - fee \in Nat /\ n - fee <= h.held["loan"]
  BY <1>1, <1>2, <1>3
<1> HIDE DEF h
<1>6. /\ PayLender(h, n - fee).ok
      /\ PayLender(h, n - fee).held["loan"] = h.held["loan"] - (n - fee)
  <2> DEFINE m == n - fee
  <2>1. m \in Nat /\ m <= h.held["loan"]
    BY <1>5
  <2> HIDE DEF m
  <2>2. PayLender(h, m).ok /\ PayLender(h, m).held["loan"] = h.held["loan"] - m
    BY <1>3, <2>1, PayLenderOk
  <2> QED BY <2>2 DEF m
<1> QED BY <1>1, <1>2, <1>3, <1>4, <1>6

LEMMA PayInterestOk ==
    ASSUME NEW b, Good(b), now \in Nat, b.lender.updatedTimestamp <= now,
           InterestUnpaid(b, now) <= b.held["loan"]
    PROVE  /\ PayInterest(b, now).ok
           /\ PayInterest(b, now).held["loan"] >= b.held["loan"] - InterestUnpaid(b, now)
<1> DEFINE owed == InterestUnpaid(b, now)
           l == [b.lender EXCEPT !.owedTotal = @ - owed, !.updatedTimestamp = now]
           c == [b EXCEPT !.lender = l]
<1>1. b.lender \in Lenders /\ b.lender.owedTotal \in Nat
  BY DEF Good, Books, Lenders
<1>2. owed \in Nat /\ owed <= b.lender.owedTotal
  BY <1>1, PaidNumbers
<1>3. PayInterest(b, now) = PayInterestTransfer(c, owed)
  BY DEF PayInterest
<1>4. owed <= b.held["loan"]
  OBVIOUS
<1> HIDE DEF owed
<1>5. l \in Lenders
  <2> DEFINE o == b.lender.owedTotal - owed
  <2>1. o \in Nat
    BY <1>1, <1>2
  <2>2. l = [b.lender EXCEPT !.owedTotal = o, !.updatedTimestamp = now]
    OBVIOUS
  <2> HIDE DEF o, l
  <2> QED BY <1>1, <2>1, <2>2 DEF Lenders
<1> HIDE DEF l
<1>6. Good(c) /\ c.held = b.held
  BY <1>5 DEF Good, Books
<1> HIDE DEF c
<1>7. PayInterestTransfer(c, owed).ok /\ PayInterestTransfer(c, owed).held["loan"] >= c.held["loan"] - owed
  BY <1>2, <1>4, <1>6, TransferOk
<1> QED BY <1>3, <1>6, <1>7 DEF owed

\* All of a loan is settled: what is refunded is there.
LEMMA SettleOk ==
    ASSUME NEW b, Good(b), NEW id \in LoanIds, now \in Nat, b.lender.updatedTimestamp <= now,
           PayInterest(b, now).ok,
           b.loans[id].updatedTimestamp <= now, now <= b.loans[id].endTimestamp,
           b.loans[id].owedPerDay <= b.lender.owedPerDay,
           b.loans[id].principal <= b.lender.principalTotal
    PROVE  LET s == SettleInterest(b, id, b.loans[id].principal, now)
           IN  /\ s.books.ok
               /\ s.books.held = PayInterest(b, now).held
               /\ s.refund = MulDiv(b.loans[id].endTimestamp - now, b.loans[id].owedPerDay, DAY)
<1> DEFINE x      == b.loans[id]
           close  == x.principal
           paid   == PayInterest(b, now)
           loan   == paid.loans[id]
           time   == Min2(now, loan.endTimestamp)
           perDay == OwedPerDayRefund(loan, close)
           refund == MulDiv(loan.endTimestamp - time, perDay, DAY)
           partly == close < loan.principal
           f      == SettleFeeReward(paid, id, time)
           cond   == /\ perDay <= paid.lender.owedPerDay
                     /\ close <= paid.lender.principalTotal
                     /\ partly => refund <= loan.depositTotal
           left   == Require(f, cond)
           dep    == DepositLeft(loan, refund, partly)
           s      == SettleInterest(b, id, close, now)
<1>1. s.refund = refund /\ s.books =
        [left EXCEPT
             !.loans[id].owedPerDay = @ - perDay,
             !.loans[id].depositTotal = dep,
             !.lender.owedPerDay = @ - perDay,
             !.lender.principalTotal = @ - close,
             !.lender.owedTotal = Max2(0, @ - refund)]
  BY DEF SettleInterest
<1>2. InterestPaid(paid, b, now)
  BY PayInterestEffect
<1>3. /\ Good(paid) /\ loan = x /\ x \in Loans
      /\ paid.lender.owedPerDay = b.lender.owedPerDay
      /\ paid.lender.principalTotal = b.lender.principalTotal
  BY <1>2 DEF InterestPaid, Good, Books
<1> HIDE DEF paid
<1>4. /\ x.principal \in Nat /\ x.endTimestamp \in Nat
      /\ x.updatedTimestamp \in Nat /\ now <= x.endTimestamp
  BY <1>3 DEF Loans
<1>5. time = now /\ perDay = x.owedPerDay /\ ~partly
  BY <1>3, <1>4 DEF Min2, OwedPerDayRefund
<1>6. f = PaidAt(paid, id, now) /\ Good(f) /\ f.held = paid.held
  <2> DEFINE y == [x EXCEPT !.updatedTimestamp = now]
  <2>1. paid.loans[id].updatedTimestamp <= now
    BY <1>3
  <2>2. Require(paid, paid.loans[id].updatedTimestamp <= now) = paid
    BY <1>3, <2>1, RequireOk
  <2>3. f = PaidAt(paid, id, now)
    BY <1>5, <2>2 DEF SettleFeeReward, PaidAt
  <2>4. paid.lender \in Lenders /\ y \in Loans
    BY <1>3 DEF Good, Books, Loans
  <2>5. PaidAt(paid, id, now) = Replaced(paid, id, y, paid.lender)
    BY <1>3 DEF Good, Books, Replaced, PaidAt
  <2> HIDE DEF y, f, x
  <2>6. Replaces(Replaced(paid, id, y, paid.lender), paid, id, y, paid.lender)
    BY <1>3, <2>4, LoanReplaced
  <2> QED BY <2>3, <2>5, <2>6 DEF Replaces
<1>7. cond
  BY <1>3, <1>5
<1> HIDE DEF f, cond, dep, perDay, refund, s
<1>8. left = f
  BY <1>6, <1>7, RequireOk
<1>9. s.books.ok /\ s.books.held = f.held
  <2> HIDE DEF left, loan, partly
  <2> QED BY <1>1, <1>6, <1>8 DEF Good, Books
<1>10. s.refund = MulDiv(x.endTimestamp - now, x.owedPerDay, DAY)
  BY <1>1, <1>3, <1>5 DEF refund
<1> QED BY <1>6, <1>9, <1>10 DEF s, paid

-----------------------------------------------------------------------------
(* What the invariant says of the interest. *)

\* What is to come is what is promised: loans that do not run any more promise
\* nothing, as long as they are closed on time.
LEMMA ToComeIsPromised ==
    ASSUME LoanInv, InterestInv, ~late
    PROVE  InterestToCome = Promised(books, books.lender.updatedTimestamp)
<1> DEFINE u == books.lender.updatedTimestamp
           g == Promises(books, u)
           f == [id \in StillRuns |->
                    (books.loans[id].endTimestamp - u) * books.loans[id].owedPerDay]
<1>1. Good(books) /\ now \in Nat /\ Lasting(books, rounded, 0)
  BY StateFacts DEF InterestInv
<1>2. u \in Nat /\ u <= now
  BY <1>1, LastingNumbers DEF Lasting
<1>3. /\ \A id \in LoanIds : g[id] = Promise(books.loans[id], u) /\ g[id] \in Int
      /\ StillRuns \in SUBSET LoanIds /\ IsFiniteSet(LoanIds)
  <2>1. u \in Int
    BY <1>2
  <2> HIDE DEF u
  <2> QED BY <1>1, <2>1, PromisesAre, LoanAssumption DEF StillRuns, Active
<1>4. \A id \in StillRuns : f[id] \in Int /\ g[id] = f[id]
  BY <1>3 DEF Promise
<1>5. ASSUME NEW id \in LoanIds \ StillRuns PROVE g[id] = 0
  <2> DEFINE x == books.loans[id]
  <2>1. x \in Loans /\ Runs(x)
    BY <1>1, LastingNumbers DEF Lasting
  <2>2. ~x.active \/ ~(x.endTimestamp > u)
    BY <1>5 DEF StillRuns, Active
  <2> HIDE DEF x
  <2>3. x.endTimestamp \in Nat /\ x.owedPerDay \in Nat
    BY <2>1, LoanNumbers
  <2>4. x.endTimestamp - u = 0 \/ x.owedPerDay = 0
    BY <1>1, <1>2, <2>1, <2>2, <2>3 DEF Runs
  <2>5. Promise(x, u) = 0
    BY <1>2, <2>3, <2>4, ProductFacts DEF Promise
  <2> QED BY <1>3, <2>5 DEF x
<1>6. InterestToCome = SumFunctionOnSet(f, StillRuns)
  BY SumOfFunction DEF InterestToCome
<1> HIDE DEF f, g
<1>7. SumFunctionOnSet(g, LoanIds) = SumFunctionOnSet(f, StillRuns)
  BY <1>3, <1>4, <1>5, SumOnPart
<1> QED BY <1>6, <1>7 DEF Promised, g

LEMMA InterestLasts == ASSUME LoanInv, InterestInv PROVE OwedTotalLastsOnTime
<1>1. ASSUME ~late PROVE InterestToCome <= books.lender.owedTotal * DAY + rounded
  <2>1. Lasting(books, rounded, 0)
    BY <1>1 DEF InterestInv
  <2> QED BY <1>1, <2>1, ToComeIsPromised DEF Lasting
<1> QED BY <1>1 DEF OwedTotalLastsOnTime

LEMMA NothingIsMissing == ASSUME LoanInv, InterestInv PROVE InterestAccounted
<1>1. ASSUME ~late, ~books.twice PROVE 0 <= Missing /\ Missing * DAY <= rounded
  <2>1. Lasting(books, rounded, 0) /\ Good(books)
    BY <1>1, StateFacts DEF InterestInv
  <2>2. /\ books.held["loan"] \in Nat /\ books.fees["loan"] \in Nat
        /\ books.lender.owedTotal \in Nat
    BY <2>1 DEF Good, Books, Lenders, Tokens
  <2>3. Missing = books.lender.owedTotal - (Free(books, "loan") - 0)
    BY <2>2 DEF Missing, Free
  <2>4. Missing * DAY <= rounded
    BY <1>1, <2>1, <2>3 DEF Lasting
  <2>5. 0 <= Missing
    BY <1>1, <2>2 DEF LoanInv, NoTokensStuck, Missing
  <2> QED BY <2>4, <2>5
<1> QED BY <1>1 DEF InterestAccounted

LEMMA QuotientBelow ==
    ASSUME NEW a \in Nat, NEW c \in Nat \ {0}, NEW n \in Nat, a \div c <= n
    PROVE  a < (n + 1) * c
<1> DEFINE k == a \div c
<1>1. c \in Nat /\ c > 0
  OBVIOUS
<1>2. a = c * k + (a % c) /\ a % c \in 0..(c - 1) /\ k \in Int
  BY <1>1
<1>3. k <= n
  OBVIOUS
<1> HIDE DEF k
<1>4. k * c <= n * c
  BY <1>1, <1>2, <1>3, ProductFacts
<1>5. (n + 1) * c = n * c + c /\ n * c \in Int /\ c * k = k * c /\ k * c \in Int
  BY <1>1, <1>2
<1> QED BY <1>1, <1>2, <1>4, <1>5

\* What is owed by now, and what a loan is refunded, is there.
LEMMA OwedAndRefundHeld ==
    ASSUME LoanInv, InterestInv, ~late, ~books.twice, rounded \div DAY <= books.fees["loan"],
           NEW id \in LoanIds, books.loans[id].active
    PROVE  LET refund == MulDiv(books.loans[id].endTimestamp - now,
                                books.loans[id].owedPerDay, DAY)
           IN  /\ refund \in Nat /\ InterestUnpaid(books, now) \in Nat
               /\ InterestUnpaid(books, now) + refund <= books.held["loan"]
<1> DEFINE x      == books.loans[id]
           u      == books.lender.updatedTimestamp
           owed   == InterestUnpaid(books, now)
           t      == (now - u) * books.lender.owedPerDay
           refund == MulDiv(x.endTimestamp - now, x.owedPerDay, DAY)
           p      == Promised(books, u)
           q      == Promised(books, now)
           held   == books.held["loan"]
           fees   == books.fees["loan"]
<1>1. Good(books) /\ now \in Nat /\ Lasting(books, rounded, 0) /\ rounded \in Nat
  BY StateFacts DEF InterestInv
<1>2. /\ u \in Nat /\ u <= now /\ DAY \in Nat \ {0} /\ x \in Loans
      /\ books.lender.owedPerDay \in Nat
      /\ \A j \in LoanIds : Runs(books.loans[j])
  BY <1>1, LastingNumbers DEF Lasting
<1>3. held \in Nat /\ fees \in Nat /\ Free(books, "loan") = held - fees
  BY <1>1 DEF Good, Books, Tokens, Free
<1>4. owed \in Nat /\ owed * DAY <= t
  BY <1>1, <1>2, PaidNumbers
<1>5. refund \in Nat /\ refund * DAY <= Promise(x, now)
  <2>1. now <= x.endTimestamp /\ x.endTimestamp \in Nat /\ x.owedPerDay \in Nat
    BY <1>2, LoanNumbers DEF Runs
  <2> DEFINE d == x.endTimestamp - now
             w == x.owedPerDay
  <2>2. d \in Nat /\ w \in Nat
    BY <1>1, <2>1
  <2>3. Promise(x, now) = d * w /\ refund = MulDiv(d, w, DAY)
    BY DEF Promise
  <2> HIDE DEF d, w, refund
  <2> QED BY <2>2, <2>3, QuotientFits
<1>6. q \in Nat /\ Promise(x, now) \in Nat /\ Promise(x, now) <= q
  BY <1>1, <1>2, PromisedNat
<1>7. q = p - t /\ p \in Int /\ t \in Int
  <2>1. u \in Int /\ now \in Int
    BY <1>1, <1>2
  <2>2. books.lender.owedPerDay = SumFunctionOnSet(OwedPerDays(books), LoanIds)
    BY <1>1 DEF Lasting
  <2>3. t \in Int
    BY <1>2, <2>1
  <2> HIDE DEF u
  <2>4. q = p - t
    BY <1>1, <2>1, <2>2, PromisedLater
  <2>5. p \in Int
    BY <1>1, <2>1, PromisesAre
  <2> QED BY <2>3, <2>4, <2>5
<1>8. p <= (held - fees) * DAY + rounded
  <2>1. p <= (Free(books, "loan") - 0) * DAY + rounded
    BY <1>1 DEF Lasting
  <2>2. Free(books, "loan") - 0 = held - fees
    BY <1>3
  <2> QED BY <2>1, <2>2
<1>9. rounded < (fees + 1) * DAY
  BY <1>1, <1>2, <1>3, QuotientBelow
<1> HIDE DEF owed, refund, p, q, t, held, fees, x, u
<1>10. (owed + refund) * DAY < (held + 1) * DAY
  <2> DEFINE oD == owed * DAY
             rD == refund * DAY
             hD == held * DAY
             fD == fees * DAY
  <2>1. oD \in Int /\ rD \in Int /\ hD \in Int /\ fD \in Int
    BY <1>2, <1>3, <1>4, <1>5
  <2>2. (owed + refund) * DAY = oD + rD
    BY <1>2, <1>4, <1>5
  <2>3. (held - fees) * DAY = hD - fD /\ (fees + 1) * DAY = fD + DAY
        /\ (held + 1) * DAY = hD + DAY
    BY <1>2, <1>3
  <2>4. oD <= t /\ rD <= Promise(x, now)
    BY <1>4, <1>5
  <2>5. p <= hD - fD + rounded /\ rounded < fD + DAY
    BY <1>8, <1>9, <2>3
  <2> HIDE DEF oD, rD, hD, fD
  <2>6. oD + rD < hD + DAY
    BY <1>1, <1>2, <1>6, <1>7, <2>1, <2>4, <2>5
  <2> QED BY <2>2, <2>3, <2>6
<1>11. owed + refund <= held
  <2> DEFINE a == owed + refund
             b == held + 1
  <2>1. a \in Int /\ b \in Int
    BY <1>3, <1>4, <1>5
  <2> HIDE DEF a, b
  <2>2. b <= a => b * DAY <= a * DAY
    BY <1>2, <2>1, ProductFacts
  <2>3. a * DAY \in Int /\ b * DAY \in Int /\ a * DAY < b * DAY
    BY <1>2, <1>10, <2>1 DEF a, b
  <2>4. a < b
    BY <2>1, <2>2, <2>3
  <2> QED BY <1>3, <1>4, <1>5, <2>4 DEF a, b
<1> QED BY <1>4, <1>5, <1>11 DEF owed, refund, held, x

\* No more is lent out than the loans say.
LEMMA LentPart ==
    ASSUME LoanInv, ~books.twice, NEW id \in LoanIds
    PROVE  books.loans[id].principal <= books.lender.principalTotal
<1>1. /\ Good(books) /\ IsFiniteSet(LoanIds)
      /\ books.lender.principalTotal = SumFunctionOnSet(Principals(books), LoanIds)
  BY StateFacts, LoanAssumption DEF BooksHold
<1>2. \A j \in LoanIds : /\ Principals(books)[j] \in Nat
                         /\ Principals(books)[j] = books.loans[j].principal
  BY <1>1, LoansNat
<1>3. \A j \in LoanIds : Principals(books)[j] <= SumFunctionOnSet(Principals(books), LoanIds)
  BY <1>1, <1>2, SumOfNats
<1> QED BY <1>1, <1>2, <1>3

LEMMA RepaymentsSettle == ASSUME LoanInv, InterestInv PROVE LoansCanBeRepaid
<1> SUFFICES ASSUME ~late, ~books.twice, rounded \div DAY <= books.fees["loan"],
                    NEW id \in Active
             PROVE  SettleInterestToPrincipal(books, id, books.loans[id].principal, now).books.ok
  BY DEF LoansCanBeRepaid
<1> DEFINE x       == books.loans[id]
           n       == x.principal
           refund  == MulDiv(x.endTimestamp - now, x.owedPerDay, DAY)
           paid    == PayInterest(books, now)
           s       == SettleInterest(books, id, n, now)
           applied == Min2(s.refund, n)
           w       == VaultWithdraw(s.books, "loan", s.refund - applied)
           q       == PayLender(w, applied)
<1>1. id \in LoanIds /\ x.active
  BY DEF Active
<1>2. /\ Good(books) /\ now \in Nat /\ books.lender.updatedTimestamp <= now
      /\ BooksHold(books) /\ Lasting(books, rounded, 0)
  BY StateFacts DEF InterestInv
<1>3. /\ refund \in Nat /\ InterestUnpaid(books, now) \in Nat
      /\ InterestUnpaid(books, now) + refund <= books.held["loan"]
  BY <1>1, OwedAndRefundHeld
<1>4. books.held["loan"] \in Nat
  BY <1>2 DEF Good, Books, Tokens
<1>5. x \in Loans /\ n \in Nat
  BY <1>1, <1>2 DEF Good, Books, Loans
<1>6. paid.ok /\ paid.held["loan"] >= books.held["loan"] - InterestUnpaid(books, now)
  <2>1. InterestUnpaid(books, now) <= books.held["loan"]
    BY <1>3, <1>4
  <2> QED BY <1>2, <2>1, PayInterestOk
<1>7. /\ s.books.ok /\ s.books.held = paid.held /\ s.refund = refund
  <2>1. x.updatedTimestamp <= now /\ now <= x.endTimestamp
    BY <1>1, <1>2 DEF Lasting, Runs
  <2>2. x.owedPerDay <= books.lender.owedPerDay
    BY <1>1, <1>2, OwedPart
  <2>3. x.principal <= books.lender.principalTotal
    BY <1>1, LentPart
  <2> QED BY <1>1, <1>2, <1>6, <2>1, <2>2, <2>3, SettleOk
<1> HIDE DEF refund, s
<1>8. Good(s.books)
  <2>1. Settles(s.books, books, id, n, now)
    BY <1>1, <1>2, <1>5, <1>7, SettleEffect DEF s
  <2> QED BY <2>1 DEF Settles
<1>9. s.books.held["loan"] \in Nat /\ s.refund \in Nat /\ s.refund <= s.books.held["loan"]
  <2>1. s.books.held["loan"] \in Nat
    BY <1>8 DEF Good, Books, Tokens
  <2> QED BY <1>3, <1>4, <1>6, <1>7, <2>1
<1>10. applied \in Nat /\ s.refund - applied \in Nat
  BY <1>5, <1>9 DEF Min2
<1> HIDE DEF applied, n
<1>11. w.ok /\ w.held["loan"] = s.books.held["loan"] - (s.refund - applied) /\ Good(w)
  <2> DEFINE c == s.books
             m == s.refund - applied
  <2>1. Good(c) /\ m \in Nat /\ m <= c.held["loan"]
    BY <1>8, <1>9, <1>10
  <2> HIDE DEF c, m
  <2>2. VaultWithdraw(c, "loan", m).ok /\ VaultWithdraw(c, "loan", m).held["loan"] = c.held["loan"] - m
    BY <2>1, WithdrawOk DEF Tokens
  <2>3. Good(VaultWithdraw(c, "loan", m))
    BY <2>1, <2>2, WithdrawEffect DEF Tokens, Moved
  <2> QED BY <2>2, <2>3 DEF c, m
<1> HIDE DEF w
<1>12. q.ok
  <2>1. applied <= w.held["loan"]
    BY <1>9, <1>10, <1>11
  <2> QED BY <1>10, <1>11, <2>1, PayLenderOk
<1>13. SettleInterestToPrincipal(books, id, n, now).books = q
  BY DEF SettleInterestToPrincipal, w, applied, s
<1> QED BY <1>12, <1>13 DEF n

\* As long as loans are closed or rolled over on time, what was deposited for
\* interest (LenderInterest, mixins/InterestUser) lasts to the end of every
\* open loan, but for what divisions rounded off of the deposits.
THEOREM DepositsLastOnTime == Spec => []OwedTotalLastsOnTime
<1>1. LoanInv /\ InterestInv => OwedTotalLastsOnTime
  BY InterestLasts
<1> QED BY <1>1, InterestIsInvariant, PTL

\* As long as loans are closed or rolled over on time, the protocol holds all
\* the interest deposited and all its fees, but for what was rounded off.
THEOREM InterestStaysAccounted == Spec => []InterestAccounted
<1>1. LoanInv /\ InterestInv => InterestAccounted
  BY NothingIsMissing
<1> QED BY <1>1, InterestIsInvariant, PTL

\* As long as loans are closed or rolled over on time and the fees held cover
\* what was rounded off, settling a loan in full (_settleInterestToPrincipal)
\* does not revert, whatever happened before.
THEOREM LoansStayRepayable == Spec => []LoansCanBeRepaid
<1>1. LoanInv /\ InterestInv => LoansCanBeRepaid
  BY RepaymentsSettle
<1> QED BY <1>1, InterestIsInvariant, PTL
=============================================================================
