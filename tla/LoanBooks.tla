------------------------------ MODULE LoanBooks ------------------------------
(***************************************************************************)
(* The protocol's books of the loans of one pool, and the steps every      *)
(* operation on loans is put together from (modules/LoanOpenings,          *)
(* modules/LoanClosingsShared, mixins/InterestUser, mixins/FeesHelper,     *)
(* mixins/LiquidationHelper, swaps/SwapsUser).                             *)
(*                                                                         *)
(* A step maps books to books.  A requirement that is not met clears `ok`, *)
(* and an operation whose books are not ok reverts.  Interest is paid in   *)
(* advance: it is deposited, and handed to the lender as time goes by.     *)
(* Percentages are of 100, where the code has 10^20.                       *)
(***************************************************************************)
EXTENDS Integers, FiniteSetsExt

CONSTANTS
    LoanIds,
    DAY, HOUR, MONTH,                 \* in steps of the clock
    maxLoanTerm,                      \* of a margin trade; a Torque loan has none
    lendingFeePercent, tradingFeePercent, borrowingFeePercent,
    liquidationIncentivePercent,
    liquidationSurplus,               \* the 5% a liquidation leaves beyond the margin
    maintenanceMargin,
    rolloverBaseReward, rolloverFlexFeePercent,
    TINY_AMOUNT,                      \* the loan token is WRBTC
    paySwapExcessToBorrowerThreshold,
    PRECISION                         \* of the price

ASSUME LoanAssumption ==
    /\ IsFiniteSet(LoanIds)
    /\ {DAY, HOUR, MONTH, maxLoanTerm, PRECISION} \subseteq Nat \ {0}
    /\ lendingFeePercent \in 0..100
    /\ tradingFeePercent \in 0..100
    /\ borrowingFeePercent \in 0..100
    /\ {liquidationIncentivePercent, liquidationSurplus, maintenanceMargin,
        rolloverBaseReward, rolloverFlexFeePercent, TINY_AMOUNT,
        paySwapExcessToBorrowerThreshold} \subseteq Nat
    /\ liquidationIncentivePercent < maintenanceMargin + liquidationSurplus

Tokens == {"loan", "collateral"}
Kinds  == {"torque", "trade"}      \* indefinite and fixed term

Min2(a, b) == IF a < b THEN a ELSE b
Max2(a, b) == IF a < b THEN b ELSE a
CeilDiv(a, b) == (a + b - 1) \div b
MulDiv(a, b, c) == (a * b) \div c
Percent(amount, percent) == MulDiv(amount, percent, 100)

\* A loan with its LoanInterest.
NoLoan ==
    [kind |-> "none", active |-> FALSE, principal |-> 0, collateral |-> 0,
     startTimestamp |-> 0, endTimestamp |-> 0,
     owedPerDay |-> 0, depositTotal |-> 0, updatedTimestamp |-> 0]

NoBooks ==
    [loans  |-> [id \in LoanIds |-> NoLoan],
     lender |-> [principalTotal |-> 0, owedPerDay |-> 0, owedTotal |-> 0,
                 updatedTimestamp |-> 0],
     held   |-> [t \in Tokens |-> 0],      \* tokens of the protocol
     fees   |-> [t \in Tokens |-> 0],      \* of them, fees (all kinds)
     cash   |-> 0,                         \* loan tokens of the pool
     twice  |-> FALSE,                     \* history: one closing settled twice
     ok     |-> TRUE]

-----------------------------------------------------------------------------
(* Tokens in and out; a transfer without the tokens reverts.  As elsewhere, *)
(* the definition before one may be a slip of it that a run must notice.   *)

Require(b, condition) == [b EXCEPT !.ok = @ /\ condition]

VaultDeposit(b, token, amount) == [b EXCEPT !.held[token] = @ + amount]

VaultWithdraw(b, token, amount) ==
    [Require(b, amount <= b.held[token]) EXCEPT !.held[token] = @ - amount]

PayLender(b, amount) ==
    [VaultWithdraw(b, "loan", amount) EXCEPT !.cash = @ + amount]

HoldFee(b, token, fee) == [b EXCEPT !.fees[token] = @ + fee]

TradingFee(amount)   == CeilDiv(amount * tradingFeePercent, 100)
BorrowingFee(amount) == CeilDiv(amount * borrowingFeePercent, 100)

-----------------------------------------------------------------------------
(* Prices: loan tokens for PRECISION collateral tokens. *)

ToLoan(amount, price)       == MulDiv(amount, price, PRECISION)
ToCollateral(amount, price) == MulDiv(amount, PRECISION, price)

IsTiny(loanAmount) == loanAmount <= TINY_AMOUNT

CurrentMargin(principal, collateral, price) ==
    LET worth == ToLoan(collateral, price)
    IN  IF principal # 0 /\ worth >= principal
        THEN MulDiv(worth - principal, 100, principal)
        ELSE 0

MaxDrawdown(principal, collateral, margin, price) ==
    LET needed == ToCollateral(principal, price)
    IN  Max2(0, collateral - (needed + Percent(needed, margin)))

RequiredCollateral(kind, newPrincipal, margin, price) ==
    LET part == Percent(ToCollateral(newPrincipal, price), margin)
    IN  IF kind = "torque" THEN MulDiv(part, 100, margin) + part ELSE part

\* How much may be liquidated, and what is seized for that.
LiquidationAmounts(loan, margin, price) ==
    LET desired == maintenanceMargin + liquidationSurplus
        missing == Percent(loan.principal, desired + 100) -
                   ToLoan(loan.collateral, price)
        liquidatable == Min2(loan.principal,
            MulDiv(missing, 100, desired - liquidationIncentivePercent))
        seizable == Min2(loan.collateral,
            MulDiv(liquidatable * (liquidationIncentivePercent + 100), PRECISION, price)
                \div 100)
    IN  IF margin <= liquidationIncentivePercent
        THEN [liquidatable |-> loan.principal, seizable |-> loan.collateral]
        ELSE [liquidatable |-> liquidatable, seizable |-> seizable]

RolloverReward(principal, price) ==
    ToCollateral(rolloverBaseReward, price) * 2
    + Percent(ToCollateral(principal, price), rolloverFlexFeePercent)

-----------------------------------------------------------------------------
(* Swaps.  The exchange trades at the oracle's price.  Where an amount to  *)
(* be received is required, `buffer` more is sold than is needed, as far   *)
(* as there is; the fee is then taken from what is received.               *)

Exchanged(from, amount, price) ==
    IF from = "collateral" THEN ToLoan(amount, price) ELSE ToCollateral(amount, price)

Needed(from, required, price) ==
    IF from = "collateral" THEN CeilDiv(required * PRECISION, price)
                           ELSE CeilDiv(required * price, PRECISION)

SellAll(b, from, to, amount, fee, price) ==
    LET received == Exchanged(from, amount - fee, price)
        sold == VaultDeposit(VaultWithdraw(b, from, amount - fee), to, received)
    IN  [books |-> Require(HoldFee(sold, from, fee), received > 0),
         received |-> received, used |-> amount]

BuyRequired(b, from, to, max, required, fee, price, buffer) ==
    LET used     == Min2(max, Needed(from, required + fee, price) + buffer)
        received == Exchanged(from, used, price)
        bought   == VaultDeposit(VaultWithdraw(b, from, used), to, received)
    IN  [books |-> Require(HoldFee(bought, to, fee), received >= required + fee),
         received |-> received - fee, used |-> used]

LoanSwap(b, from, to, min, max, required, price, buffer) ==
    IF required = 0
    THEN SellAll(b, from, to, min, TradingFee(min), price)
    ELSE BuyRequired(b, from, to, max, required, TradingFee(required), price, buffer)

DoCollateralSwap(b, loan, min, principalNeeded, required, price, buffer) ==
    LET swap == LoanSwap(b, "collateral", "loan", min, loan.collateral,
                         required, price, buffer)
    IN  [swap EXCEPT !.books = Require(@, /\ swap.received >= principalNeeded
                                          /\ swap.used <= loan.collateral)]

-----------------------------------------------------------------------------
(* Interest. *)

\* Owed by now, but never more than is left of what was deposited.
InterestUnpaid(b, now) ==
    Min2(MulDiv(now - b.lender.updatedTimestamp, b.lender.owedPerDay, DAY),
         b.lender.owedTotal)

PaidWithFee(b, amount) ==
    PayLender(HoldFee(b, "loan", Percent(amount, lendingFeePercent)), amount)
PayInterestTransfer(b, amount) ==
    LET lendingFee == Percent(amount, lendingFeePercent)
    IN  PayLender(HoldFee(b, "loan", lendingFee), amount - lendingFee)

PayInterest(b, now) ==
    LET owed == InterestUnpaid(b, now)
    IN  PayInterestTransfer([b EXCEPT !.lender.owedTotal = @ - owed,
                                      !.lender.updatedTimestamp = now], owed)

\* The reward itself, in SOV, is left out.
SettleFeeReward(b, id, interestTime) ==
    [Require(b, b.loans[id].updatedTimestamp <= interestTime)
        EXCEPT !.loans[id].updatedTimestamp = interestTime]

\* A loan runs to another end, at another interest per day, for which `deposit`
\* more is deposited.
NewTerms(b, id, perDay, ends, deposit) ==
    [b EXCEPT !.loans[id].owedPerDay = perDay,
              !.loans[id].endTimestamp = ends,
              !.loans[id].depositTotal = @ + deposit,
              !.lender.owedPerDay = @ + perDay - b.loans[id].owedPerDay,
              !.lender.owedTotal = @ + deposit]

\* The interest per day that ends with the part of the loan that is closed.
OwedPerDayRefund(loan, closePrincipal) ==
    IF closePrincipal < loan.principal
    THEN MulDiv(loan.owedPerDay, closePrincipal, loan.principal)
    ELSE loan.owedPerDay

DepositNotCleared(loan, refund, partly) == loan.depositTotal - refund
DepositLeft(loan, refund, partly) == IF partly THEN loan.depositTotal - refund ELSE 0

SettleInterest(b, id, closePrincipal, now) ==
    LET paid   == PayInterest(b, now)
        loan   == paid.loans[id]
        time   == Min2(now, loan.endTimestamp)
        perDay == OwedPerDayRefund(loan, closePrincipal)
        refund == MulDiv(loan.endTimestamp - time, perDay, DAY)
        partly == closePrincipal < loan.principal
        left   == Require(SettleFeeReward(paid, id, time),
                      /\ perDay <= paid.lender.owedPerDay
                      /\ closePrincipal <= paid.lender.principalTotal
                      /\ partly => refund <= loan.depositTotal)
    IN  [refund |-> refund,
         books |-> [left EXCEPT
             !.loans[id].owedPerDay = @ - perDay,
             !.loans[id].depositTotal = DepositLeft(loan, refund, partly),
             !.lender.owedPerDay = @ - perDay,
             !.lender.principalTotal = @ - closePrincipal,
             !.lender.owedTotal = Max2(0, @ - refund)]]

\* The refund goes to the lender as principal, what is beyond to the borrower.
SettleInterestToPrincipal(b, id, closeAmount, now) ==
    LET settled == SettleInterest(b, id, closeAmount, now)
        applied == Min2(settled.refund, closeAmount)
    IN  [lessInterest |-> closeAmount - applied,
         books |-> PayLender(VaultWithdraw(settled.books, "loan",
                                           settled.refund - applied), applied)]
=============================================================================
