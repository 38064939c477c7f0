------------------------------- MODULE Lending -------------------------------
(***************************************************************************)
(* One loan pool (iToken, connectors/loantoken) and the protocol that      *)
(* keeps its loans (modules/Loan...): suppliers mint and burn, borrowers   *)
(* open Torque loans and margin trades, extend, reduce, close and are      *)
(* liquidated or rolled over, while time goes by and the price moves.      *)
(*                                                                         *)
(* Each call is one action: the reentrancy guards let no other call into   *)
(* it.  Calls by those who may not make them revert, so callers are left   *)
(* out, and so are the wallets tokens come from and go to.                 *)
(***************************************************************************)
EXTENDS LoanBooks

CONSTANTS
    Suppliers,
    WEI,                   \* precision of the iToken's price
    initialPrice,
    Dust,                  \* what a burn may not leave behind
    Deposits, Burns,       \* amounts suppliers ask for
    Borrows,               \* Torque loans asked for: [withdraw, duration, collateral]
    Trades,                \* margin trades: [loanToken, collateral, leverage]
    minInitialMargin,
    Rates, RolloverRates,  \* interest per 100 and day, as utilisation has it:
                           \* of an opening, and of a rollover
    Adjustments,           \* amounts of the other calls
    Extensions,            \* deposits for longer terms
    Reductions,            \* steps by which terms are reduced
    Buffers, Prices,
    MaxCalls, MaxTime      \* bounds

ASSUME PoolAssumption ==
    /\ IsFiniteSet(Suppliers)
    /\ {WEI, initialPrice} \subseteq Nat \ {0}
    /\ {Dust, minInitialMargin} \subseteq Nat
    /\ Deposits \cup Burns \cup Adjustments \cup Extensions \subseteq Nat \ {0}
    /\ Prices \subseteq Nat \ {0}
    /\ Reductions \subseteq Nat \ {0}
    /\ Rates \cup RolloverRates \cup Buffers \subseteq Nat
    /\ Borrows \subseteq [withdraw : Nat, duration : Nat, collateral : Nat]
    /\ Trades \subseteq [loanToken : Nat, collateral : Nat, leverage : Nat \ {0}]

VARIABLES
    books,
    balances,              \* supplier |-> iTokens
    lastSettleTime,
    now,
    price,
    late,                  \* history: a loan was open beyond its end
    rounded,               \* history: what deposits were rounded down by, in
                           \* parts of a token, DAY of which make one
    calls

poolVars  == <<balances, lastSettleTime>>
worldVars == <<now, price, late>>
vars      == <<books, poolVars, worldVars, rounded, calls>>

Init ==
    /\ books = NoBooks
    /\ balances = [s \in Suppliers |-> 0]
    /\ lastSettleTime = 0
    /\ now = 1
    /\ price \in Prices
    /\ late = FALSE
    /\ rounded = 0
    /\ calls = 0

Active == {id \in LoanIds : books.loans[id].active}

Tick ==
    /\ now < MaxTime
    /\ now' = now + 1
    /\ late' = (late \/ \E id \in Active : now' > books.loans[id].endTimestamp)
    /\ price' \in Prices
    /\ UNCHANGED <<books, poolVars, rounded, calls>>

\* A call that does not revert.
Call(b) ==
    /\ calls < MaxCalls
    /\ calls' = calls + 1
    /\ b.ok
    /\ books' = b
    /\ UNCHANGED worldVars

\* What a division loses.  A deposit is rounded down and lasts a little less
\* than it should, and a term is reduced by a little less than what is returned.
RoundedOff(a, b) == a % b

-----------------------------------------------------------------------------
(* The pool. *)

TotalSupply == SumFunction(balances)

\* The pool collects its interest once in a block.
NotSettled == books
Settled == IF lastSettleTime = now THEN books ELSE PayInterest(books, now)

TotalAssetSupply(b, interestUnpaid) ==
    IF TotalSupply = 0 THEN 0
    ELSE b.cash + b.lender.principalTotal + interestUnpaid

PriceOf(assetSupply) ==
    IF TotalSupply = 0 THEN initialPrice ELSE MulDiv(assetSupply, WEI, TotalSupply)

\* What any call in this state would be told.
TokenPrice ==
    PriceOf(TotalAssetSupply(books,
        IF lastSettleTime = now THEN 0
        ELSE Percent(InterestUnpaid(books, now), 100 - lendingFeePercent)))

Mint(s, depositAmount) ==
    LET currentPrice == PriceOf(TotalAssetSupply(Settled, 0))
        mintAmount   == MulDiv(depositAmount, WEI, currentPrice)
    IN  /\ currentPrice # 0
        /\ Call([Settled EXCEPT !.cash = @ + depositAmount])
        /\ balances' = [balances EXCEPT ![s] = @ + mintAmount]
        /\ lastSettleTime' = now
        /\ UNCHANGED rounded

\* A rest of dust is burnt with it.
Burn(s, burnAmount) ==
    LET amount == Min2(burnAmount, balances[s])    \* 2^256 - 1 stands for all
        paid   == MulDiv(amount, PriceOf(TotalAssetSupply(Settled, 0)), WEI)
        rest   == balances[s] - amount
    IN  /\ amount # 0
        /\ Call([Require(Settled, paid <= Settled.cash) EXCEPT !.cash = @ - paid])
        /\ balances' = [balances EXCEPT ![s] = IF rest <= Dust THEN 0 ELSE rest]
        /\ lastSettleTime' = now
        /\ UNCHANGED rounded

-----------------------------------------------------------------------------
(* Opening. *)

NewLoan(kind, newPrincipal) ==
    [NoLoan EXCEPT !.kind = kind, !.active = TRUE,
                   !.principal = newPrincipal, !.startTimestamp = now]

\* A new loan, or more principal for one that has not ended.
LoanOverwritten(b, id, kind, newPrincipal) ==
    [b EXCEPT !.loans[id].kind = kind, !.loans[id].active = TRUE,
              !.loans[id].principal = newPrincipal]
InitializeLoan(b, id, kind, newPrincipal) ==
    LET loan == b.loans[id]
    IN  IF loan.kind = "none"
        THEN [b EXCEPT !.loans[id] = NewLoan(kind, newPrincipal)]
        ELSE [Require(b, loan.active /\ now < loan.endTimestamp /\ loan.kind = kind)
                 EXCEPT !.loans[id].principal = @ + newPrincipal]

\* Of what was deposited for a loan, the interest for the time that is left.
WholeDeposit(loan) == loan.depositTotal
RemainingInterest(loan) ==
    IF loan.endTimestamp = 0 THEN 0
    ELSE MulDiv(loan.endTimestamp - now, loan.owedPerDay, DAY)

InitializeInterest(b, id, newPrincipal, rate, torqueInterest) ==
    LET paid      == SettleFeeReward(PayInterest(b, now), id, now)
        loan      == paid.loans[id]
        torque    == loan.kind = "torque"
        perDay    == Percent(newPrincipal, rate)
        total     == loan.owedPerDay + perDay
        ends      == IF torque THEN now + MulDiv(torqueInterest + RemainingInterest(loan), DAY,
                                               Max2(1, total))
                     ELSE IF loan.endTimestamp = 0 THEN now + maxLoanTerm
                     ELSE loan.endTimestamp
        required  == IF torque THEN torqueInterest ELSE MulDiv(ends - now, perDay, DAY)
    IN  [amount |-> required,
         books  |-> NewTerms([Require(paid, torque => total # 0 /\ ends - now > HOUR)
                                 EXCEPT !.lender.principalTotal = @ + newPrincipal],
                             id, total, ends, required)]

IsCollateralSatisfied(loan, margin, newCollateral, required, newPrincipal) ==
    LET enough   == Percent(required, 98)
        drawdown == MaxDrawdown(loan.principal - newPrincipal, loan.collateral, margin, price)
    IN  \/ newCollateral >= enough
        \/ loan.collateral # 0 /\ newCollateral + drawdown >= enough

\* The last steps of both: enough collateral, and a healthy margin.
FinalizeOpen(b, id, margin, newCollateral, newPrincipal, torquePrincipal) ==
    LET loan     == b.loans[id]
        required == RequiredCollateral(loan.kind, newPrincipal, margin, price)
    IN  [Require(b,
            /\ required # 0
            /\ margin >= minInitialMargin
            /\ IsCollateralSatisfied(loan, margin, newCollateral, required, torquePrincipal)
            /\ CurrentMargin(loan.principal, loan.collateral + newCollateral, price)
                 > maintenanceMargin)
            EXCEPT !.loans[id].collateral = @ + newCollateral]

\* So much is lent that the interest for the time can be kept back, which
\* must be less than all of it.
InterestFor(rate, duration) == MulDiv(rate, duration, DAY)
WithInterest(amount, rate, duration) ==
    MulDiv(amount, 100, 100 - InterestFor(rate, duration))

SendPrincipal(b, newPrincipal) ==
    [Require(b, newPrincipal <= b.cash) EXCEPT !.cash = @ - newPrincipal]

\* The first steps of both: what is lent, and what the protocol gets of it and
\* of what was sent, becomes a loan, or more of one, with its interest.
BeginOpen(id, kind, newPrincipal, loanToken, collateral, rate, torqueInterest) ==
    LET sent == VaultDeposit(VaultDeposit(SendPrincipal(Settled, newPrincipal),
                    "loan", loanToken), "collateral", collateral)
    IN  InitializeInterest(InitializeLoan(sent, id, kind, newPrincipal),
            id, newPrincipal, rate, torqueInterest)

Borrow(id, ask, rate) ==
    LET newPrincipal == WithInterest(ask.withdraw, rate, ask.duration)
        interest     == newPrincipal - ask.withdraw
        begun        == BeginOpen(id, "torque", newPrincipal, interest, ask.collateral,
                            rate, interest)
        fee          == BorrowingFee(ask.collateral)
    IN  /\ InterestFor(rate, ask.duration) < 100
        /\ interest # 0
        /\ ask.collateral # 0 \/ books.loans[id].kind # "none"
        /\ Call(FinalizeOpen(HoldFee(begun.books, "collateral", fee), id, minInitialMargin,
                    ask.collateral - fee, newPrincipal, newPrincipal))
        /\ lastSettleTime' = now
        /\ UNCHANGED <<balances, rounded>>

\* What is lent and what was sent, without the interest, buys collateral.
MarginTrade(id, ask, rate) ==
    LET deposit      == ask.loanToken + ToLoan(ask.collateral, price)
        newPrincipal == WithInterest(deposit * ask.leverage, rate, maxLoanTerm)
        begun        == BeginOpen(id, "trade", newPrincipal, newPrincipal + ask.loanToken,
                            ask.collateral, rate, 0)
        rest         == newPrincipal + ask.loanToken - begun.amount
        swap         == LoanSwap(begun.books, "loan", "collateral", rest, rest, 0, price, 0)
    IN  /\ InterestFor(rate, maxLoanTerm) < 100
        /\ newPrincipal > TINY_AMOUNT
        /\ rest >= 0
        /\ Call(FinalizeOpen(swap.books, id, 100 \div ask.leverage,
                    ask.collateral + swap.received, newPrincipal, 0))
        /\ lastSettleTime' = now
        /\ rounded' = rounded + RoundedOff(
               (begun.books.loans[id].endTimestamp - now) * Percent(newPrincipal, rate), DAY)
        /\ UNCHANGED balances

-----------------------------------------------------------------------------
(* Closing. *)

CloseLoan(b, id, closeAmount) ==
    LET asked == Require(b, closeAmount # 0 /\ closeAmount <= b.loans[id].principal)
    IN  IF closeAmount = b.loans[id].principal
        THEN [asked EXCEPT !.loans[id].principal = 0,
                           !.loans[id].active = FALSE,
                           !.loans[id].endTimestamp = now]
        ELSE [asked EXCEPT !.loans[id].principal = @ - closeAmount]

IsHealthy(loan) ==
    CurrentMargin(loan.principal, loan.collateral, price) > maintenanceMargin

CloseWithDeposit(id, depositAmount) ==
    LET loan     == books.loans[id]
        close    == Min2(depositAmount, loan.principal)
        settled  == SettleInterestToPrincipal(books, id, close, now)
        repaid   == [settled.books EXCEPT !.cash = @ + settled.lessInterest]
        withdraw == MulDiv(loan.collateral, close, loan.principal)
    IN  /\ loan.active
        /\ close < loan.principal => ~IsTiny(loan.principal - close)
        /\ Call(CloseLoan([VaultWithdraw(repaid, "collateral", withdraw)
                              EXCEPT !.loans[id].collateral = @ - withdraw], id, close))
        /\ UNCHANGED <<poolVars, rounded>>

\* What is not returned to the loan: what was sold, and what goes to the receiver.
OnlySold(used, swapAmount) == used
UsedCollateral(used, swapAmount) == Max2(used, swapAmount)

\* An amount that would leave a tiny loan behind closes all of it.
SwapAmount(loan, amount) ==
    LET capped == Min2(amount, loan.collateral)
    IN  IF IsTiny(ToLoan(loan.collateral - capped, price)) THEN loan.collateral ELSE capped

\* A closing by a swap, step by step: `covered` of the principal is repaid by
\* the swap, `used` collateral leaves the loan, `withdraw` goes to the receiver.
BeginClosing(b, id, swapAmount) ==
    [books |-> b, loan |-> b.loans[id], swapAmount |-> swapAmount,
     close |-> 0, lessInterest |-> 0, covered |-> 0, used |-> 0, withdraw |-> 0]

SettleClosing(c, id, close) ==
    LET settled == SettleInterestToPrincipal(Require(c.books, close # 0), id, close, now)
    IN  [c EXCEPT !.books = settled.books, !.close = close,
                  !.lessInterest = settled.lessInterest]

\* What is to be closed is known before the swap only if all of the loan is,
\* or the swap buys the principal rather than sells an amount.
SettleBeforeSwap(c, id, inCollateral) ==
    IF c.swapAmount = c.loan.collateral THEN SettleClosing(c, id, c.loan.principal)
    ELSE IF inCollateral
    THEN SettleClosing(c, id, MulDiv(c.loan.principal, c.swapAmount, c.loan.collateral))
    ELSE c

CoverInCollateral(c, swap) ==
    LET excess == swap.received - c.lessInterest
        worth  == excess > paySwapExcessToBorrowerThreshold
    IN  [c EXCEPT
            !.books    = IF worth THEN VaultWithdraw(swap.books, "loan", excess)
                         ELSE swap.books,
            !.covered  = IF worth THEN c.lessInterest ELSE swap.received,
            !.used     = UsedCollateral(swap.used, c.swapAmount),
            !.withdraw = Max2(0, c.swapAmount - swap.used)]

CoverInLoanToken(c, swap) ==
    LET all == [c EXCEPT !.books = Require(swap.books, swap.used = c.swapAmount),
                         !.used = UsedCollateral(swap.used, c.swapAmount)]
    IN  IF c.swapAmount = c.loan.collateral
        THEN [all EXCEPT !.covered = c.lessInterest,
                         !.withdraw = swap.received - c.lessInterest]
        ELSE IF swap.received >= c.loan.principal
        THEN [all EXCEPT !.books = VaultWithdraw(@, "collateral", c.loan.collateral - swap.used),
                         !.covered = c.loan.principal,
                         !.used = UsedCollateral(c.loan.collateral, c.swapAmount),
                         !.withdraw = swap.received - c.loan.principal]
        ELSE [all EXCEPT !.covered = swap.received]

CoverPrincipalWithSwap(c, inCollateral, buffer) ==
    LET swap == DoCollateralSwap(c.books, c.loan, c.swapAmount, c.lessInterest,
                    IF inCollateral THEN c.lessInterest ELSE 0, price, buffer)
    IN  IF inCollateral THEN CoverInCollateral(c, swap) ELSE CoverInLoanToken(c, swap)

\* Otherwise the swap closes principal in proportion to the collateral used,
\* and what it brought in beyond that goes back.
CloseInProportion(c) ==
    IF c.covered = c.loan.principal THEN c.covered
    ELSE MulDiv(c.covered, c.used, c.loan.collateral)

ReturnRest(c) == [c EXCEPT !.withdraw = @ + c.covered - c.lessInterest]

SettleAfterSwap(c, id) ==
    IF c.lessInterest # 0 THEN [c EXCEPT !.lessInterest = c.covered]
    ELSE ReturnRest(SettleClosing([c EXCEPT !.books.twice = @ \/ c.close # 0],
                                  id, CloseInProportion(c)))

\* Nothing is checked of a loan that is closed; of another, its margin.
RequireHealthy(b, id) ==
    Require(b, b.loans[id].principal = 0 \/ IsHealthy(b.loans[id]))

FinalizeSwap(c, id, inCollateral) ==
    LET repaid   == PayLender([Require(c.books, c.lessInterest # 0)
                                  EXCEPT !.loans[id].collateral = @ - c.used], c.lessInterest)
        returned == VaultWithdraw(repaid, IF inCollateral THEN "collateral" ELSE "loan",
                                  c.withdraw)
    IN  RequireHealthy(CloseLoan(returned, id, c.close), id)

ClosedWithSwap(b, id, amount, inCollateral, buffer) ==
    LET begun   == BeginClosing(b, id, SwapAmount(b.loans[id], amount))
        settled == SettleBeforeSwap(begun, id, inCollateral)
        covered == CoverPrincipalWithSwap(settled, inCollateral, buffer)
    IN  IF b.loans[id].collateral = 0 THEN Require(b, FALSE)
        ELSE FinalizeSwap(SettleAfterSwap(covered, id), id, inCollateral)

CloseWithSwap(id, swapAmount, inCollateral, buffer) ==
    /\ books.loans[id].active
    /\ Call(ClosedWithSwap(books, id, swapAmount, inCollateral, buffer))
    /\ UNCHANGED <<poolVars, rounded>>

\* The liquidator pays principal and seizes collateral worth more.
Liquidate(id, amount) ==
    LET loan     == books.loans[id]
        margin   == CurrentMargin(loan.principal, loan.collateral, price)
        max      == LiquidationAmounts(loan, margin, price)
        all      == amount >= max.liquidatable \/ IsTiny(max.liquidatable - amount)
        close    == IF all THEN max.liquidatable ELSE amount
        seized   == IF all THEN max.seizable
                    ELSE MulDiv(max.seizable, amount, max.liquidatable)
        settled  == SettleInterestToPrincipal(VaultDeposit(books, "loan", close), id, close, now)
        refunded == VaultWithdraw(settled.books, "loan", close - settled.lessInterest)
        repaid   == PayLender(refunded, settled.lessInterest)
    IN  /\ loan.active
        /\ margin <= maintenanceMargin
        /\ close > 0
        /\ Call(CloseLoan([VaultWithdraw(repaid, "collateral", seized)
                              EXCEPT !.loans[id].collateral = @ - seized], id, close))
        /\ UNCHANGED <<poolVars, rounded>>

-----------------------------------------------------------------------------
(* Maintenance. *)

\* Interest for the time a loan was open beyond its end.
BackInterest(loan) ==
    MulDiv(Max2(0, now - loan.endTimestamp), loan.owedPerDay, DAY)

\* The end of a loan that is rolled over, for its term or a month.
RolledOverEnd(loan) ==
    LET term == IF loan.kind = "trade" THEN maxLoanTerm ELSE MONTH
        back == Max2(0, now - loan.endTimestamp)
    IN  loan.endTimestamp + IF back >= term THEN back + DAY ELSE term

\* An excess worth it is swapped back, a small one is kept as a fee.
ReturnExcess(swap, required) ==
    LET excess == swap.received - required
        back   == LoanSwap(swap.books, "loan", "collateral", excess, excess, 0, price, 0)
    IN  IF excess > paySwapExcessToBorrowerThreshold
        THEN [books |-> back.books, used |-> swap.used - back.received]
        ELSE [books |-> HoldFee(swap.books, "loan", excess), used |-> swap.used]

\* The reward for whoever rolls the loan over; it may cost the whole loan.
PayRolloverReward(b, id) ==
    LET loan   == b.loans[id]
        reward == RolloverReward(loan.principal, price)
    IN  IF reward > loan.collateral
        THEN ClosedWithSwap(b, id, loan.collateral, FALSE, 0)
        ELSE [VaultWithdraw(b, "collateral", reward)
                 EXCEPT !.loans[id].collateral = @ - reward]

FinalizeRollover(b, id) ==
    LET loan == b.loans[id]
    IN  IF loan.collateral = 0 THEN b
        ELSE IF IsTiny(loan.principal)
        THEN ClosedWithSwap(b, id, loan.collateral, FALSE, 0)
        ELSE Require(b, CurrentMargin(loan.principal, loan.collateral, price) > 3)

Rollover(id, rate, buffer) ==
    LET loan     == books.loans[id]
        paid     == SettleFeeReward(PayInterest(books, now), id, now)
        perDay   == IF loan.kind = "trade" THEN Percent(loan.principal, rate)
                    ELSE loan.owedPerDay
        ends     == RolledOverEnd(loan)
        interest == MulDiv(ends - now, perDay, DAY)
        required == interest + BackInterest(loan)
        renewed  == NewTerms(paid, id, perDay, ends, interest)
        swap     == DoCollateralSwap(renewed, loan, 0, required, required, price, buffer)
        returned == ReturnExcess(swap, required)
        charged  == [Require(returned.books, returned.used \in 0..loan.collateral)
                        EXCEPT !.loans[id].collateral = @ - returned.used]
        backPaid == PayInterestTransfer(charged, BackInterest(loan))
    IN  /\ loan.active
        /\ now > loan.endTimestamp - HOUR
        /\ Call(FinalizeRollover(PayRolloverReward(backPaid, id), id))
        /\ rounded' = rounded + RoundedOff((ends - now) * perDay, DAY)
        /\ UNCHANGED poolVars

DepositCollateral(id, amount) ==
    /\ books.loans[id].active
    /\ Call([VaultDeposit(books, "collateral", amount)
                EXCEPT !.loans[id].collateral = @ + amount])
    /\ UNCHANGED <<poolVars, rounded>>

WithdrawCollateral(id, amount) ==
    LET loan   == books.loans[id]
        actual == Min2(amount, MaxDrawdown(loan.principal, loan.collateral,
                                           maintenanceMargin, price))
    IN  /\ loan.active
        /\ Call([VaultWithdraw(books, "collateral", actual)
                    EXCEPT !.loans[id].collateral = @ - actual])
        /\ UNCHANGED <<poolVars, rounded>>

\* The deposit comes from the caller or, without a fee, from the collateral.
ExtensionDeposit(b, id, amount, useCollateral, buffer) ==
    LET loan == b.loans[id]
        swap == BuyRequired(b, "collateral", "loan", loan.collateral, amount, 0, price, buffer)
        left == loan.collateral - swap.used
    IN  IF ~useCollateral
        THEN [books |-> VaultDeposit(b, "loan", amount), deposit |-> amount]
        ELSE [books |-> [Require(swap.books,
                            CurrentMargin(loan.principal, left, price) > maintenanceMargin)
                            EXCEPT !.loans[id].collateral = left],
              deposit |-> swap.received]

ExtendLoanDuration(id, amount, useCollateral, buffer) ==
    LET loan     == books.loans[id]
        paid     == SettleFeeReward(PayInterest(books, now), id, now)
        taken    == ExtensionDeposit(paid, id, amount, useCollateral, buffer)
        deposit  == taken.deposit - BackInterest(loan)
        ends     == loan.endTimestamp + MulDiv(deposit, DAY, loan.owedPerDay)
        backPaid == PayInterestTransfer(taken.books, BackInterest(loan))
    IN  /\ loan.active
        /\ loan.kind = "torque"
        /\ loan.owedPerDay # 0          \* or the division reverts
        /\ BackInterest(loan) < amount
        /\ Call(NewTerms(Require(backPaid, ends - now > HOUR),
                         id, loan.owedPerDay, ends, deposit))
        /\ UNCHANGED <<poolVars, rounded>>

\* Amounts are interest for whole steps of the clock, here as long as an hour;
\* the code's are seconds, and it rounds less than the interest of one away.
ReduceLoanDuration(id, amount) ==
    LET loan      == books.loans[id]
        paid      == SettleFeeReward(PayInterest(books, now), id, now)
        ends      == loan.endTimestamp - MulDiv(amount, DAY, loan.owedPerDay)
    IN  /\ loan.active
        /\ loan.kind = "torque"
        /\ loan.owedPerDay # 0          \* or the division reverts
        /\ loan.endTimestamp > now
        /\ amount < RemainingInterest(loan)
        /\ Call(NewTerms(Require(VaultWithdraw(paid, "loan", amount),
                                 /\ ends - now > HOUR
                                 /\ amount <= loan.depositTotal
                                 /\ amount <= paid.lender.owedTotal),
                         id, loan.owedPerDay, ends, -amount))
        /\ rounded' = rounded + RoundedOff(amount * DAY, loan.owedPerDay)
        /\ UNCHANGED poolVars

\* To the fee sharing collector, or swapped for what it takes.
AllHeld(token) == books.held[token]
FeesHeld(token) == books.fees[token]

WithdrawFees(token) ==
    /\ FeesHeld(token) > 0
    /\ Call([VaultWithdraw(books, token, FeesHeld(token)) EXCEPT !.fees[token] = 0])
    /\ UNCHANGED <<poolVars, rounded>>

-----------------------------------------------------------------------------
PoolCall ==
    \E s \in Suppliers :
        \/ \E a \in Deposits : Mint(s, a)
        \/ \E a \in Burns : Burn(s, a)

OpenCall ==
    \E id \in LoanIds, rate \in Rates :
        \/ \E ask \in Borrows : Borrow(id, ask, rate)
        \/ \E ask \in Trades : MarginTrade(id, ask, rate)

CloseCall ==
    \E id \in LoanIds, a \in Adjustments :
        \/ CloseWithDeposit(id, a)
        \/ \E c \in BOOLEAN, buffer \in Buffers : CloseWithSwap(id, a, c, buffer)
        \/ Liquidate(id, a)

MaintenanceCall ==
    \E id \in LoanIds :
        \/ \E rate \in RolloverRates, buffer \in Buffers : Rollover(id, rate, buffer)
        \/ \E steps \in Reductions :
              ReduceLoanDuration(id, MulDiv(steps, books.loans[id].owedPerDay, DAY))
        \/ \E a \in Adjustments :
              \/ DepositCollateral(id, a)
              \/ WithdrawCollateral(id, a)
        \/ \E a \in Extensions :
              \E c \in BOOLEAN, buffer \in Buffers : ExtendLoanDuration(id, a, c, buffer)

Next ==
    \/ Tick
    \/ PoolCall
    \/ OpenCall
    \/ CloseCall
    \/ MaintenanceCall
    \/ \E token \in Tokens : WithdrawFees(token)

Spec == Init /\ [][Next]_vars

-----------------------------------------------------------------------------
(* Properties. *)

Loans ==
    [kind : Kinds \cup {"none"}, active : BOOLEAN, principal : Nat, collateral : Nat,
     startTimestamp : Nat, endTimestamp : Nat,
     owedPerDay : Nat, depositTotal : Nat, updatedTimestamp : Nat]

Lenders ==
    [principalTotal : Nat, owedPerDay : Nat, owedTotal : Nat, updatedTimestamp : Nat]

Books ==
    [loans  : [LoanIds -> Loans],
     lender : Lenders,
     held   : [Tokens -> Nat],
     fees   : [Tokens -> Nat],
     cash   : Nat,
     twice  : BOOLEAN,
     ok     : BOOLEAN]

\* Types; in particular no step goes below zero where the code is unchecked.
LoansTypeOK ==
    /\ books \in Books
    /\ books.ok
    /\ balances \in [Suppliers -> Nat]
    /\ now \in Nat
    /\ price \in Nat \ {0}
    /\ books.lender.updatedTimestamp <= now

\* The lender's totals are those of its loans, after any sequence of openings,
\* partial closings, rollovers and liquidations; where a closing settled its
\* interest twice, the lender is credited no more than is owed.
LenderTotalsAddUp ==
    LET lent == SumFunction([id \in LoanIds |-> books.loans[id].principal])
    IN  /\ books.lender.owedPerDay =
              SumFunction([id \in LoanIds |-> books.loans[id].owedPerDay])
        /\ books.lender.principalTotal <= lent
        /\ ~books.twice => books.lender.principalTotal = lent

\* All collateral the protocol holds is some loan's or a fee, to the last unit,
\* whichever way swaps, rewards, seizures and returns went.
CollateralAccounted ==
    ~books.twice =>
        books.held["collateral"] = books.fees["collateral"]
            + SumFunction([id \in LoanIds |-> books.loans[id].collateral])

\* No loan token is left behind in the protocol: what it holds is a fee or
\* interest deposited and not yet paid.
NoTokensStuck ==
    ~books.twice => books.held["loan"] <= books.lender.owedTotal + books.fees["loan"]

\* As long as loans are closed or rolled over on time, nothing of the interest
\* deposited and of the fees is missing either, but for what was rounded off.
Missing == books.lender.owedTotal + books.fees["loan"] - books.held["loan"]
InterestAccounted ==
    ~late /\ ~books.twice => 0 <= Missing /\ Missing * DAY <= rounded

\* A loan that is closed by whatever way leaves nothing behind in the books.
ClosedLoansAreEmpty ==
    \A id \in LoanIds \ Active :
        LET loan == books.loans[id]
        IN  /\ loan.principal = 0
            /\ loan.owedPerDay = 0
            /\ loan.depositTotal = 0
            /\ loan.kind = "none" \/ ~books.twice => loan.collateral = 0

\* Whatever is open was opened, and something of it is still owed.
OpenLoansAreOwed ==
    \A id \in Active : books.loans[id].kind # "none" /\ books.loans[id].principal > 0

\* What makes the books inductive.
LoanInv ==
    /\ LoansTypeOK
    /\ LenderTotalsAddUp
    /\ CollateralAccounted
    /\ NoTokensStuck
    /\ ClosedLoansAreEmpty
    /\ OpenLoansAreOwed

\* What is left of the deposits lasts for every open loan to its end.
StillRuns == {id \in Active : books.loans[id].endTimestamp > books.lender.updatedTimestamp}
InterestToCome ==
    SumFunction([id \in StillRuns |->
        (books.loans[id].endTimestamp - books.lender.updatedTimestamp)
            * books.loans[id].owedPerDay])
OwedTotalLasts == InterestToCome <= books.lender.owedTotal * DAY

\* On time it does, but for what was rounded off.
OwedTotalLastsOnTime ==
    ~late => InterestToCome <= books.lender.owedTotal * DAY + rounded

\* As long as loans are closed or rolled over on time and the fees held cover
\* what was rounded off, every open loan can be repaid in full at any time:
\* settling its interest does not revert.
LoansCanBeRepaid ==
    ~late /\ ~books.twice /\ rounded \div DAY <= books.fees["loan"] =>
        \A id \in Active :
            SettleInterestToPrincipal(books, id, books.loans[id].principal, now).books.ok

\* No call, and no passing of time, makes an iToken worth less: borrowers and
\* liquidators, not suppliers, bear fees, roundings and losses.
TokenPriceNeverDrops ==
    [][TotalSupply # 0 /\ TotalSupply' # 0 => TokenPrice' >= TokenPrice]_vars
=============================================================================
