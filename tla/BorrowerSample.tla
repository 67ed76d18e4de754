--------------------------- MODULE BorrowerSample ---------------------------
(***************************************************************************)
(* The sample flash loan borrower, src/programs/borrower_sample.  It keeps  *)
(* one token account of its own, the PDA borrower_account, which is its own *)
(* authority, and has one entry point, handle_borrow, that the fluf program *)
(* calls in the middle of lend_and_call.  handle_borrow is therefore an     *)
(* operator on the fT ledger and not an action: it has no step of its own   *)
(* outside the caller's transaction.                                        *)
(***************************************************************************)
EXTENDS SplToken

BorrowerAccount == "borrower_account"

\* Integer division: a loan below 40 base units costs nothing.
BorrowFee(amount) == (amount * 25) \div 1000

TotalRepayment(amount) == amount + BorrowFee(amount)

\* As if the borrower could repay what it does not have.
WrongUnchecked(m, lender, amount) == m.bal[lender] + TotalRepayment(amount) <= MaxU64

\* The entry point refuses when the account does not hold the loan and its fee;
\* the transfer is signed with the seeds of borrower_account.
CanHandleBorrow(m, lender, amount) ==
  /\ TotalRepayment(amount) <= m.bal[BorrowerAccount]
  /\ CanTransfer(m, BorrowerAccount, lender, TotalRepayment(amount),
                 BorrowerAccount, {BorrowerAccount})

HandleBorrow(m, lender, amount) ==
  Transfer(m, BorrowerAccount, lender, TotalRepayment(amount))
=============================================================================
