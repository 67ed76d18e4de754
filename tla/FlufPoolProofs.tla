--------------------------- MODULE FlufPoolProofs ---------------------------
(***************************************************************************)
(* Theorems of FlufPool for any number of wallets and any amounts: it keeps *)
(* its types, its shares are backed, its loans close, and it implements     *)
(* SharePool.  The inductive invariant is IInv: the types alone do not say  *)
(* that the shares for a deposit fit in u64; that they are backed does.     *)
(***************************************************************************)
EXTENDS FlufPool, SplTokenProofs

IInv == TypeOK /\ Backed

\* The accounts named by the code are accounts of the ledgers, all distinct.
LEMMA Names ==
  /\ PoolAccount \in TAccounts /\ PoolAccount \notin Users
  /\ {FeeAccount, BorrowerAccount} \subseteq FlufAccounts
  /\ PoolOwned \subseteq FlufAccounts
  /\ FeeAccount \notin Users
  /\ BorrowerAccount \notin PoolOwned
  /\ FeeAccount # BorrowerAccount
  /\ Users \subseteq TAccounts
  /\ Users \subseteq FlufAccounts
BY UsersAssumption DEF PoolAccount, PoolFlufAccount, FeeAccount, BorrowerAccount,
   TAccounts, FlufAccounts, PoolOwned, Pool

THEOREM InitIInv == Init => IInv
<1> SUFFICES ASSUME Init PROVE IInv
  OBVIOUS
<1>1. created \subseteq Created /\ deployer \in Users \union {NoUser}
      /\ feesResult \in {"none", "paid", "failed"}
  BY DEF Init, Created
<1>2. T \in Ledgers(TAccounts) /\ T.bal[PoolAccount] = 0
  BY Names, AmountsAssumption, MaxU64Assumption DEF Init, Ledgers, Amount
<1>3. fT \in Ledgers(FlufAccounts) /\ fT.supply = 0
  BY MaxU64Assumption DEF Init, Ledgers, Amount
<1> QED BY <1>1, <1>2, <1>3 DEF IInv, TypeOK, Backed

\* A deposit mints at most its amount, and at most its part of the pool.
LEMMA DepositShares ==
  ASSUME IInv, NEW amount \in Amount
  PROVE  /\ SharesFor(amount) \in Nat
         /\ SharesFor(amount) <= amount
         /\ T.bal[PoolAccount] * SharesFor(amount) <= amount * fT.supply
              \/ T.bal[PoolAccount] = 0
<1> DEFINE p == T.bal[PoolAccount]
           s == fT.supply
<1>1. p \in Nat /\ s \in Nat /\ s <= p /\ amount \in Nat /\ amount <= MaxU64
  BY Names, MaxU64Assumption DEF IInv, TypeOK, Backed, Ledgers, Amount
<1>2. CASE p = 0
  BY <1>1, <1>2 DEF SharesFor
<1>3. CASE p # 0
  <2> DEFINE m == (amount * s) \div p
  <2>1. m \in Nat /\ m * p <= amount * s /\ m <= amount
    BY <1>1, <1>3, PartRoundedDown
  <2>2. m <= MaxU64
    BY <2>1, <1>1, MaxU64Assumption
  <2>3. AsU64(m) = m
    BY <2>1, <2>2, CastFits DEF AsU64
  <2>4. SharesFor(amount) = m
    BY <1>3, <2>3 DEF SharesFor
  <2>5. p * m <= amount * s
    BY <2>1, <1>1
  <2> QED BY <2>1, <2>4, <2>5
<1> QED BY <1>2, <1>3

\* A withdrawal pays at most the part of the pool that its fT are.
LEMMA RedemptionPart ==
  ASSUME IInv, NEW n \in Amount, n <= fT.supply
  PROVE  /\ Redemption(n) \in Nat
         /\ Redemption(n) <= T.bal[PoolAccount]
         /\ Redemption(n) * fT.supply <= n * T.bal[PoolAccount]
<1> DEFINE p == T.bal[PoolAccount]
           s == fT.supply
<1>1. p \in Nat /\ s \in Nat /\ p <= MaxU64 /\ n \in Nat
  BY Names, MaxU64Assumption DEF IInv, TypeOK, Ledgers, Amount
<1>2. CASE s = 0
  BY <1>1, <1>2 DEF Redemption
<1>3. CASE s # 0
  <2> DEFINE w == (n * p) \div s
  <2>1. w \in Nat /\ w * s <= n * p /\ w <= p
    BY <1>1, <1>3, PartRoundedDown
  <2>2. w <= MaxU64
    BY <2>1, <1>1, MaxU64Assumption
  <2>3. AsU64(w) = w
    BY <2>1, <2>2, CastFits DEF AsU64
  <2>4. Redemption(n) = w
    BY <1>3, <2>3 DEF Redemption
  <2> QED BY <2>1, <2>4
<1> QED BY <1>2, <1>3

\* A loan leaves the fT ledger well formed, its supply no larger, and the borrower's
\* account without anything of the loan; all that came in above it but the protocol's
\* share is burnt, and nothing but that share can be left in the lender's account.
LEMMA LoanLedger ==
  ASSUME IInv, NEW lender \in PoolOwned, NEW amount \in Amount,
         LendAndCall(lender, amount)
  PROVE  /\ fT' \in Ledgers(FlufAccounts)
         /\ fT'.supply <= fT.supply
         /\ fT'.bal[BorrowerAccount] <= fT.bal[BorrowerAccount]
         /\ LET earned == fT.bal[lender]
                            + (fT.bal[BorrowerAccount] - fT'.bal[BorrowerAccount])
            IN  /\ earned \in Nat
                /\ fT.supply - fT'.supply = earned - ProtocolShare(earned)
                /\ fT'.bal[lender] \in {0, ProtocolShare(earned)}
<1> DEFINE rep    == TotalRepayment(amount)
           lent   == MintTo(fT, BorrowerAccount, amount)
           repaid == HandleBorrow(lent, lender, amount)
           held   == repaid.bal[lender]
           fee    == ProtocolShare(held - amount)
           shared == Transfer(repaid, lender, FeeAccount, fee)
           rest   == held - fee
<1>1. /\ CanMint(fT, BorrowerAccount, amount, Pool, {Pool})
      /\ CanHandleBorrow(lent, lender, amount)
      /\ held >= RequiredBack(amount)
      /\ CanTransfer(repaid, lender, FeeAccount, fee, Pool, {Pool})
      /\ CanBurn(shared, lender, rest, Pool, {Pool})
      /\ fT' = Burn(shared, lender, rest)
  BY DEF LendAndCall
<1>2. amount \in Nat /\ rep \in Nat /\ rep >= amount
  BY MaxU64Assumption DEF Amount, TotalRepayment, BorrowFee
<1>3. /\ fT \in Ledgers(FlufAccounts)
      /\ fT.supply \in Nat
      /\ fT.bal[lender] \in Nat /\ fT.bal[BorrowerAccount] \in Nat
      /\ lender \in FlufAccounts /\ lender # BorrowerAccount
  BY Names, MaxU64Assumption DEF IInv, TypeOK, Ledgers, Amount
<1>4. /\ lent \in Ledgers(FlufAccounts)
      /\ lent.supply = fT.supply + amount
      /\ lent.bal[lender] = fT.bal[lender]
      /\ lent.bal[BorrowerAccount] = fT.bal[BorrowerAccount] + amount
  <2>1. /\ lent \in Ledgers(FlufAccounts)
        /\ lent.supply = fT.supply + amount
        /\ lent.bal = [fT.bal EXCEPT ![BorrowerAccount] = @ + amount]
    BY <1>1, <1>2, <1>3, Names, MintToLedger
  <2> QED BY <2>1, <1>3, Names DEF Ledgers
<1>5. /\ repaid \in Ledgers(FlufAccounts)
      /\ repaid.supply = fT.supply + amount
      /\ held = fT.bal[lender] + rep
      /\ repaid.bal[BorrowerAccount] = fT.bal[BorrowerAccount] + amount - rep
  <2>1. CanTransfer(lent, BorrowerAccount, lender, rep,
                    BorrowerAccount, {BorrowerAccount})
    BY <1>1 DEF CanHandleBorrow
  <2>2. repaid = Transfer(lent, BorrowerAccount, lender, rep)
    BY DEF HandleBorrow
  <2>3. /\ repaid \in Ledgers(FlufAccounts)
        /\ repaid.supply = lent.supply
        /\ repaid.bal[lender] = lent.bal[lender] + rep
        /\ repaid.bal[BorrowerAccount] = lent.bal[BorrowerAccount] - rep
    <3> HIDE DEF lent, rep, repaid
    <3> QED BY <2>1, <2>2, <1>2, <1>3, <1>4, Names, TransferLedger
  <2> QED BY <2>3, <1>2, <1>3, <1>4
<1>6. held \in Nat /\ held >= amount
  BY <1>2, <1>3, <1>5
<1>7. fee \in Nat /\ fee <= held - amount
  BY <1>2, <1>6 DEF ProtocolShare
<1>8. rest \in Nat
  BY <1>2, <1>6, <1>7
<1>9. /\ shared \in Ledgers(FlufAccounts)
      /\ shared.supply = fT.supply + amount
      /\ shared.bal[BorrowerAccount] = repaid.bal[BorrowerAccount]
      /\ shared.bal[lender] = IF lender = FeeAccount THEN held ELSE rest
  <2>1. CASE lender = FeeAccount
    <3> HIDE DEF repaid, fee
    <3>1. shared.supply = repaid.supply /\ shared.bal = repaid.bal
      BY <2>1 DEF Transfer
    <3>2. shared \in Ledgers(FlufAccounts)
      BY <1>1, <1>3, <1>5, <1>7, Names, TransferLedger
    <3> QED BY <2>1, <3>1, <3>2, <1>5
  <2>2. CASE lender # FeeAccount
    BY <2>2, <1>1, <1>3, <1>5, <1>7, Names, TransferLedger
  <2> QED BY <2>1, <2>2
<1>10. /\ fT' \in Ledgers(FlufAccounts)
       /\ fT'.supply = shared.supply - rest
       /\ fT'.bal[lender] = shared.bal[lender] - rest
       /\ fT'.bal[BorrowerAccount] = shared.bal[BorrowerAccount]
  <2> HIDE DEF lent, repaid, held, fee, shared, rest
  <2>1. /\ fT' \in Ledgers(FlufAccounts)
        /\ fT'.supply = shared.supply - rest
        /\ fT'.bal = [shared.bal EXCEPT ![lender] = @ - rest]
    BY <1>1, <1>3, <1>8, <1>9, BurnLedger
  <2>2. shared.bal \in [FlufAccounts -> Amount]
    BY <1>9 DEF Ledgers
  <2> QED BY <2>1, <2>2, <1>3, Names
<1>11. held - amount = fT.bal[lender]
                         + (fT.bal[BorrowerAccount] - fT'.bal[BorrowerAccount])
  BY <1>2, <1>3, <1>5, <1>9, <1>10
<1>12. fT.supply - fT'.supply = (held - amount) - fee
  BY <1>2, <1>3, <1>6, <1>7, <1>9, <1>10
<1>13. fT'.bal[lender] \in {0, fee}
  <2>1. CASE lender = FeeAccount
    <3>1. fT'.bal[lender] = held - rest
      BY <2>1, <1>9, <1>10
    <3> HIDE DEF held, fee
    <3> QED BY <3>1, <1>6, <1>7
  <2>2. CASE lender # FeeAccount
    <3>1. fT'.bal[lender] = rest - rest
      BY <2>2, <1>9, <1>10
    <3> HIDE DEF rest
    <3> QED BY <3>1, <1>8
  <2> QED BY <2>1, <2>2
<1>14. fT'.bal[BorrowerAccount] <= fT.bal[BorrowerAccount]
  BY <1>2, <1>3, <1>5, <1>9, <1>10
<1>15. fT'.supply <= fT.supply
  BY <1>2, <1>3, <1>6, <1>7, <1>9, <1>10
<1>16. held - amount \in Nat
  BY <1>2, <1>6
<1> QED BY <1>10, <1>11, <1>12, <1>13, <1>14, <1>15, <1>16

-----------------------------------------------------------------------------
(* What each action does to the pool's balance and to the supply. *)

LEMMA DepositStep ==
  ASSUME IInv, NEW user \in Users, NEW amount \in Amount, Deposit(user, amount)
  PROVE  IInv' /\ Shares!Join
<1> DEFINE p == T.bal[PoolAccount]
           s == fT.supply
           m == SharesFor(amount)
<1>1. /\ CanTransfer(T, user, PoolAccount, amount, user, {user})
      /\ CanMint(fT, user, m, Pool, {user, Pool})
      /\ T' = Transfer(T, user, PoolAccount, amount)
      /\ fT' = MintTo(fT, user, m)
      /\ UNCHANGED <<created, deployer, feesResult>>
  BY DEF Deposit
<1>2. /\ T \in Ledgers(TAccounts) /\ fT \in Ledgers(FlufAccounts)
      /\ p \in Nat /\ s \in Nat /\ s <= p /\ amount \in Nat
  BY Names, MaxU64Assumption DEF IInv, TypeOK, Backed, Ledgers, Amount
<1>3. m \in Nat /\ m <= amount /\ (p * m <= amount * s \/ p = 0)
  BY DepositShares
<1> HIDE DEF m
<1>4. T' \in Ledgers(TAccounts) /\ T'.bal[PoolAccount] = p + amount
  BY <1>1, <1>2, Names, TransferLedger
<1>5. fT' \in Ledgers(FlufAccounts) /\ fT'.supply = s + m
  <2>1. fT' \in Ledgers(FlufAccounts)
    BY <1>1, <1>2, <1>3, Names, MintToLedger
  <2>2. fT'.supply = s + m
    BY <1>1 DEF MintTo
  <2> QED BY <2>1, <2>2
<1>6. IInv'
  BY <1>1, <1>2, <1>3, <1>4, <1>5 DEF IInv, TypeOK, Backed
<1>7. (p + amount) * s >= p * (s + m)
  BY <1>2, <1>3
<1>8. Shares!Join
  BY <1>2, <1>3, <1>4, <1>5, <1>7 DEF Shares!Join, Shares!PriceKept
<1> QED BY <1>6, <1>8

LEMMA WithdrawStep ==
  ASSUME IInv, NEW user \in Users, Withdraw(user)
  PROVE  IInv' /\ Shares!Leave
<1> DEFINE p == T.bal[PoolAccount]
           s == fT.supply
           n == fT.bal[user]
           w == Redemption(n)
<1>1. /\ CanBurn(fT, user, n, user, {user})
      /\ CanTransfer(T, PoolAccount, user, w, Pool, {user, Pool})
      /\ fT' = Burn(fT, user, n)
      /\ T' = Transfer(T, PoolAccount, user, w)
      /\ UNCHANGED <<created, deployer, feesResult>>
  BY DEF Withdraw, CanWithdraw
<1>2. /\ T \in Ledgers(TAccounts) /\ fT \in Ledgers(FlufAccounts)
      /\ p \in Nat /\ s \in Nat /\ s <= p /\ n \in Nat /\ n \in Amount
  BY Names, MaxU64Assumption DEF IInv, TypeOK, Backed, Ledgers, Amount
<1>3. n <= s
  BY <1>1 DEF CanBurn
<1>4. w \in Nat /\ w <= p /\ w * s <= n * p
  BY <1>2, <1>3, RedemptionPart
<1> HIDE DEF w, n
<1>5. T' \in Ledgers(TAccounts) /\ T'.bal[PoolAccount] = p - w
  BY <1>1, <1>2, <1>4, Names, TransferLedger
<1>6. fT' \in Ledgers(FlufAccounts)
  BY <1>1, <1>2, Names, BurnLedger
<1>7. fT'.supply = s - n
  BY <1>1 DEF Burn
<1>8. s - n <= p - w /\ (p - w) * s >= p * (s - n)
  <2>1. CASE s = 0
    BY <1>2, <1>3, <1>4, <2>1
  <2>2. CASE s # 0
    BY <1>2, <1>3, <1>4, <2>2, RestCovered
  <2> QED BY <2>1, <2>2
<1>9. IInv'
  BY <1>1, <1>5, <1>6, <1>7, <1>8, <1>2 DEF IInv, TypeOK, Backed
<1>10. Shares!Leave
  BY <1>2, <1>3, <1>4, <1>5, <1>7, <1>8 DEF Shares!Leave, Shares!PriceKept
<1> QED BY <1>9, <1>10

\* The loan touches no T; to the pool it is a gain.
LEMMA LoanStep ==
  ASSUME IInv, NEW lender \in PoolOwned, NEW amount \in Amount,
         LendAndCall(lender, amount)
  PROVE  IInv' /\ Shares!Gain
<1>1. /\ T' = T
      /\ created' = created \union {FeeAccount}
      /\ UNCHANGED <<deployer, feesResult>>
  BY DEF LendAndCall
<1>2. fT' \in Ledgers(FlufAccounts) /\ fT'.supply <= fT.supply
  BY LoanLedger
<1>3. /\ fT.supply \in Nat /\ T.bal[PoolAccount] \in Nat
      /\ fT'.supply \in Nat /\ fT.supply <= T.bal[PoolAccount]
  BY <1>2, Names, MaxU64Assumption DEF IInv, TypeOK, Backed, Ledgers, Amount
<1>4. IInv'
  BY <1>1, <1>2, <1>3 DEF IInv, TypeOK, Backed, Created
<1>5. Shares!Gain
  BY <1>1, <1>2, <1>3 DEF Shares!Gain
<1> QED BY <1>4, <1>5

LEMMA DonateStep ==
  ASSUME IInv, NEW user \in Users, NEW amount \in Amount, DonateT(user, amount)
  PROVE  IInv' /\ Shares!Gain
<1>1. /\ CanTransfer(T, user, PoolAccount, amount, user, {user})
      /\ T' = Transfer(T, user, PoolAccount, amount)
      /\ UNCHANGED <<created, deployer, fT, feesResult>>
  BY DEF DonateT
<1>2. /\ T \in Ledgers(TAccounts) /\ amount \in Nat
      /\ T.bal[PoolAccount] \in Nat /\ fT.supply \in Nat
      /\ fT.supply <= T.bal[PoolAccount]
  BY Names, MaxU64Assumption DEF IInv, TypeOK, Backed, Ledgers, Amount
<1>3. /\ T' \in Ledgers(TAccounts)
      /\ T'.bal[PoolAccount] = T.bal[PoolAccount] + amount
  BY <1>1, <1>2, Names, TransferLedger
<1>4. IInv'
  BY <1>1, <1>2, <1>3 DEF IInv, TypeOK, Backed
<1>5. Shares!Gain
  BY <1>1, <1>2, <1>3 DEF Shares!Gain
<1> QED BY <1>4, <1>5

\* The remaining actions leave T and the supply of fT alone.
LEMMA OtherStep ==
  ASSUME IInv,
         \/ CreatePool
         \/ CreateAccounts
         \/ \E user \in Users : Initialize(user) \/ WithdrawFees(user)
         \/ \E user \in Users, amount \in SendAmounts, to \in FlufAccounts :
              SendFluf(user, to, amount)
  PROVE  IInv' /\ UNCHANGED Shares!poolVars
<1>1. /\ T \in Ledgers(TAccounts) /\ fT \in Ledgers(FlufAccounts)
      /\ T' = T
  BY DEF IInv, TypeOK, CreatePool, CreateAccounts, Initialize, WithdrawFees, SendFluf
<1>2. SUFFICES /\ fT' \in Ledgers(FlufAccounts)
               /\ fT'.supply = fT.supply
               /\ created' \subseteq Created
               /\ deployer' \in Users \union {NoUser}
               /\ feesResult' \in {"none", "paid", "failed"}
  BY <1>1, <1>2 DEF IInv, TypeOK, Backed, Shares!poolVars
<1>3. CASE \/ CreatePool \/ CreateAccounts \/ \E user \in Users : Initialize(user)
  BY <1>1, <1>3 DEF IInv, TypeOK, CreatePool, CreateAccounts, Initialize, Created
<1>4. ASSUME NEW user \in Users, WithdrawFees(user)
      PROVE  /\ fT' \in Ledgers(FlufAccounts)
             /\ fT'.supply = fT.supply
             /\ UNCHANGED <<created, deployer>>
             /\ feesResult' \in {"none", "paid", "failed"}
  <2> DEFINE n == fT.bal[FeeAccount]
             ok == CanTransfer(fT, FeeAccount, user, n, Pool, {user})
  <2>1. /\ fT' = IF ok THEN Transfer(fT, FeeAccount, user, n) ELSE fT
        /\ UNCHANGED <<created, deployer>>
        /\ feesResult' \in {"none", "paid", "failed"}
    BY <1>4 DEF WithdrawFees
  <2>2. n \in Nat
    BY <1>1, Names, MaxU64Assumption DEF Ledgers, Amount
  <2>3. CASE ok
    BY <1>1, <2>1, <2>2, <2>3, Names, TransferLedger
  <2>4. CASE ~ ok
    BY <1>1, <2>1, <2>4
  <2> QED BY <2>1, <2>3, <2>4
<1>5. ASSUME NEW user \in Users, NEW amount \in SendAmounts,
             NEW to \in FlufAccounts,
             SendFluf(user, to, amount)
      PROVE  /\ fT' \in Ledgers(FlufAccounts)
             /\ fT'.supply = fT.supply
             /\ UNCHANGED <<created, deployer, feesResult>>
  <2>1. /\ CanTransfer(fT, user, to, amount, user, {user})
        /\ fT' = Transfer(fT, user, to, amount)
        /\ UNCHANGED <<created, deployer, feesResult>>
    BY <1>5 DEF SendFluf
  <2>2. amount \in Nat /\ user \in FlufAccounts /\ to \in FlufAccounts
    BY Names, AmountsAssumption, MaxU64Assumption DEF Amount
  <2> QED BY <1>1, <2>1, <2>2, TransferLedger
<1> QED BY <1>3, <1>4, <1>5 DEF IInv, TypeOK

-----------------------------------------------------------------------------
(* The theorems *)

LEMMA NextStep ==
  ASSUME IInv, [Next]_vars
  PROVE  IInv' /\ (Shares!Join \/ Shares!Leave \/ Shares!Gain
                     \/ UNCHANGED Shares!poolVars)
<1>1. CASE UNCHANGED vars
  BY <1>1 DEF vars, IInv, TypeOK, Backed, Shares!poolVars
<1>2. ASSUME NEW lender \in PoolOwned, NEW amount \in LoanAmounts,
             LendAndCall(lender, amount)
      PROVE  IInv' /\ Shares!Gain
  BY <1>2, LoanStep, AmountsAssumption
<1>3. ASSUME NEW user \in Users, Withdraw(user)
      PROVE  IInv' /\ Shares!Leave
  BY <1>3, WithdrawStep
<1>4. ASSUME NEW user \in Users, NEW amount \in DepositAmounts, Deposit(user, amount)
      PROVE  IInv' /\ Shares!Join
  BY <1>4, DepositStep, AmountsAssumption
<1>5. ASSUME NEW user \in Users, NEW amount \in SendAmounts, DonateT(user, amount)
      PROVE  IInv' /\ Shares!Gain
  BY <1>5, DonateStep, AmountsAssumption
<1>6. CASE \/ CreatePool
           \/ CreateAccounts
           \/ \E user \in Users : Initialize(user) \/ WithdrawFees(user)
           \/ \E user \in Users, amount \in SendAmounts, to \in FlufAccounts :
                SendFluf(user, to, amount)
  BY <1>6, OtherStep
<1> QED BY <1>1, <1>2, <1>3, <1>4, <1>5, <1>6 DEF Next

\* The inductive invariant holds in every reachable state, and with it the type
\* invariant (fluf/src/lib.rs:254-387).
THEOREM Invariance == Spec => []IInv
<1>1. IInv /\ [Next]_vars => IInv'
  BY NextStep
<1> QED BY InitIInv, <1>1, PTL DEF Spec

THEOREM TypeCorrect == Spec => []TypeOK
<1>1. IInv => TypeOK
  BY DEF IInv
<1> QED BY Invariance, <1>1, PTL

\* The supply of fT never exceeds the T in the pool, for every number of wallets,
\* every sequence of deposits, withdrawals, loans and gifts.
THEOREM BackedAlways == Spec => []Backed
<1>1. IInv => Backed
  BY DEF IInv
<1> QED BY Invariance, <1>1, PTL

\* The pool implements SharePool: whatever a transaction does, it is a join, a
\* leave or a gain of the abstract pool, none of which lowers the share price.
THEOREM ImplementsSharePool == Spec => SharePoolSpec
<1>1. Init => Shares!Init
  BY Names DEF Init, Shares!Init
<1>2. IInv /\ IInv' /\ [Next]_vars => [Shares!Next]_(Shares!poolVars)
  <2> SUFFICES ASSUME IInv, IInv', [Next]_vars
               PROVE  [Shares!Next]_(Shares!poolVars)
    OBVIOUS
  <2>1. T'.bal[PoolAccount] \in Nat /\ fT'.supply \in Nat
    BY Names, MaxU64Assumption DEF IInv, TypeOK, Ledgers, Amount
  <2> QED BY <2>1, NextStep DEF Shares!Next
<1> QED BY <1>1, <1>2, Invariance, PTL DEF Spec, SharePoolSpec, Shares!Spec

\* A loan closes in its transaction, for every amount of it, every gift before it and
\* every account of the pool it is paid back to: the borrower keeps nothing of it, at
\* least 199/200 of what came in above it is burnt, and what stays in the lender's
\* account is at most the protocol's share.
THEOREM LoansSettle == Spec => LoanSettles
<1> DEFINE Earned(lender) ==
             fT.bal[lender] + (fT.bal[BorrowerAccount] - fT'.bal[BorrowerAccount])
           SettledWith(lender) ==
             LET earned == Earned(lender)
             IN  /\ fT'.bal[BorrowerAccount] <= fT.bal[BorrowerAccount]
                 /\ 200 * (fT.supply - fT'.supply) >= 199 * earned
                 /\ 200 * fT'.bal[lender] <= earned
           Settled ==
             \A lender \in PoolOwned, amount \in LoanAmounts :
               LendAndCall(lender, amount) => SettledWith(lender)
<1>1. IInv => Settled
  <2> SUFFICES ASSUME IInv, NEW lender \in PoolOwned, NEW amount \in LoanAmounts,
                      LendAndCall(lender, amount)
               PROVE  SettledWith(lender)
    OBVIOUS
  <2> DEFINE earned == Earned(lender)
             burnt  == fT.supply - fT'.supply
             left   == fT'.bal[lender]
  <2>1. /\ fT'.bal[BorrowerAccount] <= fT.bal[BorrowerAccount]
        /\ earned \in Nat
        /\ burnt = earned - ProtocolShare(earned)
        /\ left \in {0, ProtocolShare(earned)}
    BY AmountsAssumption, LoanLedger
  <2> HIDE DEF earned, burnt, left
  <2>2. 200 * burnt >= 199 * earned /\ 200 * left <= earned
    BY <2>1 DEF ProtocolShare
  <2> QED BY <2>1, <2>2 DEF earned, burnt, left
<1>2. IInv /\ [Next]_vars => [Settled]_vars
  BY <1>1
<1>3. LoanSettles <=> [][Settled]_vars
  BY DEF LoanSettles
<1> QED BY <1>2, <1>3, Invariance, PTL DEF Spec

-----------------------------------------------------------------------------
(* The way out.  That a withdrawal never fails needs the ledgers to add up: a *)
(* wallet's fT is then covered by the supply, and what it is paid and what it *)
(* has of T already fit one account.                                          *)

ExitInv == IInv /\ AddsUp(T) /\ AddsUp(fT)

LEMMA AccountsFinite == IsFiniteSet(TAccounts) /\ IsFiniteSet(FlufAccounts)
<1>1. IsFiniteSet(TAccounts)
  BY UsersAssumption, FS_AddElement DEF TAccounts
<1>2. IsFiniteSet(Users \union OtherPoolAccounts)
  BY UsersAssumption, FS_Union
<1>3. IsFiniteSet((((Users \union OtherPoolAccounts) \union {PoolFlufAccount})
                     \union {FeeAccount}) \union {BorrowerAccount})
  BY <1>2, FS_AddElement
<1>4. FlufAccounts = (((Users \union OtherPoolAccounts) \union {PoolFlufAccount})
                       \union {FeeAccount}) \union {BorrowerAccount}
  BY DEF FlufAccounts, PoolOwned
<1> QED BY <1>1, <1>3, <1>4

LEMMA InitExitInv == Init => ExitInv
<1> SUFFICES ASSUME Init PROVE ExitInv
  OBVIOUS
<1>1. AddsUp(T)
  <2>1. /\ DOMAIN T.bal = TAccounts
        /\ T.bal[PoolAccount] = 0
        /\ \A a \in Users : T.bal[a] = InitialT
        /\ T.supply = InitialT * Cardinality(Users)
        /\ TAccounts \ {PoolAccount} = Users
        /\ InitialT \in Nat
    BY Names, AmountsAssumption, MaxU64Assumption DEF Init, TAccounts, Amount
  <2>2. \A a \in TAccounts : T.bal[a] \in Nat
    BY <2>1 DEF TAccounts
  <2>3. Total(T.bal, TAccounts) = 0 + Total(T.bal, Users)
    BY <2>1, <2>2, AccountsFinite, Names, TotalSplit
  <2>4. Total(T.bal, Users) = T.supply
    BY <2>1, UsersAssumption, TotalConstant
  <2>5. T.supply \in Nat
    BY AmountsAssumption, MaxU64Assumption DEF Init, Amount
  <2> QED BY <2>1, <2>3, <2>4, <2>5 DEF AddsUp
<1>2. AddsUp(fT)
  <2>1. /\ DOMAIN fT.bal = FlufAccounts /\ fT.supply = 0
        /\ \A a \in FlufAccounts : fT.bal[a] = 0
    BY DEF Init
  <2>2. Total(fT.bal, FlufAccounts) = 0 * Cardinality(FlufAccounts)
    BY <2>1, AccountsFinite, TotalConstant
  <2>3. Cardinality(FlufAccounts) \in Nat
    BY AccountsFinite, FS_CardinalityType
  <2> QED BY <2>1, <2>2, <2>3 DEF AddsUp
<1> QED BY <1>1, <1>2, InitIInv DEF ExitInv

\* The four calls of lend_and_call, one after the other.
LEMMA LoanAddsUp ==
  ASSUME IInv, AddsUp(fT), NEW lender \in PoolOwned, NEW amount \in Amount,
         LendAndCall(lender, amount)
  PROVE  AddsUp(fT')
<1> DEFINE rep    == TotalRepayment(amount)
           lent   == MintTo(fT, BorrowerAccount, amount)
           repaid == Transfer(lent, BorrowerAccount, lender, rep)
           held   == repaid.bal[lender]
           fee    == ProtocolShare(held - amount)
           shared == Transfer(repaid, lender, FeeAccount, fee)
<1>1. /\ CanMint(fT, BorrowerAccount, amount, Pool, {Pool})
      /\ CanTransfer(lent, BorrowerAccount, lender, rep,
                     BorrowerAccount, {BorrowerAccount})
      /\ held >= RequiredBack(amount)
      /\ CanTransfer(repaid, lender, FeeAccount, fee, Pool, {Pool})
      /\ CanBurn(shared, lender, held - fee, Pool, {Pool})
      /\ fT' = Burn(shared, lender, held - fee)
  BY DEF LendAndCall, CanHandleBorrow, HandleBorrow
<1>2. amount \in Nat /\ rep \in Nat /\ RequiredBack(amount) >= amount
  BY MaxU64Assumption DEF Amount, TotalRepayment, BorrowFee, RequiredBack
<1> lender \in FlufAccounts
  BY Names
<1>3. /\ lent \in Ledgers(FlufAccounts) /\ AddsUp(lent)
  BY <1>1, <1>2, Names, AccountsFinite, MintToLedger, MintToAddsUp DEF IInv, TypeOK
<1> HIDE DEF lent
<1>4. /\ repaid \in Ledgers(FlufAccounts) /\ AddsUp(repaid)
  BY <1>1, <1>2, <1>3, Names, AccountsFinite, TransferLedger, TransferAddsUp
<1> HIDE DEF repaid
<1>5. held \in Nat
  BY <1>4, Names, MaxU64Assumption DEF Ledgers, Amount
<1>6. fee \in Nat /\ held - fee \in Nat
  <2>1. RequiredBack(amount) \in Nat
    BY <1>2 DEF RequiredBack
  <2>2. held - amount \in Nat
    BY <1>1, <1>2, <1>5, <2>1
  <2> QED BY <1>2, <1>5, <2>2 DEF ProtocolShare
<1> HIDE DEF held, fee
<1>7. /\ shared \in Ledgers(FlufAccounts) /\ AddsUp(shared)
  BY <1>1, <1>4, <1>6, Names, AccountsFinite, TransferLedger, TransferAddsUp
<1> HIDE DEF shared
<1> QED BY <1>1, <1>6, <1>7, Names, AccountsFinite, BurnAddsUp

LEMMA NextExitInv == ExitInv /\ [Next]_vars => ExitInv'
<1> SUFFICES ASSUME ExitInv, [Next]_vars PROVE AddsUp(T') /\ AddsUp(fT')
  BY NextStep DEF ExitInv
<1>1. /\ IInv /\ AddsUp(T) /\ AddsUp(fT)
      /\ T \in Ledgers(TAccounts) /\ fT \in Ledgers(FlufAccounts)
  BY DEF ExitInv, IInv, TypeOK
<1>2. CASE UNCHANGED <<T, fT>>
  BY <1>1, <1>2
<1>3. ASSUME NEW lender \in PoolOwned, NEW amount \in LoanAmounts,
             LendAndCall(lender, amount)
      PROVE  AddsUp(T') /\ AddsUp(fT')
  <2>1. amount \in Amount /\ T' = T
    BY <1>3, AmountsAssumption DEF LendAndCall
  <2> QED BY <1>1, <1>3, <2>1, LoanAddsUp
<1>4. ASSUME NEW user \in Users, Withdraw(user)
      PROVE  AddsUp(T') /\ AddsUp(fT')
  <2> DEFINE n == fT.bal[user]
             w == Redemption(n)
  <2>1. /\ CanBurn(fT, user, n, user, {user})
        /\ CanTransfer(T, PoolAccount, user, w, Pool, {user, Pool})
        /\ fT' = Burn(fT, user, n)
        /\ T' = Transfer(T, PoolAccount, user, w)
    BY <1>4 DEF Withdraw, CanWithdraw
  <2>2. n \in Nat /\ n \in Amount /\ n <= fT.supply
    BY <1>1, <2>1, Names, MaxU64Assumption DEF Ledgers, Amount, CanBurn
  <2>3. w \in Nat
    BY <1>1, <2>2, RedemptionPart
  <2> HIDE DEF n, w
  <2> QED BY <1>1, <2>1, <2>2, <2>3, Names, AccountsFinite, BurnAddsUp, TransferAddsUp
<1>5. ASSUME NEW user \in Users, NEW amount \in DepositAmounts, Deposit(user, amount)
      PROVE  AddsUp(T') /\ AddsUp(fT')
  <2> DEFINE m == SharesFor(amount)
  <2>1. /\ CanTransfer(T, user, PoolAccount, amount, user, {user})
        /\ CanMint(fT, user, m, Pool, {user, Pool})
        /\ T' = Transfer(T, user, PoolAccount, amount)
        /\ fT' = MintTo(fT, user, m)
    BY <1>5 DEF Deposit
  <2>2. amount \in Nat /\ amount \in Amount
    BY AmountsAssumption, MaxU64Assumption DEF Amount
  <2>3. m \in Nat
    BY <1>1, <2>2, DepositShares
  <2> HIDE DEF m
  <2> QED BY <1>1, <2>1, <2>2, <2>3, Names, AccountsFinite, MintToAddsUp, TransferAddsUp
<1>6. ASSUME NEW user \in Users, NEW amount \in SendAmounts, DonateT(user, amount)
      PROVE  AddsUp(T') /\ AddsUp(fT')
  <2>1. /\ CanTransfer(T, user, PoolAccount, amount, user, {user})
        /\ T' = Transfer(T, user, PoolAccount, amount)
        /\ fT' = fT
    BY <1>6 DEF DonateT
  <2>2. amount \in Nat
    BY AmountsAssumption, MaxU64Assumption DEF Amount
  <2> QED BY <1>1, <2>1, <2>2, Names, AccountsFinite, TransferAddsUp
<1>7. ASSUME NEW user \in Users, WithdrawFees(user)
      PROVE  AddsUp(T') /\ AddsUp(fT')
  <2> DEFINE n  == fT.bal[FeeAccount]
             ok == CanTransfer(fT, FeeAccount, user, n, Pool, {user})
  <2>1. /\ fT' = IF ok THEN Transfer(fT, FeeAccount, user, n) ELSE fT
        /\ T' = T
    BY <1>7 DEF WithdrawFees
  <2>2. n \in Nat
    BY <1>1, Names, MaxU64Assumption DEF Ledgers, Amount
  <2>3. CASE ok
    BY <1>1, <2>1, <2>2, <2>3, Names, AccountsFinite, TransferAddsUp
  <2>4. CASE ~ ok
    BY <1>1, <2>1, <2>4
  <2> QED BY <2>3, <2>4
<1>8. ASSUME NEW user \in Users, NEW amount \in SendAmounts,
             NEW to \in FlufAccounts,
             SendFluf(user, to, amount)
      PROVE  AddsUp(T') /\ AddsUp(fT')
  <2>1. /\ CanTransfer(fT, user, to, amount, user, {user})
        /\ fT' = Transfer(fT, user, to, amount)
        /\ T' = T
    BY <1>8 DEF SendFluf
  <2>2. amount \in Nat /\ user \in FlufAccounts /\ to \in FlufAccounts
    BY Names, AmountsAssumption, MaxU64Assumption DEF Amount
  <2> QED BY <1>1, <2>1, <2>2, AccountsFinite, TransferAddsUp
<1>9. CASE \/ CreatePool \/ CreateAccounts \/ \E user \in Users : Initialize(user)
           \/ UNCHANGED vars
  BY <1>2, <1>9 DEF CreatePool, CreateAccounts, Initialize, vars
<1> QED BY <1>3, <1>4, <1>5, <1>6, <1>7, <1>8, <1>9 DEF Next

\* With ledgers that add up, nothing a withdrawal asks for can be missing.
LEMMA ExitFromInv == ExitInv => ExitOpen
<1> SUFFICES ASSUME ExitInv, Pool \in created, NEW user \in Users
             PROVE  CanWithdraw(user)
  BY DEF ExitOpen
<1> DEFINE n == fT.bal[user]
           w == Redemption(n)
<1>1. /\ IInv /\ AddsUp(T) /\ AddsUp(fT)
      /\ T \in Ledgers(TAccounts) /\ fT \in Ledgers(FlufAccounts)
      /\ user \in TAccounts /\ user \in FlufAccounts
  BY Names DEF ExitInv, IInv, TypeOK
<1>2. /\ n \in Amount /\ n <= fT.supply
  BY <1>1, AccountsFinite, BalanceBounds DEF Ledgers
<1>3. w \in Nat /\ w <= T.bal[PoolAccount]
  BY <1>1, <1>2, RedemptionPart
<1>4. T.bal[user] + T.bal[PoolAccount] <= T.supply
  BY <1>1, Names, AccountsFinite, BalanceBounds
<1>5. /\ T.bal[user] \in Nat /\ T.bal[PoolAccount] \in Nat /\ T.supply \in Nat
      /\ T.supply <= MaxU64 /\ n \in Nat
  BY <1>1, <1>2, Names, MaxU64Assumption DEF Ledgers, Amount
<1>6. WithdrawAccounts(user)
  BY <1>1 DEF WithdrawAccounts, Ledgers
<1>7. CanBurn(fT, user, n, user, {user})
  BY <1>2, <1>5 DEF CanBurn
<1> HIDE DEF n, w
<1>8. T.bal[user] + w <= MaxU64
  BY <1>3, <1>4, <1>5, MaxU64Assumption
<1>9. CanTransfer(T, PoolAccount, user, w, Pool, {user, Pool})
  BY <1>3, <1>8 DEF CanTransfer
<1> QED BY <1>6, <1>7, <1>9 DEF CanWithdraw, n, w

\* Every holder can leave at every moment, for any number of wallets and after any
\* deposits, loans, gifts and withdrawals of others: withdraw never fails.
THEOREM ExitAlwaysOpen == Spec => []ExitOpen
<1>1. Spec => []ExitInv
  BY InitExitInv, NextExitInv, PTL DEF Spec
<1> QED BY <1>1, ExitFromInv, PTL
=============================================================================
