--------------------------- MODULE SplTokenProofs ---------------------------
(***************************************************************************)
(* Facts about the ledger operators that the proofs of the programs cite,   *)
(* and the arithmetic of a share price rounded down.                        *)
(***************************************************************************)
EXTENDS SplToken, SumProofs

\* Integer division by a positive number: the quotient times the divisor does not
\* exceed the dividend.
LEMMA DivFloor ==
  ASSUME NEW a \in Nat, NEW b \in Nat \ {0}
  PROVE  a \div b \in Nat /\ (a \div b) * b <= a
OBVIOUS

\* A cast to u64 keeps what fits and yields a u64 of anything.
LEMMA CastFits ==
  ASSUME NEW n \in Nat
  PROVE  /\ n % (MaxU64 + 1) \in Amount
         /\ n <= MaxU64 => n % (MaxU64 + 1) = n
BY MaxU64Assumption DEF Amount

\* What mint_to does to a ledger that fits.
LEMMA MintToLedger ==
  ASSUME NEW A, NEW m \in Ledgers(A), NEW to \in A, NEW n \in Nat,
         NEW au, NEW si, CanMint(m, to, n, au, si)
  PROVE  /\ MintTo(m, to, n) \in Ledgers(A)
         /\ MintTo(m, to, n).supply = m.supply + n
         /\ MintTo(m, to, n).bal = [m.bal EXCEPT ![to] = @ + n]
BY MaxU64Assumption DEF CanMint, MintTo, Ledgers, Amount

LEMMA BurnLedger ==
  ASSUME NEW A, NEW m \in Ledgers(A), NEW from \in A, NEW n \in Nat,
         NEW au, NEW si, CanBurn(m, from, n, au, si)
  PROVE  /\ Burn(m, from, n) \in Ledgers(A)
         /\ Burn(m, from, n).supply = m.supply - n
         /\ Burn(m, from, n).bal = [m.bal EXCEPT ![from] = @ - n]
BY MaxU64Assumption DEF CanBurn, Burn, Ledgers, Amount

LEMMA TransferLedger ==
  ASSUME NEW A, NEW m \in Ledgers(A), NEW from \in A, NEW to \in A, NEW n \in Nat,
         NEW au, NEW si, CanTransfer(m, from, to, n, au, si)
  PROVE  /\ Transfer(m, from, to, n) \in Ledgers(A)
         /\ Transfer(m, from, to, n).supply = m.supply
         /\ from # to =>
              /\ Transfer(m, from, to, n).bal[from] = m.bal[from] - n
              /\ Transfer(m, from, to, n).bal[to] = m.bal[to] + n
              /\ \A a \in A \ {from, to} :
                   Transfer(m, from, to, n).bal[a] = m.bal[a]
BY MaxU64Assumption DEF CanTransfer, Transfer, Ledgers, Amount

-----------------------------------------------------------------------------
(* Supply and balances *)

\* The instructions keep the balances adding up to the supply.
LEMMA MintToAddsUp ==
  ASSUME NEW A, IsFiniteSet(A), NEW m \in Ledgers(A), AddsUp(m),
         NEW to \in A, NEW n \in Nat, NEW au, NEW si, CanMint(m, to, n, au, si)
  PROVE  AddsUp(MintTo(m, to, n))
<1> DEFINE k == MintTo(m, to, n)
<1>1. /\ k \in Ledgers(A) /\ k.supply = m.supply + n
      /\ k.bal = [m.bal EXCEPT ![to] = @ + n]
  BY MintToLedger
<1> HIDE DEF k
<1>2. /\ DOMAIN m.bal = A /\ DOMAIN k.bal = A
      /\ \A a \in A : m.bal[a] \in Nat /\ k.bal[a] \in Nat
      /\ \A a \in A \ {to} : k.bal[a] = m.bal[a]
      /\ k.bal[to] = m.bal[to] + n
      /\ m.supply \in Nat
  BY <1>1, MaxU64Assumption DEF Ledgers, Amount
<1>3. Total(k.bal, A) = Total(m.bal, A) + k.bal[to] - m.bal[to]
  BY <1>2, TotalUpdate
<1>4. Total(m.bal, A) = m.supply
  BY <1>2 DEF AddsUp
<1>5. Total(k.bal, A) = k.supply
  BY <1>1, <1>2, <1>3, <1>4
<1> QED BY <1>2, <1>5 DEF AddsUp, k

LEMMA BurnAddsUp ==
  ASSUME NEW A, IsFiniteSet(A), NEW m \in Ledgers(A), AddsUp(m),
         NEW from \in A, NEW n \in Nat, NEW au, NEW si, CanBurn(m, from, n, au, si)
  PROVE  AddsUp(Burn(m, from, n))
<1> DEFINE k == Burn(m, from, n)
<1>1. /\ k \in Ledgers(A) /\ k.supply = m.supply - n
      /\ k.bal = [m.bal EXCEPT ![from] = @ - n]
  BY BurnLedger
<1> HIDE DEF k
<1>2. /\ DOMAIN m.bal = A /\ DOMAIN k.bal = A
      /\ \A a \in A : m.bal[a] \in Nat /\ k.bal[a] \in Nat
      /\ \A a \in A \ {from} : k.bal[a] = m.bal[a]
      /\ k.bal[from] = m.bal[from] - n
      /\ m.supply \in Nat
  BY <1>1, MaxU64Assumption DEF Ledgers, Amount
<1>3. Total(k.bal, A) = Total(m.bal, A) + k.bal[from] - m.bal[from]
  BY <1>2, TotalUpdate
<1>4. Total(m.bal, A) = m.supply
  BY <1>2 DEF AddsUp
<1>5. Total(k.bal, A) = k.supply
  BY <1>1, <1>2, <1>3, <1>4
<1> QED BY <1>2, <1>5 DEF AddsUp, k

\* A transfer is a change of the sender's balance and one of the recipient's.
LEMMA TransferAddsUp ==
  ASSUME NEW A, IsFiniteSet(A), NEW m \in Ledgers(A), AddsUp(m),
         NEW from \in A, NEW to \in A, NEW n \in Nat, NEW au, NEW si,
         CanTransfer(m, from, to, n, au, si)
  PROVE  AddsUp(Transfer(m, from, to, n))
<1>1. CASE from = to
  BY <1>1 DEF Transfer, AddsUp
<1>2. CASE from # to
  <2> DEFINE k    == Transfer(m, from, to, n)
             half == [m.bal EXCEPT ![from] = @ - n]
  <2>1. /\ k \in Ledgers(A) /\ k.supply = m.supply
        /\ k.bal[from] = m.bal[from] - n /\ k.bal[to] = m.bal[to] + n
        /\ \A a \in A \ {from, to} : k.bal[a] = m.bal[a]
    BY <1>2, TransferLedger
  <2>2. /\ DOMAIN m.bal = A /\ m.bal[from] - n \in Nat
        /\ \A a \in A : m.bal[a] \in Nat
        /\ m.supply \in Nat
    BY MaxU64Assumption DEF CanTransfer, Ledgers, Amount
  <2>3. /\ half[from] = m.bal[from] - n
        /\ \A a \in A \ {from} : half[a] = m.bal[a]
    BY <2>2
  <2>4. \A a \in A : half[a] \in Nat
    BY <2>2, <2>3
  <2> HIDE DEF k, half
  <2>5. DOMAIN k.bal = A /\ \A a \in A : k.bal[a] \in Nat
    BY <2>1, MaxU64Assumption DEF Ledgers, Amount
  <2>6. \A a \in A \ {to} : k.bal[a] = half[a]
    BY <2>1, <2>3
  <2>7. Total(half, A) = Total(m.bal, A) + half[from] - m.bal[from]
    BY <2>2, <2>3, <2>4, TotalUpdate
  <2>8. Total(k.bal, A) = Total(half, A) + k.bal[to] - half[to]
    BY <2>4, <2>5, <2>6, TotalUpdate
  <2>9. Total(m.bal, A) = m.supply
    BY <2>2 DEF AddsUp
  <2>10. half[to] = m.bal[to]
    BY <1>2, <2>3
  <2>11. Total(k.bal, A) = k.supply
    BY <2>1, <2>2, <2>3, <2>7, <2>8, <2>9, <2>10
  <2> QED BY <2>5, <2>11 DEF AddsUp, k
<1> QED BY <1>1, <1>2

\* No balance exceeds the supply, and no two balances together.
LEMMA BalanceBounds ==
  ASSUME NEW A, IsFiniteSet(A), NEW m \in Ledgers(A), AddsUp(m)
  PROVE  /\ \A a \in A : m.bal[a] <= m.supply
         /\ \A a, b \in A : a # b => m.bal[a] + m.bal[b] <= m.supply
<1>1. DOMAIN m.bal = A /\ \A a \in A : m.bal[a] \in Nat
  BY MaxU64Assumption DEF Ledgers, Amount
<1>2. Total(m.bal, A) = m.supply
  BY <1>1 DEF AddsUp
<1> QED BY <1>1, <1>2, TotalBounds

-----------------------------------------------------------------------------
(* Shares of a pool *)

\* The part p of a whole, f out of s, rounded down: it does not exceed the exact
\* part, nor the whole when f is at most s, nor f when p is at most s.
LEMMA PartRoundedDown ==
  ASSUME NEW f \in Nat, NEW p \in Nat, NEW s \in Nat \ {0}
  PROVE  /\ (f * p) \div s \in Nat
         /\ ((f * p) \div s) * s <= f * p
         /\ f <= s => (f * p) \div s <= p
         /\ p <= s => (f * p) \div s <= f
<1> DEFINE w == (f * p) \div s
<1>1. f * p \in Nat
  OBVIOUS
<1>2. w \in Nat /\ w * s <= f * p
  BY <1>1, DivFloor
<1>3. ASSUME f <= s PROVE w <= p
  <2>1. f * p <= s * p
    BY <1>3
  <2>2. w * s <= p * s
    BY <1>2, <2>1
  <2> QED BY <1>2, <2>2
<1>4. ASSUME p <= s PROVE w <= f
  <2>1. f * p <= f * s
    BY <1>4
  <2> QED BY <1>2, <2>1
<1> QED BY <1>2, <1>3, <1>4

\* What is left when a part is taken out of a covered pool covers what is left.
LEMMA RestCovered ==
  ASSUME NEW f \in Nat, NEW p \in Nat, NEW s \in Nat \ {0}, NEW w \in Nat,
         f <= s, s <= p, w <= p, w * s <= f * p
  PROVE  /\ s - f <= p - w
         /\ (p - w) * s >= p * (s - f)
<1>1. (p - w) * s >= p * (s - f)
  OBVIOUS
<1>2. p * (s - f) >= s * (s - f)
  OBVIOUS
<1>3. (s - f) * s <= (p - w) * s
  BY <1>1, <1>2
<1> QED BY <1>1, <1>3
=============================================================================
