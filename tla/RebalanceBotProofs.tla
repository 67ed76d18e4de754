------------------------- MODULE RebalanceBotProofs --------------------------
(***************************************************************************)
(* What the vault promises holds with the bot at work on it, whatever it    *)
(* read, computed and sent, and whatever landed late or after a restart:    *)
(* the steps of the bot reduce to instructions of the vault with any u64 as *)
(* their argument, for which VaultProofs and VaultBooksProofs have their    *)
(* lemmas.  And what the bot computes from whatever it read are              *)
(* transactions, in the order of their strategies.                          *)
(***************************************************************************)
EXTENDS RebalanceBot, VaultBooksProofs, SequenceTheorems

-----------------------------------------------------------------------------
(* The vault under the bot *)

LEMMA ExecuteBooksInv ==
  ASSUME BooksInv, NEW tx, Execute(tx)
  PROVE  BooksInv'
<1>1. tx.strategy \in StrategyIds /\ tx.arg \in Amount
  BY MaxU64Assumption, BotAssumption DEF Execute, Transactions, Amount
<1>2. \/ Allocate(Manager, tx.strategy, tx.arg)
      \/ Deallocate(Manager, tx.strategy, tx.arg)
      \/ ReportYield(Manager, tx.strategy, tx.arg)
  BY DEF Execute
<1>3. IInv'
  BY <1>1, <1>2, AllocateIInv, ReportIInv DEF BooksInv
<1>4. TotalWithinBooks'
  BY <1>1, <1>2, ManagerWithin DEF BooksInv
<1> QED BY <1>3, <1>4 DEF BooksInv

LEMMA StutterBooksInv ==
  ASSUME BooksInv, UNCHANGED vars
  PROVE  BooksInv'
BY NextBooksInv

\* The harvest is an instruction of the admin; the bot's other steps leave the vault
\* alone.
LEMMA BotStepBooksInv ==
  ASSUME BooksInv, BotStep \/ Restart
  PROVE  BooksInv'
<1>1. CASE StartRebalance \/ FetchStrategies \/ FetchFails \/ StartRefresh \/ Restart
  BY <1>1, StutterBooksInv
     DEF StartRebalance, FetchStrategies, FetchFails, StartRefresh, Restart
<1>2. ASSUME NEW loop \in Loops, Lands(loop) \/ Fails(loop) \/ TimesOut(loop)
      PROVE  BooksInv'
  BY <1>2, StutterBooksInv, ExecuteBooksInv DEF Lands, Fails, TimesOut
<1>3. ASSUME NEW l \in Loops \union {Stopped}, NEW tx \in late[l],
             LandsLate(l, tx) \/ Expires(l, tx)
      PROVE  BooksInv'
  BY <1>3, StutterBooksInv, ExecuteBooksInv DEF LandsLate, Expires
<1>4. CASE FeeHarvest
  <2>1. AdminStep
    BY <1>4 DEF FeeHarvest, AdminStep
  <2> QED BY <2>1, NextBooksInv DEF Next
<1> QED BY <1>1, <1>2, <1>3, <1>4 DEF BotStep

LEMMA OthersStepBooksInv ==
  ASSUME BooksInv, OthersStep
  PROVE  BooksInv'
BY NextBooksInv DEF OthersStep, Next

LEMMA BotNextBooksInv == BooksInv /\ [BotNext]_botVars => BooksInv'
BY BotStepBooksInv, OthersStepBooksInv, StutterBooksInv DEF BotNext, botVars

-----------------------------------------------------------------------------
(* The order of the strategies *)

LEMMA IndexSets ==
  ASSUME NEW ids \in SUBSET StrategyIds
  PROVE  /\ \A i \in ids : i \in Nat /\ i < MAX_STRATEGIES
         /\ IsFiniteSet(ids) /\ Cardinality(ids) \in Nat
<1>1. \A i \in StrategyIds : i \in Nat /\ i < MAX_STRATEGIES
  BY Numbers DEF StrategyIds
<1>2. IsFiniteSet(ids)
  BY IdsFinite, FS_Subset
<1> QED BY <1>1, <1>2, FS_CardinalityType

\* A sequence of the elements of a set of numbers, from the smallest to the largest.
Ascending(s, S) ==
  /\ s \in [1 .. Cardinality(S) -> S]
  /\ \A j, k \in 1 .. Cardinality(S) : j < k => s[j] < s[k]

Below(S, n) == {i \in S : i < n}

\* One more element, larger than the others, comes last.
LEMMA AppendLargest ==
  ASSUME NEW S, IsFiniteSet(S), NEW n \in Nat, \A i \in S : i \in Nat /\ i < n,
         NEW s, Ascending(s, S)
  PROVE  \E t : Ascending(t, S \union {n})
<1> DEFINE c == Cardinality(S)
           t == [j \in 1 .. c + 1 |-> IF j \in 1 .. c THEN s[j] ELSE n]
<1>1. c \in Nat /\ n \notin S
  BY FS_CardinalityType
<1>2. Cardinality(S \union {n}) = c + 1
  BY <1>1, FS_AddElement
<1>3. /\ s \in [1 .. c -> S]
      /\ \A j, k \in 1 .. c : j < k => s[j] < s[k]
  BY DEF Ascending
<1> HIDE DEF c
<1>4. t \in [1 .. c + 1 -> S \union {n}]
  BY <1>3
<1>5. ASSUME NEW j \in 1 .. c + 1, NEW k \in 1 .. c + 1, j < k
      PROVE  t[j] < t[k]
  <2>1. j \in 1 .. c /\ t[j] = s[j] /\ s[j] \in S
    BY <1>1, <1>3, <1>5
  <2>2. CASE k \in 1 .. c
    BY <1>3, <1>5, <2>1, <2>2
  <2>3. CASE k \notin 1 .. c
    BY <2>1, <2>3
  <2> QED BY <2>2, <2>3
<1> HIDE DEF t
<1>6. Ascending(t, S \union {n})
  BY <1>2, <1>4, <1>5 DEF Ascending
<1> QED BY <1>6

\* A set of indices can be put in order: a sequence of those below n is extended by
\* n when n is one of them.
LEMMA OrderExists ==
  ASSUME NEW ids \in SUBSET StrategyIds
  PROVE  \E s : Ascending(s, ids)
<1> DEFINE T == {n \in Nat : \E s : Ascending(s, Below(ids, n))}
<1>1. (\A i \in ids : i \in Nat /\ i < MAX_STRATEGIES) /\ IsFiniteSet(ids)
  BY IndexSets
<1>2. 0 \in T
  <2>1. Below(ids, 0) = {}
    BY <1>1 DEF Below
  <2>2. Ascending(<<>>, {})
    BY FS_EmptySet DEF Ascending
  <2> QED BY <2>1, <2>2
<1>3. ASSUME NEW n \in Nat, n \in T
      PROVE  n + 1 \in T
  <2>1. PICK s : Ascending(s, Below(ids, n))
    BY <1>3
  <2>2. CASE n \notin ids
    <3>1. Below(ids, n + 1) = Below(ids, n)
      BY <1>1, <2>2 DEF Below
    <3> QED BY <2>1, <3>1
  <2>3. CASE n \in ids
    <3>1. Below(ids, n + 1) = Below(ids, n) \union {n}
      <4>1. \A i \in ids : i < n + 1 <=> i < n \/ i = n
        BY <1>1
      <4> QED BY <2>3, <4>1, Zenon DEF Below
    <3>2. IsFiniteSet(Below(ids, n))
      BY <1>1, FS_Subset DEF Below
    <3>3. \A i \in Below(ids, n) : i \in Nat /\ i < n
      BY <1>1 DEF Below
    <3>4. \E t : Ascending(t, Below(ids, n + 1))
      BY <2>1, <3>1, <3>2, <3>3, AppendLargest
    <3> QED BY <3>4
  <2> QED BY <2>2, <2>3
<1> HIDE DEF T
<1>4. MAX_STRATEGIES \in T
  BY <1>2, <1>3, NatSteps, Numbers
<1>5. Below(ids, MAX_STRATEGIES) = ids
  BY <1>1 DEF Below
<1> QED BY <1>4, <1>5 DEF T

\* What InOrder returns.
LEMMA InOrderIs ==
  ASSUME NEW ids \in SUBSET StrategyIds
  PROVE  Ascending(InOrder(ids), ids) /\ Cardinality(ids) \in Nat
<1> DEFINE c == Cardinality(ids)
           Sorted(s) == \A j, k \in DOMAIN s : j < k => s[j] < s[k]
<1>1. c \in Nat /\ \A i \in ids : i \in Nat
  BY IndexSets
<1>2. PICK s : Ascending(s, ids)
  BY OrderExists
<1>3. s \in [1 .. c -> ids] /\ \A j, k \in 1 .. c : j < k => s[j] < s[k]
  BY <1>2 DEF Ascending
<1>4. ASSUME NEW j \in 1 .. c, NEW k \in 1 .. c, j # k
      PROVE  s[j] # s[k]
  <2>1. j < k \/ k < j
    BY <1>1, <1>4
  <2>2. s[j] \in Nat /\ s[k] \in Nat
    BY <1>1, <1>3
  <2> QED BY <1>3, <2>1, <2>2
<1>5. s \in SetToSeqs(ids)
  BY <1>3, <1>4 DEF SetToSeqs
<1>6. Sorted(s)
  BY <1>3
<1> HIDE DEF Sorted
<1>7. InOrder(ids) = CHOOSE t \in SetToSeqs(ids) : Sorted(t)
  BY DEF InOrder, Sorted
<1>8. InOrder(ids) \in SetToSeqs(ids) /\ Sorted(InOrder(ids))
  BY <1>5, <1>6, <1>7
<1>9. InOrder(ids) \in [1 .. c -> ids]
  BY <1>8 DEF SetToSeqs
<1> QED BY <1>1, <1>8, <1>9 DEF Ascending, Sorted

-----------------------------------------------------------------------------
(* What a pass computes from what it read *)

LEMMA ActiveIds == ActiveStrategies \in SUBSET StrategyIds
BY DEF ActiveStrategies

\* The excess and the shortfall of a strategy are numbers: there is at least the one
\* active strategy, so the division by their number is defined.
LEMMA DeltaType ==
  ASSUME TypeOK, NEW idle \in Amount, NEW i \in ActiveStrategies
  PROVE  Delta(i, idle) \in Int
<1> DEFINE f == [j \in StrategyIds |-> strategies[j].position_value]
           n == Cardinality(ActiveStrategies)
<1>1. \A j \in ActiveStrategies : f[j] \in Nat
  BY ActiveIds, BooksType
<1>2. IsFiniteSet(ActiveStrategies) /\ n \in Nat
  BY ActiveIds, IndexSets
<1>3. n # 0
  BY <1>2, FS_EmptySet
<1>4. Total(f, ActiveStrategies) \in Nat
  BY <1>1, <1>2, TotalType
<1>5. TotalValue(idle) = Total(f, ActiveStrategies) + idle
  BY DEF TotalValue
<1>6. TotalValue(idle) \in Nat
  BY <1>4, <1>5, Numbers
<1> HIDE DEF n, f
<1>7. TotalValue(idle) \div n \in Int
  BY <1>2, <1>3, <1>6
<1>8. strategies[i].position_value \in Nat
  BY ActiveIds, BooksType
<1> QED BY <1>7, <1>8 DEF Delta, n

\* A move is a transaction: it has something to move.
LEMMA MoveType ==
  ASSUME TypeOK, NEW idle \in Amount, NEW i \in ToMove(idle)
  PROVE  Move(i, idle) \in Transactions /\ Move(i, idle).strategy = i
<1>1. /\ i \in ActiveStrategies /\ i \in StrategyIds
      /\ Delta(i, idle) < 0 \/ (Delta(i, idle) > 0 /\ idle > 0)
  BY ActiveIds DEF ToMove
<1>2. Delta(i, idle) \in Int /\ idle \in Nat
  BY <1>1, DeltaType, Numbers
<1>3. CASE Delta(i, idle) > 0
  <2> DEFINE arg == IF Delta(i, idle) < idle THEN Delta(i, idle) ELSE idle
  <2>1. arg \in Nat \ {0}
    BY <1>1, <1>2, <1>3
  <2>2. Move(i, idle) = [ix |-> "allocate", strategy |-> i, arg |-> arg]
    BY <1>3 DEF Move
  <2> HIDE DEF arg
  <2> QED BY <1>1, <2>1, <2>2 DEF Transactions
<1>4. CASE ~ (Delta(i, idle) > 0)
  <2>1. - Delta(i, idle) \in Nat \ {0}
    BY <1>1, <1>2, <1>4
  <2>2. Move(i, idle) = [ix |-> "deallocate", strategy |-> i, arg |-> - Delta(i, idle)]
    BY <1>4 DEF Move
  <2> QED BY <1>1, <2>1, <2>2 DEF Transactions
<1> QED BY <1>3, <1>4

\* What a pass may send: transactions in the order of their strategies.
Queue(txs) ==
  /\ txs \in Seq(Transactions)
  /\ \A j, k \in DOMAIN txs : j < k => txs[j].strategy < txs[k].strategy

\* One transaction for each strategy of a set, in order, is what a pass may send.
LEMMA QueueFromIds ==
  ASSUME NEW ids \in SUBSET StrategyIds, NEW txs,
         txs = [k \in DOMAIN InOrder(ids) |-> txs[k]],
         \A k \in DOMAIN InOrder(ids) :
           txs[k] \in Transactions /\ txs[k].strategy = InOrder(ids)[k]
  PROVE  Queue(txs)
<1> DEFINE c == Cardinality(ids)
<1>1. /\ c \in Nat
      /\ InOrder(ids) \in [1 .. c -> ids]
      /\ \A j, k \in 1 .. c : j < k => InOrder(ids)[j] < InOrder(ids)[k]
  BY InOrderIs DEF Ascending
<1>2. DOMAIN InOrder(ids) = 1 .. c /\ DOMAIN txs = 1 .. c
  BY <1>1
<1>3. txs \in [1 .. c -> Transactions]
  BY <1>2
<1>4. txs \in Seq(Transactions)
  BY <1>1, <1>3, IsASeq
<1> QED BY <1>1, <1>2, <1>4 DEF Queue

LEMMA MovesQueue ==
  ASSUME TypeOK, NEW idle \in Amount
  PROVE  Queue(Moves(idle))
<1>1. CASE ShouldRebalance(idle)
  <2> DEFINE ids == ToMove(idle)
  <2>1. ids \in SUBSET StrategyIds
    BY ActiveIds DEF ToMove
  <2>2. Moves(idle) = [k \in DOMAIN InOrder(ids) |-> Move(InOrder(ids)[k], idle)]
    BY <1>1 DEF Moves
  <2>3. \A k \in DOMAIN InOrder(ids) : InOrder(ids)[k] \in ids
    BY <2>1, InOrderIs DEF Ascending
  <2>4. \A k \in DOMAIN InOrder(ids) :
          /\ Moves(idle)[k] \in Transactions
          /\ Moves(idle)[k].strategy = InOrder(ids)[k]
    BY <2>2, <2>3, MoveType
  <2> HIDE DEF ids
  <2> QED BY <2>1, <2>2, <2>4, QueueFromIds
<1>2. CASE ~ ShouldRebalance(idle)
  <2>1. Moves(idle) = <<>>
    BY <1>2 DEF Moves
  <2> QED BY <2>1 DEF Queue
<1> QED BY <1>1, <1>2

LEMMA ReportsQueue ==
  ASSUME TypeOK
  PROVE  Queue(Reports)
<1> DEFINE ids == {i \in ActiveStrategies : Readable(i) /\ SimulatedYield(i) > 0}
<1>1. ids \in SUBSET StrategyIds
  BY ActiveIds
<1>2. Reports = [k \in DOMAIN InOrder(ids) |->
                   [ix |-> "report_yield", strategy |-> InOrder(ids)[k],
                    arg |-> strategies[InOrder(ids)[k]].position_value
                              + SimulatedYield(InOrder(ids)[k])]]
  BY DEF Reports
<1>3. \A k \in DOMAIN InOrder(ids) : InOrder(ids)[k] \in ids
  BY <1>1, InOrderIs DEF Ascending
<1>4. ASSUME NEW i \in ids
      PROVE  strategies[i].position_value + SimulatedYield(i) \in Nat \ {0}
  <2>1. strategies[i].position_value \in Nat /\ SimulatedYield(i) > 0
    BY ActiveIds, BooksType
  <2>2. SimulatedYield(i) \in Nat
    BY <2>1, BotAssumption DEF SimulatedYield
  <2> QED BY <2>1, <2>2
<1>5. ASSUME NEW k \in DOMAIN InOrder(ids)
      PROVE  Reports[k] \in Transactions /\ Reports[k].strategy = InOrder(ids)[k]
  <2> DEFINE i == InOrder(ids)[k]
             arg == strategies[i].position_value + SimulatedYield(i)
  <2>1. i \in ids /\ i \in StrategyIds
    BY <1>1, <1>3
  <2>2. arg \in Nat \ {0}
    BY <1>4, <2>1
  <2>3. Reports[k] = [ix |-> "report_yield", strategy |-> i, arg |-> arg]
    BY <1>2
  <2> HIDE DEF arg, i
  <2>4. Reports[k] \in Transactions /\ Reports[k].strategy = i
    BY <2>1, <2>2, <2>3 DEF Transactions
  <2> QED BY <2>4 DEF i
<1> HIDE DEF ids
<1>6. Reports = [k \in DOMAIN InOrder(ids) |-> Reports[k]]
  BY <1>2
<1> QED BY <1>1, <1>5, <1>6, QueueFromIds

-----------------------------------------------------------------------------
(* What the bot holds is always of its type.  That a pass which sends has      *)
(* something to send is part of it: the transaction that is given up on, or    *)
(* left behind by a restart, is the head of that queue.                        *)

PassOK(p) ==
  \/ p = Resting
  \/ p.step = "fetch_strategies" /\ p.idle \in Amount
  \/ p.step = "send" /\ Queue(p.txs) /\ p.txs # <<>>

BotState ==
  /\ DOMAIN pass = Loops
  /\ \A loop \in Loops : PassOK(pass[loop])
  /\ late \in [Loops \union {Stopped} -> SUBSET Transactions]

LEMMA BotTypeParts == BotTypeOK <=> TypeOK /\ BotState
BY DEF BotTypeOK, BotState, PassOK, Queue, IsSending

LEMMA SendingOK ==
  ASSUME NEW txs, Queue(txs)
  PROVE  PassOK(Sending(txs))
BY DEF PassOK, Sending

\* The first transaction of a queue, and the queue that is left.
LEMMA QueueTail ==
  ASSUME NEW txs, Queue(txs), txs # <<>>
  PROVE  Head(txs) \in Transactions /\ Queue(Tail(txs))
<1>1. txs \in Seq(Transactions)
  BY DEF Queue
<1>2. /\ Head(txs) \in Transactions
      /\ Tail(txs) \in Seq(Transactions)
      /\ Len(Tail(txs)) = Len(txs) - 1
      /\ \A i \in 1 .. Len(Tail(txs)) : Tail(txs)[i] = txs[i + 1]
  BY <1>1, HeadTailProperties
<1>3. /\ DOMAIN txs = 1 .. Len(txs) /\ Len(txs) \in Nat
      /\ DOMAIN Tail(txs) = 1 .. Len(Tail(txs))
  BY <1>1, <1>2, LenProperties
<1> DEFINE t == Tail(txs)
<1> HIDE DEF t
<1>4. ASSUME NEW j \in DOMAIN t, NEW k \in DOMAIN t, j < k
      PROVE  t[j].strategy < t[k].strategy
  <2>1. /\ j + 1 \in DOMAIN txs /\ k + 1 \in DOMAIN txs /\ j + 1 < k + 1
        /\ t[j] = txs[j + 1] /\ t[k] = txs[k + 1]
    BY <1>2, <1>3, <1>4 DEF t
  <2> QED BY <2>1 DEF Queue
<1> QED BY <1>2, <1>4 DEF Queue, t

\* The transaction a loop is sending, and what it does next.
LEMMA CurrentType ==
  ASSUME BotState, NEW loop \in Loops, IsSending(loop)
  PROVE  Current(loop) \in Transactions /\ PassOK(Sending(Tail(pass[loop].txs)))
<1>1. Queue(pass[loop].txs) /\ pass[loop].txs # <<>>
  BY DEF BotState, PassOK, IsSending, Resting
<1> QED BY <1>1, QueueTail, SendingOK DEF Current

LEMMA PassUpdate ==
  ASSUME BotState, NEW loop \in Loops, NEW p, PassOK(p),
         pass' = [pass EXCEPT ![loop] = p]
  PROVE  DOMAIN pass' = Loops /\ \A l \in Loops : PassOK(pass'[l])
BY DEF BotState

LEMMA StartsState ==
  ASSUME TypeOK, BotState,
         StartRebalance \/ FetchStrategies \/ StartRefresh \/ FetchFails
  PROVE  BotState'
<1>1. \E loop \in Loops : \E p : PassOK(p) /\ pass' = [pass EXCEPT ![loop] = p]
  <2>1. "rebalance" \in Loops /\ "refresh" \in Loops
    BY DEF Loops
  <2>2. CASE StartRebalance
    <3>1. PassOK(Fetching(vault.idle_assets))
      BY DEF TypeOK, VaultAccount, Fetching, PassOK
    <3> QED BY <2>1, <2>2, <3>1 DEF StartRebalance
  <2>3. CASE FetchStrategies
    <3>1. pass["rebalance"].idle \in Amount
      BY <2>1, <2>3 DEF FetchStrategies, BotState, PassOK, Resting
    <3>2. PassOK(Sending(Moves(pass["rebalance"].idle)))
      BY <3>1, MovesQueue, SendingOK
    <3> QED BY <2>1, <2>3, <3>2 DEF FetchStrategies
  <2>4. CASE StartRefresh
    <3>1. PassOK(Sending(Reports))
      BY ReportsQueue, SendingOK
    <3> QED BY <2>1, <2>4, <3>1 DEF StartRefresh
  <2>5. CASE FetchFails
    <3>1. PassOK(Resting)
      BY DEF PassOK
    <3> QED BY <2>1, <2>5, <3>1 DEF FetchFails
  <2> QED BY <2>2, <2>3, <2>4, <2>5
<1>2. DOMAIN pass' = Loops /\ \A l \in Loops : PassOK(pass'[l])
  BY <1>1, PassUpdate
<1>3. late' = late
  BY DEF StartRebalance, FetchStrategies, StartRefresh, FetchFails
<1> QED BY <1>2, <1>3 DEF BotState

LEMMA SendsState ==
  ASSUME BotState, NEW loop \in Loops, Lands(loop) \/ Fails(loop) \/ TimesOut(loop)
  PROVE  BotState'
<1>1. IsSending(loop) /\ pass' = [pass EXCEPT ![loop] = Sending(Tail(@.txs))]
  BY DEF Lands, Fails, TimesOut, AfterFailure, Advance
<1>2. pass' = [pass EXCEPT ![loop] = Sending(Tail(pass[loop].txs))]
  BY <1>1
<1>3. Current(loop) \in Transactions /\ PassOK(Sending(Tail(pass[loop].txs)))
  BY <1>1, CurrentType
<1>4. DOMAIN pass' = Loops /\ \A l \in Loops : PassOK(pass'[l])
  BY <1>2, <1>3, PassUpdate
<1>5. late' \in [Loops \union {Stopped} -> SUBSET Transactions]
  <2>1. CASE late' = late
    BY <2>1 DEF BotState
  <2>2. CASE late' = [late EXCEPT ![loop] = @ \union {Current(loop)}]
    BY <1>3, <2>2 DEF BotState
  <2> QED BY <2>1, <2>2 DEF Lands, Fails, TimesOut
<1> QED BY <1>4, <1>5 DEF BotState

LEMMA SettlesState ==
  ASSUME BotState, NEW l \in Loops \union {Stopped}, NEW tx,
         LandsLate(l, tx) \/ Expires(l, tx)
  PROVE  BotState'
<1>1. late' = [late EXCEPT ![l] = @ \ {tx}] /\ pass' = pass
  BY DEF LandsLate, Expires
<1>2. late' \in [Loops \union {Stopped} -> SUBSET Transactions]
  BY <1>1 DEF BotState
<1> QED BY <1>1, <1>2 DEF BotState

LEMMA InFlightType ==
  ASSUME BotState
  PROVE  InFlight \subseteq Transactions
<1>1. \A t \in UNION Range(late) : t \in Transactions
  BY DEF BotState, Range
<1>2. \A loop \in Loops : IsSending(loop) => Current(loop) \in Transactions
  BY CurrentType
<1>3. \A tx \in InFlight :
        \/ tx \in UNION Range(late)
        \/ \E loop \in Loops : IsSending(loop) /\ tx = Current(loop)
  BY Zenon DEF InFlight
<1> QED BY <1>1, <1>2, <1>3

LEMMA RestartState ==
  ASSUME BotState, Restart
  PROVE  BotState'
<1>1. /\ pass' = [loop \in Loops |-> Resting]
      /\ late' = [l \in Loops \union {Stopped} |-> IF l = Stopped THEN InFlight ELSE {}]
  BY DEF Restart
<1>2. late' \in [Loops \union {Stopped} -> SUBSET Transactions]
  BY <1>1, InFlightType
<1>3. DOMAIN pass' = Loops /\ \A loop \in Loops : PassOK(pass'[loop])
  BY <1>1 DEF PassOK
<1> QED BY <1>2, <1>3 DEF BotState

LEMMA BotNextState == TypeOK /\ BotState /\ [BotNext]_botVars => BotState'
<1> SUFFICES ASSUME TypeOK, BotState, [BotNext]_botVars PROVE BotState'
  OBVIOUS
<1>1. CASE BotStep
  <2>1. CASE FeeHarvest
    BY <2>1 DEF FeeHarvest, BotState
  <2> QED BY <1>1, <2>1, StartsState, SendsState, SettlesState DEF BotStep
<1>2. CASE Restart
  BY <1>2, RestartState
<1>3. CASE OthersStep \/ UNCHANGED botVars
  <2>1. UNCHANGED <<pass, late>>
    BY <1>3 DEF OthersStep, botVars
  <2> QED BY <2>1 DEF BotState
<1> QED BY <1>1, <1>2, <1>3 DEF BotNext

-----------------------------------------------------------------------------
(* Theorems *)

THEOREM BotInvariance == BotSpec => []BooksInv
<1>1. BotInit => BooksInv
  BY InitBooksInv DEF BotInit
<1> QED BY <1>1, BotNextBooksInv, PTL DEF BotSpec

\* With the three writing loops of the bot at work on the vault, and the holders, the
\* admin and the clock beside them, the vault keeps its types, its count of LP tokens
\* covers the LP mint, and its total stays within the books: no loop can send an
\* argument, land at a moment or leave behind a transaction that breaks them.
THEOREM VaultSafeUnderBot ==
  BotSpec => [](TypeOK /\ LpSupplyCoversMint /\ TotalWithinBooks)
<1>1. BooksInv => TypeOK /\ LpSupplyCoversMint /\ TotalWithinBooks
  BY DEF BooksInv, IInv
<1> QED BY <1>1, BotInvariance, PTL

\* Whatever it read, and however its loops, the others and restarts interleave, the
\* bot sends and leaves behind transactions the program can take, with an argument
\* that is not zero, and at most one for a strategy in each pass.
THEOREM BotTypeCorrect == BotSpec => []BotTypeOK
<1> DEFINE Inv == BooksInv /\ BotState
<1>1. BotInit => Inv
  <2> SUFFICES ASSUME BotInit PROVE Inv
    OBVIOUS
  <2>1. BooksInv
    BY InitBooksInv DEF BotInit
  <2>2. BotState
    BY DEF BotInit, BotState, PassOK
  <2> QED BY <2>1, <2>2
<1>2. Inv /\ [BotNext]_botVars => Inv'
  BY BotNextBooksInv, BotNextState DEF BooksInv, IInv
<1>3. Inv => BotTypeOK
  BY BotTypeParts DEF BooksInv, IInv
<1> QED BY <1>1, <1>2, <1>3, PTL DEF BotSpec
=============================================================================
