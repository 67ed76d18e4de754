---------------------------- MODULE RebalanceBot ----------------------------
(***************************************************************************)
(* The rebalancing bot, src/stablecoin/rebalance-bot.ts, at work on the     *)
(* vault.  Its loops are started by timers and share one wallet.  A pass of *)
(* a loop reads accounts with one call after the other, computes what to    *)
(* send from what it read, and sends it one transaction at a time, awaiting *)
(* each; between any two calls the other loop, the holders and the admin    *)
(* run, and nothing that was read is read again.                            *)
(*                                                                          *)
(* An awaited transaction lands, is rejected or lost, or is given up on     *)
(* when its confirmation takes too long and may then still land or not.     *)
(* The bot catches the last two alike and goes on.  It keeps no state of    *)
(* its own: when the process is stopped and started again, everything but   *)
(* the transactions already sent is forgotten.                              *)
(*                                                                          *)
(* Amounts are JavaScript numbers: toNumber refuses to read, and BN to send *)
(* one above MAX_SAFE_INTEGER.  A sum of amounts that goes above it, of     *)
(* which the code keeps the nearest number, is taken as exact.              *)
(*                                                                          *)
(* Left out: monitorLoop, which only reads.                                 *)
(***************************************************************************)
EXTENDS Vault, SequencesExt

CONSTANTS
  REBALANCE_THRESHOLD_BPS,  \* 50 in the code
  YieldDivisor,             \* one part in so many is the simulated yield of an
                            \* interval; 1_051_200 in the code
  MAX_SAFE_INTEGER,         \* 2^53 - 1 in JavaScript
  MaxLate                   \* bound: transactions in flight that were given up on

ASSUME BotAssumption ==
  /\ REBALANCE_THRESHOLD_BPS \in Nat
  /\ YieldDivisor \in Nat \ {0}
  /\ MAX_SAFE_INTEGER \in Amount
  /\ MaxLate \in Nat

Loops == {"rebalance", "refresh"}

\* Whose transactions those of a process that was stopped are.
Stopped == "stopped"

\* A transaction of the bot: an instruction, the strategy it is about and its
\* argument.
Transactions ==
  [ix : {"allocate", "deallocate", "report_yield"}, strategy : StrategyIds,
   arg : Nat \ {0}]

VARIABLES
  pass,   \* what each loop is doing
  late    \* the transactions given up on that may still land

botVars == <<vars, pass, late>>

Resting == [step |-> "rest"]
Fetching(idle) == [step |-> "fetch_strategies", idle |-> idle]
Sending(txs) == IF txs = <<>> THEN Resting ELSE [step |-> "send", txs |-> txs]

IsSending(loop) == pass[loop].step = "send"
Current(loop) == Head(pass[loop].txs)

BotInit ==
  /\ Init
  /\ pass = [loop \in Loops |-> Resting]
  /\ late = [l \in Loops \union {Stopped} |-> {}]

-----------------------------------------------------------------------------
(* What a pass computes from what it read *)

ActiveStrategies == {i \in StrategyIds : Exists(i) /\ strategies[i].is_active}

TotalValue(idle) ==
  Total([i \in StrategyIds |-> strategies[i].position_value], ActiveStrategies) + idle

\* How far a strategy is below its equal share.
Delta(i, idle) ==
  TotalValue(idle) \div Cardinality(ActiveStrategies) - strategies[i].position_value

Magnitude(n) == IF n < 0 THEN -n ELSE n

ShouldRebalance(idle) ==
  \E i \in ActiveStrategies :
    Magnitude(Delta(i, idle)) * BPS_DENOMINATOR
      > TotalValue(idle) * REBALANCE_THRESHOLD_BPS

\* idle is what the pass read first; it is not reduced from one allocation to the
\* next.  A strategy above its share gives up the excess, which is never more than
\* it has.
Move(i, idle) ==
  IF Delta(i, idle) > 0
  THEN [ix |-> "allocate", strategy |-> i,
        arg |-> IF Delta(i, idle) < idle THEN Delta(i, idle) ELSE idle]
  ELSE [ix |-> "deallocate", strategy |-> i, arg |-> - Delta(i, idle)]

\* As if strategies above their share were left alone, or allocations were sent
\* with nothing idle.
WrongToMove(idle) == {i \in ActiveStrategies : Delta(i, idle) > 0 /\ idle > 0}
WrongToMoveIdle(idle) == {i \in ActiveStrategies : Delta(i, idle) # 0}

ToMove(idle) ==
  {i \in ActiveStrategies : Delta(i, idle) < 0 \/ (Delta(i, idle) > 0 /\ idle > 0)}

\* The strategies are fetched, and gone through, in the order of their index.
InOrder(ids) ==
  CHOOSE s \in SetToSeqs(ids) : \A j, k \in DOMAIN s : j < k => s[j] < s[k]

Moves(idle) ==
  IF ShouldRebalance(idle)
  THEN LET ids == InOrder(ToMove(idle))
       IN  [k \in DOMAIN ids |-> Move(ids[k], idle)]
  ELSE <<>>

SimulatedYield(i) == strategies[i].position_value \div YieldDivisor

\* Every active strategy up to i has a position that can be read.
Readable(i) ==
  \A j \in ActiveStrategies :
    j <= i => strategies[j].position_value <= MAX_SAFE_INTEGER

\* The new position is computed here and reported as an absolute value.  The first
\* position that cannot be read ends the pass.
Reports ==
  LET ids == InOrder({i \in ActiveStrategies : Readable(i) /\ SimulatedYield(i) > 0})
  IN  [k \in DOMAIN ids |->
         [ix |-> "report_yield", strategy |-> ids[k],
          arg |-> strategies[ids[k]].position_value + SimulatedYield(ids[k])]]

-----------------------------------------------------------------------------
(* The loops *)

\* A timer starts a pass; the one before has ended and its transactions are
\* settled.  The shortest interval is ten minutes and a transaction that was not
\* seen to land within one or two never will, so this leaves out only a pass of
\* many strategies whose transactions nearly all time out.
CanStart(loop) == pass[loop] = Resting /\ late[loop] = {}

\* The rebalance pass reads the vault, then the strategies.
StartRebalance ==
  /\ CanStart("rebalance")
  /\ pass' = [pass EXCEPT !["rebalance"] = Fetching(vault.idle_assets)]
  /\ UNCHANGED <<vars, late>>

\* One amount that cannot be read fails the pass (FetchFails).
FetchStrategies ==
  /\ pass["rebalance"].step = "fetch_strategies"
  /\ pass["rebalance"].idle <= MAX_SAFE_INTEGER
  /\ \A i \in ActiveStrategies : Readable(i)
  /\ pass' = [pass EXCEPT !["rebalance"] = Sending(Moves(pass["rebalance"].idle))]
  /\ UNCHANGED <<vars, late>>

\* The refresh pass reads the strategies only.
StartRefresh ==
  /\ CanStart("refresh")
  /\ Reports # <<>>
  /\ pass' = [pass EXCEPT !["refresh"] = Sending(Reports)]
  /\ UNCHANGED <<vars, late>>

\* A call that fails, or an amount that cannot be read, ends the pass.
FetchFails ==
  /\ pass["rebalance"].step = "fetch_strategies"
  /\ pass' = [pass EXCEPT !["rebalance"] = Resting]
  /\ UNCHANGED <<vars, late>>

\* The bot's wallet is the manager's.  An argument that is no safe integer makes no BN,
\* which the bot catches with the rest.
Execute(tx) ==
  /\ tx \in Transactions
  /\ tx.arg <= MAX_SAFE_INTEGER
  /\ \/ tx.ix = "allocate"     /\ Allocate(Manager, tx.strategy, tx.arg)
     \/ tx.ix = "deallocate"   /\ Deallocate(Manager, tx.strategy, tx.arg)
     \/ tx.ix = "report_yield" /\ ReportYield(Manager, tx.strategy, tx.arg)

Advance(loop) == pass' = [pass EXCEPT ![loop] = Sending(Tail(@.txs))]

Lands(loop) ==
  /\ IsSending(loop)
  /\ Execute(Current(loop))
  /\ Advance(loop)
  /\ UNCHANGED late

\* As if what failed were tried again.
WrongRetried(loop) == UNCHANGED pass

AfterFailure(loop) == Advance(loop)

\* The program rejects the transaction, or it never arrives.
Fails(loop) ==
  /\ IsSending(loop)
  /\ AfterFailure(loop)
  /\ UNCHANGED <<vars, late>>

\* No confirmation in time.  To the bot it is a failure like any other.
TimesOut(loop) ==
  /\ IsSending(loop)
  /\ Cardinality(UNION Range(late)) < MaxLate
  /\ late' = [late EXCEPT ![loop] = @ \union {Current(loop)}]
  /\ AfterFailure(loop)
  /\ UNCHANGED vars

LandsLate(l, tx) ==
  /\ Execute(tx)
  /\ late' = [late EXCEPT ![l] = @ \ {tx}]
  /\ UNCHANGED pass

\* Its blockhash has expired, or the program rejects it.
Expires(l, tx) ==
  /\ late' = [late EXCEPT ![l] = @ \ {tx}]
  /\ UNCHANGED <<vars, pass>>

\* What was sent and is not settled.
InFlight ==
  (UNION Range(late)) \union {Current(loop) : loop \in {k \in Loops : IsSending(k)}}

\* The process is stopped and started again; what it was sending may still land.
Restart ==
  /\ pass # [loop \in Loops |-> Resting]
  /\ Cardinality(InFlight) <= MaxLate
  /\ pass' = [loop \in Loops |-> Resting]
  /\ late' = [l \in Loops \union {Stopped} |-> IF l = Stopped THEN InFlight ELSE {}]
  /\ UNCHANGED vars

\* The third loop sends one harvest_fees.  Nothing it reads before can change, and it
\* remembers nothing: this is the moment the instruction lands, in time, late or after
\* a restart.  The program takes it when the bot's wallet is the admin's too.
FeeHarvest ==
  /\ HarvestFees(Manager)
  /\ UNCHANGED <<pass, late>>

BotStep ==
  \/ StartRebalance
  \/ FetchStrategies
  \/ FetchFails
  \/ StartRefresh
  \/ \E loop \in Loops : Lands(loop) \/ Fails(loop) \/ TimesOut(loop)
  \/ \E l \in Loops \union {Stopped} :
       \E tx \in late[l] : LandsLate(l, tx) \/ Expires(l, tx)
  \/ FeeHarvest

\* What others do to the vault, and the clock.  The instructions of the manager are
\* the bot's, whose wallet is the manager's.
OthersStep == (HolderStep \/ AdminStep \/ Tick) /\ UNCHANGED <<pass, late>>

BotNext == BotStep \/ Restart \/ OthersStep

-----------------------------------------------------------------------------
(* Fairness.  setInterval keeps starting passes while the process runs, every  *)
(* await ends, with a result or by its timeout, and no transaction stays in    *)
(* flight for ever.  The network loses transactions, but not for ever those of *)
(* one kind about one strategy.                                                *)

LandsFor(ix, i) ==
  \E loop \in Loops :
    /\ IsSending(loop)
    /\ Current(loop).ix = ix /\ Current(loop).strategy = i
    /\ Lands(loop)

Settles(l) == \E tx \in late[l] : LandsLate(l, tx) \/ Expires(l, tx)

BotFairness ==
  /\ WF_botVars(StartRebalance)
  /\ SF_botVars(FetchStrategies)
  /\ WF_botVars(FetchStrategies \/ FetchFails)
  /\ WF_botVars(StartRefresh)
  /\ \A loop \in Loops : WF_botVars(Lands(loop) \/ Fails(loop) \/ TimesOut(loop))
  /\ \A l \in Loops \union {Stopped} : WF_botVars(Settles(l))
  /\ \A ix \in {"allocate", "deallocate"}, i \in StrategyIds : SF_botVars(LandsFor(ix, i))

BotSpec == BotInit /\ [][BotNext]_botVars /\ BotFairness

-----------------------------------------------------------------------------
(* Properties *)

\* Type invariant: what a pass will send are transactions the program can take, each
\* with an argument that is not zero, at most one for a strategy
\* (rebalance-bot.ts:183-212, 254-267).
BotTypeOK ==
  /\ TypeOK
  /\ DOMAIN pass = Loops
  /\ \A loop \in Loops :
       \/ pass[loop] = Resting
       \/ pass[loop].step = "fetch_strategies" /\ pass[loop].idle \in Amount
       \/ /\ IsSending(loop)
          /\ pass[loop].txs \in Seq(Transactions)
          /\ pass[loop].txs # <<>>
          /\ \A j, k \in DOMAIN pass[loop].txs :
               j < k => pass[loop].txs[j].strategy < pass[loop].txs[k].strategy
  /\ late \in [Loops \union {Stopped} -> SUBSET Transactions]

Balanced == ~ ShouldRebalance(vault.idle_assets)

\* What upsets the balance from outside a rebalance pass: a deposit, a withdrawal or
\* a report, a strategy added or removed, a restart that leaves transactions behind.
Disturbed ==
  \/ vault'.total_assets # vault.total_assets
  \/ ActiveStrategies' # ActiveStrategies
  \/ ~ late'[Stopped] \subseteq late[Stopped]

\* Once the others come to rest, the idle assets and the strategies come within the
\* threshold of equal shares and stay there, whatever was lost, refused or landed
\* late, and from whatever an interrupted pass left behind
\* (rebalance-bot.ts:148-242).
EventuallyBalanced == (<>[][~ Disturbed]_botVars) => <>[]Balanced

\* A pass always ends, whatever becomes of its transactions
\* (rebalance-bot.ts:193-207, 218-234, 272-285).
PassesEnd == \A loop \in Loops : []<>(pass[loop] = Resting)
=============================================================================
