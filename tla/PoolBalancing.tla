---------------------------- MODULE PoolBalancing ----------------------------
(***************************************************************************)
(* The balancing of miners among pools: planPoolRebalance of               *)
(* proxy/balance.js as operators on what the master knows, and the fleet   *)
(* it is applied to every 90 s (proxy/master.js, balanceWorkers).          *)
(*                                                                         *)
(* Rates are integers here; the code's are floating point numbers, and its *)
(* target rates are rounded down as below.  Where the code walks a map, a  *)
(* sequence gives the order.                                               *)
(***************************************************************************)
EXTENDS Integers, SequencesExt

CONSTANTS
    Pools,            \* the pools in the order of the configuration, a sequence
    DevPool,          \* the developer pool, the last of them, which may be missing from Pools
    EarlierDevPools,  \* pools that are configured as developer pools before it
    Share,            \* pools[].share of the other pools
    DeveloperShare,   \* a percentage
    Fleet,            \* the active miners in the order of the master's maps, a sequence
    Rates,            \* hash rates a miner may have
    TakeDonorsAbove,  \* 100 in the code: a deficit that makes a pool take from others
    EnoughBelow       \* 50 in the code: a deficit that is good enough then

ASSUME BalanceAssumption ==
    /\ Pools \in Seq(ToSet(Pools)) /\ IsInjective(Pools)
    /\ Fleet \in Seq(ToSet(Fleet)) /\ IsInjective(Fleet)
    /\ EarlierDevPools \subseteq ToSet(Pools) \ {DevPool}
    /\ \A i \in DOMAIN Pools : Pools[i] \in EarlierDevPools =>
          \E j \in DOMAIN Pools : j > i /\ Pools[j] = DevPool
    /\ Share \in [ToSet(Pools) \ {DevPool} -> Nat]
    /\ DeveloperShare \in 0..100
    /\ Rates \subseteq Nat
    /\ TakeDonorsAbove \in Nat /\ EnoughBelow \in 0..TakeDonorsAbove

VARIABLES
    usable,   \* pools the master finds usable
    home,     \* the pool of each miner
    rate      \* its hash rate

vars == <<usable, home, rate>>

Miners == ToSet(Fleet)
PoolSet == ToSet(Pools)

Init ==
    /\ usable \in SUBSET PoolSet
    /\ home \in [Miners -> PoolSet]
    /\ rate \in [Miners -> Rates]

-----------------------------------------------------------------------------
(* What is wanted.                                                          *)

SumOf(f, seq) == FoldLeft(LAMBDA sum, x : sum + f[x], 0, seq)

\* The elements of S in seq, in their order (SelectSeq, as a fold like the rest).
Only(seq, S) == FoldLeft(LAMBDA kept, x : IF x \in S THEN Append(kept, x) ELSE kept, <<>>, seq)

\* The hash rate of a set of miners.
RateOf(S) == SumOf([m \in Miners |-> IF m \in S THEN rate[m] ELSE 0], Fleet)

\* The hash rate of pool p when the miners are where "at" says.
Hashrate(at, p) == RateOf({m \in Miners : at[m] = p})

TotalRate == RateOf(Miners)

\* The pools that do not get the developer's rate.
OtherPools == Only(Pools, PoolSet \ {DevPool})

UserPools == Only(OtherPools, PoolSet \ EarlierDevPools)

ActivePools == Only(UserPools, usable)

TotalShare == SumOf(Share, ActivePools)

\* The developer's part comes off the total even while the developer pool is down.
DevRate == IF DevPool \in PoolSet THEN (TotalRate * DeveloperShare) \div 100 ELSE 0

\* idealRate, after normalizePoolPercentages, of a usable pool. An earlier developer
\* pool keeps its share as it is configured, beside the whole the user pools divide.
IdealRate(p) ==
    IF p = DevPool THEN DevRate
    ELSE IF p \in EarlierDevPools THEN ((TotalRate - DevRate) * Share[p]) \div 100
    ELSE IF TotalShare > 0 THEN ((TotalRate - DevRate) * Share[p]) \div TotalShare
    ELSE (TotalRate - DevRate) \div Len(ActivePools)

NeedsHashrate(p) == p \in usable /\ IdealRate(p) > Hashrate(home, p)

HasExcess(p) == p \notin usable \/ IdealRate(p) < Hashrate(home, p)

\* lowPools and highPools are filled in this order.
ByDelta == Only(Pools, {DevPool}) \o OtherPools

LowPools == Only(ByDelta, {p \in PoolSet : NeedsHashrate(p)})

HighPools == Only(ByDelta, {p \in PoolSet : HasExcess(p)})

-----------------------------------------------------------------------------
(* Who is moved.                                                            *)

\* MUTANT: a miner may be faster than what is left to move.
TakeTooMuch(ms, budget, enough) ==
    FoldLeft(LAMBDA acc, m :
        IF acc.left < enough \/ acc.left <= 0 \/ rate[m] = 0 THEN acc
        ELSE [taken |-> Append(acc.taken, m), left |-> acc.left - rate[m]],
        [taken |-> <<>>, left |-> budget], ms)

\* The miners of ms taken in turn, each if it fits into what is left of the budget,
\* until less than "enough" is left. A miner without a rate is never moved.
Take(ms, budget, enough) ==
    FoldLeft(LAMBDA acc, m :
        IF acc.left < enough \/ rate[m] = 0 \/ rate[m] > acc.left THEN acc
        ELSE [taken |-> Append(acc.taken, m), left |-> acc.left - rate[m]],
        [taken |-> <<>>, left |-> budget], ms)

MinersOf(p, settled) == Only(Fleet, {m \in settled : home[m] = p})

\* MUTANT: miners of an unusable pool are freed only as far as a usable one's.
FreedUnforced(p) == Take(MinersOf(p, Miners), Hashrate(home, p) - IdealRate(p), 0).taken

\* freePoolMiners.
FreedFrom(p) ==
    IF p \in usable THEN Take(MinersOf(p, Miners), Hashrate(home, p) - IdealRate(p), 0).taken
    ELSE Only(MinersOf(p, Miners), {m \in Miners : rate[m] > 0})

FreedMiners == FoldLeft(LAMBDA all, p : all \o FreedFrom(p), <<>>, HighPools)

MovedTo(at, ms, p) == [m \in Miners |-> IF m \in ToSet(ms) THEN p ELSE at[m]]

\* MUTANT: a pool that is short itself may be a donor.
DonorsWithLow == Pools

\* The pools takeDonorMiners may take from.
Donors == Only(Pools, {p \in PoolSet : ~NeedsHashrate(p)})

\* takeDonorMiners: a deficit left over is taken from the donors in turn.
TakeDonors(settled, deficit) ==
    FoldLeft(LAMBDA acc, p :
        LET g == Take(MinersOf(p, settled), acc.left, EnoughBelow)
        IN  [taken |-> acc.taken \o g.taken, left |-> g.left],
        [taken |-> <<>>, left |-> deficit], Donors).taken

\* allocatePoolMiners. The plan so far: the miners freed and not placed yet, the ones
\* nobody has taken from their pools, and where everybody is to go.
Allocate(plan, p) ==
    LET own == Take(plan.freed, IdealRate(p) - Hashrate(home, p), 0)
        donated == IF own.left > TakeDonorsAbove THEN TakeDonors(plan.settled, own.left)
                   ELSE <<>>
    IN  [freed |-> Only(plan.freed, Miners \ ToSet(own.taken)),
         settled |-> plan.settled \ ToSet(donated),
         at |-> MovedTo(plan.at, own.taken \o donated, p)]

\* MUTANT: what remains goes to the first pool that is short, the developer's too.
RemainderToAny(plan) ==
    IF LowPools = <<>> THEN plan.at ELSE MovedTo(plan.at, plan.freed, Head(LowPools))

\* MUTANT: the miners that remain are listed under no pool.
RemainderUnplaced(plan) == MovedTo(plan.at, plan.freed, "undefined")

\* distributeRemainingMiners: what remains goes to the first other pool that is short.
Remainder(plan) ==
    LET low == Only(LowPools, PoolSet \ {DevPool})
    IN  IF low = <<>> THEN plan.at ELSE MovedTo(plan.at, plan.freed, Head(low))

\* planPoolRebalance: where every miner is to be. Nothing moves without a usable pool.
Plan ==
    IF ActivePools = <<>> THEN home
    ELSE Remainder(FoldLeft(Allocate,
            [freed |-> FreedMiners, settled |-> Miners \ ToSet(FreedMiners), at |-> home],
            LowPools))

-----------------------------------------------------------------------------
(* The fleet.                                                               *)

\* balanceWorkers, once the workers have carried out the changes.
BalanceWorkers ==
    /\ home' = Plan
    /\ UNCHANGED <<usable, rate>>

\* A pool comes or goes.
PoolChanges(p) ==
    /\ usable' = IF p \in usable THEN usable \ {p} ELSE usable \union {p}
    /\ UNCHANGED <<home, rate>>

\* A miner becomes faster or slower.
SpeedChanges(m, r) ==
    /\ rate' = [rate EXCEPT ![m] = r]
    /\ UNCHANGED <<usable, home>>

Next ==
    \/ BalanceWorkers
    \/ \E p \in PoolSet : PoolChanges(p)
    \/ \E m \in Miners, r \in Rates : SpeedChanges(m, r)

Spec == Init /\ [][Next]_vars

-----------------------------------------------------------------------------
(* Properties.                                                              *)

TypeOK ==
    /\ usable \subseteq PoolSet
    /\ home \in [Miners -> PoolSet]
    /\ rate \in [Miners -> Rates]

Distance(a, b) == IF a < b THEN b - a ELSE a - b

\* How far the miners at "at" are from the target rates: what each usable pool has too
\* much or too little, and what is mined for unusable ones.
Imbalance(at) ==
    SumOf([p \in PoolSet |-> IF p \in usable THEN Distance(Hashrate(at, p), IdealRate(p))
                             ELSE Hashrate(at, p)], Pools)

Moved == {m \in Miners : home'[m] # home[m]}

\* Balancing never takes the fleet farther from its targets, whatever is left over
\* after the greedy passes, taken from donors or given to the first pool short
\* (balance.js, planPoolRebalance).
NeverWorse == [][Moved # {} => Imbalance(home') <= Imbalance(home)]_vars

\* A miner is moved only to a usable pool that has too little, and from one that has
\* not (balance.js, allocateFreedMiners and takeDonorMiners).
MovesAreUseful ==
    [][\A m \in Moved : NeedsHashrate(home'[m]) /\ ~NeedsHashrate(home[m])]_vars

\* A working miner is left on an unusable pool only if no user pool is short of
\* hashrate (balance.js, freePoolMiners with force and distributeRemainingMiners).
DeadPoolsEmptied ==
    LET plan == Plan
    IN  \A m \in Miners : rate[m] > 0 /\ plan[m] \notin usable
            => \A p \in ToSet(ActivePools) : ~NeedsHashrate(p)

\* A move never gives the developer's pool more than the developer's share, nor a
\* miner to a pool of share 0 while one with a share is usable (README.md,
\* pools[].share: "0 means backup-only"), although what remains of the freed miners is
\* put wherever hashrate is short (balance.js, distributeRemainingMiners).
SharesRespected ==
    [][\A m \in Moved :
          IF home'[m] = DevPool THEN Hashrate(home', DevPool) <= DevRate
          ELSE TotalShare > 0 => Share[home'[m]] > 0]_vars
=============================================================================
