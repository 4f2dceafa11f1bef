-------------------------- MODULE ShareVerification --------------------------
(***************************************************************************)
(* What a worker does with a share that has found its job and its template *)
(* (processShare of coins/share.js): a share below the miner's difficulty  *)
(* is refused, one below the pool's target is believed, and one at the     *)
(* pool's target is checked before it is forwarded, unless the worker has  *)
(* begun Budget checks in this window already.  A check is counted before  *)
(* anything is hashed, and may end without a hash: the share's blob cannot *)
(* be built, its mixhash is missing, its algorithm is unknown.             *)
(*                                                                         *)
(* The budget is one for all miners of a worker, so a share may be any     *)
(* miner's: it is what it claims, how its work is proved, and what its     *)
(* check comes to.  The session's counters (shares, blocks, hashes) are    *)
(* left out: VarDiff allows every hashrate they may lead to.               *)
(***************************************************************************)
EXTENDS Integers, Sequences

CONSTANTS
    Window,     \* VERIFIED_SHARE_WINDOW_SECONDS, in ticks of the clock
    Budget,     \* MAX_VERIFIED_SHARES_PER_SECOND * VERIFIED_SHARE_WINDOW_SECONDS
    MaxTime,    \* bound: ticks of the clock
    MaxShares   \* bound: shares of the pool's difficulty in a tick

ASSUME VerificationAssumption ==
    /\ Window \in Nat \ {0}
    /\ Budget \in Nat \ {0}

VARIABLES
    now,        \* Date.now(), which does not go back
    windowAt,   \* verifiedWindowStartedAt, 0 before the first
    count,      \* verifiedShareCount
    checked,    \* history: when each check was begun and counted
    forwarded,  \* history: the last share sent to the master
    load        \* bound: such shares processed in this tick

vars == <<now, windowAt, count, checked, forwarded, load>>

\* A share's claim may be unreadable (an error is thrown before it is compared), and
\* its check find the result good or bad, or fail: it throws, or ends without a hash.
Share == [claim : {"unreadable", "low", "miner", "pool"}, grin : BOOLEAN, check : {"good", "bad", "fails"}]
Forward == [at : Nat, verified : BOOLEAN, genuine : BOOLEAN]
NoForward == [at |-> 0, verified |-> TRUE, genuine |-> TRUE]

TypeOK ==
    /\ now \in Nat \ {0}
    /\ windowAt \in Nat
    /\ count \in Nat
    /\ checked \in Seq(Nat)
    /\ forwarded \in Forward
    /\ load \in Nat

Init ==
    /\ now = 1
    /\ windowAt = 0
    /\ count = 0
    /\ checked = <<>>
    /\ forwarded = NoForward
    /\ load = 0

-----------------------------------------------------------------------------
\* The window is over, or there was none.
WindowOver == windowAt = 0 \/ now - windowAt > Window

\* MUTANT: a window that is over is counted anew and not moved on.
CountedAnew == [at |-> IF windowAt = 0 THEN now ELSE windowAt, count |-> IF WindowOver THEN 1 ELSE count + 1]

\* MUTANT: a new window goes on counting.
CountedOn == [at |-> IF WindowOver THEN now ELSE windowAt, count |-> count + 1]

\* The window and the count shouldVerifyShare leaves.
Counted ==
    IF WindowOver THEN [at |-> now, count |-> 1] ELSE [at |-> windowAt, count |-> count + 1]

\* The answer of shouldVerifyShare.
ShouldVerify == Counted.count <= Budget

Genuine(share) == share.check = "good"

\* A share that cannot be read or is below the miner's difficulty is refused, one
\* below the pool's target is believed: nothing is counted or forwarded for any.
OrdinaryShare(share) ==
    /\ share.claim # "pool"
    /\ UNCHANGED <<windowAt, count, checked, forwarded, load>>

\* submitPoolShare, for a share that was verified or not.
Forwarded(share, verified) == [at |-> now, verified |-> verified, genuine |-> Genuine(share)]

\* acceptPoolDifficultyShare where the proof is a cycle: it is always checked, and
\* does not count. A check that fails is caught in processShare: the share is refused.
CyclePoolShare(share) ==
    /\ share.claim = "pool"
    /\ share.grin
    /\ forwarded' = IF Genuine(share) THEN Forwarded(share, TRUE) ELSE forwarded
    /\ UNCHANGED <<windowAt, count, checked, load>>

\* acceptPoolDifficultyShare where the proof is a hash: the check is counted first, and
\* stays counted when it throws or ends without a hash; the share is refused then.
HashPoolShare(share) ==
    /\ share.claim = "pool"
    /\ ~share.grin
    /\ load < MaxShares
    /\ load' = load + 1
    /\ windowAt' = Counted.at
    /\ count' = Counted.count
    /\ checked' = IF ShouldVerify THEN Append(checked, now) ELSE checked
    /\ forwarded' = IF ShouldVerify /\ ~Genuine(share) THEN forwarded
                    ELSE Forwarded(share, ShouldVerify)

ProcessShare(share) ==
    /\ OrdinaryShare(share) \/ CyclePoolShare(share) \/ HashPoolShare(share)
    /\ UNCHANGED now

Tick ==
    /\ now < MaxTime
    /\ now' = now + 1
    /\ load' = 0
    /\ UNCHANGED <<windowAt, count, checked, forwarded>>

Next ==
    \/ Tick
    \/ \E share \in Share : ProcessShare(share)

Spec == Init /\ [][Next]_vars

-----------------------------------------------------------------------------
(* Properties.                                                              *)

\* However shares of all miners fall into windows, a worker begins no more checks, and
\* so hashes no more shares, than twice the budget within any time as long as a window:
\* a burst cannot block its miners. (Twice: the end of one window and the beginning of
\* the next.)
VerificationBounded ==
    \A i, j \in DOMAIN checked : j - i >= 2 * Budget => checked[j] - checked[i] > Window

\* A share goes upstream unverified only at a worker that has begun a whole budget of
\* checks within the last window, of which some may have come to no hash; any other
\* forwarded share is genuine. (Else bad shares of one miner, forwarded at leisure, get
\* the whole proxy banned by the upstream.)
UnverifiedOnlyWhenBusy ==
    /\ forwarded.verified => forwarded.genuine
    /\ ~forwarded.verified =>
          /\ Len(checked) >= Budget
          /\ forwarded.at - checked[Len(checked) - Budget + 1] <= Window
=============================================================================
