-------------------------- MODULE TimedChecksProofs --------------------------
(***************************************************************************)
(* Proofs about the two checks a worker makes against the clock, of its    *)
(* shares (ShareVerification, for every window and budget) and of its      *)
(* logins (AccessControl, for every refresh time, any number of logins and *)
(* changes of the file).                                                   *)
(***************************************************************************)
EXTENDS ShareVerification, AccessControl, TLAPS

-----------------------------------------------------------------------------
(* The verification of shares.                                              *)


\* Checks begun in this window: the shares counted, up to the budget.
InWindow == IF count <= Budget THEN count ELSE Budget

\* The checks in the order of time.
Ordered ==
    \A i, j \in 1..Len(checked) : i <= j => checked[i] <= checked[j] /\ checked[j] <= now

\* The window starts in the past, and there is one as soon as a check is begun.
WindowStarted ==
    /\ windowAt <= now
    /\ windowAt = 0 => Len(checked) = 0

\* Where the checks lie: the last InWindow of them in this window, those
\* before it at its start or earlier, and all but Budget of these more than a window
\* before it. The last part is what carries the bound from window to window.
Placed ==
    /\ InWindow <= Len(checked)
    /\ \A i \in 1..Len(checked) :
          /\ i > Len(checked) - InWindow => checked[i] >= windowAt
          /\ i <= Len(checked) - InWindow => checked[i] <= windowAt
          /\ i <= Len(checked) - InWindow - Budget => checked[i] + Window < windowAt

IInv ==
    /\ TypeOK
    /\ Ordered
    /\ WindowStarted
    /\ Placed
    /\ VerificationBounded
    /\ UnverifiedOnlyWhenBusy

-----------------------------------------------------------------------------
\* What counting does: it starts a window, or goes on with the one there is.
LEMMA CountedCases ==
    ASSUME IInv
    PROVE  /\ WindowOver => Counted.at = now /\ Counted.count = 1
           /\ ~WindowOver => /\ Counted.at = windowAt
                             /\ Counted.count = count + 1
                             /\ windowAt > 0
                             /\ now - windowAt <= Window
           /\ WindowOver => windowAt = 0 \/ now - windowAt > Window
           /\ ShouldVerify <=> Counted.count <= Budget
<1>1. now \in Nat /\ windowAt \in Nat /\ count \in Nat /\ Window \in Nat
  BY VerificationAssumption DEF IInv, TypeOK
<1>2. CASE WindowOver
  <2>1. Counted = [at |-> now, count |-> 1]
    BY <1>2, Zenon DEF Counted
  <2>2. Counted.at = now /\ Counted.count = 1
    BY <2>1
  <2>3. windowAt = 0 \/ now - windowAt > Window
    BY <1>2 DEF WindowOver
  <2> QED
    BY <1>2, <2>2, <2>3 DEF ShouldVerify
<1>3. CASE ~WindowOver
  <2>1. Counted = [at |-> windowAt, count |-> count + 1]
    BY <1>3, Zenon DEF Counted
  <2>2. Counted.at = windowAt /\ Counted.count = count + 1
    BY <2>1
  <2>3. windowAt > 0 /\ now - windowAt <= Window
    BY <1>1, <1>3 DEF WindowOver
  <2> QED
    BY <1>3, <2>2, <2>3 DEF ShouldVerify
<1> QED
  BY <1>2, <1>3

\* A worker starts in the invariant.
LEMMA InitEstablishes == Init => IInv
<1> SUFFICES ASSUME Init PROVE IInv
  OBVIOUS
<1>1. TypeOK
  BY DEF Init, TypeOK, Forward, NoForward
<1>2. checked = <<>> /\ Len(checked) = 0 /\ count = 0 /\ windowAt = 0 /\ now = 1
  BY DEF Init
<1>3. Ordered /\ WindowStarted /\ VerificationBounded
  BY <1>2 DEF Ordered, WindowStarted, VerificationBounded
<1>4. Placed
  BY <1>2, VerificationAssumption DEF Placed, InWindow
<1>5. UnverifiedOnlyWhenBusy
  BY DEF Init, NoForward, UnverifiedOnlyWhenBusy
<1> QED
  BY <1>1, <1>3, <1>4, <1>5 DEF IInv

\* A share is counted and not checked: the budget of the window is used up.
LEMMA CountedOnlyPreserves ==
    ASSUME IInv, NEW share \in Share, HashPoolShare(share), UNCHANGED now, ~ShouldVerify
    PROVE  IInv'
<1>1. /\ now \in Nat \ {0} /\ windowAt \in Nat /\ count \in Nat /\ checked \in Seq(Nat)
      /\ load \in Nat /\ Window \in Nat \ {0} /\ Budget \in Nat \ {0}
  BY VerificationAssumption DEF IInv, TypeOK
<1>2. ~WindowOver
  BY <1>1, CountedCases
<1>3. /\ windowAt' = windowAt /\ count' = count + 1 /\ count + 1 > Budget
      /\ now - windowAt <= Window
  BY <1>1, <1>2, CountedCases DEF HashPoolShare
<1>4. /\ checked' = checked /\ now' = now /\ load' = load + 1
      /\ forwarded' = Forwarded(share, ShouldVerify)
  BY DEF HashPoolShare
<1>5. /\ forwarded' \in Forward /\ forwarded'.verified = FALSE /\ forwarded'.at = now
  <2>1. ShouldVerify = FALSE
    BY DEF ShouldVerify
  <2>2. Genuine(share) \in BOOLEAN
    BY DEF Genuine
  <2>3. forwarded' = [at |-> now, verified |-> ShouldVerify, genuine |-> Genuine(share)]
    BY <1>4 DEF Forwarded
  <2> QED
    BY <1>1, <2>1, <2>2, <2>3 DEF Forward
<1>6. InWindow = Budget /\ InWindow' = Budget
  <2>1. count >= Budget /\ count' > Budget /\ count' \in Nat
    BY <1>1, <1>3
  <2>2. InWindow = Budget
    BY <1>1, <2>1 DEF InWindow
  <2>3. InWindow' = Budget
    BY <1>1, <2>1 DEF InWindow
  <2> QED
    BY <2>2, <2>3
<1>7. TypeOK'
  BY <1>1, <1>3, <1>4, <1>5 DEF TypeOK
<1>8. Ordered' /\ VerificationBounded'
  BY <1>4 DEF IInv, Ordered, VerificationBounded
<1>9. WindowStarted'
  BY <1>1, <1>3, <1>4, <1>2, CountedCases DEF IInv, WindowStarted
<1>10. Placed'
  BY <1>3, <1>4, <1>6 DEF IInv, Placed
<1>11. UnverifiedOnlyWhenBusy'
  <2>1. Len(checked) \in Nat /\ Len(checked) >= Budget
    BY <1>1, <1>6 DEF IInv, Placed
  <2>2. checked[Len(checked) - Budget + 1] >= windowAt
    BY <1>1, <1>6, <2>1 DEF IInv, Placed
  <2>3. checked[Len(checked) - Budget + 1] \in Nat
    BY <1>1, <2>1
  <2>4. now - checked[Len(checked) - Budget + 1] <= Window
    BY <1>1, <1>3, <2>2, <2>3
  <2> QED
    BY <1>4, <1>5, <2>1, <2>4 DEF UnverifiedOnlyWhenBusy
<1> QED
  BY <1>7, <1>8, <1>9, <1>10, <1>11 DEF IInv

\* A check is begun: it is the last of its window.
LEMMA CheckedPreserves ==
    ASSUME IInv, NEW share \in Share, HashPoolShare(share), UNCHANGED now, ShouldVerify
    PROVE  IInv'
<1> DEFINE n == Len(checked)
<1>1. /\ now \in Nat \ {0} /\ windowAt \in Nat /\ count \in Nat /\ checked \in Seq(Nat)
      /\ load \in Nat /\ Window \in Nat \ {0} /\ Budget \in Nat \ {0} /\ n \in Nat
  BY VerificationAssumption DEF IInv, TypeOK
<1>2. /\ windowAt' = Counted.at /\ count' = Counted.count /\ Counted.count <= Budget
      /\ checked' = Append(checked, now) /\ now' = now /\ load' = load + 1
      /\ forwarded' = IF ~Genuine(share) THEN forwarded ELSE Forwarded(share, TRUE)
  BY CountedCases DEF HashPoolShare
<1>3. /\ checked' \in Seq(Nat) /\ Len(checked') = n + 1 /\ checked'[n + 1] = now
      /\ \A i \in 1..n : checked'[i] = checked[i] /\ checked[i] \in Nat
  BY <1>1, <1>2
<1>4. /\ \/ windowAt' = now /\ count' = 1 /\ (windowAt = 0 \/ now - windowAt > Window)
         \/ windowAt' = windowAt /\ count' = count + 1 /\ windowAt > 0
      /\ count' <= Budget
  BY <1>2, CountedCases
<1>5. InWindow \in Nat /\ InWindow <= Budget /\ InWindow <= n /\ InWindow' = count'
  <2>1. InWindow' = count'
    BY <1>1, <1>4 DEF InWindow
  <2> QED
    BY <1>1, <2>1 DEF IInv, Placed, InWindow
<1>6. /\ windowAt <= now /\ windowAt' <= now /\ windowAt' > 0 /\ windowAt' \in Nat /\ count' \in Nat
  BY <1>1, <1>4 DEF IInv, WindowStarted
<1>7. \A i \in 1..n : /\ i > n - InWindow => checked[i] >= windowAt
                      /\ i <= n - InWindow => checked[i] <= windowAt
                      /\ i <= n - InWindow - Budget => checked[i] + Window < windowAt
  BY DEF IInv, Placed
<1>8. \A i \in 1..n : checked[i] <= now
  BY <1>1 DEF IInv, Ordered
<1>9. \A i, j \in 1..n : i <= j => checked[i] <= checked[j]
  BY DEF IInv, Ordered
<1>10. \A i, j \in 1..n : j - i >= 2 * Budget => checked[j] - checked[i] > Window
  BY <1>1 DEF IInv, VerificationBounded
<1> HIDE DEF n
<1>11. Ordered'
  <2> SUFFICES ASSUME NEW i \in 1..(n + 1), NEW j \in 1..(n + 1), i <= j
               PROVE  checked'[i] <= checked'[j] /\ checked'[j] <= now
    BY <1>2, <1>3 DEF Ordered
  <2>1. CASE j = n + 1 /\ i = n + 1
    BY <1>1, <1>3, <2>1
  <2>2. CASE j = n + 1 /\ i # n + 1
    <3>1. i \in 1..n
      BY <1>1, <2>2
    <3> QED
      BY <1>1, <1>3, <1>8, <2>2, <3>1
  <2>3. CASE j # n + 1
    <3>1. i \in 1..n /\ j \in 1..n
      BY <1>1, <2>3
    <3> QED
      BY <1>3, <1>8, <1>9, <3>1
  <2> QED
    BY <2>1, <2>2, <2>3
<1>12. WindowStarted'
  BY <1>2, <1>6 DEF WindowStarted
<1>13. /\ count' <= n + 1
       /\ \A i \in 1..(n + 1) :
             /\ i > (n + 1) - count' => checked'[i] >= windowAt'
             /\ i <= (n + 1) - count' => checked'[i] <= windowAt'
             /\ i <= (n + 1) - count' - Budget => checked'[i] + Window < windowAt'
  <2>1. CASE windowAt' = now /\ count' = 1 /\ (windowAt = 0 \/ now - windowAt > Window)
    <3> SUFFICES ASSUME NEW i \in 1..(n + 1)
                 PROVE  /\ i > n => checked'[i] >= now
                        /\ i <= n => checked'[i] <= now
                        /\ i <= n - Budget => checked'[i] + Window < now
      BY <1>1, <2>1
    <3>1. CASE i = n + 1
      BY <1>1, <1>3, <3>1
    <3>2. CASE i # n + 1
      <4>1. i \in 1..n
        BY <1>1, <3>2
      <4>2. i <= n - Budget => checked[i] <= windowAt
        BY <1>1, <1>5, <1>7, <4>1
      <4>3. windowAt # 0
        BY <1>1, <4>1 DEF IInv, WindowStarted, n
      <4> QED
        BY <1>1, <1>3, <1>8, <2>1, <4>1, <4>2, <4>3
    <3> QED
      BY <3>1, <3>2
  <2>2. CASE windowAt' = windowAt /\ count' = count + 1 /\ windowAt > 0
    <3>1. InWindow = count
      BY <1>1, <1>4, <2>2 DEF InWindow
    <3> SUFFICES ASSUME NEW i \in 1..(n + 1)
                 PROVE  /\ i > n - count => checked'[i] >= windowAt
                        /\ i <= n - count => checked'[i] <= windowAt
                        /\ i <= n - count - Budget => checked'[i] + Window < windowAt
      BY <1>1, <1>5, <2>2, <3>1
    <3>2. CASE i = n + 1
      BY <1>1, <1>3, <1>6, <3>2
    <3>3. CASE i # n + 1
      <4>1. i \in 1..n
        BY <1>1, <3>3
      <4> QED
        BY <1>3, <1>7, <3>1, <4>1
    <3> QED
      BY <3>2, <3>3
  <2> QED
    BY <1>4, <2>1, <2>2
<1>14. Placed'
  <2>1. Len(checked') = n + 1 /\ InWindow' = count'
    BY <1>3, <1>5
  <2>2. count' <= n + 1
    BY <1>13
  <2>3. \A i \in 1..(n + 1) :
           /\ i > (n + 1) - count' => checked'[i] >= windowAt'
           /\ i <= (n + 1) - count' => checked'[i] <= windowAt'
           /\ i <= (n + 1) - count' - Budget => checked'[i] + Window < windowAt'
    BY <1>13
  <2> QED
    BY <2>1, <2>2, <2>3 DEF Placed
<1>15. VerificationBounded'
  <2> SUFFICES ASSUME NEW i \in 1..(n + 1), NEW j \in 1..(n + 1), j - i >= 2 * Budget
               PROVE  checked'[j] - checked'[i] > Window
    BY <1>3 DEF VerificationBounded
  <2>1. i \in 1..n
    BY <1>1
  <2>2. CASE j = n + 1
    <3>3. count' <= Budget /\ count' \in Nat /\ i \in Nat /\ j \in Nat /\ Budget \in Nat
      BY <1>1, <1>4, <1>6
    <3>4. (n + 1) - i >= Budget + Budget /\ n \in Nat
      BY <1>1, <2>2, <3>3
    <3>5. \A c \in Nat : c <= Budget => i <= (n + 1) - c - Budget
      BY <3>3, <3>4
    <3>1. i <= (n + 1) - count' - Budget
      BY <3>3, <3>5
    <3>2. checked'[i] + Window < windowAt'
      BY <1>13, <3>1
    <3> QED
      BY <1>1, <1>3, <1>6, <2>1, <2>2, <3>2
  <2>3. CASE j # n + 1
    <3>1. j \in 1..n
      BY <1>1, <2>3
    <3> QED
      BY <1>3, <1>10, <2>1, <3>1
  <2> QED
    BY <2>2, <2>3
<1>16. forwarded' = forwarded \/ (forwarded'.verified /\ forwarded'.genuine)
  BY <1>2 DEF Forwarded, Genuine
<1>19. forwarded' \in Forward
  BY <1>1, <1>2 DEF IInv, TypeOK, Forwarded, Forward, Genuine
<1>17. UnverifiedOnlyWhenBusy'
  <2>1. CASE forwarded' = forwarded
    <3> SUFFICES ASSUME ~forwarded.verified
                 PROVE  /\ n + 1 >= Budget
                        /\ forwarded.at - checked'[(n + 1) - Budget + 1] <= Window
      <4>1. forwarded.verified => forwarded.genuine
        BY DEF IInv, UnverifiedOnlyWhenBusy
      <4>2. Len(checked') = n + 1
        BY <1>3
      <4> QED
        BY <2>1, <4>1, <4>2, Zenon DEF UnverifiedOnlyWhenBusy
    <3>1. n >= Budget /\ forwarded.at - checked[n - Budget + 1] <= Window
      BY DEF IInv, UnverifiedOnlyWhenBusy, n
    <3>2. forwarded.at \in Nat
      BY DEF IInv, TypeOK, Forward
    <3>3. n - Budget + 1 \in 1..n
      BY <1>1, <3>1
    <3>4. checked'[(n + 1) - Budget + 1] >= checked[n - Budget + 1]
      <4>1. CASE Budget = 1
        BY <1>1, <1>3, <1>8, <3>3, <4>1
      <4>2. CASE Budget # 1
        <5>1. (n + 1) - Budget + 1 \in 1..n
          BY <1>1, <3>1, <4>2
        <5> QED
          BY <1>1, <1>3, <1>9, <3>3, <5>1
      <4> QED
        BY <4>1, <4>2
    <3>5. checked[n - Budget + 1] \in Nat /\ checked'[(n + 1) - Budget + 1] \in Nat
      <4>1. (n + 1) - Budget + 1 \in 1..(n + 1)
        BY <1>1, <3>1
      <4> QED
        BY <1>3, <3>3, <4>1
    <3> QED
      BY <1>1, <3>1, <3>2, <3>4, <3>5
  <2>2. CASE forwarded'.verified /\ forwarded'.genuine
    BY <2>2 DEF UnverifiedOnlyWhenBusy
  <2> QED
    BY <1>16, <2>1, <2>2
<1>18. TypeOK'
  <2>1. now' \in Nat \ {0} /\ load' \in Nat
    BY <1>1, <1>2
  <2>2. checked' \in Seq(Nat) /\ windowAt' \in Nat /\ count' \in Nat
    BY <1>3, <1>6
  <2> QED
    BY <1>19, <2>1, <2>2 DEF TypeOK
<1> QED
  BY <1>11, <1>12, <1>14, <1>15, <1>17, <1>18 DEF IInv

\* Nothing is counted: time goes on, or a share that is refused, believed or
\* proved by a cycle, which is forwarded only if it is genuine.
LEMMA NotCountedPreserves ==
    ASSUME IInv, UNCHANGED <<windowAt, count, checked>>, now' \in {now, now + 1}, load' \in Nat,
           \/ forwarded' = forwarded
           \/ forwarded' \in Forward /\ forwarded'.verified /\ forwarded'.genuine
    PROVE  IInv'
<1>1. now \in Nat \ {0} /\ now' \in Nat \ {0} /\ now <= now' /\ checked \in Seq(Nat) /\ windowAt \in Nat
  BY DEF IInv, TypeOK
<1>2. TypeOK'
  BY <1>1 DEF IInv, TypeOK
<1>3. Ordered'
  <2> SUFFICES ASSUME NEW i \in 1..Len(checked), NEW j \in 1..Len(checked), i <= j
               PROVE  checked[i] <= checked[j] /\ checked[j] <= now'
    BY DEF Ordered
  <2>1. checked[i] <= checked[j] /\ checked[j] <= now
    BY DEF IInv, Ordered
  <2>2. checked[j] \in Nat
    BY <1>1
  <2> QED
    BY <1>1, <2>1, <2>2
<1>4. WindowStarted'
  BY <1>1 DEF IInv, WindowStarted
<1>5. Placed' /\ VerificationBounded'
  BY DEF IInv, Placed, InWindow, VerificationBounded
<1>6. UnverifiedOnlyWhenBusy'
  BY DEF IInv, UnverifiedOnlyWhenBusy
<1> QED
  BY <1>2, <1>3, <1>4, <1>5, <1>6 DEF IInv

\* Every step preserves the invariant.
LEMMA StepPreserves == IInv /\ [Next]_vars => IInv'
<1> SUFFICES ASSUME IInv, [Next]_vars PROVE IInv'
  OBVIOUS
<1>1. load \in Nat
  BY DEF IInv, TypeOK
<1>2. CASE Tick
  BY <1>2, NotCountedPreserves DEF Tick
<1>3. ASSUME NEW share \in Share, ProcessShare(share)
      PROVE  IInv'
  <2>1. now' = now
    BY <1>3 DEF ProcessShare
  <2>2. CASE OrdinaryShare(share)
    BY <1>1, <2>1, <2>2, NotCountedPreserves DEF OrdinaryShare
  <2>3. CASE CyclePoolShare(share)
    <3>1. CASE Genuine(share)
      <4>1. forwarded' = Forwarded(share, TRUE)
        BY <2>3, <3>1 DEF CyclePoolShare
      <4>2. forwarded' \in Forward /\ forwarded'.verified /\ forwarded'.genuine
        BY <3>1, <4>1 DEF Forwarded, Forward, IInv, TypeOK
      <4> QED
        BY <1>1, <2>1, <2>3, <4>2, NotCountedPreserves DEF CyclePoolShare
    <3>2. CASE ~Genuine(share)
      BY <1>1, <2>1, <2>3, <3>2, NotCountedPreserves DEF CyclePoolShare
    <3> QED
      BY <3>1, <3>2
  <2>4. CASE HashPoolShare(share)
    BY <2>1, <2>4, CountedOnlyPreserves, CheckedPreserves
  <2> QED
    BY <1>3, <2>2, <2>3, <2>4 DEF ProcessShare
<1>4. CASE UNCHANGED vars
  BY <1>1, <1>4, NotCountedPreserves DEF vars
<1> QED
  BY <1>2, <1>3, <1>4 DEF Next

\* The invariant holds in every reachable state.
THEOREM InvariantHolds == Spec => []IInv
BY InitEstablishes, StepPreserves, PTL DEF Spec

\* The verification state keeps its types.
THEOREM TypeCorrect == Spec => []TypeOK
<1>1. IInv => TypeOK
  BY DEF IInv
<1> QED
  BY <1>1, InvariantHolds, PTL

\* shouldVerifyShare: no more than twice the budget of checks are begun, whether or not they come to a
\* hash, within any time as long as a window.
THEOREM VerificationBoundedHolds == Spec => []VerificationBounded
<1>1. IInv => VerificationBounded
  BY DEF IInv
<1> QED
  BY <1>1, InvariantHolds, PTL

\* acceptPoolDifficultyShare: only a worker that has begun a budget of checks
\* within the last window forwards a share it did not verify.
THEOREM UnverifiedOnlyWhenBusyHolds == Spec => []UnverifiedOnlyWhenBusy
<1>1. IInv => UnverifiedOnlyWhenBusy
  BY DEF IInv
<1> QED
  BY <1>1, InvariantHolds, PTL

-----------------------------------------------------------------------------
(* The allowlist.                                                           *)


\* What the history variables say of the file.
HistoryInv ==
    /\ start <= clock
    /\ lastGrant <= clock
    /\ lastLoadedAt <= clock
    /\ content # "unlisted" => lastGrant = clock
    /\ step # "idle" /\ content # "listed" => gap

\* Signatures identify contents: entries read under the present one are the file's,
\* and nothing was read under a later one.
SignatureInv ==
    /\ fileSignature <= signature
    /\ seen <= signature
    /\ fileSignature = signature => entries = (content = "listed")

\* The entries are as young as lastLoadedAt says, except while the login that set it
\* is still looking at the file; a login that looks once more has found no entry.
CacheInv ==
    /\ entries /\ step \notin {"stat", "read"} => lastGrant >= lastLoadedAt
    /\ step \in {"stat", "read"} => lastLoadedAt = start
    /\ step \in {"missStat", "missRead"} => ~entries

AccessInv == AccessTypeOK /\ HistoryInv /\ SignatureInv /\ CacheInv

\* The two promises, as what a single step may not do.
RevokedStep == Answered /\ verdict' = "admitted" => start' - lastGrant < Refresh
AdmittedStep == Answered /\ verdict' = "refused" => gap'

\* The numbers of the types.
LEMMA AccessNumbers ==
    ASSUME AccessInv
    PROVE  /\ clock \in Nat \ {0} /\ signature \in Nat \ {0} /\ fileSignature \in Nat
           /\ lastLoadedAt \in Nat /\ seen \in Nat /\ start \in Nat /\ lastGrant \in Nat
           /\ Refresh \in Nat \ {0}
           /\ entries \in BOOLEAN /\ gap \in BOOLEAN
           /\ content \in {"listed", "unlisted", "unreadable"}
BY AccessAssumption DEF AccessInv, AccessTypeOK, Contents

\* A worker that has loaded nothing is in the invariant.
LEMMA AccessEstablishes == AccessInit => AccessInv
<1> SUFFICES ASSUME AccessInit PROVE AccessInv
  OBVIOUS
<1>1. AccessTypeOK
  <2>1. lastGrant \in Nat /\ clock \in Nat \ {0}
    BY AccessAssumption DEF AccessInit
  <2>2. /\ content \in Contents /\ signature = 1 /\ fileSignature = 0 /\ lastLoadedAt = 0
        /\ step = "idle" /\ seen = 0 /\ start = 0 /\ verdict = "none"
    BY DEF AccessInit
  <2>3. entries \in BOOLEAN /\ gap \in BOOLEAN
    BY DEF AccessInit
  <2> QED
    BY <2>1, <2>2, <2>3 DEF AccessTypeOK
<1>2. HistoryInv /\ SignatureInv /\ CacheInv
  BY AccessAssumption DEF AccessInit, HistoryInv, SignatureInv, CacheInv, Contents
<1> QED
  BY <1>1, <1>2 DEF AccessInv

\* The rest of the system: time goes on, the file is written.
LEMMA AccessTickPreserves == AccessInv /\ ClockTick => AccessInv'
<1> SUFFICES ASSUME AccessInv, ClockTick PROVE AccessInv'
  OBVIOUS
<1>1. /\ clock' = clock + 1
      /\ lastGrant' = IF content = "unlisted" THEN lastGrant ELSE clock'
      /\ UNCHANGED <<content, signature, entries, fileSignature, lastLoadedAt, step, seen, start, gap, verdict>>
  BY DEF ClockTick
<1>2. AccessTypeOK'
  BY <1>1, AccessNumbers DEF AccessInv, AccessTypeOK
<1>3. HistoryInv'
  BY <1>1, AccessNumbers DEF AccessInv, HistoryInv
<1>4. SignatureInv'
  BY <1>1 DEF AccessInv, SignatureInv
<1>5. CacheInv'
  <2>1. lastGrant' >= lastGrant
    BY <1>1, AccessNumbers DEF AccessInv, HistoryInv
  <2>2. lastGrant' \in Nat
    BY <1>2 DEF AccessTypeOK
  <2>3. entries /\ step \notin {"stat", "read"} => lastGrant' >= lastLoadedAt
    BY <2>1, <2>2, AccessNumbers DEF AccessInv, CacheInv
  <2> QED
    BY <1>1, <2>3 DEF AccessInv, CacheInv
<1> QED
  BY <1>2, <1>3, <1>4, <1>5 DEF AccessInv

\* A write may list, unlist or break the file; it always has a new signature.
LEMMA ChangePreserves == AccessInv /\ Change => AccessInv'
<1> SUFFICES ASSUME AccessInv, Change PROVE AccessInv'
  OBVIOUS
<1>1. /\ content' \in Contents
      /\ signature' = signature + 1
      /\ gap' = (gap \/ content' # "listed")
      /\ lastGrant' = IF content' = "unlisted" THEN lastGrant ELSE clock
      /\ UNCHANGED <<clock, entries, fileSignature, lastLoadedAt, step, seen, start, verdict>>
  BY DEF Change
<1>2. AccessTypeOK'
  BY <1>1, AccessNumbers DEF AccessInv, AccessTypeOK
<1>3. HistoryInv'
  <2>1. lastGrant' <= clock /\ (content' # "unlisted" => lastGrant' = clock)
    BY <1>1, AccessNumbers DEF AccessInv, HistoryInv
  <2>2. step # "idle" /\ content' # "listed" => gap'
    BY <1>1
  <2> QED
    BY <1>1, <2>1, <2>2 DEF AccessInv, HistoryInv
<1>4. SignatureInv'
  BY <1>1, AccessNumbers DEF AccessInv, SignatureInv
<1>5. CacheInv'
  <2>1. lastGrant <= clock /\ lastLoadedAt <= clock
    BY DEF AccessInv, HistoryInv
  <2>2. entries /\ step \notin {"stat", "read"} => lastGrant' >= lastLoadedAt
    BY <1>1, <2>1, AccessNumbers DEF AccessInv, CacheInv
  <2> QED
    BY <1>1, <2>2 DEF AccessInv, CacheInv
<1> QED
  BY <1>2, <1>3, <1>4, <1>5 DEF AccessInv
-----------------------------------------------------------------------------
(* The steps of a login: each preserves the invariant and keeps the        *)
(* promises.                                                                *)

\* A login's arrival: it is answered from young entries, or looks at the file.
LEMMA LoginStep == AccessInv /\ Login => AccessInv' /\ RevokedStep /\ AdmittedStep
<1> SUFFICES ASSUME AccessInv, Login PROVE AccessInv' /\ RevokedStep /\ AdmittedStep
  OBVIOUS
<1>1. /\ step = "idle" /\ start' = clock /\ gap' = (content # "listed")
      /\ UNCHANGED <<clock, content, signature, entries, fileSignature, seen, lastGrant>>
  BY DEF Login
<1>2. SignatureInv'
  BY <1>1 DEF AccessInv, SignatureInv
<1>3. CASE SkipAccessReload
  <2>1. clock - lastLoadedAt < Refresh /\ lastLoadedAt' = lastLoadedAt
    BY <1>3 DEF SkipAccessReload
  <2>2. /\ entries => step' = "idle" /\ verdict' = "admitted"
        /\ ~entries => step' = "missStat" /\ verdict' = verdict
    BY <1>3 DEF SkipAccessReload, Decide, Answer
  <2>3. AccessTypeOK'
    BY <1>1, <2>1, <2>2, AccessNumbers DEF AccessInv, AccessTypeOK
  <2>4. HistoryInv'
    <3>1. content # "listed" => gap'
      BY <1>1
    <3> QED
      BY <1>1, <2>1, <3>1, AccessNumbers DEF AccessInv, HistoryInv
  <2>5. CacheInv'
    BY <1>1, <2>1, <2>2, AccessNumbers DEF AccessInv, CacheInv
  <2>6. RevokedStep
    <3>1. CASE entries
      <4>1. lastGrant >= lastLoadedAt
        BY <1>1, <3>1 DEF AccessInv, CacheInv
      <4> QED
        BY <1>1, <2>1, <4>1, AccessNumbers DEF RevokedStep
    <3>2. CASE ~entries
      BY <2>2, <3>2 DEF RevokedStep, Answered
    <3> QED
      BY <3>1, <3>2
  <2>7. AdmittedStep
    BY <2>2, AccessNumbers DEF AdmittedStep, Answered
  <2> QED
    BY <1>2, <2>3, <2>4, <2>5, <2>6, <2>7 DEF AccessInv
<1>4. CASE ~SkipAccessReload
  <2>1. lastLoadedAt' = clock /\ step' = "stat" /\ verdict' = verdict
    BY <1>4 DEF Login
  <2>2. AccessTypeOK'
    BY <1>1, <2>1, AccessNumbers DEF AccessInv, AccessTypeOK
  <2>3. HistoryInv'
    <3>1. content # "listed" => gap'
      BY <1>1
    <3> QED
      BY <1>1, <2>1, <3>1, AccessNumbers DEF AccessInv, HistoryInv
  <2>4. CacheInv'
    BY <1>1, <2>1 DEF CacheInv
  <2>5. RevokedStep /\ AdmittedStep
    BY <2>1 DEF RevokedStep, AdmittedStep, Answered
  <2> QED
    BY <1>2, <2>2, <2>3, <2>4, <2>5 DEF AccessInv
<1> QED
  BY <1>3, <1>4

\* What the steps inside a login leave alone.
LoginGoesOn == UNCHANGED <<clock, content, signature, start, gap, lastGrant>>

\* A login in progress that is answered from what the file holds now keeps the
\* promises.
LEMMA AnswerFromFile ==
    ASSUME AccessInv, step # "idle", LoginGoesOn,
           Answered /\ verdict' = "admitted" => content = "listed",
           Answered /\ verdict' = "refused" => content # "listed"
    PROVE  RevokedStep /\ AdmittedStep
<1>1. start' = start /\ gap' = gap
  BY DEF LoginGoesOn
<1>2. RevokedStep
  <2> SUFFICES ASSUME content = "listed" PROVE start' - lastGrant < Refresh
    BY DEF RevokedStep
  <2>1. lastGrant = clock /\ start <= clock
    BY DEF AccessInv, HistoryInv
  <2> QED
    BY <1>1, <2>1, AccessNumbers
<1>3. AdmittedStep
  BY <1>1 DEF AdmittedStep, AccessInv, HistoryInv
<1> QED
  BY <1>2, <1>3

\* A login in progress that leaves the cache alone.
LEMMA LookPreserves ==
    ASSUME AccessInv, step # "idle", LoginGoesOn, UNCHANGED cacheVars,
           seen' \in {seen, signature},
           step' \in {"idle", "stat", "read", "missStat", "missRead"},
           verdict' \in {"none", "admitted", "refused"},
           step' \in {"stat", "read"} => step \in {"stat", "read"},
           step' \in {"missStat", "missRead"} => ~entries,
           step' \notin {"stat", "read"} /\ step \in {"stat", "read"} /\ entries => content # "unlisted"
    PROVE  AccessInv'
<1>1. /\ UNCHANGED <<clock, content, signature, start, gap, lastGrant>>
      /\ UNCHANGED <<entries, fileSignature, lastLoadedAt>>
  BY DEF LoginGoesOn, cacheVars
<1>2. seen' \in Nat /\ seen' <= signature
  BY AccessNumbers DEF AccessInv, SignatureInv
<1>3. AccessTypeOK'
  BY <1>1, <1>2, AccessNumbers DEF AccessInv, AccessTypeOK
<1>4. HistoryInv'
  BY <1>1 DEF AccessInv, HistoryInv
<1>5. SignatureInv'
  BY <1>1, <1>2 DEF AccessInv, SignatureInv
<1>6. CacheInv'
  <2>1. ASSUME entries, step' \notin {"stat", "read"} PROVE lastGrant >= lastLoadedAt
    <3>1. CASE step \in {"stat", "read"}
      <4>1. lastGrant = clock /\ lastLoadedAt <= clock
        BY <2>1, <3>1 DEF AccessInv, HistoryInv
      <4> QED
        BY <4>1, AccessNumbers
    <3>2. CASE step \notin {"stat", "read"}
      BY <2>1, <3>2 DEF AccessInv, CacheInv
    <3> QED
      BY <3>1, <3>2
  <2> QED
    BY <1>1, <2>1 DEF AccessInv, CacheInv
<1> QED
  BY <1>3, <1>4, <1>5, <1>6 DEF AccessInv

\* A login in progress that has read the file: the entries are what it holds.
LEMMA LoadPreserves ==
    ASSUME AccessInv, step # "idle", LoginGoesOn, UNCHANGED seen,
           NEW loadedAt \in {start, clock}, LoadEntries(loadedAt),
           step' \in {"idle", "missStat"},
           verdict' \in {"none", "admitted", "refused"},
           step' = "missStat" => content # "listed",
           step' = "idle" \/ loadedAt = start
    PROVE  AccessInv'
<1>1. /\ UNCHANGED <<clock, content, signature, start, gap, lastGrant, seen>>
      /\ entries' = (content = "listed")
      /\ fileSignature' = seen
      /\ lastLoadedAt' = loadedAt
  BY DEF LoginGoesOn, LoadEntries
<1>2. loadedAt \in Nat /\ loadedAt <= clock
  BY AccessNumbers DEF AccessInv, HistoryInv
<1>3. AccessTypeOK'
  BY <1>1, <1>2, AccessNumbers DEF AccessInv, AccessTypeOK
<1>4. HistoryInv'
  BY <1>1, <1>2 DEF AccessInv, HistoryInv
<1>5. SignatureInv'
  BY <1>1 DEF AccessInv, SignatureInv
<1>6. CacheInv'
  <2>1. content = "listed" => lastGrant = clock
    BY DEF AccessInv, HistoryInv
  <2>2. step' \notin {"stat", "read"} /\ step' # "missRead"
    OBVIOUS
  <2>3. entries' => lastGrant' >= lastLoadedAt'
    BY <1>1, <1>2, <2>1, AccessNumbers
  <2> QED
    BY <1>1, <2>2, <2>3 DEF CacheInv
<1> QED
  BY <1>3, <1>4, <1>5, <1>6 DEF AccessInv

\* The first look at the signature: unchanged, the entries are the file's.
LEMMA StatStep == AccessInv /\ Stat => AccessInv' /\ RevokedStep /\ AdmittedStep
<1> SUFFICES ASSUME AccessInv, Stat PROVE AccessInv' /\ RevokedStep /\ AdmittedStep
  OBVIOUS
<1>1. step = "stat" /\ seen' = signature /\ LoginGoesOn /\ UNCHANGED cacheVars
  BY DEF Stat, fileVars, LoginGoesOn
<1>2. verdict \in {"none", "admitted", "refused"}
  BY DEF AccessInv, AccessTypeOK
<1>3. CASE signature = fileSignature
  <2>1. entries = (content = "listed")
    BY <1>3 DEF AccessInv, SignatureInv
  <2>2. /\ entries => step' = "idle" /\ verdict' = "admitted"
        /\ ~entries => step' = "missStat" /\ verdict' = verdict
    BY <1>3 DEF Stat, Decide, Answer
  <2>3. AccessInv'
    BY <1>1, <1>2, <2>1, <2>2, AccessNumbers, LookPreserves
  <2>4. RevokedStep /\ AdmittedStep
    BY <1>1, <2>1, <2>2, AccessNumbers, AnswerFromFile DEF Answered
  <2> QED
    BY <2>3, <2>4
<1>4. CASE signature # fileSignature
  <2>1. step' = "read" /\ verdict' = verdict
    BY <1>4 DEF Stat
  <2>2. AccessInv'
    BY <1>1, <1>2, <2>1, LookPreserves
  <2>3. RevokedStep /\ AdmittedStep
    BY <2>1 DEF RevokedStep, AdmittedStep, Answered
  <2> QED
    BY <2>2, <2>3
<1> QED
  BY <1>3, <1>4

\* Reading the file; what is unreadable refuses the login and leaves the entries.
LEMMA ReadStep == AccessInv /\ Read => AccessInv' /\ RevokedStep /\ AdmittedStep
<1> SUFFICES ASSUME AccessInv, Read PROVE AccessInv' /\ RevokedStep /\ AdmittedStep
  OBVIOUS
<1>1. step = "read" /\ UNCHANGED seen /\ LoginGoesOn
  BY DEF Read, fileVars, LoginGoesOn
<1>2. verdict \in {"none", "admitted", "refused"}
  BY DEF AccessInv, AccessTypeOK
<1>3. CASE content = "unreadable"
  <2>1. step' = "idle" /\ verdict' = "refused" /\ UNCHANGED cacheVars
    BY <1>3 DEF Read, Answer
  <2>2. AccessInv'
    BY <1>1, <1>3, <2>1, LookPreserves
  <2>3. RevokedStep /\ AdmittedStep
    BY <1>1, <1>3, <2>1, AnswerFromFile
  <2> QED
    BY <2>2, <2>3
<1>4. CASE content # "unreadable"
  <2>1. /\ LoadEntries(start)
        /\ content = "listed" => step' = "idle" /\ verdict' = "admitted"
        /\ content # "listed" => step' = "missStat" /\ verdict' = verdict
    BY <1>4 DEF Read, Decide, Answer
  <2>2. AccessInv'
    <3>1. CASE content = "listed"
      BY <1>1, <2>1, <3>1, LoadPreserves
    <3>2. CASE content # "listed"
      BY <1>1, <1>2, <2>1, <3>2, LoadPreserves
    <3> QED
      BY <3>1, <3>2
  <2>3. RevokedStep /\ AdmittedStep
    BY <1>1, <2>1, AnswerFromFile DEF Answered
  <2> QED
    BY <2>2, <2>3
<1> QED
  BY <1>3, <1>4

\* The look at the signature after a miss.
LEMMA MissStatStep == AccessInv /\ MissStat => AccessInv' /\ RevokedStep /\ AdmittedStep
<1> SUFFICES ASSUME AccessInv, MissStat PROVE AccessInv' /\ RevokedStep /\ AdmittedStep
  OBVIOUS
<1>1. step = "missStat" /\ seen' = signature /\ LoginGoesOn /\ UNCHANGED cacheVars
  BY DEF MissStat, fileVars, LoginGoesOn
<1>2. verdict \in {"none", "admitted", "refused"} /\ ~entries
  BY <1>1 DEF AccessInv, AccessTypeOK, CacheInv
<1>3. CASE signature = fileSignature
  <2>1. content # "listed"
    BY <1>2, <1>3 DEF AccessInv, SignatureInv
  <2>2. step' = "idle" /\ verdict' = "refused"
    BY <1>3 DEF MissStat, Answer
  <2>3. AccessInv'
    BY <1>1, <1>2, <2>2, LookPreserves
  <2>4. RevokedStep /\ AdmittedStep
    BY <1>1, <2>1, <2>2, AnswerFromFile
  <2> QED
    BY <2>3, <2>4
<1>4. CASE signature # fileSignature
  <2>1. step' = "missRead" /\ verdict' = verdict
    BY <1>4 DEF MissStat
  <2>2. AccessInv'
    BY <1>1, <1>2, <2>1, LookPreserves
  <2>3. RevokedStep /\ AdmittedStep
    BY <2>1 DEF RevokedStep, AdmittedStep, Answered
  <2> QED
    BY <2>2, <2>3
<1> QED
  BY <1>3, <1>4

\* The reading after a miss.
LEMMA MissReadStep == AccessInv /\ MissRead => AccessInv' /\ RevokedStep /\ AdmittedStep
<1> SUFFICES ASSUME AccessInv, MissRead PROVE AccessInv' /\ RevokedStep /\ AdmittedStep
  OBVIOUS
<1>1. /\ step = "missRead" /\ step' = "idle" /\ UNCHANGED seen /\ LoginGoesOn
      /\ content = "listed" => verdict' = "admitted"
      /\ content # "listed" => verdict' = "refused"
  BY DEF MissRead, Answer, fileVars, LoginGoesOn
<1>2. verdict' \in {"none", "admitted", "refused"}
  BY <1>1
<1>3. AccessInv'
  <2>1. CASE content = "unreadable"
    <3>1. UNCHANGED cacheVars
      BY <2>1 DEF MissRead
    <3> QED
      BY <1>1, <1>2, <3>1, LookPreserves
  <2>2. CASE content # "unreadable"
    <3>1. LoadEntries(clock)
      BY <2>2 DEF MissRead
    <3> QED
      BY <1>1, <1>2, <3>1, LoadPreserves
  <2> QED
    BY <2>1, <2>2
<1>4. RevokedStep /\ AdmittedStep
  BY <1>1, AnswerFromFile
<1> QED
  BY <1>3, <1>4

-----------------------------------------------------------------------------
(* The theorems.                                                            *)

\* Every step preserves the invariant and keeps the promises.
LEMMA AccessStepKeeps ==
    AccessInv /\ [AccessNext]_accessVars =>
        AccessInv' /\ (RevokedStep \/ UNCHANGED accessVars) /\ (AdmittedStep \/ UNCHANGED accessVars)
<1> SUFFICES ASSUME AccessInv, [AccessNext]_accessVars
             PROVE  AccessInv' /\ (RevokedStep \/ UNCHANGED accessVars) /\ (AdmittedStep \/ UNCHANGED accessVars)
  OBVIOUS
<1>1. CASE ClockTick
  <2>1. clock' # clock
    BY <1>1, AccessNumbers DEF ClockTick
  <2> QED
    BY <1>1, <2>1, AccessTickPreserves DEF RevokedStep, AdmittedStep, Answered
<1>2. CASE Change
  <2>1. signature' # signature
    BY <1>2, AccessNumbers DEF Change
  <2> QED
    BY <1>2, <2>1, ChangePreserves DEF RevokedStep, AdmittedStep, Answered
<1>3. CASE UNCHANGED accessVars
  <2>1. AccessInv'
    BY <1>3 DEF accessVars, AccessInv, AccessTypeOK, HistoryInv, SignatureInv, CacheInv
  <2> QED
    BY <1>3, <2>1
<1> QED
  BY <1>1, <1>2, <1>3, LoginStep, StatStep, ReadStep, MissStatStep, MissReadStep DEF AccessNext

\* The invariant holds in every reachable state.
THEOREM AccessInvariantHolds == AccessSpec => []AccessInv
<1>1. AccessInit => AccessInv
  BY AccessEstablishes
<1>2. AccessInv /\ [AccessNext]_accessVars => AccessInv'
  BY AccessStepKeeps
<1> QED
  BY <1>1, <1>2, PTL DEF AccessSpec

\* The cache and the login that is being checked keep their types.
THEOREM AccessTypeCorrect == AccessSpec => []AccessTypeOK
<1>1. AccessInv => AccessTypeOK
  BY DEF AccessInv
<1>2. AccessSpec => []AccessInv
  BY AccessInvariantHolds
<1> QED
  BY <1>1, <1>2, PTL

\* isAllowed: a login whose entry was taken out of the file is refused when it comes
\* Refresh or later after that.
THEOREM RevokedInTimeHolds == AccessSpec => RevokedInTime
<1>1. AccessInv /\ [AccessNext]_accessVars => [RevokedStep]_accessVars
  BY AccessStepKeeps
<1>2. RevokedInTime <=> [][RevokedStep]_accessVars
  BY DEF RevokedInTime, RevokedStep
<1>3. AccessSpec => []AccessInv
  BY AccessInvariantHolds
<1> QED
  BY <1>1, <1>2, <1>3, PTL DEF AccessSpec

\* isAllowed: a login that the file lists from its arrival to its answer is admitted.
THEOREM AdmittedAtOnceHolds == AccessSpec => AdmittedAtOnce
<1>1. AccessInv /\ [AccessNext]_accessVars => [AdmittedStep]_accessVars
  BY AccessStepKeeps
<1>2. AdmittedAtOnce <=> [][AdmittedStep]_accessVars
  BY DEF AdmittedAtOnce, AdmittedStep
<1>3. AccessSpec => []AccessInv
  BY AccessInvariantHolds
<1> QED
  BY <1>1, <1>2, <1>3, PTL DEF AccessSpec
=============================================================================
