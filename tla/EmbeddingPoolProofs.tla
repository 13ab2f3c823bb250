------------------------- MODULE EmbeddingPoolProofs -------------------------
(***************************************************************************)
(* Proofs about EmbeddingPool, for any number of texts, threads, retries   *)
(* and delays.                                                             *)
(***************************************************************************)
EXTENDS EmbeddingPool, FiniteSetTheorems, SequenceTheorems, WellFoundedInduction, TLAPS

PoolType ==
    /\ caller \in {"idle", "collecting", "leaving", "returned", "raised"}
    /\ pause \in Nat /\ strays \in Nat
    /\ step \in [Batches -> Steps]
    /\ attempt \in [Batches -> Nat]
    /\ timer \in [Batches -> Nat]
    /\ owed \in [Batches -> Nat]
    /\ DOMAIN results = Batches

(* A batch that may still be posted has an attempt left. *)
AttemptsKept ==
    \A b \in Batches :
        /\ attempt[b] <= MaxRetries
        /\ step[b] = "posted" => attempt[b] >= 1
        /\ step[b] \in {"queued", "waiting", "sleeping", "cleared"}
             => attempt[b] < MaxRetries

(* The shared pause covers what each batch was told to wait. *)
PauseKept ==
    \A b \in Batches :
        /\ owed[b] <= pause
        /\ step[b] = "cleared" => owed[b] = 0

Cleared == {b \in Batches : step[b] = "cleared"}

(* What slips into a pause was cleared before it, and one thread at least  *)
(* was not: the one that signalled.                                        *)
StraysKept ==
    /\ pause = 0 => strays = 0
    /\ Batches = {} => strays = 0
    /\ pause > 0 /\ Batches # {} => Cardinality(Cleared) + strays < Threads

BusyKept == Cardinality(Busy) <= Threads

(* Without a pool there is no batch beyond one that is not done. *)
InOrder ==
    Serial => \A b, c \in Batches : c < b /\ step[b] # "queued" => step[c] = "done"

CallerKept ==
    /\ caller = "idle" => \A b \in Batches : step[b] = "queued"
    /\ caller \in {"leaving", "raised"} => \E b \in Batches : step[b] = "failed"
    /\ caller = "raised" => Busy = {}
    /\ caller = "returned" => \A b \in Batches : step[b] = "done"
    /\ \A b \in Batches : results[b] # <<>> => step[b] = "done"

PoolInv ==
    /\ PoolType /\ AttemptsKept /\ PauseKept /\ StraysKept
    /\ BusyKept /\ InOrder /\ CallerKept

-------------------------------------------------------------------------------
(* Constants *)

(* The batches are finitely many numbers, none if there is no text. *)
LEMMA BatchesFinite ==
    /\ BatchCount \in Nat
    /\ Batches \subseteq Nat
    /\ IsFiniteSet(Batches)
    /\ TextCount = 0 => Batches = {}
<1>1. BatchCount \in Nat
  BY PoolAssumption DEF BatchCount
<1>2. Batches \subseteq Nat
  BY <1>1 DEF Batches
<1>3. IsFiniteSet(Batches)
  BY <1>1, FS_Interval DEF Batches
<1>4. TextCount = 0 => Batches = {}
  BY PoolAssumption DEF BatchCount, Batches
<1> QED
  BY <1>1, <1>2, <1>3, <1>4

(* At least one thread if there is anything to do. *)
LEMMA ThreadsType ==
    /\ Threads \in Nat
    /\ Batches # {} => Threads \in Nat \ {0}
BY BatchesFinite, PoolAssumption DEF Threads, Least, Batches

(* Every delay that is signalled is a number of seconds. *)
LEMMA DelayType == \A n \in 1..MaxRetries : Delay(n) \in Nat
<1> SUFFICES ASSUME NEW n \in 1..MaxRetries
             PROVE  Delay(n) \in Nat
  OBVIOUS
<1>1. n - 1 \in 0..MaxRetries
  BY PoolAssumption
<1>2. 2^(n - 1) \in Nat
  BY <1>1, PowersAssumption
<1>3. RetryBackoff * 2^(n - 1) \in Nat
  BY <1>2, PoolAssumption
<1> QED
  BY <1>3, PoolAssumption DEF Delay, Least

(* signal() makes a pause that covers the old one and the delay. *)
LEMMA SignalledCovers ==
    ASSUME pause \in Nat, NEW d \in Nat
    PROVE  Signalled(d) \in Nat /\ Signalled(d) >= pause /\ Signalled(d) >= d
BY DEF Signalled

-------------------------------------------------------------------------------
(* Every conjunct holds at first *)

LEMMA InitInv == Init => PoolInv
<1> SUFFICES ASSUME Init PROVE PoolInv
  OBVIOUS
<1> USE DEF Init
<1>1. PoolType
  BY PoolAssumption DEF PoolType, Steps
<1>2. AttemptsKept
  BY PoolAssumption DEF AttemptsKept
<1>3. PauseKept
  BY PoolAssumption DEF PauseKept
<1>4. Cleared = {} /\ Busy = {}
  BY DEF Cleared, Busy
<1>5. Cardinality({}) = 0
  BY FS_EmptySet
<1>6. StraysKept
  BY <1>4, <1>5, ThreadsType, PoolAssumption DEF StraysKept
<1>7. BusyKept
  BY <1>4, <1>5, ThreadsType DEF BusyKept
<1>8. InOrder
  BY DEF InOrder
<1>9. CallerKept
  BY DEF CallerKept
<1> QED
  BY <1>1, <1>2, <1>3, <1>6, <1>7, <1>8, <1>9 DEF PoolInv

-------------------------------------------------------------------------------
(* Every step keeps each of them *)

LEMMA TypeStep ==
    ASSUME PoolType, AttemptsKept, Next
    PROVE  PoolType'
<1> USE DEF PoolType, Steps, callVars
<1>1. CASE Tick
  BY <1>1 DEF Tick, Less
<1>2. CASE Call
  BY <1>2 DEF Call, workVars
<1>3. CASE Leave
  BY <1>3 DEF Leave, workVars
<1>4. CASE Return
  BY <1>4 DEF Return, workVars
<1>5. ASSUME NEW b \in Batches, Collect(b) \/ CollectError(b)
      PROVE  PoolType'
  BY <1>5 DEF Collect, CollectError, workVars
<1>6. ASSUME NEW b \in Batches, Work(b)
      PROVE  PoolType'
  <2>1. CASE Start(b)
    BY <2>1 DEF Start
  <2>2. CASE Wait(b)
    BY <2>2 DEF Wait
  <2>3. CASE Wake(b)
    BY <2>3 DEF Wake
  <2>4. CASE Post(b)
    BY <2>4 DEF Post
  <2>5. CASE Retry(b)
    <3>1. attempt[b] \in 1..MaxRetries
      BY <2>5, PoolAssumption DEF Retry, AttemptsKept
    <3>2. Delay(attempt[b]) \in Nat
      BY <3>1, DelayType
    <3>3. Signalled(Delay(attempt[b])) \in Nat
      BY <3>2, SignalledCovers
    <3> QED
      BY <2>5, <3>2, <3>3 DEF Retry
  <2>6. CASE Succeed(b)
    BY <2>6 DEF Succeed
  <2>7. CASE GiveUp(b)
    BY <2>7 DEF GiveUp
  <2> QED
    BY <1>6, <2>1, <2>2, <2>3, <2>4, <2>5, <2>6, <2>7 DEF Work
<1> QED
  BY <1>1, <1>2, <1>3, <1>4, <1>5, <1>6 DEF Next, CallerStep

LEMMA AttemptsStep ==
    ASSUME PoolType, AttemptsKept, Next
    PROVE  AttemptsKept'
<1> USE DEF PoolType, AttemptsKept, callVars
<1>1. CASE Tick \/ CallerStep
  BY <1>1 DEF Tick, CallerStep, Call, Leave, Return, Collect, CollectError, workVars
<1>2. ASSUME NEW b \in Batches, Work(b)
      PROVE  AttemptsKept'
  <2>1. CASE Start(b) \/ Wait(b) \/ Wake(b)
    BY <2>1 DEF Start, Wait, Wake
  <2>2. CASE Post(b)
    BY <2>2, PoolAssumption DEF Post
  <2>3. CASE Retry(b) \/ Succeed(b) \/ GiveUp(b)
    BY <2>3 DEF Retry, Succeed, GiveUp
  <2> QED
    BY <1>2, <2>1, <2>2, <2>3 DEF Work
<1> QED
  BY <1>1, <1>2 DEF Next

LEMMA PauseStep ==
    ASSUME PoolType, AttemptsKept, PauseKept, Next
    PROVE  PauseKept'
<1> USE DEF PoolType, PauseKept, callVars
<1>1. CASE Tick
  BY <1>1 DEF Tick, Less
<1>2. CASE CallerStep
  BY <1>2 DEF CallerStep, Call, Leave, Return, Collect, CollectError, workVars
<1>3. ASSUME NEW b \in Batches, Work(b)
      PROVE  PauseKept'
  <2>1. CASE Start(b) \/ Wake(b) \/ Post(b)
    BY <2>1 DEF Start, Wake, Post
  <2>2. CASE Wait(b)
    BY <2>2 DEF Wait
  <2>3. CASE Retry(b)
    <3>1. attempt[b] \in 1..MaxRetries
      BY <2>3, PoolAssumption DEF Retry, AttemptsKept
    <3>2. Delay(attempt[b]) \in Nat
      BY <3>1, DelayType
    <3>3. /\ pause' \in Nat /\ pause' >= pause
          /\ pause' >= Delay(attempt[b])
      BY <2>3, <3>2, SignalledCovers DEF Retry
    <3> QED
      BY <2>3, <3>2, <3>3 DEF Retry
  <2>4. CASE Succeed(b) \/ GiveUp(b)
    BY <2>4 DEF Succeed, GiveUp
  <2> QED
    BY <1>3, <2>1, <2>2, <2>3, <2>4 DEF Work
<1> QED
  BY <1>1, <1>2, <1>3 DEF Next

(* Threads leave the pool; only Start, which looks for room, enters it. *)
LEMMA BusyStep ==
    ASSUME PoolType, BusyKept, Next
    PROVE  BusyKept'
<1>1. IsFiniteSet(Busy) /\ Cardinality(Busy) \in Nat
  BY BatchesFinite, FS_Subset, FS_CardinalityType DEF Busy
<1>2. ASSUME Busy' \subseteq Busy
      PROVE  BusyKept'
  <2>1. Cardinality(Busy') <= Cardinality(Busy) /\ Cardinality(Busy') \in Nat
    BY <1>1, <1>2, FS_Subset, FS_CardinalityType
  <2> QED
    BY <1>1, <2>1, ThreadsType DEF BusyKept
<1>3. CASE Tick \/ CallerStep
  BY <1>2, <1>3 DEF Tick, CallerStep, Call, Leave, Return, Collect, CollectError,
                    workVars, Busy
<1>4. ASSUME NEW b \in Batches, Work(b)
      PROVE  BusyKept'
  <2>1. CASE Start(b)
    <3>1. Busy' = Busy \cup {b}
      BY <2>1 DEF Start, Busy, PoolType
    <3>2. Cardinality(Busy') <= Cardinality(Busy) + 1
      BY <1>1, <3>1, FS_AddElement
    <3>3. Cardinality(Busy') \in Nat
      BY <1>1, <3>1, FS_AddElement, FS_CardinalityType
    <3> QED
      BY <1>1, <2>1, <3>2, <3>3, ThreadsType DEF Start, BusyKept
  <2>2. CASE ~Start(b)
    BY <1>2, <1>4, <2>2 DEF Work, Wait, Wake, Post, Retry, Succeed, GiveUp, Busy, PoolType
  <2> QED
    BY <2>1, <2>2
<1> QED
  BY <1>3, <1>4 DEF Next

(* A pause is set by a busy thread that is not cleared, so fewer threads   *)
(* than all are; and none is cleared anew before the pause is over.        *)
LEMMA StraysStep ==
    ASSUME PoolType, AttemptsKept, BusyKept, StraysKept, Next
    PROVE  StraysKept'
<1>1. IsFiniteSet(Cleared) /\ Cardinality(Cleared) \in Nat
  BY BatchesFinite, FS_Subset, FS_CardinalityType DEF Cleared
<1>2. Threads \in Nat
  BY ThreadsType
<1> USE <1>1, <1>2 DEF PoolType, StraysKept
<1>3. CASE Tick
  <2>1. Cleared' = Cleared
    BY <1>3 DEF Tick, Cleared
  <2> QED
    BY <1>3, <2>1 DEF Tick, Less
<1>4. CASE CallerStep
  <2>1. Cleared' = Cleared
    BY <1>4 DEF CallerStep, Call, Leave, Return, Collect, CollectError, workVars, Cleared
  <2>2. UNCHANGED <<pause, strays>>
    BY <1>4 DEF CallerStep, Call, Leave, Return, Collect, CollectError
  <2> QED
    BY <2>1, <2>2
<1>5. ASSUME NEW b \in Batches, Start(b) \/ Wake(b) \/ Succeed(b) \/ GiveUp(b)
      PROVE  StraysKept'
  <2>1. Cleared' = Cleared
    BY <1>5 DEF Start, Wake, Succeed, GiveUp, Cleared
  <2>2. UNCHANGED <<pause, strays>>
    BY <1>5 DEF Start, Wake, Succeed, GiveUp
  <2> QED
    BY <2>1, <2>2
<1>6. ASSUME NEW b \in Batches, Wait(b)
      PROVE  StraysKept'
  <2>1. pause > 0 => Cleared' = Cleared
    BY <1>6 DEF Wait, Cleared
  <2>2. UNCHANGED <<pause, strays>>
    BY <1>6 DEF Wait
  <2> QED
    BY <2>1, <2>2
<1>7. ASSUME NEW b \in Batches, Post(b)
      PROVE  StraysKept'
  <2>1. b \in Cleared /\ Cleared' = Cleared \ {b}
    BY <1>7 DEF Post, Cleared
  <2>2. Cardinality(Cleared') = Cardinality(Cleared) - 1
    BY <2>1, FS_RemoveElement
  <2> QED
    BY <1>7, <2>2 DEF Post
<1>8. ASSUME NEW b \in Batches, Retry(b)
      PROVE  StraysKept'
  <2>1. Cleared' = Cleared
    BY <1>8 DEF Retry, Cleared
  <2>2. Cardinality(Cleared) < Threads
    <3>1. b \in Busy /\ Cleared \subseteq Busy \ {b}
      BY <1>8 DEF Retry, Busy, Cleared
    <3>2. IsFiniteSet(Busy)
      BY BatchesFinite, FS_Subset DEF Busy
    <3>3. /\ IsFiniteSet(Busy \ {b})
          /\ Cardinality(Busy \ {b}) = Cardinality(Busy) - 1
      BY <3>1, <3>2, FS_RemoveElement
    <3>4. Cardinality(Cleared) <= Cardinality(Busy \ {b})
      BY <3>1, <3>3, FS_Subset
    <3>5. Cardinality(Busy) \in Nat
      BY <3>2, FS_CardinalityType
    <3> QED
      BY <3>3, <3>4, <3>5 DEF BusyKept
  <2>3. pause' \in Nat /\ pause' >= pause /\ UNCHANGED strays
    <3>1. attempt[b] \in 1..MaxRetries
      BY <1>8, PoolAssumption DEF Retry, AttemptsKept
    <3>2. Delay(attempt[b]) \in Nat
      BY <3>1, DelayType
    <3> QED
      BY <1>8, <3>2, SignalledCovers DEF Retry
  <2> QED
    BY <2>1, <2>2, <2>3
<1> QED
  BY <1>3, <1>4, <1>5, <1>6, <1>7, <1>8 DEF Next, Work

LEMMA OrderStep ==
    ASSUME PoolType, InOrder, Next
    PROVE  InOrder'
<1> USE BatchesFinite DEF PoolType, InOrder
<1>1. CASE Tick \/ CallerStep
  BY <1>1 DEF Tick, CallerStep, Call, Leave, Return, Collect, CollectError, workVars
<1>2. ASSUME NEW b \in Batches, Work(b)
      PROVE  InOrder'
  <2>1. step[b] # "done"
    BY <1>2 DEF Work, Start, Wait, Wake, Post, Retry, Succeed, GiveUp
  <2>2. CASE Start(b)
    <3>1. Serial => \A c \in Batches : c < b => step[c] = "done"
      BY <2>2 DEF Start, Batches
    <3> QED
      BY <2>1, <2>2, <3>1 DEF Start
  <2>3. CASE ~Start(b)
    <3>1. step[b] # "queued"
      BY <1>2, <2>3 DEF Work, Wait, Wake, Post, Retry, Succeed, GiveUp
    <3>2. step' = [step EXCEPT ![b] = step'[b]]
      BY <1>2, <2>3 DEF Work, Wait, Wake, Post, Retry, Succeed, GiveUp
    <3> QED
      BY <2>1, <3>1, <3>2
  <2> QED
    BY <2>2, <2>3
<1> QED
  BY <1>1, <1>2 DEF Next

(* What has ended stays so, and when Leave raises nothing is left to end:  *)
(* the pool has waited for it, and without a pool it never began.          *)
LEMMA CallerStepKept ==
    ASSUME PoolType, InOrder, CallerKept, Next
    PROVE  CallerKept'
<1> USE DEF PoolType, CallerKept
<1>1. CASE Tick
  BY <1>1 DEF Tick, callVars, Busy
<1>2. CASE Call
  BY <1>2, BatchesFinite DEF Call, workVars, Busy
<1>3. CASE Leave
  <2>1. Busy = {}
    <3>1. CASE Serial
      <4>1. PICK f \in Batches : step[f] = "failed"
        BY <1>3 DEF Leave
      <4>2. \A c \in Batches : c = f \/ c < f \/ f < c
        BY BatchesFinite
      <4>3. \A c \in Batches : step[c] \in {"failed", "done", "queued"}
        BY <3>1, <4>1, <4>2 DEF InOrder
      <4> QED
        BY <4>3 DEF Busy
    <3>2. CASE ~Serial
      BY <1>3, <3>2 DEF Leave, Busy
    <3> QED
      BY <3>1, <3>2
  <2> QED
    BY <1>3, <2>1 DEF Leave, workVars, Busy
<1>4. CASE Return
  BY <1>4 DEF Return, workVars, Busy, Collected
<1>5. ASSUME NEW b \in Batches, Collect(b) \/ CollectError(b)
      PROVE  CallerKept'
  BY <1>5 DEF Collect, CollectError, workVars, Busy
<1>6. ASSUME NEW b \in Batches, Work(b)
      PROVE  CallerKept'
  <2>1. CASE Start(b)
    BY <2>1 DEF Start, callVars, Busy
  <2>2. CASE ~Start(b)
    <3>1. b \in Busy
      BY <1>6, <2>2 DEF Work, Wait, Wake, Post, Retry, Succeed, GiveUp, Busy
    <3>2. caller \notin {"idle", "raised", "returned"}
      BY <3>1 DEF Busy
    <3>3. step' = [step EXCEPT ![b] = step'[b]] /\ UNCHANGED <<caller, results>>
      BY <1>6, <2>2 DEF Work, Wait, Wake, Post, Retry, Succeed, GiveUp, callVars
    <3> QED
      BY <3>1, <3>2, <3>3 DEF Busy
  <2> QED
    BY <2>1, <2>2
<1> QED
  BY <1>1, <1>2, <1>3, <1>4, <1>5, <1>6 DEF Next, CallerStep

-------------------------------------------------------------------------------
(* The invariant, and what it says of the properties *)

(* PoolInv holds in every behaviour. *)
THEOREM PoolInvariant == Spec => []PoolInv
<1>1. Init => PoolInv
  BY InitInv
<1>2. PoolInv /\ [Next]_vars => PoolInv'
  <2> SUFFICES ASSUME PoolInv, [Next]_vars
               PROVE  PoolInv'
    OBVIOUS
  <2>1. CASE Next
    BY <2>1, TypeStep, AttemptsStep, PauseStep, StraysStep, BusyStep, OrderStep,
       CallerStepKept DEF PoolInv
  <2>2. CASE UNCHANGED vars
    BY <2>2 DEF vars, workVars, callVars, PoolInv, PoolType, AttemptsKept, PauseKept,
                StraysKept, BusyKept, InOrder, CallerKept, Busy, Cleared
  <2> QED
    BY <2>1, <2>2
<1> QED
  BY <1>1, <1>2, PTL DEF Spec

(* A batch that was told to back off is not posted before its delay is over. *)
THEOREM BacksOff == Spec => []BackoffHonoured
<1>1. PoolInv => BackoffHonoured
  BY DEF PoolInv, PauseKept, BackoffHonoured
<1> QED
  BY <1>1, PoolInvariant, PTL

(* Fewer requests than threads begin during one pause. *)
THEOREM StraysAreFew == Spec => []FewStrays
<1>1. PoolInv => FewStrays
  <2> SUFFICES ASSUME PoolInv PROVE FewStrays
    OBVIOUS
  <2>1. IsFiniteSet(Cleared)
    BY BatchesFinite, FS_Subset DEF Cleared
  <2>2. Cardinality(Cleared) \in Nat
    BY <2>1, FS_CardinalityType
  <2> QED
    BY <2>2, ThreadsType DEF PoolInv, PoolType, StraysKept, FewStrays
<1> QED
  BY <1>1, PoolInvariant, PTL

(* Attempts are bounded, and the call fails only because a batch did. *)
THEOREM CallEndsForCause == Spec => []EndsForCause
<1>1. PoolInv => EndsForCause
  BY DEF PoolInv, AttemptsKept, CallerKept, EndsForCause
<1> QED
  BY <1>1, PoolInvariant, PTL

(* No thread is at work when the call is over. *)
THEOREM CallEndsQuietly == Spec => []QuietAfterwards
<1>1. PoolInv => QuietAfterwards
  BY DEF PoolInv, CallerKept, QuietAfterwards, Busy
<1> QED
  BY <1>1, PoolInvariant, PTL

-------------------------------------------------------------------------------
(* Numbers *)

(* A set of natural numbers has a least one. *)
LEMMA LeastNumber ==
    ASSUME NEW S \in SUBSET Nat, S # {}
    PROVE  \E i \in S : \A j \in S : i <= j
<1> DEFINE R == OpToRel(<, Nat)
<1>1. \A i, j \in Nat : j < i => <<j, i>> \in R
  BY DEF OpToRel
<1>2. IsWellFoundedOn(R, Nat)
  BY NatLessThanWellFounded
<1> HIDE DEF R
<1>3. PICK i \in S : \A j \in S : ~ (<<j, i>> \in R)
  BY <1>2, WFMin
<1>4. ASSUME NEW j \in S
      PROVE  i <= j
  <2>1. i \in Nat /\ j \in Nat
    OBVIOUS
  <2>2. ~ (j < i)
    BY <1>1, <1>3, <2>1
  <2> QED  BY <2>1, <2>2
<1> QED  BY <1>4

(* So many numbers lie below one of them. *)
LEMMA BelowCount ==
    \A n \in Nat \ {0} : Cardinality(1..(n - 1)) = n - 1 /\ IsFiniteSet(1..(n - 1))
<1> TAKE n \in Nat \ {0}
<1>1. n - 1 \in Int /\ 1 \in Int
  OBVIOUS
<1> QED  BY <1>1, FS_Interval

(* What is divided lies between two multiples of what it is divided by. *)
LEMMA Quotient ==
    ASSUME NEW x \in Nat, NEW y \in Nat \ {0}
    PROVE  /\ x \div y \in Nat
           /\ (x \div y) * y <= x
           /\ x < (x \div y) * y + y
  OBVIOUS

(* Multiplication keeps the order of numbers. *)
LEMMA TimesKeepsOrder ==
    ASSUME NEW m \in Nat, NEW n \in Nat, m <= n, NEW k \in Nat
    PROVE  m * k <= n * k /\ m * k \in Nat /\ n * k \in Nat
<1>1. (n - m) * k \in Nat
  OBVIOUS
<1>2. (n - m) * k = n * k - m * k
  OBVIOUS
<1>3. m * k \in Nat /\ n * k \in Nat
  OBVIOUS
<1> QED  BY <1>1, <1>2, <1>3

(* Every batch begins before the end of the texts, and the last one ends   *)
(* no sooner.                                                              *)
LEMMA BatchBounds ==
    /\ TextCount <= BatchCount * BatchSize
    /\ BatchCount * BatchSize \in Nat
    /\ \A b \in Batches : /\ (b - 1) * BatchSize \in Nat
                          /\ (b - 1) * BatchSize < TextCount
                          /\ b * BatchSize = (b - 1) * BatchSize + BatchSize
<1> DEFINE B == BatchSize
           C == BatchCount
           x == TextCount + B - 1
<1>1. B \in Nat \ {0} /\ x \in Nat /\ x = TextCount + B - 1 /\ TextCount \in Nat
  BY PoolAssumption
<1>2. C = x \div B
  BY DEF BatchCount
<1> HIDE DEF x, B, C
<1>3. C \in Nat /\ C * B <= x /\ x < C * B + B
  BY <1>1, <1>2, Quotient
<1> DEFINE all == C * B
<1>4. all \in Nat /\ all <= x /\ x < all + B
  BY <1>1, <1>3
<1>5. ASSUME NEW b \in 1..C
      PROVE  (b - 1) * B \in Nat /\ (b - 1) * B < TextCount /\ b * B = (b - 1) * B + B
  <2>1. b \in Nat /\ b - 1 \in Nat /\ b <= C
    BY <1>3
  <2>2. b * B <= all
    BY <1>1, <1>3, <2>1, TimesKeepsOrder
  <2>3. b * B = (b - 1) * B + B
    BY <1>1, <2>1
  <2>4. (b - 1) * B \in Nat
    BY <1>1, <2>1
  <2> DEFINE before == (b - 1) * B
             upto == b * B
  <2>5. before < TextCount
    <3>1. before \in Nat /\ upto = before + B /\ upto <= all
      BY <2>2, <2>3, <2>4
    <3> HIDE DEF before, upto, all
    <3> QED  BY <1>1, <1>4, <3>1
  <2> QED  BY <2>3, <2>4, <2>5
<1>6. TextCount <= all
  <2> HIDE DEF all
  <2> QED  BY <1>1, <1>4
<1> QED  BY <1>4, <1>5, <1>6 DEF B, C, Batches

(* How many texts a batch has. *)
Size(b) == Least(BatchSize, TextCount - (b - 1) * BatchSize)

LEMMA BatchTexts ==
    ASSUME NEW b \in Batches
    PROVE  /\ Size(b) \in Nat \ {0}
           /\ DOMAIN TextsOf(b) = 1..Size(b)
           /\ TextsOf(b) = [k \in 1..Size(b) |-> TextsOf(b)[k]]
           /\ \A k \in 1..Size(b) : TextsOf(b)[k] = (b - 1) * BatchSize + k
           /\ TextsOf(b) \in Seq(Nat)
           /\ Len(TextsOf(b)) = Size(b)
           /\ TextsOf(b) # <<>>
<1> DEFINE before == (b - 1) * BatchSize
<1>1. before \in Nat /\ before < TextCount
  BY BatchBounds
<1>2. Size(b) = Least(BatchSize, TextCount - before)
  BY DEF Size
<1>3. TextsOf(b) = [k \in 1..Size(b) |-> before + k]
  BY DEF TextsOf, Size
<1> HIDE DEF before
<1>4. Size(b) \in Nat \ {0}
  BY <1>1, <1>2, PoolAssumption DEF Least
<1>5. \A k \in 1..Size(b) : before + k \in Nat
  BY <1>1, <1>4
<1>6. TextsOf(b) \in Seq(Nat) /\ Len(TextsOf(b)) = Size(b)
  BY <1>3, <1>4, <1>5
<1>7. TextsOf(b) # <<>>
  BY <1>4, <1>6
<1>8. DOMAIN TextsOf(b) = 1..Size(b) /\ \A k \in 1..Size(b) : TextsOf(b)[k] = before + k
  BY <1>3
<1>9. TextsOf(b) = [k \in 1..Size(b) |-> TextsOf(b)[k]]
  BY <1>3
<1> QED  BY <1>4, <1>6, <1>7, <1>8, <1>9 DEF before

(* How the rows of an answer compare. *)
Before(rows, j, k) ==
    \/ rows[j].index < rows[k].index
    \/ rows[j].index = rows[k].index /\ j < k

(* Rows are put in the order of p if that is how they compare: by their *)
(* indices, then by their places in the list. *)
LEMMA SortsBy ==
    ASSUME NEW m \in Nat, NEW texts, texts = [k \in 1..m |-> texts[k]],
           NEW rows, DOMAIN rows = 1..m,
           NEW p \in Bijection(1..m, 1..m),
           \A j, k \in 1..m : Before(rows, j, k) <=> p[j] < p[k],
           \A k \in 1..m : rows[k].embedding = texts[p[k]]
    PROVE  Parsed(rows) = texts
<1> DEFINE place(k) == Cardinality({j \in DOMAIN rows : Before(rows, j, k)}) + 1
<1>1. /\ p \in [1..m -> 1..m]
      /\ \A j, k \in 1..m : p[j] = p[k] => j = k
      /\ \A n \in 1..m : \E k \in 1..m : p[k] = n
  BY DEF Bijection, Injection, Surjection, IsInjective
<1>2. \A k \in 1..m : place(k) = p[k]
  <2> TAKE k \in 1..m
  <2> DEFINE A == {j \in 1..m : p[j] < p[k]}
             B == 1..(p[k] - 1)
             f == [j \in A |-> p[j]]
  <2>1. {j \in DOMAIN rows : Before(rows, j, k)} = A
    OBVIOUS
  <2>2. p[k] \in Nat \ {0} /\ p[k] <= m
    BY <1>1
  <2>3. f \in Bijection(A, B)
    <3>1. f \in [A -> B]
      BY <1>1, <2>2
    <3>2. \A i, j \in A : f[i] = f[j] => i = j
      BY <1>1
    <3>3. \A n \in B : \E j \in A : f[j] = n
      BY <1>1, <2>2
    <3> HIDE DEF f, A, B
    <3> QED  BY <3>1, <3>2, <3>3 DEF Bijection, Injection, Surjection, IsInjective
  <2>4. IsFiniteSet(A)
    <3>1. IsFiniteSet(1..m)
      BY FS_Interval
    <3> QED  BY <3>1, FS_Subset
  <2>5. Cardinality(A) = Cardinality(B)
    BY <2>3, <2>4, FS_Bijection DEF ExistsBijection
  <2>6. Cardinality(B) = p[k] - 1
    BY <2>2, BelowCount
  <2> HIDE DEF A, B
  <2>7. place(k) = Cardinality(A) + 1
    BY <2>1
  <2> HIDE DEF place
  <2> QED  BY <2>2, <2>5, <2>6, <2>7
<1> HIDE DEF place
<1> DEFINE first(n) == CHOOSE k \in 1..m : place(k) = n
<1>3. \A n \in 1..m : rows[first(n)].embedding = texts[n]
  <2> TAKE n \in 1..m
  <2>1. \E k \in 1..m : place(k) = n
    BY <1>1, <1>2
  <2>2. first(n) \in 1..m /\ place(first(n)) = n
    BY <2>1
  <2> HIDE DEF first
  <2> QED  BY <1>2, <2>2
<1>4. Parsed(rows) = [n \in 1..m |-> rows[first(n)].embedding]
  BY DEF Parsed, place, Before
<1> HIDE DEF first
<1> QED  BY <1>3, <1>4

(* However the service lists the rows of a batch, its texts come out. *)
LEMMA RowsInOrder ==
    ASSUME NEW b \in Batches, NEW rows \in Responses(b)
    PROVE  Parsed(rows) = TextsOf(b)
<1> DEFINE m == Size(b)
           texts == TextsOf(b)
<1>1. m \in Nat /\ DOMAIN texts = 1..m /\ texts = [k \in 1..m |-> texts[k]]
  BY BatchTexts
<1>2. \/ \E p \in Bijection(1..m, 1..m) :
            rows = [k \in 1..m |-> [index |-> p[k] - 1, embedding |-> texts[p[k]]]]
      \/ rows = [k \in 1..m |-> [index |-> 0, embedding |-> texts[k]]]
  BY <1>1 DEF Responses
<1> HIDE DEF m, texts
<1>3. ASSUME NEW p \in Bijection(1..m, 1..m),
             rows = [k \in 1..m |-> [index |-> p[k] - 1, embedding |-> texts[p[k]]]]
      PROVE  Parsed(rows) = texts
  <2>1. p \in [1..m -> 1..m] /\ \A j, k \in 1..m : p[j] = p[k] => j = k
    BY DEF Bijection, Injection, IsInjective
  <2>2. /\ DOMAIN rows = 1..m
        /\ \A k \in 1..m : rows[k].index = p[k] - 1 /\ rows[k].embedding = texts[p[k]]
    BY <1>3
  <2>3. \A j, k \in 1..m : Before(rows, j, k) <=> p[j] < p[k]
    <3> TAKE j \in 1..m, k \in 1..m
    <3>1. p[j] \in Int /\ p[k] \in Int /\ (p[j] = p[k] => j = k) /\ j \in Int /\ k \in Int
      BY <2>1
    <3> DEFINE x == rows[j].index
               y == rows[k].index
    <3>2. x = p[j] - 1 /\ y = p[k] - 1
      BY <2>2
    <3> HIDE DEF x, y
    <3>3. (x < y <=> p[j] < p[k]) /\ (x = y <=> p[j] = p[k])
      BY <3>1, <3>2
    <3>4. x = y /\ j < k => FALSE
      BY <3>1, <3>3
    <3> QED  BY <3>3, <3>4 DEF x, y, Before
  <2>4. \A k \in 1..m : rows[k].embedding = texts[p[k]]
    BY <2>2
  <2> QED  BY <1>1, <2>2, <2>3, <2>4, SortsBy
<1>4. ASSUME rows = [k \in 1..m |-> [index |-> 0, embedding |-> texts[k]]]
      PROVE  Parsed(rows) = texts
  <2> DEFINE p == [k \in 1..m |-> k]
  <2>1. p \in Bijection(1..m, 1..m)
    BY DEF Bijection, Injection, Surjection, IsInjective
  <2>2. /\ DOMAIN rows = 1..m
        /\ \A k \in 1..m : rows[k].index = 0 /\ rows[k].embedding = texts[p[k]]
    BY <1>4
  <2>3. \A j, k \in 1..m : Before(rows, j, k) <=> p[j] < p[k]
    BY <1>1, <2>2 DEF Before
  <2> HIDE DEF p
  <2> QED  BY <1>1, <2>1, <2>2, <2>3, SortsBy
<1> QED  BY <1>2, <1>3, <1>4 DEF texts

-------------------------------------------------------------------------------
(* The batches one after the other *)

(* Where a batch ends. *)
Upto(i) == Least(i * BatchSize, TextCount)

Counted(n) == [k \in 1..n |-> k]

(* How FlattenSeq puts the results together. *)
IsJoin(flat, seqs) ==
    flat = [i \in 1..Len(seqs) |-> IF i = 1 THEN seqs[i] ELSE flat[i - 1] \o seqs[i]]

(* A batch begins where the one before it ends, and the last ends them all. *)
LEMMA UptoBounds ==
    /\ \A b \in Batches : Upto(b) \in Nat
    /\ 1 \in Batches => TextsOf(1) = Counted(Upto(1))
    /\ \A b \in Batches \ {1} :
          b - 1 \in Batches /\ Counted(Upto(b)) = Counted(Upto(b - 1)) \o TextsOf(b)
    /\ Upto(BatchCount) = TextCount
<1>1. ASSUME NEW b \in Batches
      PROVE  Upto(b) \in Nat /\ Upto(b) = (b - 1) * BatchSize + Size(b)
  <2> DEFINE before == (b - 1) * BatchSize
             upto == b * BatchSize
  <2>1. before \in Nat /\ before < TextCount /\ upto = before + BatchSize
    BY BatchBounds
  <2>2. Upto(b) = Least(upto, TextCount) /\ Size(b) = Least(BatchSize, TextCount - before)
    BY DEF Upto, Size
  <2> HIDE DEF before, upto
  <2>3. Upto(b) \in Nat /\ Upto(b) = before + Size(b)
    BY <2>1, <2>2, PoolAssumption DEF Least
  <2> QED  BY <2>3 DEF before
<1>2. ASSUME 1 \in Batches
      PROVE  TextsOf(1) = Counted(Upto(1))
  <2>1. (1 - 1) * BatchSize = 0
    BY PoolAssumption
  <2>2. Upto(1) = Size(1) /\ Size(1) \in Nat \ {0}
    BY <1>1, <1>2, <2>1, BatchTexts
  <2>3. /\ TextsOf(1) = [k \in 1..Size(1) |-> TextsOf(1)[k]]
        /\ \A k \in 1..Size(1) : TextsOf(1)[k] = 0 + k
    BY <1>2, <2>1, BatchTexts
  <2>4. \A k \in 1..Size(1) : TextsOf(1)[k] = k
    BY <2>2, <2>3
  <2> QED  BY <2>2, <2>3, <2>4 DEF Counted
<1>3. ASSUME NEW b \in Batches \ {1}
      PROVE  b - 1 \in Batches /\ Counted(Upto(b)) = Counted(Upto(b - 1)) \o TextsOf(b)
  <2> DEFINE before == (b - 1) * BatchSize
             c == b - 1
  <2>1. c \in Batches /\ c * BatchSize = before
    BY BatchesFinite DEF Batches
  <2>2. before \in Nat /\ before < TextCount
    BY BatchBounds
  <2>3. Upto(c) = before
    <3>1. Upto(c) = Least(before, TextCount)
      BY <2>1 DEF Upto
    <3> HIDE DEF before
    <3> QED  BY <3>1, <2>2, PoolAssumption DEF Least
  <2>4. Upto(b) = before + Size(b) /\ Size(b) \in Nat \ {0}
    BY <1>1, BatchTexts
  <2>5. /\ TextsOf(b) \in Seq(Nat) /\ Len(TextsOf(b)) = Size(b)
        /\ \A k \in 1..Size(b) : TextsOf(b)[k] = before + k
    BY BatchTexts
  <2> DEFINE s == Counted(before)
             t == TextsOf(b)
             n == Size(b)
  <2> HIDE DEF before
  <2>6. s \in Seq(Nat) /\ Len(s) = before /\ \A k \in 1..before : s[k] = k
    BY <2>2 DEF Counted
  <2> HIDE DEF s, t, n
  <2>7. t \in Seq(Nat) /\ Len(t) = n /\ n \in Nat /\ \A k \in 1..n : t[k] = before + k
    BY <2>4, <2>5 DEF t, n
  <2>8. s \o t = [k \in 1..(before + n) |-> k]
    <3> DEFINE st == s \o t
               u == [k \in 1..(before + n) |-> k]
    <3>1. /\ st \in Seq(Nat) /\ Len(st) = before + n
          /\ \A k \in 1..(before + n) : st[k] = IF k <= before THEN s[k] ELSE t[k - before]
      BY <2>6, <2>7, ConcatProperties
    <3>2. u \in Seq(Nat) /\ Len(u) = before + n /\ \A k \in 1..(before + n) : u[k] = k
      BY <2>2, <2>7
    <3> HIDE DEF st, u
    <3>3. \A k \in 1..(before + n) : st[k] = u[k]
      BY <2>2, <2>6, <2>7, <3>1, <3>2
    <3>4. st = u
      BY <3>1, <3>2, <3>3, SeqEqual
    <3> QED  BY <3>4 DEF st, u
  <2> QED  BY <2>1, <2>3, <2>4, <2>8 DEF s, t, n, Counted
<1>4. Upto(BatchCount) = TextCount
  <2> DEFINE all == BatchCount * BatchSize
  <2>1. all \in Nat /\ TextCount <= all /\ Upto(BatchCount) = Least(all, TextCount)
    BY BatchBounds DEF Upto
  <2> HIDE DEF all
  <2> QED  BY <2>1, PoolAssumption DEF Least
<1> QED  BY <1>1, <1>2, <1>3, <1>4

(* Results that are the texts of their batches make all texts, in order. *)
LEMMA JoinsInOrder ==
    ASSUME NEW seqs, seqs = [b \in Batches |-> TextsOf(b)], Batches # {}
    PROVE  FlattenSeq(seqs) = Counted(TextCount)
<1>1. BatchCount \in Nat \ {0} /\ BatchCount \in Batches /\ 1 \in Batches
  BY BatchesFinite DEF Batches
<1>2. Len(seqs) = BatchCount
  BY <1>1, BatchTexts DEF Batches
<1> DEFINE parts == [i \in 1..Len(seqs) |-> Counted(Upto(i))]
           flat == CHOOSE f : IsJoin(f, seqs)
<1>3. IsJoin(parts, seqs)
  <2>1. DOMAIN parts = Batches /\ \A i \in Batches : parts[i] = Counted(Upto(i))
    BY <1>2 DEF Batches
  <2>2. \A i \in Batches : seqs[i] = TextsOf(i)
    OBVIOUS
  <2>3. \A i \in Batches : parts[i] = IF i = 1 THEN seqs[i] ELSE parts[i - 1] \o seqs[i]
    <3> HIDE DEF parts
    <3> QED  BY <2>1, <2>2, UptoBounds
  <2>4. parts = [i \in 1..Len(seqs) |-> parts[i]]
    OBVIOUS
  <2> HIDE DEF parts
  <2> QED  BY <1>2, <2>3, <2>4 DEF IsJoin, Batches
<1>4. IsJoin(flat, seqs)
  BY <1>3
<1> HIDE DEF flat
<1>5. \A i \in Batches : flat[i] = IF i = 1 THEN seqs[i] ELSE flat[i - 1] \o seqs[i]
  BY <1>2, <1>4 DEF IsJoin, Batches
<1>6. \A i \in Batches : flat[i] = Counted(Upto(i))
  <2> DEFINE Wrong == {i \in Batches : flat[i] # Counted(Upto(i))}
  <2> SUFFICES ASSUME Wrong # {} PROVE FALSE
    OBVIOUS
  <2>1. Wrong \in SUBSET Nat
    BY BatchesFinite
  <2>2. PICK i \in Wrong : \A j \in Wrong : i <= j
    <3> HIDE DEF Wrong
    <3> QED  BY <2>1, LeastNumber
  <2>3. i \in Batches /\ flat[i] # Counted(Upto(i)) /\ i \in Nat
    BY BatchesFinite
  <2>4. CASE i = 1
    BY <1>5, <2>3, <2>4, UptoBounds
  <2>5. CASE i # 1
    <3>1. i - 1 \in Batches /\ Counted(Upto(i)) = Counted(Upto(i - 1)) \o TextsOf(i)
      BY <2>3, <2>5, UptoBounds
    <3>2. i - 1 \notin Wrong
      BY <2>2, <2>3
    <3>3. flat[i - 1] = Counted(Upto(i - 1)) /\ seqs[i] = TextsOf(i)
      BY <2>3, <3>1, <3>2
    <3> QED  BY <1>5, <2>3, <2>5, <3>1, <3>3
  <2> QED  BY <2>4, <2>5
<1>7. FlattenSeq(seqs) = flat[BatchCount]
  BY <1>1, <1>2 DEF FlattenSeq, flat, IsJoin
<1> QED  BY <1>1, <1>6, <1>7, UptoBounds

-------------------------------------------------------------------------------
(* The vectors stay with their texts *)

VectorsKept ==
    /\ vectors = [b \in Batches |-> vectors[b]]
    /\ results = [b \in Batches |-> results[b]]
    /\ \A b \in Batches : step[b] = "done" => vectors[b] = TextsOf(b)
    /\ \A b \in Batches : results[b] # <<>> => results[b] = TextsOf(b)
    /\ caller = "idle" => output = <<>>
    /\ VectorsInOrder

(* Only an answer to a batch that was posted gives it vectors. *)
LEMMA VectorsStep ==
    ASSUME PoolInv, VectorsKept, Next
    PROVE  VectorsKept'
<1> USE DEF VectorsKept, VectorsInOrder, callVars, workVars
<1>1. CASE Tick
  BY <1>1 DEF Tick
<1>2. CASE Call
  <2>1. /\ UNCHANGED <<step, vectors, results, output>>
        /\ output = <<>> /\ caller' # "idle"
        /\ caller' = "returned" => TextCount = 0
    BY <1>2 DEF Call
  <2>2. TextCount = 0 => [i \in 1..TextCount |-> i] = <<>>
    OBVIOUS
  <2> QED  BY <2>1, <2>2
<1>3. CASE Leave
  BY <1>3 DEF Leave
<1>4. CASE Return
  <2>1. caller = "collecting" /\ \A b \in Batches : results[b] # <<>>
    BY <1>4 DEF Return, Collected
  <2>2. results = [b \in Batches |-> TextsOf(b)]
    BY <2>1
  <2>3. output' = Counted(TextCount)
    <3>1. CASE Batches # {}
      BY <1>4, <2>2, <3>1, JoinsInOrder DEF Return
    <3>2. CASE Batches = {}
      <4>1. TextCount = 0
        BY <3>2, BatchBounds, BatchesFinite, PoolAssumption DEF Batches
      <4>2. results = <<>>
        BY <2>2, <3>2
      <4>3. FlattenSeq(<<>>) = <<>>
        BY DEF FlattenSeq
      <4>4. Counted(TextCount) = <<>>
        BY <4>1 DEF Counted
      <4>5. output' = FlattenSeq(results)
        BY <1>4 DEF Return
      <4> QED  BY <4>2, <4>3, <4>4, <4>5
    <3> QED  BY <3>1, <3>2
  <2>4. /\ UNCHANGED <<step, vectors, results>>
        /\ caller' = "returned"
    BY <1>4 DEF Return
  <2> QED  BY <2>3, <2>4 DEF Counted
<1>5. ASSUME NEW b \in Batches, Collect(b)
      PROVE  VectorsKept'
  BY <1>5 DEF Collect
<1>6. ASSUME NEW b \in Batches, CollectError(b)
      PROVE  VectorsKept'
  BY <1>6 DEF CollectError
<1>7. ASSUME NEW b \in Batches, Work(b)
      PROVE  VectorsKept'
  <2>1. CASE Succeed(b)
    <3>1. PICK rows \in Responses(b) : vectors' = [vectors EXCEPT ![b] = Parsed(rows)]
      BY <2>1 DEF Succeed
    <3>2. Parsed(rows) = TextsOf(b)
      BY RowsInOrder
    <3> QED  BY <2>1, <3>1, <3>2 DEF Succeed, PoolInv, PoolType
  <2>2. CASE ~ Succeed(b)
    BY <1>7, <2>2 DEF Work, Start, Wait, Wake, Post, Retry, GiveUp, PoolInv, PoolType
  <2> QED  BY <2>1, <2>2
<1> QED
  BY <1>1, <1>2, <1>3, <1>4, <1>5, <1>6, <1>7 DEF Next, CallerStep

LEMMA VectorsUnchanged ==
    ASSUME VectorsKept, UNCHANGED vars
    PROVE  VectorsKept'
BY DEF VectorsKept, VectorsInOrder, vars, workVars, callVars

(* Vectors are never parted from the texts of their batch. *)
THEOREM VectorsStay == Spec => []VectorsKept
<1>1. Init => VectorsKept
  BY PoolAssumption DEF Init, VectorsKept, VectorsInOrder
<1>2. PoolInv /\ VectorsKept /\ [Next]_vars => VectorsKept'
  BY VectorsStep, VectorsUnchanged
<1> QED
  BY <1>1, <1>2, PoolInvariant, PTL DEF Spec

(* The vectors that are returned are in the order of the texts. *)
THEOREM VectorsStayInOrder == Spec => []VectorsInOrder
<1>1. VectorsKept => VectorsInOrder
  BY DEF VectorsKept
<1> QED
  BY <1>1, VectorsStay, PTL

=============================================================================
