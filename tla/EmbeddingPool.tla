---------------------------- MODULE EmbeddingPool ----------------------------
(***************************************************************************)
(* One call of OpenRouterEmbeddingProvider.embed_documents: texts cut into *)
(* batches, a pool of threads that post them, retries, and one pause that  *)
(* all threads share (_SharedBackoff).                                     *)
(*                                                                         *)
(* Time is counted in the seconds of the sleep in wait(): what is left of  *)
(* a pause or a sleep goes down as time passes.  A thread may wake later   *)
(* than it asked for, but not earlier.                                     *)
(***************************************************************************)
EXTENDS Naturals, Sequences, FiniteSets, Functions, SequencesExt

CONSTANTS
    TextCount,       \* how many texts are to be embedded
    BatchSize,       \* batch_size
    MaxConcurrency,  \* max_concurrency
    MaxRetries,      \* max_retries
    RetryBackoff,    \* retry_backoff
    MaxDelay         \* 60 seconds, in the code

ASSUME PoolAssumption ==
    /\ TextCount \in Nat
    /\ BatchSize \in Nat \ {0} /\ MaxConcurrency \in Nat \ {0}
    /\ MaxRetries \in Nat \ {0} /\ RetryBackoff \in Nat \ {0}
    /\ MaxDelay \in Nat \ {0}

(* A fact of arithmetic that the proof system does not know. *)
ASSUME PowersAssumption == \A n \in 0..MaxRetries : 2^n \in Nat

Least(m, n) == IF m <= n THEN m ELSE n

BatchCount == (TextCount + BatchSize - 1) \div BatchSize

Batches == 1..BatchCount

(* The vector of a text is told by the text's place in the call. *)
TextsOf(b) ==
    [k \in 1..Least(BatchSize, TextCount - (b - 1) * BatchSize) |->
        (b - 1) * BatchSize + k]

Serial == BatchCount = 1 \/ MaxConcurrency = 1

Threads == IF Serial THEN 1 ELSE Least(MaxConcurrency, BatchCount)

VARIABLES
    caller,     \* the thread that called embed_documents
    pause,      \* what is left of the shared pause
    step,       \* where the work on each batch is
    attempt,    \* its attempts so far
    timer,      \* what is left of its sleep
    vectors,    \* what it returned
    results,    \* the caller's results, by batch
    output,     \* what embed_documents returned
    owed,       \* history: what is left of the delay it signalled itself
    strays      \* history: requests begun since the pause was last over

workVars == <<step, attempt, timer, vectors>>
callVars == <<caller, results, output>>
vars == <<pause, workVars, callVars, owed, strays>>

Steps == {"queued", "waiting", "sleeping", "cleared", "posted", "done", "failed"}

Busy == {b \in Batches : step[b] \in {"waiting", "sleeping", "cleared", "posted"}}

Init ==
    /\ caller = "idle"
    /\ pause \in {0, RetryBackoff}     \* perhaps left by an earlier call
    /\ step = [b \in Batches |-> "queued"]
    /\ attempt = [b \in Batches |-> 0]
    /\ timer = [b \in Batches |-> 0]
    /\ vectors = [b \in Batches |-> <<>>]
    /\ results = [b \in Batches |-> <<>>]
    /\ output = <<>>
    /\ owed = [b \in Batches |-> 0]
    /\ strays = 0

-------------------------------------------------------------------------------
(* The shared pause *)

Delay(n) == Least(MaxDelay, RetryBackoff * 2^(n - 1))

(* Mutant of Signalled: the pause is set, not extended. *)
SignalledAnew(delay) == delay

(* signal(): a pause is never made shorter. *)
Signalled(delay) == IF delay > pause THEN delay ELSE pause

(* Mutant of Wait: only a retry waits, a first attempt goes ahead. *)
WaitIfRetry(b) ==
    /\ step[b] = "waiting"
    /\ IF pause > 0 /\ attempt[b] > 0
       THEN /\ step' = [step EXCEPT ![b] = "sleeping"]
            /\ timer' = [timer EXCEPT ![b] = 1]
       ELSE step' = [step EXCEPT ![b] = "cleared"] /\ UNCHANGED timer
    /\ UNCHANGED <<pause, attempt, vectors, callVars, owed, strays>>

Wait(b) ==
    /\ step[b] = "waiting"
    /\ IF pause > 0
       THEN /\ step' = [step EXCEPT ![b] = "sleeping"]
            /\ timer' = [timer EXCEPT ![b] = 1]
       ELSE step' = [step EXCEPT ![b] = "cleared"] /\ UNCHANGED timer
    /\ UNCHANGED <<pause, attempt, vectors, callVars, owed, strays>>

Wake(b) ==
    /\ step[b] = "sleeping"
    /\ timer[b] = 0
    /\ step' = [step EXCEPT ![b] = "waiting"]
    /\ UNCHANGED <<pause, attempt, timer, vectors, callVars, owed, strays>>

Less(n) == IF n > 0 THEN n - 1 ELSE 0

(* A second passes. *)
Tick ==
    /\ pause > 0 \/ \E b \in Batches : timer[b] > 0
    /\ pause' = Less(pause)
    /\ timer' = [b \in Batches |-> Less(timer[b])]
    /\ owed' = [b \in Batches |-> Less(owed[b])]
    /\ strays' = IF pause' = 0 THEN 0 ELSE strays
    /\ UNCHANGED <<step, attempt, vectors, callVars>>

-------------------------------------------------------------------------------
(* The threads *)

(* The pool hands out batches in the order they were submitted, also those *)
(* that are queued when one fails; without a pool the caller takes the     *)
(* next one itself, and none after one that failed.                        *)
Start(b) ==
    /\ caller = "collecting" \/ (caller = "leaving" /\ ~Serial)
    /\ step[b] = "queued"
    /\ \A c \in 1..(b - 1) : step[c] # "queued"
    /\ Serial => \A c \in 1..(b - 1) : step[c] = "done"
    /\ Cardinality(Busy) < Threads
    /\ step' = [step EXCEPT ![b] = "waiting"]
    /\ UNCHANGED <<pause, attempt, timer, vectors, callVars, owed, strays>>

Post(b) ==
    /\ step[b] = "cleared"
    /\ step' = [step EXCEPT ![b] = "posted"]
    /\ attempt' = [attempt EXCEPT ![b] = @ + 1]
    /\ strays' = IF pause > 0 THEN strays + 1 ELSE strays
    /\ UNCHANGED <<pause, timer, vectors, callVars, owed>>

(* The service may list the rows in any order, or leave the index out. *)
Responses(b) ==
    LET texts == TextsOf(b)
    IN  {[k \in DOMAIN texts |-> [index |-> p[k] - 1, embedding |-> texts[p[k]]]] :
           p \in Bijection(DOMAIN texts, DOMAIN texts)}
        \cup {[k \in DOMAIN texts |-> [index |-> 0, embedding |-> texts[k]]]}

(* A stable sort of the rows by index. *)
Parsed(rows) ==
    LET before(j, k) == \/ rows[j].index < rows[k].index
                        \/ rows[j].index = rows[k].index /\ j < k
        place(k) == Cardinality({j \in DOMAIN rows : before(j, k)}) + 1
    IN  [n \in DOMAIN rows |->
           rows[CHOOSE k \in DOMAIN rows : place(k) = n].embedding]

Succeed(b) ==
    /\ step[b] = "posted"
    /\ \E rows \in Responses(b) :
         vectors' = [vectors EXCEPT ![b] = Parsed(rows)]
    /\ step' = [step EXCEPT ![b] = "done"]
    /\ UNCHANGED <<pause, attempt, timer, callVars, owed, strays>>

(* Mutant of Retry: a transient error is tried again for ever. *)
RetryForever(b) ==
    /\ step[b] = "posted"
    /\ step' = [step EXCEPT ![b] = "waiting"]
    /\ attempt' = [attempt EXCEPT ![b] = @ - 1]
    /\ pause' = Signalled(Delay(1))
    /\ owed' = [owed EXCEPT ![b] = Delay(1)]
    /\ UNCHANGED <<timer, vectors, callVars, strays>>

(* Mutant of Retry: one attempt too many. *)
RetryOnceMore(b) ==
    /\ step[b] = "posted"
    /\ attempt[b] <= MaxRetries
    /\ step' = [step EXCEPT ![b] = "waiting"]
    /\ pause' = Signalled(Delay(attempt[b]))
    /\ owed' = [owed EXCEPT ![b] = Delay(attempt[b])]
    /\ UNCHANGED <<attempt, timer, vectors, callVars, strays>>

(* A rate limit, another transient status or a failed connection. *)
Retry(b) ==
    /\ step[b] = "posted"
    /\ attempt[b] < MaxRetries
    /\ step' = [step EXCEPT ![b] = "waiting"]
    /\ pause' = Signalled(Delay(attempt[b]))
    /\ owed' = [owed EXCEPT ![b] = Delay(attempt[b])]
    /\ UNCHANGED <<attempt, timer, vectors, callVars, strays>>

(* The same on the last attempt, or any other error on any attempt. *)
GiveUp(b) ==
    /\ step[b] = "posted"
    /\ step' = [step EXCEPT ![b] = "failed"]
    /\ UNCHANGED <<pause, attempt, timer, vectors, callVars, owed, strays>>

-------------------------------------------------------------------------------
(* The caller *)

Call ==
    /\ caller = "idle"
    /\ caller' = IF TextCount = 0 THEN "returned" ELSE "collecting"
    /\ UNCHANGED <<pause, workVars, results, output, owed, strays>>

Collected == {b \in Batches : results[b] # <<>>}

(* Mutant of Collect: batches are kept in the order they end. *)
CollectAsTheyEnd(b) ==
    /\ caller = "collecting"
    /\ step[b] = "done"
    /\ vectors[b] \notin {results[c] : c \in Batches}
    /\ results' = [results EXCEPT ![Cardinality(Collected) + 1] = vectors[b]]
    /\ UNCHANGED <<caller, output, pause, workVars, owed, strays>>

(* as_completed yields what has ended in any order; each batch has its     *)
(* place in the results.                                                   *)
Collect(b) ==
    /\ caller = "collecting"
    /\ step[b] = "done"
    /\ b \notin Collected
    /\ results' = [results EXCEPT ![b] = vectors[b]]
    /\ UNCHANGED <<caller, output, pause, workVars, owed, strays>>

(* future.result() raises what the batch raised. *)
CollectError(b) ==
    /\ caller = "collecting"
    /\ step[b] = "failed"
    /\ caller' = "leaving"
    /\ UNCHANGED <<results, output, pause, workVars, owed, strays>>

(* Mutant of Leave: the error goes up while the pool is still at work. *)
LeaveAtOnce ==
    /\ caller = "leaving"
    /\ caller' = "raised"
    /\ UNCHANGED <<results, output, pause, workVars, owed, strays>>

(* The end of the with block waits for every batch, queued ones included;  *)
(* without a pool there is nothing to wait for.                            *)
Leave ==
    /\ caller = "leaving"
    /\ Serial \/ \A b \in Batches : step[b] \in {"done", "failed"}
    /\ caller' = "raised"
    /\ UNCHANGED <<results, output, pause, workVars, owed, strays>>

Return ==
    /\ caller = "collecting"
    /\ Collected = Batches
    /\ caller' = "returned"
    /\ output' = FlattenSeq(results)
    /\ UNCHANGED <<results, pause, workVars, owed, strays>>

Work(b) ==
    \/ Start(b) \/ Wait(b)    \/ Wake(b)  \/ Post(b)
    \/ Retry(b) \/ Succeed(b) \/ GiveUp(b)

CallerStep ==
    \/ Call \/ Leave \/ Return
    \/ \E b \in Batches : Collect(b) \/ CollectError(b)

Next == Tick \/ CallerStep \/ \E b \in Batches : Work(b)

Spec == Init /\ [][Next]_vars

(* Time passes, threads run, and the timeout of a request sees to an end   *)
(* of it: good, bad or to be tried again, as it pleases the service.       *)
FairSpec ==
    /\ Spec
    /\ WF_vars(Tick) /\ WF_vars(CallerStep)
    /\ \A b \in Batches : WF_vars(Work(b))

-------------------------------------------------------------------------------
(* Properties *)

(***************************************************************************)
(* embed_documents returns the vectors of all texts in the order of the    *)
(* texts, whatever order batches end in and rows are listed in.            *)
(***************************************************************************)
VectorsInOrder ==
    caller = "returned" => output = [i \in 1..TextCount |-> i]

(***************************************************************************)
(* "Shared pause so concurrent batch workers back off together"            *)
(* (openrouter.py:31): a batch that was told to back off is not posted     *)
(* again before its own delay is over, whatever the others signal.         *)
(***************************************************************************)
BackoffHonoured == \A b \in Batches : step[b] = "cleared" => owed[b] = 0

(***************************************************************************)
(* The look at the pause and the request are not one step, so a request    *)
(* may begin during a pause; but only one of each other thread.            *)
(***************************************************************************)
FewStrays == strays = 0 \/ strays < Threads

(***************************************************************************)
(* No batch is posted more than max_retries times; one that fails does so  *)
(* by itself, and the call ends in an error if and only if one did.        *)
(***************************************************************************)
EndsForCause ==
    /\ \A b \in Batches : attempt[b] <= MaxRetries
    /\ caller = "raised" => \E b \in Batches : step[b] = "failed"
    /\ caller = "returned" => \A b \in Batches : step[b] = "done"

(***************************************************************************)
(* When the call is over no thread of it works on, so a book that failed   *)
(* and is left by the driver posts nothing more.                           *)
(***************************************************************************)
QuietAfterwards == caller \in {"returned", "raised"} => Busy = {}

(***************************************************************************)
(* The call ends: pauses extended by others starve no batch for ever.      *)
(***************************************************************************)
CallEnds == caller = "collecting" ~> caller \in {"returned", "raised"}

=============================================================================
