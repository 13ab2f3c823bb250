--------------------------- MODULE DeploymentProofs ---------------------------
(***************************************************************************)
(* Proofs about Deployment: it is Ingestion with steps in between, so what *)
(* IngestionProofs shows of ids and stores holds from an empty Qdrant on;  *)
(* what the processes do to the collection before their first point; and   *)
(* what one ingest does for a book that others have left in disorder.      *)
(***************************************************************************)
EXTENDS Deployment, IngestionProofs, FiniteSetTheorems

-------------------------------------------------------------------------------
(* Refinement *)

(* Every step of a deployment is a step of Ingestion or leaves it alone. *)
LEMMA StepMaps == [DeployNext]_deployVars => [Next]_vars
<1> SUFFICES ASSUME [DeployNext]_deployVars PROVE [Next]_vars
  OBVIOUS
<1>1. ASSUME NEW w \in Workers, Begin(w) PROVE Next
  BY <1>1 DEF Begin, Next
<1>2. ASSUME NEW w \in Workers, Break(w) PROVE Next
  BY <1>2 DEF Break, Next
<1>3. ASSUME NEW w \in Workers, DeployStep(w) PROVE [Next]_vars
  <2>1. CASE Look(w) \/ Create(w) \/ CreateIndex(w)
    BY <2>1 DEF Look, Create, CreateIndex
  <2>2. CASE Refuse(w)
    <3>1. Fail(w)
      BY <2>2 DEF Refuse, Loading, Fail
    <3> QED  BY <3>1 DEF Next
  <2>3. CASE EmbedReady(w)
    BY <2>3 DEF EmbedReady, Next, Step
  <2>4. CASE Take(w)
    BY <2>4 DEF Take, Next, Step
  <2>5. CASE Complete(w)
    BY <2>5 DEF Complete, Next, Step
  <2>6. CASE Proceed(w)
    BY <2>6 DEF Proceed, Next, Step, BookConflict, Fail
  <2> QED  BY <1>3, <2>1, <2>2, <2>3, <2>4, <2>5, <2>6 DEF DeployStep, Prepare
<1>4. CASE UNCHANGED deployVars
  BY <1>4 DEF deployVars
<1> QED  BY <1>1, <1>2, <1>3, <1>4 DEF DeployNext

(* A deployment implements Ingestion: whoever loses the race for the       *)
(* collection fails its book as Ingestion lets any book fail.              *)
THEOREM DeploysIngestion == DeploySpec => Spec
<1>1. DeployInit => Init
  BY DEF DeployInit
<1> QED  BY <1>1, StepMaps, PTL DEF DeploySpec, Spec

(* No id comes to name two books, from an empty Qdrant on and with         *)
(* processes that overlap, fail and lose races.                            *)
THEOREM OneOwnerDeployed == DeploySpec => []IdsHaveOneOwner
  BY DeploysIngestion, OneOwner, PTL

-------------------------------------------------------------------------------
(* The collection *)

Places == {"look", "create", "index", "ready"}

Creating == {w \in Workers : setup[w] = "create"}

(* Whoever is about to create will be refused if the collection exists. *)
RaceInv ==
    /\ setup \in [Workers -> Places]
    /\ collection \in BOOLEAN /\ indexed \in Nat /\ refused \in Nat
    /\ abandoned \in BOOLEAN
    /\ ~collection => refused = 0
    /\ collection => refused + Cardinality(Creating) < Cardinality(Workers)
    /\ IndexesExplained

(* What a step can do to the collection, seen from its process. *)
SetupStep(w) ==
    \/ UNCHANGED setupVars
    \/ Look(w) \/ Create(w) \/ CreateIndex(w) \/ Refuse(w) \/ BreakSetup(w)
    \/ /\ setup[w] = "ready" /\ setup' = [setup EXCEPT ![w] = "look"]
       /\ UNCHANGED <<qdrant, abandoned, refused>>

(* A process does nothing else to the collection. *)
LEMMA StepsOfSetup ==
    ASSUME NEW w \in Workers, Begin(w) \/ DeployStep(w) \/ Break(w)
    PROVE  SetupStep(w)
<1>1. CASE Begin(w)
  BY <1>1 DEF Begin, SetupStep
<1>2. CASE Break(w)
  BY <1>2 DEF Break, SetupStep
<1>3. CASE DeployStep(w)
  BY <1>3 DEF DeployStep, Prepare, EmbedReady, Take, Complete, Proceed, SetupStep
<1> QED  BY <1>1, <1>2, <1>3

(* One process less is about to create, or none more. *)
LEMMA FewerCreate ==
    ASSUME IsFiniteSet(Workers), NEW w \in Workers, setup \in [Workers -> Places],
           NEW place \in Places \ {"create"}, setup' = [setup EXCEPT ![w] = place]
    PROVE  /\ Cardinality(Creating) \in Nat /\ Cardinality(Creating') \in Nat
           /\ Cardinality(Creating') <= Cardinality(Creating)
           /\ setup[w] = "create" => Cardinality(Creating') = Cardinality(Creating) - 1
           /\ setup[w] # "create" => Creating' = Creating
<1>1. Creating' = Creating \ {w}
  BY DEF Creating
<1>2. IsFiniteSet(Creating) /\ IsFiniteSet(Creating')
  BY FS_Subset DEF Creating
<1>3. Cardinality(Creating) \in Nat /\ Cardinality(Creating') \in Nat
  BY <1>2, FS_CardinalityType
<1>4. CASE setup[w] = "create"
  <2>1. w \in Creating
    BY <1>4 DEF Creating
  <2>2. Cardinality(Creating \ {w}) = Cardinality(Creating) - 1
    BY <1>2, <2>1, FS_RemoveElement
  <2> QED  BY <1>1, <1>3, <1>4, <2>2
<1>5. CASE setup[w] # "create"
  <2>1. Creating \ {w} = Creating
    BY <1>5 DEF Creating
  <2> QED  BY <1>1, <1>3, <1>5, <2>1
<1> QED  BY <1>4, <1>5

(* Whoever loses the race is one process less that can lose it. *)
LEMMA RaceKeeps ==
    ASSUME IsFiniteSet(Workers), RaceInv, NEW w \in Workers, SetupStep(w)
    PROVE  RaceInv'
<1> USE DEF RaceInv
<1>0. Cardinality(Workers) \in Nat
  BY FS_CardinalityType
<1>1. CASE UNCHANGED setupVars
  BY <1>1 DEF setupVars, qdrant, Creating, IndexesExplained
<1>2. CASE Look(w)
  <2>1. CASE collection
    <3>1. setup' = [setup EXCEPT ![w] = "ready"] /\ UNCHANGED <<qdrant, abandoned, refused>>
      BY <1>2, <2>1 DEF Look
    <3>2. Cardinality(Creating') <= Cardinality(Creating)
          /\ Cardinality(Creating) \in Nat /\ Cardinality(Creating') \in Nat
      BY <3>1, FewerCreate DEF Places
    <3>3. IndexesExplained'
      BY <1>2, <3>1 DEF IndexesExplained, qdrant, Look
    <3> QED  BY <1>0, <2>1, <3>1, <3>2, <3>3 DEF qdrant, Places
  <2>2. CASE ~collection
    BY <1>2, <2>2 DEF Look, qdrant, Places, IndexesExplained
  <2> QED  BY <2>1, <2>2
<1>3. CASE Create(w)
  <2>1. /\ setup' = [setup EXCEPT ![w] = "index"] /\ ~collection /\ collection'
        /\ setup[w] = "create" /\ UNCHANGED <<indexed, abandoned, refused>>
    BY <1>3 DEF Create
  <2>2. Cardinality(Creating') = Cardinality(Creating) - 1
        /\ Cardinality(Creating) \in Nat /\ Cardinality(Creating') \in Nat
    BY <2>1, FewerCreate DEF Places
  <2>3. Cardinality(Creating) <= Cardinality(Workers)
    BY FS_Subset DEF Creating
  <2>4. IndexesExplained'
    BY <2>1 DEF IndexesExplained
  <2>5. collection' \in BOOLEAN
    BY <1>3 DEF Create
  <2> QED  BY <1>0, <2>1, <2>2, <2>3, <2>4, <2>5 DEF Places
<1>4. CASE CreateIndex(w)
  <2> DEFINE place == IF indexed' = FieldCount THEN "ready" ELSE "index"
  <2>1. /\ setup' = [setup EXCEPT ![w] = place] /\ indexed' = indexed + 1
        /\ setup[w] = "index" /\ UNCHANGED <<collection, abandoned, refused>>
    BY <1>4 DEF CreateIndex
  <2>2. place \in Places \ {"create"}
    BY DEF Places
  <2> HIDE DEF place
  <2>3. Creating' = Creating
    BY <2>1, <2>2, FewerCreate
  <2>4. IndexesExplained'
    BY <2>1 DEF IndexesExplained, FieldCount, place
  <2> QED  BY <2>1, <2>2, <2>3, <2>4
<1>5. CASE Refuse(w)
  <2>1. /\ setup' = [setup EXCEPT ![w] = "look"] /\ collection
        /\ refused' = refused + 1 /\ setup[w] = "create"
        /\ UNCHANGED <<collection, indexed, abandoned>>
    BY <1>5 DEF Refuse, qdrant
  <2>2. Cardinality(Creating') = Cardinality(Creating) - 1
        /\ Cardinality(Creating) \in Nat /\ Cardinality(Creating') \in Nat
    BY <2>1, FewerCreate DEF Places
  <2>3. IndexesExplained'
    BY <2>1 DEF IndexesExplained
  <2> QED  BY <1>0, <2>1, <2>2, <2>3 DEF Places
<1>6. CASE BreakSetup(w)
  <2>1. /\ setup' = [setup EXCEPT ![w] = "look"]
        /\ abandoned' = (abandoned \/ setup[w] = "index")
        /\ UNCHANGED <<collection, indexed, refused>>
    BY <1>6 DEF BreakSetup, qdrant
  <2>2. Cardinality(Creating') <= Cardinality(Creating)
        /\ Cardinality(Creating) \in Nat /\ Cardinality(Creating') \in Nat
    BY <2>1, FewerCreate DEF Places
  <2>3. IndexesExplained'
    BY <2>1 DEF IndexesExplained
  <2>4. abandoned' \in BOOLEAN
    BY <2>1
  <2> QED  BY <1>0, <2>1, <2>2, <2>3, <2>4 DEF Places
<1>7. CASE /\ setup[w] = "ready" /\ setup' = [setup EXCEPT ![w] = "look"]
           /\ UNCHANGED <<qdrant, abandoned, refused>>
  <2>1. Creating' = Creating
    BY <1>7, FewerCreate DEF Places
  <2>2. IndexesExplained'
    BY <1>7 DEF IndexesExplained, qdrant
  <2> QED  BY <1>7, <2>1, <2>2 DEF qdrant, Places
<1> QED
  BY <1>1, <1>2, <1>3, <1>4, <1>5, <1>6, <1>7 DEF SetupStep

(* However many processes start together, fail, die and start again. *)
THEOREM RaceInvHolds ==
    ASSUME IsFiniteSet(Workers) PROVE DeploySpec => []RaceInv
<1>1. DeployInit => RaceInv
  <2> SUFFICES ASSUME DeployInit PROVE RaceInv
    OBVIOUS
  <2>1. /\ collection = FALSE /\ indexed = 0 /\ abandoned = FALSE /\ refused = 0
        /\ setup \in [Workers -> Places]
    BY DEF DeployInit, Places
  <2> QED  BY <2>1 DEF RaceInv, IndexesExplained
<1>2. RaceInv /\ [DeployNext]_deployVars => RaceInv'
  <2> SUFFICES ASSUME RaceInv, [DeployNext]_deployVars PROVE RaceInv'
    OBVIOUS
  <2>1. ASSUME NEW w \in Workers, Begin(w) \/ DeployStep(w) \/ Break(w)
        PROVE RaceInv'
    BY <2>1, StepsOfSetup, RaceKeeps
  <2>2. CASE UNCHANGED deployVars
    BY <2>2 DEF deployVars, setupVars, qdrant, RaceInv, Creating, IndexesExplained
  <2> QED  BY <2>1, <2>2 DEF DeployNext
<1> QED  BY <1>1, <1>2, PTL DEF DeploySpec

(* For any number of processes: a payload index is missing only while its  *)
(* creator is at work or because it stopped there.                         *)
THEOREM MissingIndexExplained ==
    ASSUME IsFiniteSet(Workers) PROVE DeploySpec => []IndexesExplained
<1>1. RaceInv => IndexesExplained
  BY DEF RaceInv
<1> QED  BY <1>1, RaceInvHolds, PTL

(* For any number of processes: the race for the collection costs fewer    *)
(* books than there are processes, ever.                                   *)
THEOREM RaceCostsFew ==
    ASSUME IsFiniteSet(Workers) PROVE DeploySpec => []FewRefused
<1>1. RaceInv => FewRefused
  <2> SUFFICES ASSUME RaceInv PROVE FewRefused
    OBVIOUS
  <2>1. IsFiniteSet(Creating)
    BY FS_Subset DEF Creating
  <2>2. Cardinality(Creating) \in Nat /\ Cardinality(Workers) \in Nat
    BY <2>1, FS_CardinalityType
  <2> QED  BY <2>2 DEF RaceInv, FewRefused
<1> QED  BY <1>1, RaceInvHolds, PTL

-------------------------------------------------------------------------------
(* What one ingest does for a book *)

(* A process that was alone with its book so far still is, and knows of it *)
(* what it believes, whatever state the book was in.                       *)
Undisturbed(w) ==
    InHand(w) /\ alone[w] =>
        /\ Progress(w)
        /\ \A v \in Workers \ {w} : InHand(v) => job[v].book # job[w].book

Repaired(b) ==
    /\ points[b] = chunks[b] /\ Cardinality(chunks[b]) = ChunkCount[b]
    /\ \A v \in Workers : InHand(v) => job[v].book # b

AloneInv ==
    /\ \A w \in Workers : ~ InHand(w) => job[w].book = NoBook
    /\ alone \in [Workers -> BOOLEAN] /\ whole \subseteq Books
    /\ \A w \in Workers : Undisturbed(w)
    /\ \A b \in whole : Repaired(b)

(* All steps but taking a book and completing one. *)
Quietly(w) ==
    /\ StartRun(w) \/ Step(w) \/ Fail(w) \/ Crash(w)
    /\ InHand(w)' => InHand(w) /\ job'[w].book = job[w].book
    /\ ~ InHand(w)' => job'[w].book = NoBook
    /\ UNCHANGED history

(* There are no other steps. *)
LEMMA QuietSteps ==
    ASSUME TypeOK, AloneInv, NEW w \in Workers,
           Begin(w) \/ DeployStep(w) \/ Break(w)
    PROVE  Take(w) \/ Complete(w) \/ Quietly(w) \/ UNCHANGED <<vars, history>>
<1> USE DEF Quietly, InHand, AloneInv, TypeOK
<1>1. CASE Begin(w)
  BY <1>1 DEF Begin, StartRun
<1>2. CASE Break(w)
  <2>1. job'[w].book = NoBook /\ ~ InHand(w)'
    BY <1>2 DEF Break, Fail, LeaveBook, BookDone, Crash, NoJob
  <2> QED  BY <1>2, <2>1 DEF Break
<1>3. CASE Look(w) \/ Create(w) \/ CreateIndex(w)
  BY <1>3 DEF Look, Create, CreateIndex
<1>4. CASE Refuse(w)
  <2>1. job'[w].book = NoBook /\ ~ InHand(w)' /\ Fail(w)
    BY <1>4 DEF Refuse, Fail, Loading, LeaveBook, BookDone, NoJob
  <2> QED  BY <1>4, <2>1 DEF Refuse
<1>5. CASE EmbedReady(w)
  <2>1. Embed(w) /\ UNCHANGED <<job, history>>
    BY <1>5 DEF EmbedReady, Embed
  <2> QED  BY <2>1 DEF Embed, Step
<1>6. CASE Proceed(w)
  <2>1. CASE SkipBook(w) \/ FinishRun(w)
    BY <1>6, <2>1 DEF Proceed, SkipBook, FinishRun, Step
  <2>2. CASE DryRun(w) \/ BookConflict(w)
    <3>1. job'[w].book = NoBook /\ ~ InHand(w)'
      BY <2>2 DEF DryRun, BookConflict, LeaveBook, BookDone, NoJob
    <3>2. Step(w) \/ Fail(w)
      BY <2>2 DEF Step, BookConflict, Fail
    <3> QED  BY <1>6, <3>1, <3>2 DEF Proceed
  <2>3. CASE BeginTx(w) \/ StartDelete(w) \/ DeleteRows(w) \/ InsertRows(w)
    BY <1>6, <2>3 DEF Proceed, BeginTx, StartDelete, DeleteRows, InsertRows, Step, JobType
  <2>4. CASE CommitTx(w) \/ DeletePoints(w) \/ UpsertBatch(w)
    BY <1>6, <2>4 DEF Proceed, CommitTx, DeletePoints, UpsertBatch, Step, JobType
  <2> QED  BY <1>6, <2>1, <2>2, <2>3, <2>4 DEF Proceed
<1> QED  BY <1>1, <1>2, <1>3, <1>4, <1>5, <1>6 DEF DeployStep, Prepare

(* A step of w at its own book disturbs no one who is alone with another.  *)
LEMMA OthersUndisturbed ==
    ASSUME TypeOK, AloneInv, NEW w \in Workers, Frame(w),
           NEW v \in Workers, v # w, InHand(v), alone[v],
           InHand(w)' => job'[w].book # job[v].book
    PROVE  Undisturbed(v)'
<1>1. /\ Progress(v)
      /\ \A u \in Workers \ {v} : InHand(u) => job[u].book # job[v].book
  BY DEF AloneInv, Undisturbed
<1>2. job[v].book \in Books
  BY DEF TypeOK, InHand
<1>3. /\ pc'[v] = pc[v] /\ job'[v] = job[v]
      /\ chunks'[job[v].book] = chunks[job[v].book]
      /\ points'[job[v].book] = points[job[v].book]
  BY <1>1, <1>2 DEF Frame
<1>4. Progress(v)'
  BY <1>1, <1>3 DEF Progress, InHand, InWindow, Ids, Size
<1>5. ASSUME NEW u \in Workers \ {v}, InHand(u)'
      PROVE  job'[u].book # job'[v].book
  BY <1>1, <1>3, <1>5 DEF Frame, InHand
<1> QED  BY <1>4, <1>5 DEF Undisturbed

(* A step that takes no book and completes none repairs and spoils none.   *)
LEMMA QuietlyKeeps ==
    ASSUME IdInv, TypeOK', AloneInv, NEW w \in Workers, Quietly(w)
    PROVE  AloneInv'
<1>1. TypeOK /\ Frame(w) /\ UNCHANGED <<alone, whole>>
  BY StepFrame DEF IdInv, Quietly, history
<1>2. \A v \in Workers : ~ InHand(v)' => job'[v].book = NoBook
  BY <1>1 DEF AloneInv, Quietly, Frame, InHand
<1>3. ASSUME NEW v \in Workers, InHand(v)', alone'[v]
      PROVE  Undisturbed(v)'
  <2>1. CASE v = w
    <3>1. InHand(w) /\ job'[w].book = job[w].book /\ alone[w]
      BY <1>1, <1>3, <2>1 DEF Quietly
    <3>2. Progress(w) /\ \A u \in Workers \ {w} : InHand(u) => job[u].book # job[w].book
      BY <3>1 DEF AloneInv, Undisturbed
    <3>3. Progress(w)'
      BY <3>2, ProgressKept DEF Quietly
    <3> QED  BY <1>1, <2>1, <3>1, <3>2, <3>3 DEF Undisturbed, Frame, InHand
  <2>2. CASE v # w
    <3>1. InHand(v) /\ alone[v]
      BY <1>1, <1>3, <2>2 DEF Frame, InHand
    <3>2. \A u \in Workers \ {v} : InHand(u) => job[u].book # job[v].book
      BY <3>1 DEF AloneInv, Undisturbed
    <3>3. InHand(w)' => job'[w].book # job[v].book
      BY <2>2, <3>2 DEF Quietly
    <3> QED  BY <1>1, <2>2, <3>1, <3>3, OthersUndisturbed
  <2> QED  BY <2>1, <2>2
<1>4. ASSUME NEW b \in whole
      PROVE  Repaired(b)'
  <2>1. b \in Books /\ Repaired(b)
    BY DEF AloneInv
  <2>2. chunks'[b] = chunks[b] /\ points'[b] = points[b]
    BY <1>1, <2>1 DEF Repaired, Frame
  <2> QED  BY <1>1, <2>1, <2>2 DEF Repaired, Quietly, Frame, InHand
<1>5. \A v \in Workers : Undisturbed(v)'
  BY <1>3 DEF Undisturbed
<1> QED  BY <1>1, <1>2, <1>4, <1>5 DEF AloneInv

(* Who takes a book that another has in hand ends the other's solitude.    *)
LEMMA TakeKeeps ==
    ASSUME IdInv, TypeOK', AloneInv, NEW w \in Workers, Take(w)
    PROVE  AloneInv'
<1> DEFINE b == job'[w].book
           others == {v \in Workers \ {w} : job[v].book = b}
<1>1. /\ TypeOK /\ Frame(w) /\ b \in Books /\ b # NoBook
      /\ pc[w] = "next" /\ pc'[w] = "load" /\ job'[w].sent = 0
      /\ UNCHANGED <<chunks, points>>
  <2>1. TypeOK /\ Frame(w)
    BY StepFrame DEF IdInv, Take, Step
  <2>2. /\ pc[w] = "next" /\ pc'[w] = "load" /\ job'[w].sent = 0
        /\ UNCHANGED <<chunks, points>>
    BY <2>1 DEF Take, TakeBook, NoJob, TypeOK, stores
  <2>3. b \in Books
    BY <2>2 DEF TypeOK
  <2> QED  BY <2>1, <2>2, <2>3, BooksAssumption
<1>2. /\ alone' = [v \in Workers |-> IF v = w THEN others = {}
                                     ELSE alone[v] /\ v \notin others]
      /\ whole' = whole \ {b}
  BY DEF Take
<1> HIDE DEF b
<1>3. \A v \in Workers : ~ InHand(v)' => job'[v].book = NoBook
  BY <1>1 DEF AloneInv, Frame, InHand
<1>4. alone' \in [Workers -> BOOLEAN]
  <2>1. \A v \in Workers : (alone[v] /\ v \notin others) \in BOOLEAN
    OBVIOUS
  <2> QED  BY <1>2, <2>1
<1>5. ASSUME NEW v \in Workers, InHand(v)', alone'[v]
      PROVE  Undisturbed(v)'
  <2>1. CASE v = w
    <3>1. others = {}
      BY <1>2, <1>5, <2>1
    <3>2. \A u \in Workers \ {w} : job'[u].book # b
      BY <1>1, <3>1 DEF Frame
    <3>3. Progress(w)'
      BY <1>1 DEF Progress, InWindow
    <3> QED  BY <2>1, <3>2, <3>3 DEF Undisturbed, b
  <2>2. CASE v # w
    <3>1. InHand(v) /\ alone[v] /\ job[v].book # b
      BY <1>1, <1>2, <1>5, <2>2 DEF Frame, InHand
    <3> QED  BY <1>1, <2>2, <3>1, OthersUndisturbed DEF b
  <2> QED  BY <2>1, <2>2
<1>6. ASSUME NEW c \in whole'
      PROVE  Repaired(c)'
  <2>1. c \in Books /\ Repaired(c) /\ c # b
    BY <1>2 DEF AloneInv
  <2> QED  BY <1>1, <2>1 DEF Repaired, Frame, InHand, b
<1>7. \A v \in Workers : Undisturbed(v)'
  BY <1>5 DEF Undisturbed
<1> QED  BY <1>2, <1>3, <1>4, <1>6, <1>7 DEF AloneInv

(* A process that was alone to the end has stored its own ids and no more. *)
LEMMA CompleteKeeps ==
    ASSUME IdInv, TypeOK', AloneInv, NEW w \in Workers, Complete(w)
    PROVE  AloneInv'
<1>0. PICK b : b = job[w].book
  OBVIOUS
<1>1. /\ TypeOK /\ Frame(w) /\ b \in Books /\ InHand(w)
      /\ pc[w] = "upsert" /\ pc'[w] = "next" /\ job'[w].book = NoBook
      /\ job[w].sent = Size(w) /\ UNCHANGED <<chunks, points, alone>>
      /\ whole' = IF alone[w] THEN whole \union {b} ELSE whole
  <2>1. TypeOK /\ Frame(w)
    BY StepFrame DEF IdInv, Complete, Step
  <2>2. /\ pc[w] = "upsert" /\ pc'[w] = "next" /\ job'[w].book = NoBook
        /\ job[w].sent = Size(w) /\ UNCHANGED <<chunks, points, alone>>
        /\ whole' = IF alone[w] THEN whole \union {b} ELSE whole
    BY <1>0, <2>1 DEF Complete, FinishBook, BookDone, NoJob, TypeOK, stores, Size
  <2> QED  BY <1>0, <2>1, <2>2 DEF TypeOK, InHand
<1>2. \A v \in Workers : ~ InHand(v)' => job'[v].book = NoBook
  BY <1>1 DEF AloneInv, Frame, InHand
<1>3. ASSUME NEW v \in Workers, InHand(v)', alone'[v]
      PROVE  Undisturbed(v)'
  <2>1. v # w /\ InHand(v) /\ alone[v] /\ ~ InHand(w)'
    BY <1>1, <1>3 DEF Frame, InHand
  <2> QED  BY <1>1, <2>1, OthersUndisturbed
<1>4. ASSUME alone[w] PROVE Repaired(b)'
  <2>1. /\ Progress(w)
        /\ \A v \in Workers \ {w} : InHand(v) => job[v].book # b
    BY <1>0, <1>1, <1>4 DEF AloneInv, Undisturbed
  <2>2. chunks[b] = Ids(w) /\ points[b] = chunks[b]
    BY <1>0, <1>1, <2>1 DEF Progress, InWindow, Ids, Size
  <2>3. Cardinality(Ids(w)) = ChunkCount[b]
    <3> DEFINE first == job[w].first
               n == ChunkCount[b]
    <3>1. first \in Nat /\ n \in Nat
      BY <1>0, <1>1, ChunkCountAssumption DEF TypeOK, JobType
    <3> HIDE DEF first, n
    <3>2. Cardinality(first .. (first + n - 1)) = n
      <4>1. first \in Int /\ first + n - 1 \in Int
        BY <3>1
      <4>2. Cardinality(first .. (first + n - 1)) =
              IF first > first + n - 1 THEN 0 ELSE (first + n - 1) - first + 1
        BY <4>1, FS_Interval
      <4> QED  BY <3>1, <4>2
    <3> QED  BY <1>0, <3>2 DEF Ids, first, n
  <2> QED  BY <1>1, <2>1, <2>2, <2>3 DEF Repaired, Frame, InHand
<1>5. ASSUME NEW c \in whole
      PROVE  Repaired(c)'
  <2>1. c \in Books /\ Repaired(c)
    BY DEF AloneInv
  <2> QED  BY <1>1, <2>1 DEF Repaired, Frame, InHand
<1>6. \A v \in Workers : Undisturbed(v)'
  BY <1>3 DEF Undisturbed
<1>7. \A c \in whole' : c \in Books /\ Repaired(c)'
  BY <1>1, <1>4, <1>5 DEF AloneInv
<1> QED  BY <1>1, <1>2, <1>6, <1>7 DEF AloneInv

(* Whatever overlapping ingests and failures have left behind. *)
THEOREM AloneInvHolds == DeploySpec => []AloneInv
<1>1. DeployInit => AloneInv
  BY DEF DeployInit, Init, AloneInv, InHand, NoJob, Undisturbed
<1>2. AloneInv /\ IdInv /\ TypeOK' /\ [DeployNext]_deployVars => AloneInv'
  <2> SUFFICES ASSUME AloneInv, IdInv, TypeOK', [DeployNext]_deployVars PROVE AloneInv'
    OBVIOUS
  <2>1. ASSUME UNCHANGED <<vars, history>> PROVE AloneInv'
    BY <2>1 DEF vars, history, AloneInv, Undisturbed, Repaired, Progress, InHand,
                InWindow, Ids, Size
  <2>2. ASSUME NEW w \in Workers, Begin(w) \/ DeployStep(w) \/ Break(w)
        PROVE  AloneInv'
    BY <2>1, <2>2, QuietSteps, QuietlyKeeps, TakeKeeps, CompleteKeeps DEF IdInv
  <2>3. CASE UNCHANGED deployVars
    BY <2>1, <2>3 DEF deployVars
  <2> QED  BY <2>2, <2>3 DEF DeployNext
<1> QED  BY <1>1, <1>2, DeploysIngestion, TypeCorrect, IdInvariant, PTL DEF DeploySpec

(* ingest_book replaces both a book's rows and its points: one ingest of   *)
(* it without another beside it puts in order whatever was there before.   *)
THEOREM IngestRepairs == DeploySpec => []OneIngestRepairs
<1>1. AloneInv => OneIngestRepairs
  BY DEF AloneInv, Repaired, OneIngestRepairs
<1> QED  BY <1>1, AloneInvHolds, PTL
=============================================================================
