--------------------------- MODULE EvaluationProofs ---------------------------
(***************************************************************************)
(* Proofs about Evaluation, for any settings, chunk files, selections of   *)
(* variants and number of runs.                                            *)
(***************************************************************************)
EXTENDS Evaluation, FiniteSetTheorems, SequenceTheorems, TLAPS

QuantFields == {"at", "todo", "force", "source", "rows", "table", "baseline",
                "embedded", "open", "scored", "verdict", "given"}

DenseFields == {"stage", "force", "texts", "golden", "backend", "todo",
                "saving", "used"}

FileFields == {"state", "texts", "queries", "backend"}

Variants == {"fp16-baseline", "int8", "int4", "gguf-q8-baseline", "gguf"}

RowType == [variant : Variants, ok : BOOLEAN, cosine : {"none", "near", "far"},
            against : Variants \union {"none"}]

(* What the records are made of. *)
QuantShape ==
    /\ DOMAIN quant = QuantFields
    /\ quant.todo \in Seq(Variants) /\ quant.embedded \in Seq(Variants)
    /\ quant.table \in Seq(RowType)
    /\ quant.baseline \in Variants \union {"none"}
    /\ quant.open \in Variants \union {"none"}

DenseShape ==
    /\ DOMAIN dense = DenseFields /\ DOMAIN dense.used = Files
    /\ dense.todo \in Seq(Files \union {Write(stage) : stage \in Stages})
    /\ dense.force \in BOOLEAN /\ dense.saving \in BOOLEAN

FilesShape ==
    /\ DOMAIN cache = Files
    /\ \A f \in Files : DOMAIN cache[f] = FileFields
                        /\ cache[f].state \in {"missing", "cut", "whole"}
    /\ chunkFile.part \in {"whole", "prefix", "unreadable", "missing"}

-------------------------------------------------------------------------------
(* compare-dense-models *)

(* The vectors in use belong to the chunks and the golden set in use. *)
Current(d) ==
    \A f \in Files :
        /\ d.used[f].texts \notin {NoChunks, d.texts} =>
                f = Encoder /\ d.stage = "bge-sparse" /\ ~ d.force
        /\ f \in QueryFiles /\ d.used[f] # NoFile => d.golden \subseteq d.used[f].queries

(* A file is cut short only while it is saved or by a death. *)
CutForCause ==
    /\ \A f \in Files : cache[f].state = "cut" =>
            f \in torn \/ (dense.saving /\ f = File)
    /\ chunkFile.part \in {"unreadable", "prefix"} => At("save") \/ Chunks \in torn
    /\ chunkFile.part = "missing" => chunkFile = NoChunks
    /\ At("chunks") /\ quant.source = "chunks" =>
            quant.given.part \in {"whole", "prefix", "missing"} \/ Chunks \in torn
    /\ command = "dense" => Readable(dense.texts) \/ Chunks \in torn

Saving ==
    dense.saving => /\ Busy /\ File \in Files /\ Readable(dense.texts)
                    /\ dense.used[File] = Made(File)
                    /\ cache[File].state = "cut"

Complete(f, texts, golden) ==
    /\ cache[f].state = "whole" /\ cache[f].texts = texts
    /\ f \in QueryFiles => golden \subseteq cache[f].queries

(* The command comes to f before it writes a report. *)
Ahead(f) ==
    \E j \in DOMAIN dense.todo :
        dense.todo[j] = f /\ \A m \in 1..j : dense.todo[m] \in Files

(* On its way to a report a command completes the dense files one by one;  *)
(* once it has written it they are complete for as long as "prepared" says. *)
Preparing ==
    /\ command = "dense" /\ dense.stage # "bge-sparse" =>
        \A f \in DenseFiles : Ahead(f) \/ Complete(f, dense.texts, dense.golden)
    /\ prepared # <<>> =>
        \A f \in DenseFiles : Complete(f, prepared[1], prepared[2])

Outcome == command # "none" => outcome.kind = "running"

OriginOf(f, file) == Origin(f, file.texts, file.backend)

(* What a command has in use of a file is what it left in the file. *)
OnDisk ==
    \A f \in Files : dense.used[f] # NoFile =>
        cache[f] = dense.used[f] \/ (dense.saving /\ f = File)

(* From the report that renewed a file until a command of another origin   *)
(* comes to it, the file, and what is in use of it, are of that origin.    *)
Relied ==
    /\ DOMAIN renewed = Unmarked
    /\ \A f \in Unmarked :
        /\ Renewed(f) => OriginOf(f, dense.used[f]) = Due(f)
        /\ renewed[f] # <<>> =>
            /\ cache[f].state = "whole" => OriginOf(f, cache[f]) = renewed[f]
            /\ f \in ToDo => renewed[f] = Due(f)
            /\ dense.used[f] # NoFile =>
                    renewed[f] = Due(f) /\ OriginOf(f, dense.used[f]) = Due(f)
            /\ report.used[f] # NoFile =>
                    OriginOf(f, report.used[f])
                        = Origin(f, report.texts, report.backend)

RenewalInv == OnDisk /\ Relied

-------------------------------------------------------------------------------
(* compare-qwen-quant *)

(* Rows made anew are of now; those of the cache are all there, but for a  *)
(* death.                                                                  *)
Remade ==
    /\ quant.at = "save" => quant.rows = ChunkSet("whole")
    /\ quant.source = "corpus" /\ quant.rows # NoChunks =>
        /\ quant.rows.part # "whole" => Chunks \in torn
        /\ quant.force => quant.rows = ChunkSet("whole")

BaselineRow(i) == quant.table[i].ok /\ IsBaseline(quant.table[i].variant)

(* The first baseline that ran is the one; what ran after it was compared  *)
(* with it, and nothing but baselines ran before.                          *)
Table ==
    /\ quant.baseline = "none" => \A i \in DOMAIN quant.table : ~ BaselineRow(i)
    /\ quant.baseline # "none" =>
        \E i \in DOMAIN quant.table :
            /\ BaselineRow(i) /\ quant.table[i].variant = quant.baseline
            /\ \A j \in 1..(i - 1) : ~ BaselineRow(j)
    /\ \A i \in DOMAIN quant.table : quant.table[i].ok =>
        IF quant.table[i].cosine = "none"
        THEN quant.baseline \in {"none", quant.table[i].variant}
        ELSE quant.baseline # "none" /\ quant.table[i].against = quant.baseline

(* While variants are measured: baselines are first in what is left.       *)
Queue ==
    quant.at \in {"chunks", "save", "measure"} =>
        /\ \A i, j \in DOMAIN quant.todo :
             i < j /\ IsBaseline(quant.todo[j]) => IsBaseline(quant.todo[i])
        /\ quant.baseline = "none" /\ (\E i \in DOMAIN quant.table : quant.table[i].ok) =>
             \A j \in DOMAIN quant.todo : ~ IsBaseline(quant.todo[j])
        /\ quant.open # "none" => quant.todo # <<>> /\ quant.open = Head(quant.todo)

(* The two halves: what one command's steps disturb the other's keep. *)
QuantInv ==
    QuantShape /\ Remade /\ Table /\ Queue /\ RecommendationGrounded

DenseInv ==
    /\ DenseShape /\ FilesShape
    /\ Current(dense) /\ Current(report)
    /\ CutForCause /\ Saving /\ Preparing /\ Outcome /\ RefusedForCause

-------------------------------------------------------------------------------
(* The quant half *)

(* Reports and the chunks are none of the cache files, the encoder no vectors. *)
LEMMA FileNames ==
    /\ Chunks \notin Files /\ Encoder \notin DenseFiles /\ Encoder \notin QueryFiles
    /\ DenseFiles \subseteq Files /\ QueryFiles \subseteq Files
    /\ \A stage : Write(stage) \notin Files
  BY DEF Chunks, Files, DenseFiles, QueryFiles, Encoder, LearnedSparse, Write

(* The order of measurement: a sequence of variants, baselines first. *)
LEMMA OrdersAreSequences ==
    ASSUME NEW S \in Selections, NEW s \in Orders(S)
    PROVE  s \in Seq(Variants)
           /\ \A i, j \in DOMAIN s : i < j /\ IsBaseline(s[j]) => IsBaseline(s[i])
<1>1. S \subseteq Variants
  <2>1. 1..5 = {1, 2, 3, 4, 5}
    OBVIOUS
  <2>2. \A i \in {1, 2, 3, 4, 5} : DefaultOrder[i] \in Variants
    BY DEF DefaultOrder, Variants
  <2> QED  BY <2>1, <2>2, SelectionsAssumption
<1>2. IsFiniteSet(S)
  <2>1. IsFiniteSet({"fp16-baseline"})
    BY FS_Singleton
  <2>2. IsFiniteSet(((({"fp16-baseline"} \union {"int8"}) \union {"int4"})
                       \union {"gguf-q8-baseline"}) \union {"gguf"})
    BY <2>1, FS_AddElement
  <2>3. IsFiniteSet(Variants)
    BY <2>2 DEF Variants
  <2> QED  BY <1>1, <2>3, FS_Subset
<1>3. Cardinality(S) \in Nat
  BY <1>2, FS_CardinalityType
<1>4. s \in [1..Cardinality(S) -> Variants]
  BY <1>1 DEF Orders
<1>5. s \in Seq(Variants)
  BY <1>3, <1>4
<1>6. \A i, j \in DOMAIN s : i < j => BaselineFirst(s[i], s[j])
  BY DEF Orders
<1> QED  BY <1>5, <1>6 DEF BaselineFirst

(* The queue and the table a command starts with. *)
LEMMA NothingListed ==
    <<>> \in Seq(Variants) /\ <<>> \in Seq(RowType) /\ DOMAIN <<>> = {}
  BY EmptySeq

(* A quant command starts with an empty table and its baselines first. *)
LEMMA StartedQuant ==
    ASSUME StartQuant
    PROVE  QuantInv'
<1>1. PICK S \in Selections, source \in {"chunks", "corpus", "probe"},
           force \in BOOLEAN, given \in {chunkFile} \union Supplied :
        \E order \in Orders(S) : quant' = [NoQuant EXCEPT
                !.at = IF source = "probe" THEN "measure" ELSE "chunks",
                !.todo = order, !.force = force, !.source = source,
                !.given = IF source = "chunks" THEN given ELSE NoChunks]
  BY DEF StartQuant
<1>2. PICK order \in Orders(S) :
        quant' = [NoQuant EXCEPT
                !.at = IF source = "probe" THEN "measure" ELSE "chunks",
                !.todo = order, !.force = force, !.source = source,
                !.given = IF source = "chunks" THEN given ELSE NoChunks]
  BY <1>1
<1>3. order \in Seq(Variants)
      /\ \A i, j \in DOMAIN order :
           i < j /\ IsBaseline(order[j]) => IsBaseline(order[i])
  BY OrdersAreSequences
<1>4. /\ DOMAIN quant' = QuantFields /\ quant'.at \in {"chunks", "measure"}
      /\ quant'.todo = order /\ quant'.table = <<>> /\ quant'.embedded = <<>>
      /\ quant'.baseline = "none" /\ quant'.open = "none" /\ quant'.rows = NoChunks
  BY <1>2 DEF NoQuant, QuantFields
<1>5. QuantShape'
  BY <1>3, <1>4, NothingListed DEF QuantShape
<1>6. DOMAIN quant'.table = {}
  BY <1>4, NothingListed
<1>7. Table' /\ Remade' /\ RecommendationGrounded'
  BY <1>4, <1>6 DEF Table, Remade, RecommendationGrounded, BaselineRow
<1>8. Queue'
  BY <1>3, <1>4, <1>6 DEF Queue
<1> QED  BY <1>5, <1>7, <1>8 DEF QuantInv

(* Before the first command. *)
LEMMA IdleQuant ==
    ASSUME quant = NoQuant
    PROVE  QuantInv
<1>1. /\ DOMAIN quant = QuantFields /\ quant.at = "idle"
      /\ quant.todo = <<>> /\ quant.table = <<>> /\ quant.embedded = <<>>
      /\ quant.baseline = "none" /\ quant.open = "none" /\ quant.rows = NoChunks
  BY DEF NoQuant, QuantFields
<1>2. QuantShape
  BY <1>1, NothingListed DEF QuantShape
<1>3. DOMAIN quant.table = {}
  BY <1>1
<1>4. Table /\ Remade /\ RecommendationGrounded /\ Queue
  BY <1>1, <1>3 DEF Table, Remade, RecommendationGrounded, BaselineRow, Queue
<1> QED  BY <1>2, <1>4 DEF QuantInv

(* A command that ends early leaves no table behind. *)
LEMMA StoppedQuant ==
    ASSUME quant' = NoQuant
    PROVE  QuantInv'
<1>1. /\ DOMAIN quant' = QuantFields /\ quant'.at = "idle"
      /\ quant'.todo = <<>> /\ quant'.table = <<>> /\ quant'.embedded = <<>>
      /\ quant'.baseline = "none" /\ quant'.open = "none" /\ quant'.rows = NoChunks
  BY DEF NoQuant, QuantFields
<1>2. QuantShape'
  BY <1>1, NothingListed DEF QuantShape
<1>3. DOMAIN quant'.table = {}
  BY <1>1
<1>4. Table' /\ Remade' /\ RecommendationGrounded' /\ Queue'
  BY <1>1, <1>3 DEF Table, Remade, RecommendationGrounded, BaselineRow, Queue
<1> QED  BY <1>2, <1>4 DEF QuantInv

(* Without a new measurement the table stays what it is. *)
LEMMA ChunkStepsKeepQuant ==
    ASSUME QuantInv, DenseInv, ReuseChunks \/ BuildChunks \/ WriteSomeRows \/ WriteLastRow
    PROVE  QuantInv'
<1>1. /\ quant.at \in {"chunks", "save"} /\ quant'.at \in {"save", "measure"}
      /\ DOMAIN quant' = QuantFields /\ quant'.todo = quant.todo
      /\ quant'.embedded = quant.embedded /\ quant'.force = quant.force
      /\ quant'.table = quant.table /\ quant'.baseline = quant.baseline
      /\ quant'.open = quant.open /\ quant'.source = quant.source
      /\ UNCHANGED setting
  BY DEF QuantInv, QuantShape, QuantFields, ReuseChunks, BuildChunks, WriteSomeRows,
         WriteLastRow, At, GoesOn
<1>2. Remade'
  <2>1. \A part : ChunkSet(part).part = part /\ ChunkSet(part)' = ChunkSet(part)
    BY <1>1 DEF ChunkSet
  <2>2. CASE ReuseChunks
    <3>1. /\ quant'.at = "measure" /\ quant'.rows = FileTaken /\ UNCHANGED torn
          /\ quant.at = "chunks" /\ command = "quant"
      BY <2>2 DEF ReuseChunks, At, QuantInv, QuantShape, QuantFields
    <3>2. ASSUME quant.source = "corpus"
          PROVE  ~ quant.force /\ (chunkFile.part # "whole" => Chunks \in torn)
                 /\ FileTaken = chunkFile
      BY <2>2, <3>1, <3>2 DEF ReuseChunks, TakesFile, FileTaken, Readable, DenseInv,
                             CutForCause, At
    <3> QED  BY <1>1, <3>1, <3>2 DEF Remade
  <2>3. CASE BuildChunks
    <3>1. quant'.rows = ChunkSet("whole")
      BY <2>3 DEF BuildChunks, QuantInv, QuantShape, QuantFields
    <3> QED  BY <2>1, <3>1 DEF Remade
  <2>4. CASE WriteSomeRows \/ WriteLastRow
    <3>1. quant'.rows = quant.rows /\ quant.rows = ChunkSet("whole")
      BY <2>4 DEF WriteSomeRows, WriteLastRow, At, QuantInv, QuantShape, QuantFields, Remade
    <3> QED  BY <2>1, <3>1 DEF Remade
  <2> QED  BY <2>2, <2>3, <2>4
<1>3. QuantShape'
  BY <1>1 DEF QuantInv, QuantShape
<1>4. Table'
  BY <1>1 DEF QuantInv, Table, BaselineRow
<1>5. Queue'
  BY <1>1 DEF QuantInv, Queue
<1>6. RecommendationGrounded'
  BY <1>1 DEF RecommendationGrounded
<1> QED  BY <1>2, <1>3, <1>4, <1>5, <1>6 DEF QuantInv

(* What Append keeps and adds. *)
LEMMA Appended ==
    ASSUME NEW T, NEW s \in Seq(T), NEW e \in T
    PROVE  /\ Append(s, e) \in Seq(T) /\ Len(s) \in Nat /\ DOMAIN s = 1..Len(s)
           /\ DOMAIN Append(s, e) = 1..(Len(s) + 1)
           /\ \A i \in DOMAIN s : Append(s, e)[i] = s[i]
           /\ Append(s, e)[Len(s) + 1] = e
  OBVIOUS

(* What Head and Tail take from a sequence. *)
LEMMA HeadAndTail ==
    ASSUME NEW T, NEW s \in Seq(T), s # <<>>
    PROVE  /\ Head(s) \in T /\ Head(s) = s[1] /\ 1 \in DOMAIN s
           /\ Tail(s) \in Seq(T) /\ Len(s) \in Nat
           /\ DOMAIN s = 1..Len(s) /\ DOMAIN Tail(s) = 1..(Len(s) - 1)
           /\ \A i \in DOMAIN Tail(s) : i + 1 \in DOMAIN s /\ Tail(s)[i] = s[i + 1]
  OBVIOUS

(* A variant leaves the queue and its row is added to the table. *)
LEMMA MeasuringKeepsQuant ==
    ASSUME QuantInv, LoadFails \/ Embed
    PROVE  QuantInv'
<1> PICK v : v = Head(quant.todo)
  OBVIOUS
<1>1. quant.at = "measure" /\ quant.todo \in Seq(Variants) /\ quant.table \in Seq(RowType)
  BY DEF LoadFails, Embed, At, QuantInv, QuantShape
<1>2. quant.todo # <<>> /\ (Embed => quant.open = v)
  BY <1>1 DEF QuantInv, Queue, LoadFails, Embed
<1>3. PICK ok \in BOOLEAN, cosine \in {"none", "near", "far"} :
        /\ quant'.table = Append(quant.table, Row(v, ok, cosine))
        /\ quant'.todo = Tail(quant.todo) /\ quant'.open = "none"
        /\ quant'.baseline = IF ok /\ quant.baseline = "none" /\ IsBaseline(v)
                             THEN v ELSE quant.baseline
        /\ ok => (cosine = "none" <=> quant.baseline = "none")
        /\ DOMAIN quant' = QuantFields /\ quant'.at = "measure"
        /\ quant'.embedded \in {quant.embedded, Append(quant.embedded, v)}
        /\ quant'.force = quant.force /\ quant'.rows = quant.rows
        /\ quant'.source = quant.source
  <2>1. CASE LoadFails
    <3>1. /\ quant'.table = Append(quant.table, Row(v, FALSE, "none"))
          /\ quant'.todo = Tail(quant.todo) /\ quant'.open = "none"
          /\ quant'.baseline = quant.baseline
          /\ DOMAIN quant' = QuantFields /\ quant'.at = "measure"
          /\ quant'.embedded = quant.embedded
          /\ quant'.force = quant.force /\ quant'.rows = quant.rows
          /\ quant'.source = quant.source
      BY <1>1, <2>1 DEF LoadFails, QuantInv, QuantShape, QuantFields
    <3> QED  BY <3>1
  <2>2. CASE Embed
    <3>1. PICK cosine \in IF quant.baseline = "none" THEN {"none"} ELSE {"near", "far"} :
            quant' = [quant EXCEPT
              !.table = Append(@, Row(v, TRUE, cosine)),
              !.baseline = IF @ = "none" /\ IsBaseline(v) THEN v ELSE @,
              !.embedded = Append(@, v), !.todo = Tail(@), !.open = "none"]
      BY <1>2, <2>2 DEF Embed
    <3>2. /\ quant'.table = Append(quant.table, Row(v, TRUE, cosine))
          /\ quant'.todo = Tail(quant.todo) /\ quant'.open = "none"
          /\ quant'.baseline = IF quant.baseline = "none" /\ IsBaseline(v)
                               THEN v ELSE quant.baseline
          /\ DOMAIN quant' = QuantFields /\ quant'.at = "measure"
          /\ quant'.embedded = Append(quant.embedded, v)
          /\ quant'.force = quant.force /\ quant'.rows = quant.rows
          /\ quant'.source = quant.source
      BY <1>1, <3>1 DEF QuantInv, QuantShape, QuantFields
    <3> QED  BY <3>1, <3>2
  <2> QED  BY <2>1, <2>2
<1> PICK row, n : row = Row(v, ok, cosine) /\ n = Len(quant.table)
  OBVIOUS
<1>4. /\ row \in RowType /\ row.variant = v /\ row.ok = ok /\ row.cosine = cosine
      /\ cosine # "none" => row.against = quant.baseline
      /\ v \in Variants /\ v # "none" /\ quant.baseline \in Variants \union {"none"}
  <2>1. v \in Variants /\ quant.baseline \in Variants \union {"none"}
    BY <1>1, <1>2, HeadAndTail DEF QuantInv, QuantShape
  <2> QED  BY <2>1 DEF Row, RowType, Variants
<1>5. /\ quant'.table \in Seq(RowType) /\ n \in Nat /\ DOMAIN quant.table = 1..n
      /\ DOMAIN quant'.table = 1..(n + 1)
      /\ \A i \in 1..n : quant'.table[i] = quant.table[i]
      /\ quant'.table[n + 1] = row
  BY <1>1, <1>3, <1>4, Appended
<1>6. QuantShape'
  <2>1. quant'.todo \in Seq(Variants)
    BY <1>1, <1>2, <1>3, HeadAndTail
  <2>2. quant'.embedded \in Seq(Variants)
    <3>1. quant.embedded \in Seq(Variants)
      BY DEF QuantInv, QuantShape
    <3>2. Append(quant.embedded, v) \in Seq(Variants)
      BY <1>4, <3>1, Appended
    <3> QED  BY <1>3, <3>1, <3>2
  <2> QED  BY <1>3, <1>4, <1>5, <2>1, <2>2 DEF QuantShape
<1>7. Remade'
  BY <1>3 DEF QuantInv, Remade, LoadFails, Embed, GoesOn, ChunkSet
<1>8. Table'
  <2>1. \A i \in 1..n : BaselineRow(i)' <=> BaselineRow(i)
    BY <1>5 DEF BaselineRow
  <2>2. BaselineRow(n + 1)' <=> ok /\ IsBaseline(v)
    <3>1. quant'.table[n + 1].ok = ok /\ quant'.table[n + 1].variant = v
      BY <1>4, <1>5
    <3>2. CASE ok = TRUE
      BY <3>1, <3>2 DEF BaselineRow
    <3>3. CASE ok = FALSE
      BY <3>1, <3>3 DEF BaselineRow
    <3> QED  BY <3>2, <3>3
  <2>3. quant.baseline = "none" /\ (\E i \in 1..n : quant.table[i].ok) => ~ IsBaseline(v)
    <3>1. v = quant.todo[1] /\ 1 \in DOMAIN quant.todo
      BY <1>1, <1>2, HeadAndTail
    <3> QED  BY <1>1, <1>5, <3>1 DEF QuantInv, Queue
  <2>4. /\ quant.baseline = "none" => \A i \in 1..n : ~ BaselineRow(i)
        /\ quant.baseline # "none" =>
             \E i \in 1..n : /\ BaselineRow(i) /\ quant.table[i].variant = quant.baseline
                            /\ \A j \in 1..(i - 1) : ~ BaselineRow(j)
        /\ \A i \in 1..n : quant.table[i].ok =>
             IF quant.table[i].cosine = "none"
             THEN quant.baseline \in {"none", quant.table[i].variant}
             ELSE quant.baseline # "none" /\ quant.table[i].against = quant.baseline
    BY <1>5 DEF QuantInv, Table
  <2>5. 1..(n + 1) = 1..n \union {n + 1} /\ \A i \in 1..n : 1..(i - 1) \subseteq 1..n
    BY <1>5
  <2>6. CASE ok /\ quant.baseline = "none" /\ IsBaseline(v)
    <3>1. quant'.baseline = v /\ v # "none" /\ ~ (\E i \in 1..n : quant.table[i].ok)
      BY <1>3, <1>4, <2>3, <2>6
    <3>2. BaselineRow(n + 1)' /\ quant'.table[n + 1].variant = v
          /\ \A j \in 1..((n + 1) - 1) : ~ BaselineRow(j)'
      <4>1. 1..((n + 1) - 1) = 1..n
        BY <1>5
      <4> QED  BY <1>4, <1>5, <2>1, <2>2, <2>4, <2>6, <4>1
    <3>3. \A i \in 1..(n + 1) : quant'.table[i].ok => quant'.table[i].variant = v
                                 /\ quant'.table[i].cosine = "none"
      BY <1>3, <1>4, <1>5, <2>5, <2>6, <3>1
    <3>4. n + 1 \in DOMAIN quant'.table
      BY <1>5
    <3> QED  BY <1>5, <3>1, <3>2, <3>3, <3>4 DEF Table
  <2>7. CASE ~ (ok /\ quant.baseline = "none" /\ IsBaseline(v))
    <3>1. quant'.baseline = quant.baseline
      BY <1>3, <2>7
    <3>2. quant.baseline = "none" => \A i \in 1..(n + 1) : ~ BaselineRow(i)'
      <4>1. quant.baseline = "none" => ~ BaselineRow(n + 1)'
        BY <2>2, <2>7
      <4> QED  BY <2>1, <2>4, <2>5, <4>1
    <3>3. quant.baseline # "none" =>
            \E i \in 1..(n + 1) :
              /\ BaselineRow(i)' /\ quant'.table[i].variant = quant.baseline
              /\ \A j \in 1..(i - 1) : ~ BaselineRow(j)'
      BY <1>5, <2>1, <2>4, <2>5
    <3>4. \A i \in 1..(n + 1) : quant'.table[i].ok =>
            IF quant'.table[i].cosine = "none"
            THEN quant.baseline \in {"none", quant'.table[i].variant}
            ELSE quant.baseline # "none" /\ quant'.table[i].against = quant.baseline
      BY <1>3, <1>4, <1>5, <2>4, <2>5
    <3> QED  BY <1>5, <3>1, <3>2, <3>3, <3>4 DEF Table
  <2> QED  BY <2>6, <2>7
<1>9. Queue'
  <2> DEFINE todo == quant.todo
  <2>1. /\ DOMAIN todo = 1..Len(todo) /\ DOMAIN Tail(todo) = 1..(Len(todo) - 1)
        /\ Len(todo) \in Nat /\ v = todo[1] /\ 1 \in DOMAIN todo
        /\ \A i \in DOMAIN Tail(todo) : i + 1 \in DOMAIN todo /\ Tail(todo)[i] = todo[i + 1]
    BY <1>1, <1>2, HeadAndTail
  <2>2. /\ \A i, j \in DOMAIN todo : i < j /\ IsBaseline(todo[j]) => IsBaseline(todo[i])
        /\ quant.baseline = "none" /\ (\E i \in 1..n : quant.table[i].ok) =>
             \A j \in DOMAIN todo : ~ IsBaseline(todo[j])
    BY <1>1, <1>5 DEF QuantInv, Queue
  <2> HIDE DEF todo
  <2>3. \A i, j \in DOMAIN Tail(todo) :
          i < j /\ IsBaseline(Tail(todo)[j]) => IsBaseline(Tail(todo)[i])
    BY <2>1, <2>2
  <2>4. ASSUME quant'.baseline = "none", NEW i \in 1..(n + 1), quant'.table[i].ok,
               NEW j \in DOMAIN Tail(todo)
        PROVE  ~ IsBaseline(Tail(todo)[j])
    <3>1. quant.baseline = "none"
      BY <1>3, <1>4, <2>4
    <3>2. CASE i \in 1..n
      BY <1>5, <2>1, <2>2, <2>4, <3>1, <3>2
    <3>3. CASE i = n + 1
      <4>1. ~ IsBaseline(v)
        BY <1>3, <1>4, <1>5, <2>4, <3>1, <3>3
      <4> QED  BY <2>1, <2>2, <4>1
    <3> QED  BY <1>5, <3>2, <3>3
  <2> QED  BY <1>3, <1>5, <2>3, <2>4 DEF Queue, todo
<1>10. RecommendationGrounded'
  BY <1>3 DEF RecommendationGrounded
<1> QED  BY <1>6, <1>7, <1>8, <1>9, <1>10 DEF QuantInv

(* The golden queries are scored on a table that no longer changes. *)
LEMMA ScoringKeepsQuant ==
    ASSUME QuantInv, StartScoring \/ Score
    PROVE  QuantInv'
<1>1. /\ quant.todo \in Seq(Variants) /\ quant.embedded \in Seq(Variants)
      /\ DOMAIN quant = QuantFields
  BY DEF QuantInv, QuantShape
<1>2. /\ quant'.at = "score" /\ DOMAIN quant' = QuantFields
      /\ quant'.todo \in Seq(Variants) /\ quant'.table = quant.table
      /\ quant'.baseline = quant.baseline /\ quant'.embedded = quant.embedded
      /\ quant'.open = quant.open /\ quant'.rows = quant.rows
      /\ quant'.force = quant.force /\ quant'.source = quant.source
      /\ UNCHANGED <<setting, torn>>
  <2>1. CASE StartScoring
    BY <1>1, <2>1, NothingListed DEF StartScoring, GoesOn, QuantFields
  <2>2. CASE Score
    <3>1. PICK scored : quant' = [quant EXCEPT !.scored = @ \union scored, !.todo = Tail(@)]
      BY <2>2 DEF Score
    <3>2. Tail(quant.todo) \in Seq(Variants)
      BY <1>1, <2>2, HeadAndTail DEF Score
    <3> QED  BY <1>1, <2>2, <3>1, <3>2 DEF Score, At, GoesOn, QuantFields
  <2> QED  BY <2>1, <2>2
<1>3. QuantShape'
  BY <1>2 DEF QuantInv, QuantShape
<1>4. Table'
  BY <1>2 DEF QuantInv, Table, BaselineRow
<1>5. Remade' /\ Queue' /\ RecommendationGrounded'
  BY <1>2 DEF QuantInv, Remade, Queue, RecommendationGrounded, ChunkSet
<1> QED  BY <1>3, <1>4, <1>5 DEF QuantInv

(* What build_recommendation may say of a table that is in order. *)
LEMMA VerdictGrounded ==
    ASSUME QuantInv, NEW v \in Verdicts(quant.table)
    PROVE  /\ v.kind # "unverified"
           /\ v.kind = "recommended" =>
                \E i, j \in DOMAIN quant.table :
                  /\ quant.table[i].variant = v.baseline /\ quant.table[i].ok
                  /\ quant.table[j].variant = v.winner /\ quant.table[j].ok
                  /\ quant.table[j].cosine = "near"
                  /\ quant.table[j].against = v.baseline
                  /\ v.winner # v.baseline
           /\ v.kind = "no baseline" =>
                \A i \in DOMAIN quant.table : ~ BaselineRow(i)
<1> DEFINE table == quant.table
           ok == {i \in DOMAIN table : table[i].ok}
           base == {i \in ok : IsBaseline(table[i].variant)}
           First(I) == table[CHOOSE i \in I : \A j \in I : i <= j].variant
           others == {i \in ok : table[i].variant # First(base)}
           near == {i \in others : table[i].cosine = "near"}
<1>1. base = {i \in DOMAIN table : BaselineRow(i)}
  BY DEF BaselineRow
<1> DEFINE some == IF \E i \in ok : table[i].variant = "gguf" THEN "gguf" ELSE First(ok)
           odd == IF others = {} THEN "baseline only"
                  ELSE IF \A i \in others : table[i].cosine = "none"
                  THEN "unverified" ELSE "none near"
<1>2. v \in IF ok = {} THEN {NoVerdict}
           ELSE IF base = {} THEN {Verdict("no baseline", some, "none")}
           ELSE IF near # {}
           THEN {Verdict("recommended", table[i].variant, First(base)) : i \in near}
           ELSE {Verdict(odd, "none", First(base))}
  BY DEF Verdicts
<1>3. CASE base = {}
  <2>1. v \in {NoVerdict, Verdict("no baseline", some, "none")}
    <3> HIDE DEF ok, base, near, some
    <3> QED  BY <1>2, <1>3
  <2>2. v.kind \in {"none", "no baseline"}
    <3>1. NoVerdict.kind = "none"
      BY DEF NoVerdict
    <3>2. \A w : Verdict("no baseline", w, "none").kind = "no baseline"
      BY DEF Verdict
    <3> HIDE DEF some
    <3> QED  BY <2>1, <3>1, <3>2
  <2> QED  BY <1>1, <1>3, <2>2
<1>4. CASE base # {}
  <2>1. PICK i \in DOMAIN table :
          /\ BaselineRow(i) /\ table[i].variant = quant.baseline
          /\ \A j \in 1..(i - 1) : ~ BaselineRow(j)
    BY <1>1, <1>4 DEF QuantInv, Table
  <2>2. DOMAIN table \subseteq Nat \ {0}
    BY DEF QuantInv, QuantShape
  <2>3. i \in base /\ \A j \in base : i <= j
    BY <1>1, <2>1, <2>2
  <2>4. (CHOOSE k \in base : \A j \in base : k <= j) = i
    BY <1>1, <2>2, <2>3
  <2>5. First(base) = quant.baseline /\ table[i].ok
    BY <2>1, <2>4 DEF BaselineRow
  <2>6. \A j \in others : /\ j \in DOMAIN table /\ table[j].ok
                          /\ table[j].variant # quant.baseline
                          /\ table[j].cosine # "none"
                          /\ table[j].against = quant.baseline
    <3>1. quant.baseline # "none"
      BY <2>1 DEF QuantInv, Table
    <3> QED  BY <2>5, <3>1 DEF QuantInv, Table
  <2>7. ok # {}
    BY <1>4
  <2>8. \A j \in near : j \in others /\ table[j].cosine = "near"
    OBVIOUS
  <2>9. odd \in {"baseline only", "none near"}
    <3> HIDE DEF others
    <3> QED  BY <2>6
  <2> HIDE DEF others, near, base, ok, odd, First
  <2>10. CASE near # {}
    <3>1. PICK j \in near : v = Verdict("recommended", table[j].variant, quant.baseline)
      BY <1>2, <1>4, <2>5, <2>7, <2>10
    <3>2. /\ v.kind = "recommended" /\ v.winner = table[j].variant
          /\ v.baseline = quant.baseline
      BY <3>1 DEF Verdict
    <3>3. j \in others /\ table[j].cosine = "near"
      BY <2>8
    <3> QED  BY <2>1, <2>5, <2>6, <3>2, <3>3
  <2>11. CASE near = {}
    <3>1. v = Verdict(odd, "none", First(base))
      BY <1>2, <1>4, <2>7, <2>11
    <3>2. v.kind = odd
      BY <3>1 DEF Verdict
    <3> QED  BY <2>9, <3>2
  <2> QED  BY <2>10, <2>11
<1> QED  BY <1>3, <1>4

(* The recommendation is one the table grounds. *)
LEMMA RecommendKeepsQuant ==
    ASSUME QuantInv, Recommend
    PROVE  QuantInv'
<1>1. PICK v \in Verdicts(quant.table) :
        quant' = [quant EXCEPT !.at = "done", !.verdict = v]
  BY DEF Recommend
<1>2. /\ quant'.at = "done" /\ quant'.verdict = v /\ DOMAIN quant' = QuantFields
      /\ quant'.todo = quant.todo /\ quant'.table = quant.table
      /\ quant'.baseline = quant.baseline /\ quant'.embedded = quant.embedded
      /\ quant'.open = quant.open /\ quant'.rows = quant.rows
      /\ quant'.force = quant.force /\ quant'.source = quant.source
  BY <1>1 DEF QuantInv, QuantShape, QuantFields
<1>3. QuantShape'
  BY <1>2 DEF QuantInv, QuantShape
<1>4. Table' /\ Queue'
  BY <1>2 DEF QuantInv, Table, BaselineRow, Queue
<1>5. Remade'
  BY <1>2 DEF QuantInv, Remade, ChunkSet, Recommend, End
<1>6. RecommendationGrounded'
  <2>1. /\ v.kind # "unverified"
        /\ v.kind = "no baseline" =>
             \A i \in DOMAIN quant.table : ~ BaselineRow(i)
    BY VerdictGrounded
  <2>2. CASE v.kind = "recommended"
    <3>1. PICK i, j \in DOMAIN quant.table :
             /\ quant.table[i].variant = v.baseline /\ quant.table[i].ok
             /\ quant.table[j].variant = v.winner /\ quant.table[j].ok
             /\ quant.table[j].cosine = "near"
             /\ quant.table[j].against = v.baseline
             /\ v.winner # v.baseline
      BY <2>2, VerdictGrounded
    <3> QED  BY <1>2, <2>2, <3>1 DEF RecommendationGrounded
  <2>3. CASE v.kind # "recommended"
    BY <1>2, <2>1, <2>3 DEF RecommendationGrounded, BaselineRow, IsBaseline
  <2> QED  BY <2>2, <2>3
<1> QED  BY <1>3, <1>4, <1>5, <1>6 DEF QuantInv

(* Loading a variant only says which one is open. *)
LEMMA LoadingKeepsQuant ==
    ASSUME QuantInv, Load
    PROVE  QuantInv'
<1>1. /\ quant.todo \in Seq(Variants) /\ quant.todo # <<>> /\ DOMAIN quant = QuantFields
      /\ quant' = [quant EXCEPT !.open = Head(quant.todo)] /\ quant.at = "measure"
  BY DEF Load, At, QuantInv, QuantShape
<1>2. Head(quant.todo) \in Variants
  BY <1>1, HeadAndTail
<1>3. /\ quant'.at = "measure" /\ DOMAIN quant' = QuantFields
      /\ quant'.open = Head(quant.todo) /\ quant'.todo = quant.todo
      /\ quant'.table = quant.table /\ quant'.baseline = quant.baseline
      /\ quant'.embedded = quant.embedded /\ quant'.rows = quant.rows
      /\ quant'.force = quant.force /\ quant'.source = quant.source
      /\ UNCHANGED <<setting, torn>>
  BY <1>1 DEF QuantFields, Load, GoesOn
<1>4. QuantShape'
  BY <1>2, <1>3 DEF QuantInv, QuantShape
<1>5. Table'
  BY <1>3 DEF QuantInv, Table, BaselineRow
<1>6. Queue'
  BY <1>1, <1>3 DEF QuantInv, Queue
<1>7. Remade' /\ RecommendationGrounded'
  BY <1>3 DEF QuantInv, Remade, RecommendationGrounded, ChunkSet
<1> QED  BY <1>4, <1>5, <1>6, <1>7 DEF QuantInv

(* Every step of compare-qwen-quant. *)
LEMMA QuantKeepsQuant ==
    ASSUME QuantInv, DenseInv, QuantStep
    PROVE  QuantInv'
<1>1. CASE StartQuant
  BY <1>1, StartedQuant
<1>2. CASE RefuseChunks \/ BuildFails \/ EmbedFails \/ QuantDies
  BY <1>2, StoppedQuant DEF RefuseChunks, BuildFails, EmbedFails, QuantDies
<1>3. CASE ReuseChunks \/ BuildChunks \/ WriteSomeRows \/ WriteLastRow
  BY <1>3, ChunkStepsKeepQuant
<1>4. CASE LoadFails \/ Embed
  BY <1>4, MeasuringKeepsQuant
<1>5. CASE Load
  BY <1>5, LoadingKeepsQuant
<1>6. CASE StartScoring \/ Score
  BY <1>6, ScoringKeepsQuant
<1>7. CASE Recommend
  BY <1>7, RecommendKeepsQuant
<1> QED  BY <1>1, <1>2, <1>3, <1>4, <1>5, <1>6, <1>7 DEF QuantStep

(* A step of the other command leaves the quant half as it is. *)
LEMMA DenseKeepsQuant ==
    ASSUME QuantInv, DenseInv, DenseStep,
           quant' = IF command = "none" THEN NoQuant ELSE quant
    PROVE  QuantInv'
<1>1. CASE command = "none"
  BY <1>1, StoppedQuant
<1>2. CASE command # "none"
  <2>1. UNCHANGED <<quant, setting>>
    BY <1>2 DEF DenseStep, StartDense, Begin, RefuseTexts, Reuse, Refuse, Compute,
                Save, ComputeFails, ScoringFails, WriteReport, DenseDies, GoesOn, End
  <2>2. QuantShape'
    BY <2>1 DEF QuantInv, QuantShape
  <2>3. Remade'
    <3>1. Save => File \in Files
      BY DEF Save, DenseInv, Saving
    <3>2. Chunks \in torn => Chunks \in torn'
      BY <1>2, <3>1, FileNames
         DEF DenseStep, StartDense, Begin, RefuseTexts, Reuse, Refuse, Compute,
             Save, ComputeFails, ScoringFails, WriteReport, DenseDies
    <3> QED  BY <2>1, <3>2 DEF QuantInv, Remade, ChunkSet
  <2>4. Table'
    BY <2>1 DEF QuantInv, Table, BaselineRow
  <2>5. Queue' /\ RecommendationGrounded'
    BY <2>1 DEF QuantInv, Queue, RecommendationGrounded
  <2> QED  BY <2>2, <2>3, <2>4, <2>5 DEF QuantInv
<1> QED  BY <1>1, <1>2

-------------------------------------------------------------------------------
(* The dense half *)

(* Nothing is in use. *)
LEMMA NoDenseFields ==
    /\ DOMAIN NoDense = DenseFields /\ DOMAIN NoDense.used = Files
    /\ NoDense.todo = <<>> /\ NoDense.force = FALSE /\ NoDense.saving = FALSE
    /\ NoDense.texts = NoChunks /\ NoFile.texts = NoChunks
    /\ \A f \in Files : NoDense.used[f] = NoFile
    /\ Current(NoDense)
<1>1. /\ DOMAIN NoDense = DenseFields /\ DOMAIN NoDense.used = Files
      /\ NoDense.todo = <<>> /\ NoDense.force = FALSE /\ NoDense.saving = FALSE
      /\ NoDense.texts = NoChunks /\ NoFile.texts = NoChunks
      /\ \A f \in Files : NoDense.used[f] = NoFile
  BY DEF NoDense, DenseFields, NoFile
<1> QED  BY <1>1 DEF Current

(* What concatenation keeps. *)
LEMMA Joined ==
    ASSUME NEW T, NEW s \in Seq(T), NEW t \in Seq(T)
    PROVE  /\ s \o t \in Seq(T) /\ Len(s) \in Nat
           /\ Len(s \o t) = Len(s) + Len(t)
           /\ \A i \in 1..Len(s) : (s \o t)[i] = s[i]
  OBVIOUS

(* A sequence of four or more keeps its first four when it is extended. *)
LEMMA Extended ==
    ASSUME NEW T, NEW s \in Seq(T), NEW t \in Seq(T), NEW e \in T, Len(s) >= 4
    PROVE  /\ s \o t \in Seq(T) /\ Len(s \o t) >= 4 /\ \A i \in 1..4 : (s \o t)[i] = s[i]
           /\ Append(s, e) \in Seq(T) /\ Len(Append(s, e)) >= 4
           /\ \A i \in 1..4 : Append(s, e)[i] = s[i]
  OBVIOUS

(* What each stage goes through; all but bge-sparse come to the four dense *)
(* files before any report.                                                *)
LEMMA WorkAhead ==
    ASSUME NEW stage \in Stages
    PROVE  /\ Work(stage) \in Seq(Files \union {Write(st) : st \in Stages})
           /\ \A f \in DenseFiles : stage # "bge-sparse" =>
                \E j \in DOMAIN Work(stage) :
                  Work(stage)[j] = f /\ \A m \in 1..j : Work(stage)[m] \in Files
<1> DEFINE T == Files \union {Write(st) : st \in Stages}
           both == DenseOf("bge-m3") \o DenseOf("qwen3")
           first == Append(both, Write("dense-only"))
           second == both \o <<Encoder, Write("hybrid-bm25")>>
           Starts(s) == s \in Seq(T) /\ Len(s) >= 4 /\ \A i \in 1..4 : s[i] = both[i]
<1>1. /\ DenseOf("bge-m3") \in Seq(T) /\ DenseOf("qwen3") \in Seq(T)
      /\ LearnedSparse \in Seq(T)
      /\ <<Encoder, Write("hybrid-bm25")>> \in Seq(T)
      /\ <<Encoder, Write("bge-sparse")>> \in Seq(T)
      /\ Write("dense-only") \in T
  <2>1. /\ Encoder \in T /\ LearnedSparse[1] \in T /\ LearnedSparse[2] \in T
        /\ \A st \in Stages : Write(st) \in T
        /\ \A m \in {"bge-m3", "qwen3"} : <<m, "docs">> \in T /\ <<m, "queries">> \in T
    BY DEF Files, DenseFiles
  <2>2. "dense-only" \in Stages /\ "hybrid-bm25" \in Stages /\ "bge-sparse" \in Stages
    BY DEF Stages
  <2>3. LearnedSparse = <<LearnedSparse[1], LearnedSparse[2]>>
    BY DEF LearnedSparse
  <2> HIDE DEF T
  <2>4. \A x, y \in T : <<x, y>> \in Seq(T)
    OBVIOUS
  <2> QED  BY <2>1, <2>2, <2>3, <2>4 DEF DenseOf
<1>2. /\ both \in Seq(T) /\ Len(both) = 4
      /\ both[1] = <<"bge-m3", "docs">> /\ both[2] = <<"bge-m3", "queries">>
      /\ both[3] = <<"qwen3", "docs">> /\ both[4] = <<"qwen3", "queries">>
  <2> HIDE DEF T
  <2>1. both \in Seq(T)
    BY <1>1, Joined
  <2> QED  BY <2>1 DEF DenseOf
<1> HIDE DEF both
<1>3. first \in Seq(T) /\ Starts(first) /\ second \in Seq(T) /\ Starts(second)
  <2>1. Len(both) >= 4 /\ both \in Seq(T)
    BY <1>2
  <2> HIDE DEF T
  <2> QED  BY <1>1, <2>1, Extended
<1>5. Starts(first \o second)
  <2> PICK e \in T : e = Write("dense-only")
    BY <1>1
  <2> HIDE DEF T, first, second
  <2>1. /\ first \in Seq(T) /\ second \in Seq(T) /\ Len(first) >= 4
        /\ \A i \in 1..4 : first[i] = both[i]
    BY <1>3
  <2>2. /\ first \o second \in Seq(T) /\ Len(first \o second) >= 4
        /\ \A i \in 1..4 : (first \o second)[i] = first[i]
    BY <2>1, Extended
  <2> QED  BY <2>1, <2>2
<1>6. DenseOf("bge-m3") \o LearnedSparse \o <<Encoder, Write("bge-sparse")>> \in Seq(T)
  <2> HIDE DEF T
  <2> QED  BY <1>1, Joined
<1>7. CASE stage = "bge-sparse"
  BY <1>6, <1>7 DEF Work
<1>8. CASE stage # "bge-sparse"
  <2>1. Work(stage) \in {first, second, first \o second}
    BY <1>8 DEF Work, Stages, both
  <2>2. Starts(Work(stage))
    <3> HIDE DEF Starts, first, second
    <3> QED  BY <2>1, <1>3, <1>5
  <2>3. \A i \in 1..4 : both[i] \in Files
    <3>1. \A i \in 1..4 : i \in {1, 2, 3, 4}
      OBVIOUS
    <3>2. /\ both[1] \in DenseFiles /\ both[2] \in DenseFiles
          /\ both[3] \in DenseFiles /\ both[4] \in DenseFiles
      BY <1>2 DEF DenseFiles
    <3> QED  BY <3>1, <3>2, FileNames
  <2>4. \A f \in DenseFiles : \E j \in 1..4 : both[j] = f
    <3>1. \A f \in DenseFiles : f \in {<<"bge-m3", "docs">>, <<"bge-m3", "queries">>,
                                     <<"qwen3", "docs">>, <<"qwen3", "queries">>}
      BY DEF DenseFiles
    <3>2. 1 \in 1..4 /\ 2 \in 1..4 /\ 3 \in 1..4 /\ 4 \in 1..4
      OBVIOUS
    <3> QED  BY <1>2, <3>1, <3>2
  <2>5. 1..4 \subseteq DOMAIN Work(stage) /\ \A j \in 1..4 : 1..j \subseteq 1..4
    BY <2>2
  <2> QED  BY <2>2, <2>3, <2>4, <2>5
<1> QED  BY <1>7, <1>8

(* While compare-qwen-quant runs: only the chunks and the deaths change. *)
LEMMA QuantRunsKeepsDense ==
    ASSUME DenseInv, command = "quant", UNCHANGED <<dense, report, cache, prepared>>,
           command' \in {"none", "quant"},
           CutForCause', Outcome', RefusedForCause', FilesShape'
    PROVE  DenseInv'
<1>1. /\ DenseShape' /\ Current(dense)' /\ Current(report)'
  BY DEF DenseInv, DenseShape, Current
<1>2. Saving'
  BY DEF DenseInv, Saving, Busy
<1>3. Preparing'
  BY DEF DenseInv, Preparing, Complete
<1> QED  BY <1>1, <1>2, <1>3 DEF DenseInv

(* A running compare-qwen-quant leaves the dense half in order. *)
LEMMA QuantKeepsDense ==
    ASSUME DenseInv, QuantInv, QuantStep, command # "none",
           UNCHANGED <<dense, report, cache, prepared>>
    PROVE  DenseInv'
<1>1. command = "quant" /\ ~ dense.saving
  BY DEF QuantStep, StartQuant, Begin, ReuseChunks, RefuseChunks, BuildChunks,
         BuildFails, WriteSomeRows, WriteLastRow, LoadFails, Load, Embed, EmbedFails,
         StartScoring, Score, Recommend, QuantDies, At, DenseInv, Saving, Busy
<1>2. /\ \A f \in Files : cache[f].state = "cut" => f \in torn
      /\ chunkFile.part \in {"unreadable", "prefix"} => At("save") \/ Chunks \in torn
      /\ chunkFile.part = "missing" => chunkFile = NoChunks
      /\ At("chunks") /\ quant.source = "chunks" =>
            quant.given.part \in {"whole", "prefix", "missing"} \/ Chunks \in torn
      /\ outcome.kind = "running"
      /\ chunkFile.part \in {"whole", "prefix", "unreadable", "missing"}
  BY <1>1 DEF DenseInv, CutForCause, Outcome, FilesShape
<1>0. ~ At("chunks")'
  <2>1. CASE ReuseChunks \/ BuildChunks
    BY <2>1 DEF ReuseChunks, BuildChunks, At, QuantInv, QuantShape, QuantFields
  <2>2. CASE WriteSomeRows \/ WriteLastRow
    BY <2>2 DEF WriteSomeRows, WriteLastRow, At, QuantInv, QuantShape, QuantFields
  <2>3. CASE LoadFails \/ Load \/ Embed
    BY <2>3 DEF LoadFails, Load, Embed, At, QuantInv, QuantShape, QuantFields
  <2>4. CASE StartScoring \/ Score
    BY <2>4 DEF StartScoring, Score, At, QuantInv, QuantShape, QuantFields
  <2>5. CASE RefuseChunks \/ BuildFails \/ EmbedFails \/ Recommend \/ QuantDies
    BY <2>5 DEF RefuseChunks, BuildFails, EmbedFails, Recommend, QuantDies, End, At
  <2> QED  BY <2>1, <2>2, <2>3, <2>4, <2>5 DEF QuantStep, StartQuant, Begin
<1>3. CASE ReuseChunks \/ LoadFails \/ Load \/ Embed \/ StartScoring \/ Score
  <2>1. /\ command' = command /\ outcome' = outcome /\ ~ At("save")
        /\ UNCHANGED <<chunkFile, torn>>
    BY <1>3 DEF ReuseChunks, LoadFails, Load, Embed, StartScoring, Score, At, GoesOn
  <2>2. CutForCause' /\ FilesShape' /\ Outcome' /\ RefusedForCause'
    BY <1>0, <1>1, <1>2, <2>1 DEF CutForCause, FilesShape, Outcome, RefusedForCause, DenseInv
  <2> QED  BY <1>1, <2>1, <2>2, QuantRunsKeepsDense
<1>4. CASE RefuseChunks \/ BuildFails \/ EmbedFails \/ Recommend
  <2>1. command' = "none" /\ ~ At("save") /\ UNCHANGED <<chunkFile, torn>>
    BY <1>4 DEF RefuseChunks, BuildFails, EmbedFails, Recommend, At, End
  <2>2. /\ outcome'.kind \in {"unreadable", "failed", "ok"} /\ outcome'.file = Chunks
        /\ outcome'.kind = "unreadable" => RefuseChunks
    <3>1. \A kind : Ended(kind, Chunks).kind = kind /\ Ended(kind, Chunks).file = Chunks
      BY DEF Ended
    <3>2. CASE RefuseChunks
      BY <3>1, <3>2 DEF RefuseChunks, End
    <3>3. CASE BuildFails \/ EmbedFails
      BY <3>1, <3>3 DEF BuildFails, EmbedFails, End
    <3>4. CASE Recommend
      BY <3>1, <3>4 DEF Recommend, End
    <3> QED  BY <1>4, <3>2, <3>3, <3>4
  <2>3. outcome'.kind = "unreadable" => Chunks \in torn
    <3>1. SUFFICES ASSUME outcome'.kind = "unreadable"
                   PROVE  Chunks \in torn
      OBVIOUS
    <3>2. RefuseChunks /\ FileTaken.part # "missing"
      BY <2>2, <3>1 DEF RefuseChunks, End, Ended
    <3> QED  BY <1>2, <2>1, <3>2 DEF RefuseChunks, FileTaken, Readable
  <2>4. CutForCause' /\ FilesShape' /\ Outcome' /\ RefusedForCause'
    BY <1>0, <1>1, <1>2, <2>1, <2>2, <2>3, FileNames
       DEF CutForCause, FilesShape, Outcome, RefusedForCause, DenseInv
  <2> QED  BY <1>1, <2>1, <2>4, QuantRunsKeepsDense
<1>5. CASE BuildChunks \/ WriteSomeRows
  <2>1. /\ command' = command /\ outcome' = outcome /\ UNCHANGED torn /\ quant'.at = "save"
        /\ chunkFile'.part \in {"unreadable", "prefix"}
    <3>1. \A part : ChunkSet(part).part = part
      BY DEF ChunkSet
    <3>2. CASE BuildChunks
      BY <3>1, <3>2 DEF BuildChunks, GoesOn, QuantInv, QuantShape, QuantFields
    <3>3. CASE WriteSomeRows
      BY <3>1, <3>3 DEF WriteSomeRows, At, GoesOn
    <3> QED  BY <1>5, <3>2, <3>3
  <2>2. CutForCause' /\ FilesShape' /\ Outcome' /\ RefusedForCause'
    BY <1>0, <1>1, <1>2, <2>1 DEF CutForCause, FilesShape, Outcome, RefusedForCause, DenseInv, At
  <2> QED  BY <1>1, <2>1, <2>2, QuantRunsKeepsDense
<1>6. CASE WriteLastRow
  <2>1. /\ command' = command /\ outcome' = outcome /\ torn' = torn \ {Chunks}
        /\ chunkFile'.part = "whole"
    BY <1>6 DEF WriteLastRow, GoesOn, ChunkSet
  <2>2. CutForCause' /\ FilesShape' /\ Outcome' /\ RefusedForCause'
    BY <1>0, <1>1, <1>2, <2>1, FileNames
       DEF CutForCause, FilesShape, Outcome, RefusedForCause, DenseInv
  <2> QED  BY <1>1, <2>1, <2>2, QuantRunsKeepsDense
<1>7. CASE QuantDies
  <2>1. /\ command' = "none" /\ outcome'.kind = "died" /\ torn \subseteq torn'
        /\ At("save") => Chunks \in torn'
        /\ UNCHANGED chunkFile
    BY <1>7 DEF QuantDies, End, Ended
  <2>2. CutForCause' /\ FilesShape' /\ Outcome' /\ RefusedForCause'
    BY <1>0, <1>1, <1>2, <2>1 DEF CutForCause, FilesShape, Outcome, RefusedForCause, DenseInv
  <2> QED  BY <1>1, <2>1, <2>2, QuantRunsKeepsDense
<1>8. ~ StartQuant
  BY DEF StartQuant, Begin
<1> QED  BY <1>3, <1>4, <1>5, <1>6, <1>7, <1>8 DEF QuantStep

(* A command starts with nothing in use, whichever ran before it. *)
LEMMA StartedQuantKeepsDense ==
    ASSUME DenseInv, StartQuant, dense' = NoDense, report' = NoDense,
           UNCHANGED <<cache, prepared>>
    PROVE  DenseInv'
<1>1. /\ command = "none" /\ command' = "quant" /\ outcome'.kind = "running"
      /\ UNCHANGED <<chunkFile, torn>> /\ ~ dense.saving
  BY DEF StartQuant, Begin, Running, DenseInv, Saving, Busy
<1>2. FilesShape' /\ Outcome' /\ RefusedForCause'
  BY <1>1 DEF DenseInv, FilesShape, Outcome, RefusedForCause
<1>3. CutForCause'
  <2>1. PICK S \in Selections, source \in {"chunks", "corpus", "probe"},
             force \in BOOLEAN, given \in {chunkFile} \union Supplied :
          \E order \in Orders(S) : quant' = [NoQuant EXCEPT
                  !.at = IF source = "probe" THEN "measure" ELSE "chunks",
                  !.todo = order, !.force = force, !.source = source,
                  !.given = IF source = "chunks" THEN given ELSE NoChunks]
    BY DEF StartQuant
  <2>2. quant'.source = source /\ quant'.given \in {given, NoChunks}
    BY <2>1 DEF NoQuant
  <2>3. given.part \in {"whole", "prefix", "missing"} \/ Chunks \in torn
    BY <1>1, SuppliedAssumption DEF DenseInv, FilesShape, CutForCause, Readable, At
  <2>4. NoChunks.part = "missing"
    BY DEF NoChunks
  <2> QED  BY <1>1, <2>2, <2>3, <2>4, NoDenseFields DEF DenseInv, CutForCause, At
<1>4. DenseShape' /\ Saving'
  BY <1>1, NoDenseFields, EmptySeq DEF DenseShape, Saving
<1>5. Current(dense)' /\ Current(report)'
  BY NoDenseFields DEF Current
<1>6. Preparing'
  BY <1>1 DEF DenseInv, Preparing, Complete
<1> QED  BY <1>2, <1>3, <1>4, <1>5, <1>6 DEF DenseInv

(* A dense command starts on chunks it can read, or that a death cut short. *)
LEMMA StartedDense ==
    ASSUME DenseInv, StartDense
    PROVE  DenseInv'
<1>1. /\ command = "none" /\ command' = "dense" /\ outcome'.kind = "running"
      /\ UNCHANGED <<chunkFile, torn, cache, prepared>> /\ ~ dense.saving
      /\ report' = NoDense
  BY DEF StartDense, Begin, Running, DenseInv, Saving, Busy
<1>2. PICK stage \in Stages, force \in BOOLEAN,
           texts \in ({chunkFile} \ {NoChunks}) \union Supplied :
        dense' = [NoDense EXCEPT
            !.stage = stage, !.force = force, !.texts = texts,
            !.golden = setting'.golden, !.backend = setting'.backend,
            !.todo = Work(stage)]
  BY DEF StartDense
<1>3. /\ DOMAIN dense' = DenseFields /\ dense'.stage = stage /\ dense'.force = force
      /\ dense'.texts = texts /\ dense'.todo = Work(stage) /\ dense'.saving = FALSE
      /\ dense'.used = NoDense.used
  BY <1>2, NoDenseFields DEF DenseFields
<1>4. FilesShape' /\ Outcome' /\ RefusedForCause'
  BY <1>1 DEF DenseInv, FilesShape, Outcome, RefusedForCause
<1>5. CutForCause'
  <2>1. Readable(texts) \/ Chunks \in torn
    <3>1. CASE texts \in Supplied
      BY <3>1, SuppliedAssumption
    <3>2. CASE texts = chunkFile /\ texts # NoChunks
      BY <1>1, <3>2 DEF DenseInv, FilesShape, CutForCause, Readable, At
    <3> QED  BY <3>1, <3>2
  <2> QED  BY <1>1, <1>3, <2>1 DEF DenseInv, CutForCause, At, Readable
<1>6. DenseShape' /\ Saving'
  BY <1>3, NoDenseFields, WorkAhead DEF DenseShape, Saving
<1>7. Current(dense)' /\ Current(report)'
  BY <1>1, <1>3, NoDenseFields DEF Current
<1>8. Preparing'
  <2>1. stage # "bge-sparse" => \A f \in DenseFiles : Ahead(f)'
    <3> SUFFICES ASSUME stage # "bge-sparse", NEW f \in DenseFiles
                 PROVE  Ahead(f)'
      OBVIOUS
    <3> PICK w : w = Work(stage)
      OBVIOUS
    <3>1. dense'.todo = w
      BY <1>3
    <3>2. PICK j \in DOMAIN w : w[j] = f /\ \A m \in 1..j : w[m] \in Files
      BY WorkAhead
    <3> QED  BY <3>1, <3>2 DEF Ahead
  <2>2. prepared # <<>> => \A f \in DenseFiles : Complete(f, prepared[1], prepared[2])
    BY DEF DenseInv, Preparing
  <2> QED  BY <1>1, <1>3, <2>1, <2>2 DEF Preparing, Complete
<1> QED  BY <1>4, <1>5, <1>6, <1>7, <1>8 DEF DenseInv

(* A command ends, and what it had in use is gone. *)
LEMMA EndedDense ==
    ASSUME DenseInv, RefuseTexts \/ ComputeFails \/ ScoringFails \/ DenseDies
    PROVE  DenseInv'
<1>1. /\ command = "dense" /\ command' = "none" /\ dense' = NoDense
      /\ UNCHANGED <<chunkFile, cache, report, prepared>> /\ torn \subseteq torn'
      /\ dense.saving => File \in torn' \/ ~ DenseDies
  BY DEF RefuseTexts, ComputeFails, ScoringFails, DenseDies, End, Working, Busy
<1>2. \A kind, file : Ended(kind, file).kind = kind /\ Ended(kind, file).file = file
  BY DEF Ended
<1>3. \A f \in Files : cache[f].state = "cut" => f \in torn'
  <2>1. CASE DenseDies
    BY <1>1, <2>1 DEF DenseInv, CutForCause
  <2>2. CASE ComputeFails \/ ScoringFails
    BY <1>1, <2>2 DEF DenseInv, CutForCause, ComputeFails, ScoringFails, Working
  <2>3. CASE RefuseTexts
    BY <1>1, <2>3 DEF DenseInv, CutForCause, Saving, RefuseTexts
  <2> QED  BY <2>1, <2>2, <2>3, <1>1
<1>4. CutForCause' /\ FilesShape' /\ Outcome'
  BY <1>1, <1>3, NoDenseFields DEF DenseInv, CutForCause, FilesShape, Outcome, At
<1>5. DenseShape' /\ Saving'
  BY <1>1, NoDenseFields, EmptySeq DEF DenseShape, Saving
<1>6. Current(dense)' /\ Current(report)'
  BY <1>1, NoDenseFields DEF DenseInv, Current
<1>7. Preparing'
  BY <1>1 DEF DenseInv, Preparing, Complete
<1>8. RefusedForCause'
  <2>1. CASE RefuseTexts
    <3>1. outcome'.kind = "unreadable" /\ outcome'.file = Chunks /\ Chunks \in torn'
      BY <1>1, <1>2, <2>1 DEF RefuseTexts, End, DenseInv, CutForCause
    <3> QED  BY <3>1, FileNames DEF RefusedForCause
  <2>2. CASE ComputeFails \/ ScoringFails \/ DenseDies
    <3>1. outcome'.kind \in {"failed", "died"}
      BY <1>2, <2>2 DEF ComputeFails, ScoringFails, DenseDies, End
    <3> QED  BY <3>1 DEF RefusedForCause
  <2> QED  BY <2>1, <2>2
<1> QED  BY <1>4, <1>5, <1>6, <1>7, <1>8 DEF DenseInv

(* Where a dense command stands while it has something to do. *)
LEMMA AtWork ==
    ASSUME DenseInv, Busy
    PROVE  /\ command = "dense" /\ outcome.kind = "running"
           /\ ~ At("save") /\ ~ At("chunks")
           /\ DOMAIN dense = DenseFields /\ DOMAIN dense.used = Files
           /\ dense.todo \in Seq(Files \union {Write(stage) : stage \in Stages})
           /\ dense.todo # <<>> /\ File = dense.todo[1]
  BY HeadAndTail DEF DenseInv, DenseShape, Busy, Outcome, At, File

(* What is not the next file stays ahead. *)
LEMMA StillAhead ==
    ASSUME DenseInv, Busy, dense'.todo = Tail(dense.todo),
           NEW f, Ahead(f), f # File
    PROVE  Ahead(f)'
<1> PICK s : s = dense.todo
  OBVIOUS
<1>1. /\ s \in Seq(Files \union {Write(stage) : stage \in Stages}) /\ s # <<>>
      /\ File = s[1]
  BY AtWork
<1>2. /\ Len(s) \in Nat /\ DOMAIN s = 1..Len(s) /\ DOMAIN Tail(s) = 1..(Len(s) - 1)
      /\ \A i \in DOMAIN Tail(s) : i + 1 \in DOMAIN s /\ Tail(s)[i] = s[i + 1]
  BY <1>1, HeadAndTail
<1>3. PICK j \in DOMAIN s : s[j] = f /\ \A m \in 1..j : s[m] \in Files
  BY DEF Ahead
<1>4. j # 1
  BY <1>1, <1>3
<1>5. j - 1 \in DOMAIN Tail(s) /\ Tail(s)[j - 1] = f
  BY <1>2, <1>3, <1>4
<1>6. \A m \in 1..(j - 1) : Tail(s)[m] \in Files
  BY <1>2, <1>3, <1>5
<1> QED  BY <1>5, <1>6 DEF Ahead

(* A cache that is taken up fits the chunks and the golden set. *)
LEMMA ReuseKeepsDense ==
    ASSUME DenseInv, Reuse
    PROVE  DenseInv'
<1>1. /\ Busy /\ Readable(dense.texts) /\ ~ dense.saving /\ File \in Files
      /\ Usable(File)
      /\ UNCHANGED <<chunkFile, torn, cache, report, prepared, command, outcome>>
  BY DEF Reuse, Working, GoesOn
<1>2. /\ DOMAIN dense' = DenseFields /\ dense'.stage = dense.stage
      /\ dense'.force = dense.force /\ dense'.texts = dense.texts
      /\ dense'.golden = dense.golden /\ dense'.saving = dense.saving
      /\ dense'.backend = dense.backend
      /\ dense'.todo = Tail(dense.todo)
      /\ dense'.used = [dense.used EXCEPT ![File] = cache[File]]
  BY <1>1, AtWork DEF Reuse, DenseFields
<1>3. /\ cache[File].state = "whole" /\ ~ dense.force
      /\ File = Encoder => dense.stage = "bge-sparse"
      /\ File # Encoder => cache[File].texts = dense.texts
      /\ File \in QueryFiles => dense.golden \subseteq cache[File].queries
  BY <1>1 DEF Usable, Consulted, Matches
<1>4. /\ dense'.used[File] = cache[File] /\ DOMAIN dense'.used = Files
      /\ \A f \in Files : f # File => dense'.used[f] = dense.used[f]
  BY <1>1, <1>2, AtWork
<1>5. Current(dense)'
  <2>1. Current(dense)
    BY DEF DenseInv
  <2>2. Current(dense)'
    BY <1>2, <1>3, <1>4, <2>1 DEF Current
  <2> QED  BY <2>2
<1>6. Current(report)' /\ FilesShape' /\ Outcome'
  BY <1>1 DEF DenseInv, Current, FilesShape, Outcome
<1>7. DenseShape'
  <2>1. Tail(dense.todo) \in Seq(Files \union {Write(stage) : stage \in Stages})
    BY <1>1, AtWork, HeadAndTail
  <2> QED  BY <1>2, <1>4, <2>1 DEF DenseInv, DenseShape
<1>8. CutForCause' /\ Saving'
  BY <1>1, <1>2, AtWork DEF DenseInv, CutForCause, Saving, At, Busy, Readable
<1>9. Preparing'
  <2>1. ASSUME dense.stage # "bge-sparse", NEW f \in DenseFiles
        PROVE  Ahead(f)' \/ Complete(f, dense.texts, dense.golden)'
    <3>1. CASE f = File
      BY <1>1, <1>2, <1>3, <3>1, FileNames DEF Complete
    <3>2. CASE f # File
      <4>1. Ahead(f) \/ Complete(f, dense.texts, dense.golden)
        BY <1>1, <2>1, AtWork DEF DenseInv, Preparing
      <4> QED  BY <1>1, <1>2, <3>2, <4>1, StillAhead DEF Complete
    <3> QED  BY <3>1, <3>2
  <2> QED  BY <1>1, <1>2, <2>1 DEF DenseInv, Preparing, Complete
<1>10. RefusedForCause'
  BY <1>1, AtWork DEF RefusedForCause
<1> QED  BY <1>5, <1>6, <1>7, <1>8, <1>9, <1>10 DEF DenseInv

(* A cache that is refused was cut short, or no stage completed it. *)
LEMMA RefuseKeepsDense ==
    ASSUME DenseInv, Refuse
    PROVE  DenseInv'
<1>1. /\ Busy /\ ~ dense.saving /\ File \in Files /\ ~ Usable(File)
      /\ Unreadable(File) \/ Required(File)
      /\ command' = "none"
      /\ outcome' = Ended(IF Unreadable(File) THEN "unreadable" ELSE "stale", File)
      /\ UNCHANGED <<chunkFile, torn, cache, dense, report, prepared>>
  BY DEF Refuse, Working, End, denseVars
<1>2. \A kind, file : Ended(kind, file).kind = kind /\ Ended(kind, file).file = file
  BY DEF Ended
<1>3. RefusedForCause'
  <2>1. CASE Unreadable(File)
    <3>1. outcome'.kind = "unreadable" /\ outcome'.file = File
      BY <1>1, <1>2, <2>1
    <3>2. File \in torn /\ ~ dense.force
      BY <1>1, <2>1 DEF Unreadable, Consulted, DenseInv, CutForCause
    <3> QED  BY <1>1, <3>1, <3>2 DEF RefusedForCause
  <2>2. CASE ~ Unreadable(File)
    <3>1. outcome'.kind = "stale" /\ Required(File)
      BY <1>1, <1>2, <2>2
    <3>2. /\ dense.stage \in {"hybrid-bm25", "bge-sparse"} /\ ~ dense.force
          /\ File \in DenseFiles /\ File # Encoder
      BY <3>1, FileNames DEF Required
    <3>3. prepared # <<dense.texts, dense.golden>>
      <4>1. SUFFICES ASSUME prepared = <<dense.texts, dense.golden>>
                     PROVE  FALSE
        OBVIOUS
      <4>2. prepared # <<>> /\ prepared[1] = dense.texts /\ prepared[2] = dense.golden
        BY <4>1
      <4>3. Complete(File, dense.texts, dense.golden)
        BY <3>2, <4>2 DEF DenseInv, Preparing
      <4> QED  BY <1>1, <3>2, <4>3 DEF Complete, Usable, Consulted, Matches
    <3> QED  BY <1>1, <3>1, <3>2, <3>3 DEF RefusedForCause
  <2> QED  BY <2>1, <2>2
<1>4. /\ FilesShape' /\ Outcome' /\ DenseShape' /\ Saving'
      /\ Current(dense)' /\ Current(report)'
  BY <1>1 DEF DenseInv, Current, FilesShape, Outcome, DenseShape, Saving
<1>5. CutForCause' /\ Preparing'
  BY <1>1, AtWork DEF DenseInv, CutForCause, Preparing, Complete, At
<1> QED  BY <1>3, <1>4, <1>5 DEF DenseInv

(* Vectors made anew are of the chunks in use; their file is open. *)
LEMMA ComputeKeepsDense ==
    ASSUME DenseInv, Compute
    PROVE  DenseInv'
<1>1. /\ Busy /\ Readable(dense.texts) /\ ~ dense.saving /\ File \in Files
      /\ UNCHANGED <<chunkFile, torn, report, command, outcome>>
      /\ prepared' = IF File \in DenseFiles THEN <<>> ELSE prepared
      /\ cache' = [cache EXCEPT ![File].state = "cut"]
  BY DEF Compute, Working, GoesOn
<1>2. /\ DOMAIN dense' = DenseFields /\ dense'.stage = dense.stage
      /\ dense'.force = dense.force /\ dense'.texts = dense.texts
      /\ dense'.golden = dense.golden /\ dense'.saving = TRUE
      /\ dense'.backend = dense.backend /\ dense'.todo = dense.todo
      /\ dense'.used = [dense.used EXCEPT ![File] = Made(File)]
  BY <1>1, AtWork DEF Compute, DenseFields
<1>3. /\ dense'.used[File] = Made(File) /\ DOMAIN dense'.used = Files
      /\ \A f \in Files : f # File => dense'.used[f] = dense.used[f]
  BY <1>1, <1>2, AtWork
<1>4. /\ DOMAIN cache' = Files /\ cache'[File].state = "cut"
      /\ DOMAIN cache'[File] = FileFields
      /\ \A f \in Files : f # File => cache'[f] = cache[f]
  BY <1>1 DEF DenseInv, FilesShape, FileFields
<1>5. /\ Made(File).texts = dense.texts
      /\ File \in QueryFiles => Made(File).queries = dense.golden
      /\ File \in DenseFiles => Made(File).backend = dense.backend
      /\ File' = File /\ Made(File)' = Made(File)
  BY <1>2 DEF Made, File
<1>6. Current(dense)'
  <2>1. Current(dense)
    BY DEF DenseInv
  <2>2. Current(dense)'
    BY <1>2, <1>3, <1>5, <2>1 DEF Current
  <2> QED  BY <2>2
<1>7. Current(report)' /\ Outcome'
  BY <1>1 DEF DenseInv, Current, Outcome
<1>8. FilesShape' /\ DenseShape'
  BY <1>1, <1>2, <1>3, <1>4 DEF DenseInv, FilesShape, DenseShape
<1>9. CutForCause' /\ Saving'
  BY <1>1, <1>2, <1>3, <1>4, <1>5, AtWork
     DEF DenseInv, CutForCause, Saving, At, Busy, Readable
<1>10. Preparing'
  <2>1. Ahead(File)
    <3>1. 1 \in DOMAIN dense.todo /\ dense.todo[1] = File
      BY <1>1, AtWork, HeadAndTail
    <3>2. \A m \in 1..1 : m = 1
      OBVIOUS
    <3> QED  BY <1>1, <3>1, <3>2 DEF Ahead
  <2>2. \A f : Ahead(f) => Ahead(f)'
    BY <1>2 DEF Ahead
  <2>4. ASSUME dense.stage # "bge-sparse", NEW f \in DenseFiles
        PROVE  Ahead(f)' \/ Complete(f, dense.texts, dense.golden)'
    <3>1. CASE f = File
      BY <2>1, <2>2, <3>1
    <3>2. CASE f # File
      <4>1. Ahead(f) \/ Complete(f, dense.texts, dense.golden)
        BY <1>1, <2>4, AtWork DEF DenseInv, Preparing
      <4>2. Complete(f, dense.texts, dense.golden)
              => Complete(f, dense.texts, dense.golden)'
        BY <1>2, <1>4, <3>2, FileNames DEF Complete
      <4> QED  BY <2>2, <4>1, <4>2
    <3> QED  BY <3>1, <3>2
  <2>5. ASSUME prepared' # <<>>, NEW f \in DenseFiles
        PROVE  Complete(f, prepared[1], prepared[2])' /\ prepared' = prepared
    <3>1. prepared' = prepared /\ File \notin DenseFiles
      BY <1>1, <2>5
    <3>2. Complete(f, prepared[1], prepared[2])
      BY <2>5, <3>1 DEF DenseInv, Preparing
    <3> QED  BY <1>4, <3>1, <3>2, FileNames DEF Complete
  <2> QED  BY <1>1, <1>2, <2>4, <2>5 DEF Preparing, Complete
<1>11. RefusedForCause'
  BY <1>1, AtWork DEF RefusedForCause
<1> QED  BY <1>6, <1>7, <1>8, <1>9, <1>10, <1>11 DEF DenseInv

(* A saved file is complete for the chunks in use. *)
LEMMA SaveKeepsDense ==
    ASSUME DenseInv, Save
    PROVE  DenseInv'
<1>1. /\ Busy /\ dense.saving /\ torn' = torn \ {File}
      /\ UNCHANGED <<chunkFile, report, prepared, command, outcome>>
      /\ cache' = [cache EXCEPT ![File] = dense.used[File]]
  BY DEF Save, GoesOn
<1>2. /\ DOMAIN dense' = DenseFields /\ dense'.stage = dense.stage
      /\ dense'.force = dense.force /\ dense'.texts = dense.texts
      /\ dense'.golden = dense.golden /\ dense'.saving = FALSE
      /\ dense'.backend = dense.backend /\ dense'.todo = Tail(dense.todo)
      /\ dense'.used = dense.used
  BY <1>1, AtWork DEF Save, DenseFields
<1>3. /\ File \in Files /\ Readable(dense.texts) /\ dense.used[File] = Made(File)
      /\ cache[File].state = "cut"
  BY <1>1 DEF DenseInv, Saving
<1>4. /\ DOMAIN cache' = Files /\ cache'[File] = Made(File)
      /\ \A f \in Files : f # File => cache'[f] = cache[f]
  BY <1>1, <1>3 DEF DenseInv, FilesShape
<1>5. /\ Made(File).texts = dense.texts /\ Made(File).state = "whole"
      /\ DOMAIN Made(File) = FileFields
      /\ File \in QueryFiles => Made(File).queries = dense.golden
  BY DEF Made, FileFields
<1>6. Current(dense)'
  BY <1>2 DEF DenseInv, Current
<1>7. Current(report)' /\ Outcome'
  BY <1>1 DEF DenseInv, Current, Outcome
<1>8. FilesShape' /\ DenseShape'
  <2>1. Tail(dense.todo) \in Seq(Files \union {Write(stage) : stage \in Stages})
    BY <1>1, AtWork, HeadAndTail
  <2>2. DenseShape'
    BY <1>2, <2>1, AtWork, <1>1 DEF DenseInv, DenseShape
  <2>3. FilesShape'
    BY <1>1, <1>4, <1>5 DEF DenseInv, FilesShape
  <2> QED  BY <2>2, <2>3
<1>9. CutForCause' /\ Saving'
  BY <1>1, <1>2, <1>3, <1>4, <1>5, AtWork, FileNames
     DEF DenseInv, CutForCause, Saving, At, Readable
<1>10. Preparing'
  <2>2. ASSUME dense.stage # "bge-sparse", NEW f \in DenseFiles
        PROVE  Ahead(f)' \/ Complete(f, dense.texts, dense.golden)'
    <3>1. CASE f = File
      BY <1>2, <1>4, <1>5, <3>1 DEF Complete
    <3>2. CASE f # File
      <4>1. Ahead(f) \/ Complete(f, dense.texts, dense.golden)
        BY <1>1, <2>2, AtWork DEF DenseInv, Preparing
      <4>2. Complete(f, dense.texts, dense.golden)
              => Complete(f, dense.texts, dense.golden)'
        BY <1>2, <1>4, <3>2, FileNames DEF Complete
      <4> QED  BY <1>1, <1>2, <3>2, <4>1, <4>2, StillAhead
    <3> QED  BY <3>1, <3>2
  <2>3. ASSUME prepared # <<>>, NEW f \in DenseFiles
        PROVE  Complete(f, prepared[1], prepared[2])'
    <3>1. Complete(f, prepared[1], prepared[2])
      BY <2>3 DEF DenseInv, Preparing
    <3>2. f # File
      BY <1>3, <3>1 DEF Complete
    <3> QED  BY <1>1, <1>4, <3>1, <3>2, FileNames DEF Complete
  <2> QED  BY <1>1, <1>2, <2>2, <2>3 DEF Preparing, Complete
<1>11. RefusedForCause'
  BY <1>1, AtWork DEF RefusedForCause
<1> QED  BY <1>6, <1>7, <1>8, <1>9, <1>10, <1>11 DEF DenseInv

(* What a report says was in use was current; the dense files are complete. *)
LEMMA WriteReportKeepsDense ==
    ASSUME DenseInv, WriteReport
    PROVE  DenseInv'
<1>1. /\ Busy /\ Readable(dense.texts) /\ ~ dense.saving /\ File \notin Files
      /\ report' = [dense EXCEPT !.todo = <<>>]
      /\ prepared' = IF dense.stage = "bge-sparse" THEN prepared
                     ELSE <<dense.texts, dense.golden>>
      /\ UNCHANGED <<chunkFile, torn, cache>>
  BY DEF WriteReport, Working
<1>2. /\ report'.stage = dense.stage /\ report'.force = dense.force
      /\ report'.texts = dense.texts /\ report'.golden = dense.golden
      /\ report'.backend = dense.backend /\ report'.used = dense.used
  BY <1>1, AtWork DEF DenseFields
<1>3. Current(report)'
  BY <1>2 DEF DenseInv, Current
<1>4. dense.stage # "bge-sparse" =>
        \A f \in DenseFiles : Complete(f, dense.texts, dense.golden)
  <2>1. \A f : ~ Ahead(f)
    <3>1. \A j \in DOMAIN dense.todo : 1 \in 1..j
      BY <1>1, AtWork
    <3> QED  BY <1>1, <3>1, AtWork DEF Ahead
  <2> QED  BY <1>1, <2>1, AtWork DEF DenseInv, Preparing
<1>5. prepared' # <<>> => \A f \in DenseFiles : Complete(f, prepared[1], prepared[2])'
  <2>1. CASE dense.stage = "bge-sparse"
    BY <1>1, <2>1 DEF DenseInv, Preparing, Complete
  <2>2. CASE dense.stage # "bge-sparse"
    <3>1. prepared'[1] = dense.texts /\ prepared'[2] = dense.golden
      BY <1>1, <2>2
    <3> QED  BY <1>1, <1>4, <2>2, <3>1 DEF Complete
  <2> QED  BY <2>1, <2>2
<1>6. FilesShape'
  BY <1>1 DEF DenseInv, FilesShape
<1>7. CASE Len(dense.todo) = 1
  <2>1. dense' = NoDense /\ command' = "none" /\ outcome' = Ended("ok", File)
    BY <1>7 DEF WriteReport, End
  <2>2. outcome'.kind = "ok"
    BY <2>1 DEF Ended
  <2>3. DenseShape' /\ Saving' /\ Current(dense)'
    BY <2>1, NoDenseFields, EmptySeq DEF DenseShape, Saving, Current
  <2>4. CutForCause' /\ Outcome' /\ RefusedForCause'
    BY <1>1, <2>1, <2>2, AtWork, NoDenseFields
       DEF DenseInv, CutForCause, Outcome, RefusedForCause, At
  <2>5. Preparing'
    BY <1>5, <2>1 DEF Preparing
  <2> QED  BY <1>3, <1>6, <2>3, <2>4, <2>5 DEF DenseInv
<1>8. CASE Len(dense.todo) # 1
  <2>1. /\ DOMAIN dense' = DenseFields /\ dense'.stage = dense.stage
        /\ dense'.force = dense.force /\ dense'.texts = dense.texts
        /\ dense'.golden = dense.golden /\ dense'.saving = dense.saving
        /\ dense'.backend = dense.backend /\ dense'.todo = Tail(dense.todo)
        /\ dense'.used = NoDense.used /\ UNCHANGED <<command, outcome>>
    BY <1>1, <1>8, AtWork DEF WriteReport, GoesOn, DenseFields
  <2>2. Tail(dense.todo) \in Seq(Files \union {Write(stage) : stage \in Stages})
    BY <1>1, AtWork, HeadAndTail
  <2>3. DenseShape' /\ Saving'
    BY <1>1, <2>1, <2>2, NoDenseFields DEF DenseInv, DenseShape, Saving
  <2>4. Current(dense)'
    BY <2>1, NoDenseFields DEF Current
  <2>5. CutForCause' /\ Outcome' /\ RefusedForCause'
    BY <1>1, <2>1, AtWork
       DEF DenseInv, CutForCause, Outcome, RefusedForCause, At, Readable
  <2>6. Preparing'
    BY <1>1, <1>4, <1>5, <2>1 DEF Preparing, Complete
  <2> QED  BY <1>3, <1>6, <2>3, <2>4, <2>5, <2>6 DEF DenseInv
<1> QED  BY <1>7, <1>8

(* Every step of compare-dense-models. *)
LEMMA DenseKeepsDense ==
    ASSUME DenseInv, DenseStep
    PROVE  DenseInv'
  BY StartedDense, EndedDense, ReuseKeepsDense, RefuseKeepsDense, ComputeKeepsDense,
     SaveKeepsDense, WriteReportKeepsDense DEF DenseStep

-------------------------------------------------------------------------------
(* Files that a forced comparison renewed *)

(* The last command ended, or the other one starts: nothing is in use. *)
LEMMA EmptiedKeepsRenewal ==
    ASSUME RenewalInv, dense' = NoDense, report' \in {report, NoDense},
           UNCHANGED <<cache, renewed>>
    PROVE  RenewalInv'
<1>1. /\ \A f \in Files : dense'.used[f] = NoFile /\ NoDense.used[f] = NoFile
      /\ dense'.todo = <<>> /\ Unmarked \subseteq Files
  BY NoDenseFields, FileNames DEF Unmarked, Files
<1>2. OnDisk'
  BY <1>1 DEF OnDisk
<1>3. ToDo' = {}
  BY <1>1 DEF ToDo
<1>4. Relied'
  BY <1>1, <1>3 DEF RenewalInv, Relied, Renewed, OriginOf, Origin
<1> QED  BY <1>2, <1>4 DEF RenewalInv

(* Where the files of a command stand. *)
LEMMA Names ==
    /\ Unmarked \subseteq Files /\ Encoder \in Unmarked
    /\ \A f \in Unmarked : f # Encoder => f \in DenseFiles
  BY FileNames DEF Unmarked, Files

(* Going on to the next file leaves fewer of them. *)
LEMMA FewerToDo ==
    ASSUME DenseInv, Busy
    PROVE  /\ File \in ToDo
           /\ dense'.todo = Tail(dense.todo) => ToDo' \subseteq ToDo
<1> PICK s : s = dense.todo
  OBVIOUS
<1>1. /\ s \in Seq(Files \union {Write(stage) : stage \in Stages}) /\ s # <<>>
      /\ File = s[1]
  BY AtWork
<1>2. /\ 1 \in DOMAIN s
      /\ \A i \in DOMAIN Tail(s) : i + 1 \in DOMAIN s /\ Tail(s)[i] = s[i + 1]
  BY <1>1, HeadAndTail
<1>3. \A e \in {Tail(s)[i] : i \in DOMAIN Tail(s)} : e \in {s[i] : i \in DOMAIN s}
  BY <1>2
<1> QED  BY <1>1, <1>2, <1>3 DEF ToDo

(* A command relies on a file only if it is of the file's origin. *)
LEMMA StartedRenewal ==
    ASSUME RenewalInv, StartDense
    PROVE  RenewalInv'
<1>1. /\ report' = NoDense /\ UNCHANGED cache
      /\ renewed' = [f \in Unmarked |->
            IF f \in ToDo' /\ renewed[f] # Due(f)' THEN <<>> ELSE renewed[f]]
  BY DEF StartDense
<1>2. dense'.used = NoDense.used
  BY DEF StartDense, NoDense
<1>3. \A f \in Files : dense'.used[f] = NoFile /\ report'.used[f] = NoFile
  BY <1>1, <1>2, NoDenseFields
<1>4. OnDisk'
  BY <1>3 DEF OnDisk
<1>5. Relied'
  BY <1>1, <1>3, Names DEF RenewalInv, Relied, Renewed, OriginOf, Origin
<1> QED  BY <1>4, <1>5 DEF RenewalInv

(* A file that is taken up is still of the origin it was renewed with. *)
LEMMA ReuseKeepsRenewal ==
    ASSUME DenseInv, RenewalInv, Reuse
    PROVE  RenewalInv'
<1>1. /\ Busy /\ ~ dense.saving /\ File \in Files /\ Usable(File)
      /\ UNCHANGED <<cache, report, renewed>>
  BY DEF Reuse, Working, GoesOn
<1>2. /\ dense'.stage = dense.stage /\ dense'.force = dense.force
      /\ dense'.texts = dense.texts /\ dense'.backend = dense.backend
      /\ dense'.saving = dense.saving /\ dense'.todo = Tail(dense.todo)
      /\ dense'.used = [dense.used EXCEPT ![File] = cache[File]]
  BY <1>1, AtWork DEF Reuse, DenseFields
<1>3. /\ dense'.used[File] = cache[File]
      /\ \A f \in Files : f # File => dense'.used[f] = dense.used[f]
  BY <1>1, <1>2, AtWork
<1>4. /\ cache[File].state = "whole" /\ ~ dense.force
      /\ File = Encoder => dense.stage = "bge-sparse"
  BY <1>1 DEF Usable, Consulted
<1>5. OnDisk'
  BY <1>1, <1>2, <1>3 DEF RenewalInv, OnDisk
<1>6. ToDo' \subseteq ToDo /\ File \in ToDo
  BY <1>1, <1>2, FewerToDo
<1>7. \A f : Due(f)' = Due(f)
  BY <1>2 DEF Due, Origin
<1>8. ASSUME NEW f \in Unmarked
      PROVE  /\ Renewed(f)' => OriginOf(f, dense'.used[f]) = Due(f)
             /\ renewed[f] # <<>> =>
                  /\ f \in ToDo' => renewed[f] = Due(f)
                  /\ dense'.used[f] # NoFile =>
                       renewed[f] = Due(f) /\ OriginOf(f, dense'.used[f]) = Due(f)
  <2>1. CASE f = File
    BY <1>2, <1>3, <1>4, <1>6, <2>1 DEF RenewalInv, Relied, Renewed
  <2>2. CASE f # File
    <3>1. dense'.used[f] = dense.used[f]
      BY <1>3, <2>2, Names
    <3>2. Renewed(f)' <=> Renewed(f)
      BY <1>2, <3>1 DEF Renewed
    <3> QED  BY <1>6, <3>1, <3>2 DEF RenewalInv, Relied
  <2> QED  BY <2>1, <2>2
<1>9. Relied'
  BY <1>1, <1>7, <1>8 DEF RenewalInv, Relied, OriginOf, Origin
<1> QED  BY <1>5, <1>9 DEF RenewalInv

(* What is made anew is of the origin it is due. *)
LEMMA ComputeKeepsRenewal ==
    ASSUME DenseInv, RenewalInv, Compute
    PROVE  RenewalInv'
<1>1. /\ Busy /\ ~ dense.saving /\ File \in Files /\ UNCHANGED <<report, renewed>>
      /\ cache' = [cache EXCEPT ![File].state = "cut"]
  BY DEF Compute, Working, GoesOn
<1>2. /\ dense'.stage = dense.stage /\ dense'.force = dense.force
      /\ dense'.texts = dense.texts /\ dense'.backend = dense.backend
      /\ dense'.saving = TRUE /\ dense'.todo = dense.todo
      /\ dense'.used = [dense.used EXCEPT ![File] = Made(File)]
  BY <1>1, AtWork DEF Compute, DenseFields
<1>3. /\ dense'.used[File] = Made(File) /\ File' = File
      /\ \A f \in Files : f # File => dense'.used[f] = dense.used[f]
  BY <1>1, <1>2, AtWork DEF File
<1>4. /\ cache'[File].state = "cut" /\ \A f \in Files : f # File => cache'[f] = cache[f]
  BY <1>1 DEF DenseInv, FilesShape, FileFields
<1>5. OnDisk'
  BY <1>1, <1>2, <1>3, <1>4 DEF RenewalInv, OnDisk
<1>6. ToDo' = ToDo /\ File \in ToDo /\ \A f : Due(f)' = Due(f)
  BY <1>1, <1>2, FewerToDo DEF Due, Origin, ToDo
<1>7. File \in Unmarked => OriginOf(File, Made(File)) = Due(File)
  <2>1. CASE File = Encoder
    BY <2>1 DEF OriginOf, Origin, Made, Due
  <2>2. CASE File # Encoder /\ File \in Unmarked
    BY <2>2, Names DEF OriginOf, Origin, Made, Due
  <2> QED  BY <2>1, <2>2
<1>8. ASSUME NEW f \in Unmarked
      PROVE  /\ Renewed(f)' => OriginOf(f, dense'.used[f]) = Due(f)
             /\ renewed[f] # <<>> =>
                  /\ cache'[f].state = "whole" => OriginOf(f, cache'[f]) = renewed[f]
                  /\ f \in ToDo => renewed[f] = Due(f)
                  /\ dense'.used[f] # NoFile =>
                       renewed[f] = Due(f) /\ OriginOf(f, dense'.used[f]) = Due(f)
  <2>1. CASE f = File
    BY <1>3, <1>4, <1>6, <1>7, <2>1 DEF RenewalInv, Relied
  <2>2. CASE f # File
    <3>1. dense'.used[f] = dense.used[f] /\ cache'[f] = cache[f]
      BY <1>3, <1>4, <2>2, Names
    <3>2. Renewed(f)' <=> Renewed(f)
      BY <1>2, <3>1 DEF Renewed
    <3> QED  BY <3>1, <3>2 DEF RenewalInv, Relied
  <2> QED  BY <2>1, <2>2
<1>9. Relied'
  BY <1>1, <1>6, <1>8 DEF RenewalInv, Relied, OriginOf, Origin
<1> QED  BY <1>5, <1>9 DEF RenewalInv

(* What was made anew reaches the file. *)
LEMMA SaveKeepsRenewal ==
    ASSUME DenseInv, RenewalInv, Save
    PROVE  RenewalInv'
<1>1. /\ Busy /\ dense.saving /\ UNCHANGED <<report, renewed>>
      /\ cache' = [cache EXCEPT ![File] = dense.used[File]]
  BY DEF Save
<1>2. /\ dense'.stage = dense.stage /\ dense'.force = dense.force
      /\ dense'.texts = dense.texts /\ dense'.backend = dense.backend
      /\ dense'.saving = FALSE /\ dense'.todo = Tail(dense.todo)
      /\ dense'.used = dense.used
  BY <1>1, AtWork DEF Save, DenseFields
<1>3. /\ File \in Files /\ dense.used[File] = Made(File) /\ Made(File).state = "whole"
      /\ NoFile.state = "missing"
  BY <1>1 DEF DenseInv, Saving, Made, NoFile
<1>4. /\ cache'[File] = dense.used[File] /\ dense.used[File] # NoFile
      /\ \A f \in Files : f # File => cache'[f] = cache[f]
  BY <1>1, <1>3 DEF DenseInv, FilesShape
<1>5. OnDisk'
  BY <1>2, <1>4 DEF RenewalInv, OnDisk
<1>6. ToDo' \subseteq ToDo /\ \A f : (Due(f)' = Due(f) /\ (Renewed(f)' <=> Renewed(f)))
  BY <1>1, <1>2, FewerToDo DEF Due, Origin, Renewed
<1>7. ASSUME NEW f \in Unmarked, renewed[f] # <<>>
      PROVE  cache'[f].state = "whole" => OriginOf(f, cache'[f]) = renewed[f]
  <2>1. CASE f = File
    BY <1>4, <1>7, <2>1 DEF RenewalInv, Relied
  <2>2. CASE f # File
    BY <1>4, <1>7, <2>2, Names DEF RenewalInv, Relied
  <2> QED  BY <2>1, <2>2
<1>8. Relied'
  BY <1>1, <1>2, <1>6, <1>7 DEF RenewalInv, Relied, OriginOf, Origin
<1> QED  BY <1>5, <1>8 DEF RenewalInv

(* A report that was bound to make its files anew renews them. *)
LEMMA WriteReportKeepsRenewal ==
    ASSUME DenseInv, RenewalInv, WriteReport
    PROVE  RenewalInv'
<1>1. /\ Busy /\ ~ dense.saving /\ UNCHANGED cache
      /\ report' = [dense EXCEPT !.todo = <<>>]
      /\ renewed' = [f \in Unmarked |-> IF Renewed(f) THEN Due(f) ELSE renewed[f]]
  BY DEF WriteReport, Working
<1>2. /\ report'.texts = dense.texts /\ report'.backend = dense.backend
      /\ report'.used = dense.used
  BY <1>1, AtWork DEF DenseFields
<1>3. \A f \in Files : dense'.used[f] = NoFile
  <2>1. CASE Len(dense.todo) = 1
    BY <2>1, NoDenseFields DEF WriteReport
  <2>2. CASE Len(dense.todo) # 1
    <3>1. dense'.used = NoDense.used
      BY <1>1, <2>2, AtWork DEF WriteReport, DenseFields
    <3> QED  BY <3>1, NoDenseFields
  <2> QED  BY <2>1, <2>2
<1>4. \A f \in ToDo' : f \in ToDo /\ Due(f)' = Due(f)
  <2>1. CASE Len(dense.todo) = 1
    <3>1. dense'.todo = <<>>
      BY <2>1, NoDenseFields DEF WriteReport
    <3>2. ToDo' = {}
      BY <3>1 DEF ToDo
    <3> QED  BY <3>2
  <2>2. CASE Len(dense.todo) # 1
    <3>1. /\ dense'.todo = Tail(dense.todo) /\ dense'.texts = dense.texts
          /\ dense'.backend = dense.backend
      BY <1>1, <2>2, AtWork DEF WriteReport, DenseFields
    <3> QED  BY <1>1, <3>1, FewerToDo DEF Due, Origin
  <2> QED  BY <2>1, <2>2
<1>5. OnDisk'
  BY <1>3 DEF OnDisk
<1>6. ASSUME NEW f \in Unmarked, renewed'[f] # <<>>
      PROVE  /\ cache[f].state = "whole" => OriginOf(f, cache[f]) = renewed'[f]
             /\ f \in ToDo' => renewed'[f] = Due(f)
             /\ dense.used[f] # NoFile => OriginOf(f, dense.used[f]) = Due(f)
  <2>1. CASE Renewed(f)
    <3>1. renewed'[f] = Due(f) /\ dense.used[f] # NoFile
      BY <1>1, <2>1 DEF Renewed
    <3>2. OriginOf(f, dense.used[f]) = Due(f) /\ cache[f] = dense.used[f]
      BY <1>1, <2>1, <3>1, Names DEF RenewalInv, OnDisk, Relied
    <3> QED  BY <3>1, <3>2
  <2>2. CASE ~ Renewed(f)
    <3>1. renewed'[f] = renewed[f]
      BY <1>1, <2>2
    <3> QED  BY <1>4, <1>6, <3>1 DEF RenewalInv, Relied
  <2> QED  BY <2>1, <2>2
<1>7. Relied'
  <2>1. ASSUME NEW f \in Unmarked
        PROVE  dense'.used[f] = NoFile /\ ~ Renewed(f)'
    BY <1>3, Names DEF Renewed
  <2>2. DOMAIN renewed' = Unmarked
    BY <1>1
  <2> QED  BY <1>1, <1>2, <1>4, <1>6, <2>1, <2>2 DEF Relied, OriginOf, Due, Origin
<1> QED  BY <1>5, <1>7 DEF RenewalInv

(* Nothing happens to the files. *)
LEMMA RenewalUnchanged ==
    ASSUME RenewalInv, UNCHANGED <<cache, dense, report, renewed>>
    PROVE  RenewalInv'
<1>1. OnDisk'
  BY DEF RenewalInv, OnDisk, File
<1>2. ToDo' = ToDo /\ \A f : (Renewed(f)' <=> Renewed(f)) /\ Due(f)' = Due(f)
  BY DEF ToDo, Renewed, Due, Origin
<1>3. Relied'
  BY <1>2 DEF RenewalInv, Relied, OriginOf, Origin
<1> QED  BY <1>1, <1>3 DEF RenewalInv

(* Every step of compare-dense-models. *)
LEMMA DenseKeepsRenewal ==
    ASSUME DenseInv, RenewalInv, DenseStep
    PROVE  RenewalInv'
<1>1. CASE RefuseTexts \/ ComputeFails \/ ScoringFails \/ DenseDies
  BY <1>1, EmptiedKeepsRenewal DEF RefuseTexts, ComputeFails, ScoringFails, DenseDies
<1>2. CASE Refuse
  <2>1. UNCHANGED <<cache, dense, report, renewed>>
    BY <1>2 DEF Refuse, denseVars
  <2> QED  BY <2>1, RenewalUnchanged
<1> QED  BY <1>1, <1>2, StartedRenewal, ReuseKeepsRenewal, ComputeKeepsRenewal,
            SaveKeepsRenewal, WriteReportKeepsRenewal DEF DenseStep

-------------------------------------------------------------------------------
(* The two commands together *)

(* Before the first command everything is in order. *)
LEMMA EvaluationStarts ==
    EvalInit => QuantInv /\ DenseInv /\ RenewalInv
<1> SUFFICES ASSUME EvalInit
             PROVE  QuantInv /\ DenseInv /\ RenewalInv
  OBVIOUS
<1>1. /\ chunkFile = NoChunks /\ command = "none" /\ torn = {}
      /\ outcome.kind = "running" /\ quant = NoQuant
      /\ cache = [f \in Files |-> NoFile]
      /\ dense = NoDense /\ report = NoDense /\ prepared = <<>>
  BY DEF EvalInit, FilesInit, DenseInit, Running
<1>2. NoChunks.part = "missing" /\ NoFile.state = "missing" /\ DOMAIN NoFile = FileFields
  BY DEF NoChunks, NoFile, FileFields
<1>3. DenseShape /\ Saving /\ Current(dense)
      /\ Current(report)
  BY <1>1, NoDenseFields, EmptySeq DEF DenseShape, Saving
<1>4. FilesShape /\ CutForCause /\ Preparing /\ Outcome /\ RefusedForCause
  BY <1>1, <1>2 DEF FilesShape, CutForCause, Preparing, Outcome, RefusedForCause, At
<1>5. RenewalInv
  <2>1. renewed = [f \in Unmarked |-> <<>>]
    BY DEF EvalInit, DenseInit
  <2>2. OnDisk
    BY <1>1, NoDenseFields DEF OnDisk
  <2>3. Relied
    BY <1>1, <2>1, Names, NoDenseFields DEF Relied, Renewed
  <2> QED  BY <2>2, <2>3 DEF RenewalInv
<1> QED  BY <1>1, <1>3, <1>4, <1>5, IdleQuant DEF DenseInv

(* One step of either command, or none. *)
LEMMA EvaluationStepKeeps ==
    ASSUME QuantInv, DenseInv, RenewalInv, [EvalNext]_<<shared, quant, denseVars>>
    PROVE  QuantInv' /\ DenseInv' /\ RenewalInv'
<1>1. CASE /\ QuantStep
           /\ IF command = "none" THEN dense' = NoDense /\ report' = NoDense
                                  ELSE UNCHANGED <<dense, report>>
           /\ UNCHANGED <<cache, prepared, renewed>>
  <2>1. CASE command = "none"
    <3>1. StartQuant
      BY <1>1, <2>1 DEF QuantStep, ReuseChunks, RefuseChunks, BuildChunks, BuildFails,
           WriteSomeRows, WriteLastRow, LoadFails, Load, Embed, EmbedFails,
           StartScoring, Score, Recommend, QuantDies, At
    <3> QED  BY <1>1, <2>1, <3>1, StartedQuant, StartedQuantKeepsDense,
              EmptiedKeepsRenewal
  <2>2. CASE command # "none"
    BY <1>1, <2>2, QuantKeepsQuant, QuantKeepsDense, RenewalUnchanged
  <2> QED  BY <2>1, <2>2
<1>2. CASE DenseStep /\ quant' = IF command = "none" THEN NoQuant ELSE quant
  BY <1>2, DenseKeepsQuant, DenseKeepsDense, DenseKeepsRenewal
<1>3. CASE UNCHANGED <<shared, quant, denseVars>>
  <2>1. UNCHANGED <<setting, chunkFile, command, outcome, torn, quant,
                    cache, dense, report, prepared, renewed>>
    BY <1>3 DEF shared, denseVars
  <2>2. QuantShape' /\ Remade' /\ Queue' /\ RecommendationGrounded'
    BY <2>1 DEF QuantInv, QuantShape, Remade, ChunkSet, Queue, RecommendationGrounded
  <2>3. Table'
    BY <2>1 DEF QuantInv, Table, BaselineRow
  <2>4. DenseShape' /\ FilesShape' /\ Saving' /\ Outcome' /\ CutForCause'
    <3>1. DenseShape' /\ FilesShape' /\ Outcome'
      BY <2>1 DEF DenseInv, DenseShape, FilesShape, Outcome
    <3>2. Saving'
      BY <2>1 DEF DenseInv, Saving, Busy, Made, Readable, File
    <3>3. CutForCause'
      BY <2>1 DEF DenseInv, CutForCause, At, Readable, File
    <3> QED  BY <3>1, <3>2, <3>3
  <2>5. /\ Current(dense)' /\ Current(report)'
        /\ RefusedForCause'
    BY <2>1 DEF DenseInv, Current, RefusedForCause
  <2>6. Preparing'
    BY <2>1 DEF DenseInv, Preparing, Complete, Ahead
  <2> QED  BY <2>1, <2>2, <2>3, <2>4, <2>5, <2>6, RenewalUnchanged DEF QuantInv, DenseInv
<1> QED  BY <1>1, <1>2, <1>3 DEF EvalNext

(***************************************************************************)
(* In every state of an operator's day with the two commands their records *)
(* are in order, whatever was changed, refused or cut short before.        *)
(***************************************************************************)
THEOREM EvaluationInvHolds == EvalSpec => [](QuantInv /\ DenseInv /\ RenewalInv)
<1>1. EvalInit => QuantInv /\ DenseInv /\ RenewalInv
  BY EvaluationStarts
<1>2. QuantInv /\ DenseInv /\ RenewalInv /\ [EvalNext]_<<shared, quant, denseVars>>
        => (QuantInv /\ DenseInv /\ RenewalInv)'
  BY EvaluationStepKeeps
<1> QED  BY <1>1, <1>2, PTL DEF EvalSpec

(***************************************************************************)
(* compare-dense-models ranks its chunks by vectors of these very chunks   *)
(* and has one for each golden query; only the BM25 state of an unforced   *)
(* bge-sparse stage may be of other chunks.                                *)
(***************************************************************************)
THEOREM VectorsAreCurrent == EvalSpec => []CurrentVectors
<1>1. DenseInv => CurrentVectors
  BY DEF DenseInv, Current, CurrentVectors
<1> QED  BY <1>1, EvaluationInvHolds, PTL

(***************************************************************************)
(* One forced comparison is enough: until a command of another backend     *)
(* touches the dense files, or one on other chunks the BM25 state, every   *)
(* report ranks by vectors of its own backend and a state of its own       *)
(* chunks; and the cache of --corpus-root is scored as a whole unless a    *)
(* death cut it short, and anew if that was asked for.                     *)
(***************************************************************************)
THEOREM OneForcedRunSuffices == EvalSpec => []FreshOnceForced
<1>1. QuantInv /\ RenewalInv => FreshOnceForced
  BY DEF QuantInv, RenewalInv, Relied, OriginOf, Remade, FreshOnceForced
<1> QED  BY <1>1, EvaluationInvHolds, PTL

(***************************************************************************)
(* A command that refuses its files does so for a file a death cut short,  *)
(* or for dense caches that no stage completed for its chunks.             *)
(***************************************************************************)
THEOREM RefusalsHaveCause == EvalSpec => []RefusedForCause
<1>1. DenseInv => RefusedForCause
  BY DEF DenseInv
<1> QED  BY <1>1, EvaluationInvHolds, PTL

(***************************************************************************)
(* compare-qwen-quant recommends a variant only on vectors it compared     *)
(* with those of the baseline it names, and leaves none unverified.        *)
(***************************************************************************)
THEOREM RecommendationsAreGrounded == EvalSpec => []RecommendationGrounded
<1>1. QuantInv => RecommendationGrounded
  BY DEF QuantInv
<1> QED  BY <1>1, EvaluationInvHolds, PTL

=============================================================================
