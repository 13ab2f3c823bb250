-------------------------- MODULE SparseTermsProofs --------------------------
(***************************************************************************)
(* Proofs about SparseTerms, for any books, vocabularies and sequences of  *)
(* commands.  Both properties come down to where a stored vector's numbers *)
(* are from: Numbered(T) is what an encoder with vocabulary T can make,    *)
(* and no two of its pairs share a number.                                 *)
(***************************************************************************)
EXTENDS SparseTerms, FiniteSetTheorems, TLAPS

Numbered(T) == {<<Id(T, t), t>> : t \in T}

File == [state : {"absent", "broken", "whole"}, terms : SUBSET Nat]
Coder == [fitted : BOOLEAN, terms : SUBSET Nat]

TypeInv ==
    /\ bm25File \in File /\ rootFile \in File
    /\ DOMAIN stored = Books /\ stored = [b \in Books |-> stored[b]]
    /\ builder \in [step : {"idle", "writing"}, terms : SUBSET Nat]
    /\ run \in [step : {"idle", "ingesting", "saving"}, saves : BOOLEAN,
                left : SUBSET Books, surface : Coder, root : Coder,
                fresh : SUBSET Books]
    /\ server \in [up : BOOLEAN, surface : SUBSET Nat, root : SUBSET Nat]
    /\ perBook \in BOOLEAN /\ refitted \in BOOLEAN
    /\ unsaved \in SUBSET Books

(* With the surface encoder fitted once and first, all that is in use has  *)
(* the vocabulary of the file.                                             *)
SurfaceInv ==
    /\ builder.step = "writing" => bm25File.state = "broken"
    /\ ~perBook /\ ~refitted =>
         /\ bm25File.state # "whole" => ~InUse
         /\ server.up => server.surface = bm25File.terms
         /\ run.step # "idle" => run.surface = Encoder(TRUE, bm25File.terms)
         /\ \A b \in Books : stored[b].surface \subseteq Numbered(bm25File.terms)

(* A run either took its root encoder from the file, or fits it itself:    *)
(* then its fresh books, and no saved one, have vectors of it.             *)
RootInv ==
    /\ ~RootEnabled => rootFile.state = "absent"
    /\ run.step = "saving" => rootFile.state = "broken"
    /\ rootFile.state = "absent" =>
         \A b \in Books \ unsaved : stored[b].root = {}
    /\ rootFile.state = "whole" =>
         \A b \in Books \ unsaved : stored[b].root \subseteq Numbered(rootFile.terms)
    /\ run.step = "ingesting" =>
         /\ rootFile.state # "broken"
         /\ ~run.root.fitted => run.root.terms = {} /\ run.fresh = {}
         /\ run.root.fitted /\ rootFile.state = "whole" =>
              run.root.terms = rootFile.terms /\ run.fresh = {}
         /\ run.root.fitted /\ rootFile.state = "absent" => run.fresh # {}
         /\ rootFile.state = "whole" /\ RootEnabled => run.root.fitted
         /\ \A b \in run.fresh : stored[b].root \subseteq Numbered(run.root.terms)
    /\ run.step = "saving" =>
         \A b \in (Books \ unsaved) \cup run.fresh :
            stored[b].root \subseteq Numbered(run.root.terms)

-------------------------------------------------------------------------------
(* Numbers *)

(* There are finitely many terms below a term. *)
LEMMA FiniteBelow ==
    ASSUME NEW T \in SUBSET Nat, NEW t \in Nat
    PROVE  IsFiniteSet({u \in T : u < t})
<1>1. IsFiniteSet(0..t)
  BY FS_Interval
<1>2. {u \in T : u < t} \subseteq 0..t
  <2>1. ASSUME NEW u \in {v \in T : v < t} PROVE u \in 0..t
    <3>1. u \in Nat /\ u < t
      OBVIOUS
    <3> QED  BY <3>1
  <2> QED  BY <2>1
<1> QED  BY <1>1, <1>2, FS_Subset

(* A greater term has a greater number, whether or not it is in T. *)
LEMMA IdGrows ==
    ASSUME NEW T \in SUBSET Nat, NEW t \in T, NEW u \in Nat, t < u
    PROVE  Id(T, t) \in Nat /\ Id(T, u) \in Nat /\ Id(T, t) < Id(T, u)
<1> DEFINE A == {x \in T : x < t}
           B == {x \in T : x < u}
<1>1. IsFiniteSet(A) /\ IsFiniteSet(B)
  BY FiniteBelow
<1>2. t \notin A /\ A \cup {t} \subseteq B
  <2>1. t \in Nat /\ t \notin A /\ t \in B
    OBVIOUS
  <2>2. ASSUME NEW x \in A PROVE x \in B
    <3>1. x \in T /\ x \in Nat /\ x < t
      OBVIOUS
    <3>2. x < u
      BY <2>1, <3>1
    <3> QED  BY <3>1, <3>2
  <2> QED  BY <2>1, <2>2
<1>3. Cardinality(A \cup {t}) = Cardinality(A) + 1
  BY <1>1, <1>2, FS_AddElement
<1>4. Cardinality(A \cup {t}) <= Cardinality(B)
  BY <1>1, <1>2, FS_Subset
<1>5. Cardinality(A) \in Nat /\ Cardinality(B) \in Nat
  BY <1>1, FS_CardinalityType
<1>6. Id(T, t) = Cardinality(A) /\ Id(T, u) = Cardinality(B)
  BY DEF Id
<1> HIDE DEF A, B
<1> QED  BY <1>3, <1>4, <1>5, <1>6

(* Vectors of one vocabulary are never confused with each other. *)
LEMMA NeverConfused ==
    ASSUME NEW T \in SUBSET Nat, NEW V, V \subseteq Numbered(T)
    PROVE  ~Confused(T, V)
<1> SUFFICES ASSUME NEW t \in T, NEW v \in V, Id(T, t) = v[1], t # v[2]
             PROVE FALSE
  BY DEF Confused
<1>1. PICK u \in T : v = <<Id(T, u), u>>
  BY DEF Numbered
<1>2. t < u \/ u < t
  BY <1>1
<1>3. Id(T, t) # Id(T, u)
  <2>1. CASE t < u
    BY <2>1, IdGrows
  <2>2. CASE u < t
    BY <2>2, IdGrows
  <2> QED  BY <1>2, <2>1, <2>2
<1> QED  BY <1>1, <1>3

(* What an encoder makes bears its numbers. *)
LEMMA EncodeNumbered ==
    ASSUME NEW T, NEW D
    PROVE  Encode(T, D) \subseteq Numbered(T)
  BY DEF Encode, Numbered

-------------------------------------------------------------------------------
(* Types *)

(* The root encoder of a book is one, fitted on it or not. *)
LEMMA RootCoder ==
    ASSUME TypeInv, NEW b \in Books
    PROVE  RootFor(b) \in Coder
  BY TermsAssumption DEF TypeInv, RootFor, Encoder, Coder

(* What loading a file yields. *)
LEMMA LoadedCoder ==
    ASSUME NEW f \in File
    PROVE  Loaded(f) \in Coder /\ Unfitted \in Coder
           /\ (f.state = "whole" => Loaded(f) = Encoder(TRUE, f.terms))
           /\ (f.state # "whole" => Loaded(f) = Unfitted)
  BY DEF Loaded, File, Coder, Encoder, Unfitted

(* Every command and process keeps to the types. *)
LEMMA TypeKept == TypeInv /\ [Next]_vars => TypeInv'
<1> SUFFICES ASSUME TypeInv, [Next]_vars PROVE TypeInv'
  OBVIOUS
<1> USE DEF TypeInv
<1>0. IdleRun \in [step : {"idle", "ingesting", "saving"}, saves : BOOLEAN,
                   left : SUBSET Books, surface : Coder, root : Coder,
                   fresh : SUBSET Books]
  BY DEF IdleRun, Coder, Unfitted, Encoder
<1>1. ASSUME NEW S \in Selections, Build(S) PROVE TypeInv'
  <2>1. UNION {Terms[b] : b \in S} \subseteq Nat
    BY TermsAssumption
  <2>2. refitted' \in BOOLEAN
    BY <1>1 DEF Build
  <2> QED  BY <1>1, <2>1, <2>2 DEF Build, Broken, File
<1>2. ASSUME NEW S \in Selections, NEW saves \in BOOLEAN, StartIngest(S, saves)
      PROVE TypeInv'
  <2>1. S \subseteq Books
    BY TermsAssumption
  <2>2. Loaded(bm25File) \in Coder /\ Loaded(rootFile) \in Coder /\ Unfitted \in Coder
    BY LoadedCoder
  <2>3. perBook' \in BOOLEAN
    BY <1>2 DEF StartIngest
  <2>4. run'.root \in Coder
    BY <1>2, <2>2 DEF StartIngest
  <2> QED  BY <1>2, <2>1, <2>2, <2>3, <2>4 DEF StartIngest
<1>3. CASE FinishBuild \/ DieBuilding
  BY <1>3 DEF FinishBuild, DieBuilding, Whole, File
<1>4. ASSUME NEW b \in Books, IngestBook(b) PROVE TypeInv'
  <2>1. RootFor(b) \in Coder
    BY RootCoder
  <2> HIDE DEF RootFor
  <2> QED  BY <1>4, <2>1 DEF IngestBook
<1>5. CASE EndBenchmark
  BY <1>0, <1>5 DEF EndBenchmark
<1>6. CASE StartSave
  BY <1>0, <1>6 DEF StartSave, Broken, File
<1>7. CASE FinishSave
  BY <1>0, <1>7 DEF FinishSave, Whole, File, Coder
<1>8. CASE DieIngesting
  BY <1>0, <1>8 DEF DieIngesting
<1>9. CASE StartServer
  BY <1>9 DEF StartServer, File
<1>10. CASE StopServer
  BY <1>10 DEF StopServer
<1>11. CASE UNCHANGED vars
  BY <1>11 DEF vars
<1> QED
  BY <1>1, <1>2, <1>3, <1>4, <1>5, <1>6, <1>7, <1>8, <1>9, <1>10, <1>11 DEF Next

-------------------------------------------------------------------------------
(* The surface arm *)

(* Every step keeps what is in use to the vocabulary of the file. *)
LEMMA SurfaceKept == TypeInv /\ SurfaceInv /\ [Next]_vars => SurfaceInv'
<1> SUFFICES ASSUME TypeInv, SurfaceInv, [Next]_vars PROVE SurfaceInv'
  OBVIOUS
<1> USE DEF SurfaceInv
<1>1. ASSUME NEW S \in Selections, Build(S) PROVE SurfaceInv'
  <2>1. refitted' \/ ~InUse
    BY <1>1 DEF Build
  <2>2. CASE refitted'
    BY <1>1, <2>2 DEF Build, Broken
  <2>3. CASE ~InUse
    <3>1. /\ run' = run /\ server' = server /\ stored' = stored
          /\ run.step = "idle" /\ ~server.up
          /\ \A b \in Books : stored[b] = NoVectors
      BY <1>1, <2>3 DEF Build, InUse
    <3> QED  BY <1>1, <3>1 DEF Build, Broken, InUse, NoVectors
  <2> QED  BY <2>1, <2>2, <2>3
<1>2. ASSUME NEW S \in Selections, NEW saves \in BOOLEAN, StartIngest(S, saves)
      PROVE SurfaceInv'
  <2>1. CASE perBook'
    BY <1>2, <2>1 DEF StartIngest
  <2>2. CASE ~perBook'
    <3>1. bm25File.state = "whole" /\ ~perBook
      BY <1>2, <2>2 DEF StartIngest, TypeInv, File
    <3>2. run'.surface = Encoder(TRUE, bm25File.terms)
      BY <1>2, <3>1, LoadedCoder DEF StartIngest, TypeInv
    <3> QED  BY <1>2, <3>1, <3>2 DEF StartIngest
  <2> QED  BY <2>1, <2>2
<1>3. CASE FinishBuild
  <2>1. CASE ~perBook /\ ~refitted
    <3>1. /\ run.step = "idle" /\ ~server.up
          /\ \A b \in Books : stored[b] = NoVectors
      BY <1>3, <2>1 DEF FinishBuild, InUse
    <3> QED  BY <1>3, <3>1 DEF FinishBuild, Whole, NoVectors
  <2>2. CASE perBook \/ refitted
    BY <1>3, <2>2 DEF FinishBuild
  <2> QED  BY <2>1, <2>2
<1>4. CASE DieBuilding
  BY <1>4 DEF DieBuilding, InUse
<1>5. ASSUME NEW b \in Books, IngestBook(b) PROVE SurfaceInv'
  <2>1. CASE ~perBook /\ ~refitted
    <3>1. run.surface = Encoder(TRUE, bm25File.terms) /\ bm25File.state = "whole"
      BY <1>5, <2>1 DEF IngestBook, InUse
    <3>2. SurfaceFor(b) = bm25File.terms
      BY <3>1 DEF SurfaceFor, Encoder
    <3>3. stored'[b].surface = Encode(bm25File.terms, Terms[b])
      BY <1>5, <3>2 DEF IngestBook, TypeInv
    <3>4. \A c \in Books : stored'[c].surface \subseteq Numbered(bm25File.terms)
      <4> TAKE c \in Books
      <4>1. CASE c = b
        BY <3>3, <4>1, EncodeNumbered
      <4>2. CASE c # b
        BY <1>5, <2>1, <4>2 DEF IngestBook, TypeInv
      <4> QED  BY <4>1, <4>2
    <3>5. run'.surface = run.surface
      BY <1>5 DEF IngestBook, TypeInv
    <3> QED  BY <1>5, <2>1, <3>1, <3>4, <3>5 DEF IngestBook
  <2>2. CASE perBook \/ refitted
    BY <1>5, <2>2 DEF IngestBook
  <2> QED  BY <2>1, <2>2
<1>6. CASE EndBenchmark
  BY <1>6 DEF EndBenchmark, IdleRun, InUse
<1>7. CASE StartSave
  <2>1. run'.step # "idle" => run'.surface = run.surface /\ run.step # "idle"
    BY <1>7 DEF StartSave, IdleRun, TypeInv
  <2>2. InUse' => InUse
    BY <1>7, <2>1 DEF StartSave, InUse
  <2> QED  BY <1>7, <2>1, <2>2 DEF StartSave
<1>8. CASE FinishSave
  BY <1>8 DEF FinishSave, IdleRun, InUse
<1>9. CASE DieIngesting
  <2>1. run'.step = "idle" /\ run.step # "idle"
    BY <1>9 DEF DieIngesting, IdleRun
  <2>2. \A b \in Books : stored'[b] = stored[b] \/ stored'[b] = NoVectors
    BY <1>9 DEF DieIngesting, TypeInv
  <2>3. \A b \in Books : stored'[b].surface \subseteq stored[b].surface
                         \/ stored'[b].surface = {}
    BY <2>2 DEF NoVectors
  <2> QED  BY <1>9, <2>1, <2>3 DEF DieIngesting, InUse
<1>10. CASE StartServer
  BY <1>10 DEF StartServer
<1>11. CASE StopServer
  BY <1>11 DEF StopServer, InUse
<1>12. CASE UNCHANGED vars
  BY <1>12 DEF vars, InUse
<1> QED
  BY <1>1, <1>2, <1>3, <1>4, <1>5, <1>6, <1>7, <1>8, <1>9, <1>10, <1>11, <1>12 DEF Next

-------------------------------------------------------------------------------
(* The root arm *)

(* A book is ingested: by the file's encoder, the run's own or a new one. *)
LEMMA RootBook ==
    ASSUME TypeInv, RootInv, NEW b \in Books, IngestBook(b)
    PROVE  RootInv'
<1> DEFINE coder == RootFor(b)
           fresh == IF run.fresh # {} \/ coder # run.root THEN run.fresh \cup {b} ELSE {}
           vector == Encode(coder.terms, Roots[b])
<1>1. /\ run.step = "ingesting" /\ run'.step = "ingesting"
      /\ run'.root = coder /\ run'.fresh = fresh /\ rootFile' = rootFile
      /\ unsaved' = IF fresh = {} THEN unsaved \ {b} ELSE unsaved \cup {b}
      /\ stored'[b].root = vector
      /\ \A c \in Books \ {b} : stored'[c] = stored[c]
  BY DEF IngestBook, TypeInv
<1>2. coder = run.root \/ (~run.root.fitted /\ RootEnabled /\ coder = Encoder(TRUE, Roots[b]))
  BY DEF RootFor
<1>3. vector \subseteq Numbered(coder.terms)
  BY EncodeNumbered
<1>4. coder.terms = {} => vector = {}
  BY DEF Encode
<1>5. CASE coder = run.root /\ run.fresh = {}
  <2>1. fresh = {} /\ unsaved' = unsaved \ {b}
    BY <1>1, <1>5
  <2> HIDE DEF coder, fresh, vector
  <2> QED  BY <1>1, <1>3, <1>4, <1>5, <2>1 DEF RootInv, TypeInv, File
<1>6. CASE coder = run.root /\ run.fresh # {}
  <2>1. fresh = run.fresh \cup {b} /\ unsaved' = unsaved \cup {b}
    BY <1>1, <1>6
  <2>2. \A c \in fresh : c \in Books
    BY <2>1 DEF TypeInv
  <2> HIDE DEF coder, fresh, vector
  <2> QED  BY <1>1, <1>3, <1>6, <2>1, <2>2 DEF RootInv, TypeInv, File
<1>7. CASE coder # run.root
  <2>1. coder = Encoder(TRUE, Roots[b]) /\ ~run.root.fitted /\ RootEnabled
    BY <1>2, <1>7
  <2>2. rootFile.state = "absent" /\ run.fresh = {}
    BY <1>1, <2>1 DEF RootInv, TypeInv, File
  <2>3. fresh = {b} /\ unsaved' = unsaved \cup {b}
    BY <1>1, <1>7, <2>2
  <2>4. coder.fitted
    BY <2>1 DEF Encoder
  <2> HIDE DEF coder, fresh, vector
  <2> QED  BY <1>1, <1>3, <2>2, <2>3, <2>4 DEF RootInv
<1> QED  BY <1>5, <1>6, <1>7

(* Every step keeps root vectors to the encoder that made them. *)
LEMMA RootKept == TypeInv /\ RootInv /\ [Next]_vars => RootInv'
<1> SUFFICES ASSUME TypeInv, RootInv, [Next]_vars PROVE RootInv'
  OBVIOUS
<1>1. CASE UNCHANGED <<rootFile, stored, run, unsaved>>
  BY <1>1 DEF RootInv
<1>2. ASSUME NEW S \in Selections, NEW saves \in BOOLEAN, StartIngest(S, saves)
      PROVE RootInv'
  <2>1. /\ run'.step = "ingesting" /\ run'.fresh = {}
        /\ run'.root = IF RootEnabled THEN Loaded(rootFile) ELSE Unfitted
        /\ UNCHANGED <<rootFile, stored, unsaved>>
        /\ rootFile.state # "broken"
    BY <1>2 DEF StartIngest, RootInv
  <2>2. CASE RootEnabled /\ rootFile.state = "whole"
    BY <2>1, <2>2 DEF RootInv, Loaded, Encoder
  <2>3. CASE ~RootEnabled \/ rootFile.state # "whole"
    BY <2>1, <2>3 DEF RootInv, Loaded, Encoder, Unfitted
  <2> QED  BY <2>2, <2>3
<1>3. ASSUME NEW b \in Books, IngestBook(b) PROVE RootInv'
  BY <1>3, RootBook
<1>4. CASE EndBenchmark
  BY <1>4 DEF EndBenchmark, IdleRun, RootInv
<1>5. CASE StartSave
  <2>1. CASE RootEnabled /\ run.root.fitted
    <3>1. /\ run'.step = "saving" /\ run'.root = run.root /\ run'.fresh = run.fresh
          /\ rootFile'.state = "broken" /\ UNCHANGED <<stored, unsaved>>
          /\ run.step = "ingesting"
      BY <1>5, <2>1 DEF StartSave, Broken, TypeInv
    <3>2. \A b \in (Books \ unsaved) \cup run.fresh :
             stored[b].root \subseteq Numbered(run.root.terms)
      BY <2>1, <3>1 DEF RootInv, TypeInv, File
    <3> QED  BY <2>1, <3>1, <3>2 DEF RootInv
  <2>2. CASE ~(RootEnabled /\ run.root.fitted)
    BY <1>5, <2>2 DEF StartSave, IdleRun, RootInv
  <2> QED  BY <2>1, <2>2
<1>6. CASE FinishSave
  <2>1. /\ rootFile'.state = "whole" /\ rootFile'.terms = run.root.terms
        /\ run'.step = "idle" /\ unsaved' = unsaved \ run.fresh
        /\ stored' = stored /\ run.step = "saving"
    BY <1>6 DEF FinishSave, Whole, IdleRun
  <2>2. RootEnabled
    BY <2>1 DEF RootInv
  <2> QED  BY <2>1, <2>2 DEF RootInv
<1>7. CASE DieIngesting
  <2>1. run'.step = "idle" /\ UNCHANGED <<rootFile, unsaved>>
    BY <1>7 DEF DieIngesting, IdleRun
  <2>2. \A b \in Books : stored'[b] = stored[b] \/ stored'[b] = NoVectors
    BY <1>7 DEF DieIngesting, TypeInv
  <2>3. \A b \in Books : stored'[b].root = stored[b].root \/ stored'[b].root = {}
    BY <2>2 DEF NoVectors
  <2> QED  BY <2>1, <2>3 DEF RootInv
<1> QED
  BY <1>1, <1>2, <1>3, <1>4, <1>5, <1>6, <1>7
     DEF Next, Build, FinishBuild, DieBuilding, StartServer, StopServer, vars

-------------------------------------------------------------------------------
(* The theorems *)

(* Nothing is in use at first, and no file is there. *)
LEMMA TermsInit == Init => TypeInv /\ SurfaceInv /\ RootInv
<1> SUFFICES ASSUME Init PROVE TypeInv /\ SurfaceInv /\ RootInv
  OBVIOUS
<1>1. TypeInv
  BY DEF Init, TypeInv, Absent, File, IdleRun, Unfitted, Encoder, Coder
<1>2. SurfaceInv
  BY DEF Init, SurfaceInv, IdleRun, InUse, NoVectors, Absent
<1>3. RootInv
  BY DEF Init, RootInv, IdleRun, Absent, NoVectors
<1> QED  BY <1>1, <1>2, <1>3

(* The three invariants, for any sequence of commands, deaths and restarts. *)
THEOREM TermsInvHolds == Spec => [](TypeInv /\ SurfaceInv /\ RootInv)
  BY TermsInit, TypeKept, SurfaceKept, RootKept, PTL DEF Spec

(* Fitted once and first, the surface encoder of the query service never   *)
(* takes a query's term for another one in a stored vector.                *)
THEOREM OneFitIsEnough == Spec => []FitOnceSuffices
<1>1. TypeInv /\ SurfaceInv => FitOnceSuffices
  <2> SUFFICES ASSUME TypeInv, SurfaceInv, ~perBook, ~refitted, server.up,
                      NEW b \in Books
               PROVE  ~Confused(server.surface, stored[b].surface)
    BY DEF FitOnceSuffices
  <2>1. server.surface \in SUBSET Nat /\ server.surface = bm25File.terms
    BY DEF TypeInv, SurfaceInv
  <2>2. stored[b].surface \subseteq Numbered(server.surface)
    BY <2>1 DEF SurfaceInv
  <2> QED  BY <2>1, <2>2, NeverConfused
<1> QED  BY <1>1, TermsInvHolds, PTL

(* Only books of a run that ended before its save, or of a benchmark, have *)
(* root vectors that the saved root encoder misreads.                      *)
THEOREM RootLossIsExplained == Spec => []RootLossExplained
<1>1. TypeInv /\ RootInv => RootLossExplained
  <2> SUFFICES ASSUME TypeInv, RootInv, rootFile.state = "whole",
                      NEW b \in Books \ unsaved
               PROVE  ~Confused(rootFile.terms, stored[b].root)
    BY DEF RootLossExplained
  <2>1. rootFile.terms \in SUBSET Nat
    BY DEF TypeInv, File
  <2>2. stored[b].root \subseteq Numbered(rootFile.terms)
    BY DEF RootInv
  <2> QED  BY <2>1, <2>2, NeverConfused
<1> QED  BY <1>1, TermsInvHolds, PTL

=============================================================================
