---------------------------- MODULE ChunkingProofs ----------------------------
(***************************************************************************)
(* What holds of the packing and joining of every text under every policy: *)
(* proofs of the properties of module Packing; that chunk_book packs each  *)
(* of its texts as that module says, so that they hold of every book; and  *)
(* what holds of the chunks of every book: proofs of the properties of     *)
(* module StructuralGate.                                                  *)
(***************************************************************************)
EXTENDS StructuralGate, SequenceTheorems, FiniteSetTheorems, FunctionTheorems,
        WellFoundedInduction, TLAPS

-------------------------------------------------------------------------------
(* One text *)

(* Where the children seen by the second loop end. *)
Reach == IF looked = 0 THEN 0 ELSE children[looked].end

PackTypeOK ==
    /\ WellFormed(text, cuts)
    /\ phase \in {"packing", "joining", "done"}
    /\ children \in Seq([start : Nat, end : Nat])
    /\ pieces \in Seq([start : Nat, end : Nat, count : Nat])
    /\ looked \in 0..Len(children)

(* Children are bounded, start where text is covered already and share     *)
(* little.                                                                 *)
ChildrenChained ==
    /\ children # <<>> => children[1].start = 0
    /\ \A i \in 1..Len(children) :
          /\ children[i].start \in 0..Size /\ children[i].end \in 0..Size
          /\ children[i].start <= children[i].end
          /\ text[children[i].end] <= text[children[i].start] + AtomMax + Overlap
    /\ \A i \in 1..Len(children) - 1 :
          /\ children[i + 1].start <= children[i].end
          /\ children[i].end <= children[i + 1].end
          /\ text[children[i].end] <= text[children[i + 1].start] + Overlap

(* So will current be, once it is closed. *)
CurrentChained ==
    phase = "packing" =>
        /\ Size > 0 /\ pieces = <<>> /\ looked = 0
        /\ taken \in 0..Atoms /\ first \in 1..taken + 1
        /\ taken = 0 \/ first <= taken
        /\ text[cuts[taken + 1]] <= text[cuts[first]] + AtomMax + Overlap
        /\ children = <<>> => cuts[first] = 0
        /\ children # <<>> =>
              /\ cuts[first] <= children[Len(children)].end
              /\ children[Len(children)].end <= cuts[taken + 1]
              /\ text[children[Len(children)].end] <= text[cuts[first]] + Overlap

(* Packing leaves nothing at the end. *)
AllPacked ==
    phase # "packing" =>
        IF Size = 0 THEN children = <<>>
        ELSE children # <<>> /\ children[Len(children)].end = Size

PiecesBounded ==
    /\ \A i \in 1..Len(pieces) :
          /\ pieces[i].start \in 0..Size /\ pieces[i].end \in 0..Size
          /\ pieces[i].start <= pieces[i].end
          /\ text[pieces[i].end] <= text[pieces[i].start] + pieces[i].count
          /\ pieces[i].count <= AtomMax + Overlap
    /\ \A i \in 1..Len(pieces) - 1 :
          text[pieces[i].end] <= text[pieces[i + 1].start] + Overlap

(* Only white space lies between the last piece and Reach. *)
PiecesReach ==
    pieces # <<>> =>
        /\ looked > 0
        /\ pieces[Len(pieces)].end <= Reach
        /\ text[pieces[Len(pieces)].end] = text[Reach]

PiecesCover ==
    /\ \A a \in 1..Reach : text[a - 1] < text[a] =>
          \E i \in 1..Len(pieces) : pieces[i].start < a /\ a <= pieces[i].end
    /\ phase = "done" => looked = Len(children)

PackInv ==
    /\ PackTypeOK
    /\ ChildrenChained
    /\ CurrentChained
    /\ AllPacked
    /\ PiecesBounded
    /\ PiecesReach
    /\ PiecesCover

(* Cuts are places of the text, in their order, one atom from each other. *)
LEMMA CutsInText ==
    ASSUME NEW t, NEW c, WellFormed(t, c)
    PROVE  /\ Len(c) \in Nat \ {0}
           /\ c[Len(c)] \in Nat
           /\ \A i \in 1..Len(c) : c[i] \in 0..c[Len(c)] /\ t[c[i]] \in Nat
           /\ \A i, j \in 1..Len(c) : i <= j => c[i] <= c[j] /\ t[c[i]] <= t[c[j]]
           /\ \A i \in 1..Len(c) - 1 : t[c[i + 1]] <= t[c[i]] + AtomMax
           /\ c[1] = 0
<1>1. /\ c \in Seq(Nat) /\ Len(c) >= 1 /\ c[1] = 0 /\ DOMAIN t = 0..c[Len(c)]
      /\ \A a \in DOMAIN t : t[a] \in Nat
      /\ \A a, b \in DOMAIN t : a <= b => t[a] <= t[b]
      /\ \A i, j \in 1..Len(c) : i < j => c[i] < c[j]
      /\ \A i \in 1..Len(c) - 1 : t[c[i + 1]] <= t[c[i]] + AtomMax
  BY DEF WellFormed
<1>2. Len(c) \in Nat \ {0} /\ \A i \in 1..Len(c) : c[i] \in Nat
  BY <1>1
<1>3. \A i, j \in 1..Len(c) : i <= j => c[i] <= c[j]
  BY <1>1, <1>2
<1>4. \A i \in 1..Len(c) : c[i] \in 0..c[Len(c)]
  BY <1>1, <1>2, <1>3
<1> QED  BY <1>1, <1>2, <1>3, <1>4

(* The tokens before a place do not go down. *)
LEMMA TextMonotone ==
    ASSUME NEW t, NEW c, WellFormed(t, c)
    PROVE  /\ \A a \in 0..c[Len(c)] : t[a] \in Nat
           /\ \A a, b \in 0..c[Len(c)] : a <= b => t[a] <= t[b]
  BY DEF WellFormed

(* The types of single children and pieces. *)
LEMMA ElementTypes ==
    ASSUME PackTypeOK
    PROVE  /\ Len(children) \in Nat /\ Len(pieces) \in Nat
           /\ \A i \in 1..Len(children) : children[i] \in [start : Nat, end : Nat]
           /\ \A i \in 1..Len(pieces) :
                 /\ pieces[i] \in [start : Nat, end : Nat, count : Nat]
                 /\ pieces[i].start \in Nat /\ pieces[i].end \in Nat
                 /\ pieces[i].count \in Nat
           /\ pieces # <<>> => Len(pieces) \in 1..Len(pieces)
<1> DEFINE C == [start : Nat, end : Nat]
           P == [start : Nat, end : Nat, count : Nat]
<1>1. children \in Seq(C) /\ pieces \in Seq(P)
  BY DEF PackTypeOK
<1>2. \A p \in P : p.start \in Nat /\ p.end \in Nat /\ p.count \in Nat
  OBVIOUS
<1> HIDE DEF C, P
<1>3. \A i \in 1..Len(children) : children[i] \in C
  BY <1>1, ElementOfSeq
<1>4. \A i \in 1..Len(pieces) : pieces[i] \in P
  BY <1>1, ElementOfSeq
<1>5. /\ Len(children) \in Nat /\ Len(pieces) \in Nat
      /\ pieces # <<>> => Len(pieces) \in 1..Len(pieces)
  BY <1>1
<1> QED  BY <1>2, <1>3, <1>4, <1>5 DEF C, P

(* What the constants are. *)
LEMMA PolicyFacts ==
    /\ MaxTokens \in Nat /\ SplitTarget \in Nat /\ Overlap \in Nat /\ AtomMax \in Nat
    /\ MaxTokens <= AtomMax /\ SplitTarget <= AtomMax
  BY PolicyAssumption DEF PolicyAssumption

-------------------------------------------------------------------------------
(* Before a text is loaded there is nothing. *)
LEMMA InitInv == PackInit => PackInv
<1> SUFFICES ASSUME PackInit PROVE PackInv  OBVIOUS
<1> USE DEF PackInit
<1>1. Size = 0 /\ Len(cuts) = 1
  BY DEF Size
<1>2. WellFormed(text, cuts)
  BY DEF WellFormed
<1>3. PackTypeOK  BY <1>2 DEF PackTypeOK
<1>4. ChildrenChained /\ CurrentChained /\ AllPacked
  BY <1>1 DEF ChildrenChained, CurrentChained, AllPacked
<1>5. PiecesBounded /\ PiecesReach /\ PiecesCover
  BY DEF PiecesBounded, PiecesReach, PiecesCover, Reach
<1> QED  BY <1>3, <1>4, <1>5 DEF PackInv

(* Each step of the packing keeps the invariant. *)
LEMMA LoadInv == PackInv /\ Load => PackInv'
<1> SUFFICES ASSUME PackInv, Load PROVE PackInv'  OBVIOUS
<1>1. /\ WellFormed(text', cuts') /\ first' = 1 /\ taken' = 0 /\ looked' = 0
      /\ pieces' = <<>>
  BY DEF Load, WellFormed
<1>2. Len(cuts') \in Nat \ {0} /\ Size' \in Nat /\ cuts'[1] = 0
      /\ Size' = cuts'[Len(cuts')]
  BY <1>1, CutsInText DEF Size
<1>3. \A a \in 0..Size' : text'[a] \in Nat
  BY <1>1, <1>2, TextMonotone
<1>4. PiecesBounded' /\ PiecesReach' /\ Reach' = 0
  BY <1>1 DEF PiecesBounded, PiecesReach, Reach
<1>5. CASE Size' = 0 /\ children' = <<>> /\ phase' = "joining"
  <2>1. PackTypeOK'  BY <1>1, <1>5 DEF PackTypeOK
  <2>2. ChildrenChained' /\ CurrentChained' /\ AllPacked'
    BY <1>1, <1>5 DEF ChildrenChained, CurrentChained, AllPacked
  <2>3. PiecesCover'  BY <1>4, <1>5 DEF PiecesCover
  <2> QED  BY <1>4, <2>1, <2>2, <2>3 DEF PackInv
<1>6. CASE /\ Size' > 0 /\ text'[Size'] - text'[0] <= MaxTokens
           /\ children' = <<[start |-> 0, end |-> Size']>> /\ phase' = "joining"
  <2>1. PackTypeOK'  BY <1>1, <1>2, <1>6 DEF PackTypeOK
  <2>2. text'[Size'] <= text'[0] + AtomMax + Overlap
    BY <1>2, <1>3, <1>6, PolicyFacts
  <2>3. ChildrenChained'
    BY <1>2, <1>6, <2>2 DEF ChildrenChained
  <2>4. CurrentChained' /\ AllPacked'
    BY <1>2, <1>6 DEF CurrentChained, AllPacked
  <2>5. PiecesCover'  BY <1>4, <1>6 DEF PiecesCover
  <2> QED  BY <1>4, <2>1, <2>3, <2>4, <2>5 DEF PackInv
<1>7. CASE /\ Size' > 0 /\ children' = <<>> /\ phase' = "packing"
  <2>1. PackTypeOK'  BY <1>1, <1>7 DEF PackTypeOK
  <2>2. ChildrenChained' /\ AllPacked'
    BY <1>7 DEF ChildrenChained, AllPacked
  <2>3. text'[cuts'[1]] \in Nat
    BY <1>2, <1>3
  <2>4. Atoms' \in Nat
    BY <1>2 DEF Atoms
  <2>5. CurrentChained'
    BY <1>1, <1>2, <1>7, <2>3, <2>4, PolicyFacts DEF CurrentChained
  <2>6. PiecesCover'  BY <1>4, <1>7 DEF PiecesCover
  <2> QED  BY <1>4, <2>1, <2>2, <2>5, <2>6 DEF PackInv
<1> QED  BY <1>5, <1>6, <1>7 DEF Load

-------------------------------------------------------------------------------
(* Packing *)

(* What is known of the atoms of the child that is open. *)
LEMMA CurrentFacts ==
    ASSUME PackInv, phase = "packing"
    PROVE  /\ Len(cuts) \in Nat /\ Size = cuts[Len(cuts)] /\ Atoms = Len(cuts) - 1
           /\ taken \in Nat /\ first \in Nat
           /\ first >= 1 /\ first <= taken + 1 /\ taken + 1 <= Len(cuts)
           /\ \A i \in 1..Len(cuts) : cuts[i] \in 0..Size /\ text[cuts[i]] \in Nat
           /\ \A i, j \in 1..Len(cuts) :
                 i <= j => cuts[i] <= cuts[j] /\ text[cuts[i]] <= text[cuts[j]]
           /\ \A i \in 1..Len(cuts) - 1 : text[cuts[i + 1]] <= text[cuts[i]] + AtomMax
           /\ Len(children) \in Nat
           /\ \A i \in 1..Len(children) :
                 children[i].end \in 0..Size /\ text[children[i].end] \in Nat
<1>1. WellFormed(text, cuts) /\ CurrentChained /\ ChildrenChained
      /\ children \in Seq([start : Nat, end : Nat])
  BY DEF PackInv, PackTypeOK
<1>2. Size = cuts[Len(cuts)] /\ Atoms = Len(cuts) - 1
  BY DEF Size, Atoms
<1>3. taken \in 0..Atoms /\ first \in 1..taken + 1
  BY <1>1 DEF CurrentChained
<1>4. \A i \in 1..Len(children) : children[i].end \in 0..Size
  BY <1>1 DEF ChildrenChained
<1>5. \A a \in 0..Size : text[a] \in Nat
  BY <1>1, <1>2, TextMonotone
<1>6. Len(cuts) \in Nat \ {0}
  BY <1>1, CutsInText
<1>7. /\ \A i \in 1..Len(cuts) : cuts[i] \in 0..Size /\ text[cuts[i]] \in Nat
      /\ \A i, j \in 1..Len(cuts) :
            i <= j => cuts[i] <= cuts[j] /\ text[cuts[i]] <= text[cuts[j]]
      /\ \A i \in 1..Len(cuts) - 1 : text[cuts[i + 1]] <= text[cuts[i]] + AtomMax
  BY <1>1, <1>2, CutsInText
<1> QED  BY <1>1, <1>2, <1>3, <1>4, <1>5, <1>6, <1>7

(* The parts about pieces say nothing of what is only packed. *)
LEMMA PackingKeepsPieces ==
    ASSUME PackInv, phase = "packing", phase' \in {"packing", "joining"},
           UNCHANGED <<text, cuts, looked, pieces>>
    PROVE  PiecesBounded' /\ PiecesReach' /\ PiecesCover'
<1>1. pieces = <<>> /\ looked = 0
  BY DEF PackInv, CurrentChained
<1> QED  BY <1>1 DEF PiecesBounded, PiecesReach, PiecesCover, Reach

LEMMA AddInv == PackInv /\ Add => PackInv'
<1> SUFFICES ASSUME PackInv, Add PROVE PackInv'  OBVIOUS
<1>1. /\ phase = "packing" /\ taken < Atoms /\ ~ Full /\ taken' = taken + 1
      /\ UNCHANGED <<text, cuts, joins, phase, first, children, looked, pieces>>
  BY DEF Add
<1>2. PiecesBounded' /\ PiecesReach' /\ PiecesCover'
  BY <1>1, PackingKeepsPieces
<1>3. PackTypeOK' /\ ChildrenChained' /\ AllPacked'
  BY <1>1 DEF PackInv, PackTypeOK, ChildrenChained, AllPacked, Size
<1>4. CurrentChained'
  <2>1. taken + 2 \in 1..Len(cuts) /\ taken + 1 \in 1..Len(cuts) /\ first \in 1..Len(cuts)
    BY <1>1, CurrentFacts
  <2>2. text[cuts[taken + 2]] <= text[cuts[first]] + AtomMax + Overlap
    <3>0. text[cuts[taken + 2]] \in Nat /\ text[cuts[first]] \in Nat
      BY <1>1, <2>1, CurrentFacts
    <3>1. CASE first <= taken
      <4>1. text[cuts[taken + 2]] - text[cuts[first]] <= SplitTarget
        BY <1>1, <3>0, <3>1, PolicyFacts DEF Full, Tokens
      <4> QED  BY <3>0, <4>1, PolicyFacts
    <3>2. CASE first = taken + 1
      <4>1. taken + 1 \in 1..Len(cuts) - 1 /\ (taken + 1) + 1 = taken + 2
        BY <1>1, <2>1, CurrentFacts
      <4>2. text[cuts[(taken + 1) + 1]] <= text[cuts[taken + 1]] + AtomMax
        BY <1>1, <4>1, CurrentFacts
      <4> QED  BY <3>0, <3>2, <4>1, <4>2, PolicyFacts
    <3> QED  BY <1>1, <3>1, <3>2, CurrentFacts
  <2>3. children # <<>> => children[Len(children)].end <= cuts[taken + 2]
    <3>1. cuts[taken + 1] <= cuts[taken + 2]
      BY <1>1, <2>1, CurrentFacts
    <3>2. children # <<>> =>
             /\ children[Len(children)].end <= cuts[taken + 1]
             /\ Len(children) \in 1..Len(children)
      BY <1>1 DEF PackInv, CurrentChained, PackTypeOK
    <3> QED  BY <1>1, <2>1, <3>1, <3>2, CurrentFacts
  <2>4. CurrentChained /\ taken + 2 = taken' + 1
    BY <1>1, CurrentFacts DEF PackInv
  <2>5. first <= taken' /\ taken' \in 0..Atoms' /\ first' \in 1..taken' + 1
    BY <1>1, CurrentFacts DEF Atoms
  <2> QED  BY <1>1, <2>2, <2>3, <2>4, <2>5 DEF CurrentChained, Size
<1> QED  BY <1>2, <1>3, <1>4 DEF PackInv

(* What closing current does to the children. *)
LEMMA CurrentAppended ==
    ASSUME PackInv, phase = "packing", first <= taken,
           children' = Append(children, Current), UNCHANGED <<text, cuts>>
    PROVE  /\ children' \in Seq([start : Nat, end : Nat]) /\ children' # <<>>
           /\ children'[Len(children')].end = cuts[taken + 1]
           /\ ChildrenChained'
<1>1. Current \in [start : Nat, end : Nat]
  BY CurrentFacts DEF Current
<1>2. /\ children' \in Seq([start : Nat, end : Nat])
      /\ Len(children') = Len(children) + 1
      /\ children'[Len(children) + 1] = Current
      /\ \A i \in 1..Len(children) : children'[i] = children[i]
  BY <1>1 DEF PackInv, PackTypeOK
<1>3. /\ Current.start = cuts[first] /\ Current.end = cuts[taken + 1]
      /\ Current.start \in 0..Size /\ Current.end \in 0..Size
      /\ Current.start <= Current.end
      /\ text[Current.end] <= text[Current.start] + AtomMax + Overlap
  <2>1. first \in 1..Len(cuts) /\ taken + 1 \in 1..Len(cuts) /\ first <= taken + 1
    BY CurrentFacts
  <2>2. cuts[first] <= cuts[taken + 1]
    BY <2>1, CurrentFacts
  <2>3. text[cuts[taken + 1]] <= text[cuts[first]] + AtomMax + Overlap
    BY DEF PackInv, CurrentChained
  <2> QED  BY <2>1, <2>2, <2>3, CurrentFacts DEF Current
<1>4. CASE children = <<>>
  <2>1. Current.start = 0
    BY <1>3, <1>4 DEF PackInv, CurrentChained
  <2> QED  BY <1>2, <1>3, <1>4, <2>1, CurrentFacts DEF ChildrenChained, Size
<1>5. CASE children # <<>>
  <2>1. /\ Current.start <= children[Len(children)].end
        /\ children[Len(children)].end <= Current.end
        /\ text[children[Len(children)].end] <= text[Current.start] + Overlap
    BY <1>3, <1>5 DEF PackInv, CurrentChained
  <2>2. Len(children) \in Nat \ {0}
    BY <1>5 DEF PackInv, PackTypeOK
  <2>3. ChildrenChained  BY DEF PackInv
  <2>4. children'[1].start = 0
    BY <1>2, <1>5, <2>2, <2>3 DEF ChildrenChained
  <2>5. \A i \in 1..Len(children') :
          /\ children'[i].start \in 0..Size /\ children'[i].end \in 0..Size
          /\ children'[i].start <= children'[i].end
          /\ text[children'[i].end] <= text[children'[i].start] + AtomMax + Overlap
    BY <1>2, <1>3, <2>2, <2>3 DEF ChildrenChained
  <2>6. \A i \in 1..Len(children') - 1 :
          /\ children'[i + 1].start <= children'[i].end
          /\ children'[i].end <= children'[i + 1].end
          /\ text[children'[i].end] <= text[children'[i + 1].start] + Overlap
    <3> SUFFICES ASSUME NEW i \in 1..Len(children') - 1
                 PROVE  /\ children'[i + 1].start <= children'[i].end
                        /\ children'[i].end <= children'[i + 1].end
                        /\ text[children'[i].end]
                             <= text[children'[i + 1].start] + Overlap
      OBVIOUS
    <3>1. CASE i = Len(children)
      BY <1>2, <2>1, <2>2, <3>1
    <3>2. CASE i < Len(children)
      <4>1. children'[i] = children[i] /\ children'[i + 1] = children[i + 1]
        BY <1>2, <2>2, <3>2
      <4> QED  BY <2>2, <2>3, <3>2, <4>1 DEF ChildrenChained
    <3> QED  BY <1>2, <2>2, <3>1, <3>2
  <2>7. ChildrenChained'
    BY <2>4, <2>5, <2>6 DEF ChildrenChained, Size
  <2> QED  BY <1>2, <1>3, <2>2, <2>7
<1> QED  BY <1>4, <1>5

LEMMA SplitInv == PackInv /\ Split => PackInv'
<1> SUFFICES ASSUME PackInv, Split PROVE PackInv'  OBVIOUS
<1>1. /\ phase = "packing" /\ taken < Atoms /\ first <= taken
      /\ children' = Append(children, Current) /\ taken' = taken + 1
      /\ UNCHANGED <<text, cuts, joins, phase, looked, pieces>>
  BY DEF Split, Full
<1>2. PICK f \in first..(taken + 1) : Carried(f) /\ first' = f
  BY DEF Split
<1>3. PiecesBounded' /\ PiecesReach' /\ PiecesCover'
  BY <1>1, PackingKeepsPieces
<1>4. /\ children' \in Seq([start : Nat, end : Nat]) /\ children' # <<>>
      /\ children'[Len(children')].end = cuts[taken + 1]
      /\ ChildrenChained'
  BY <1>1, CurrentAppended
<1>5. PackTypeOK' /\ AllPacked'
  <2>1. looked = 0 /\ pieces = <<>>
    BY <1>1 DEF PackInv, CurrentChained
  <2> QED  BY <1>1, <1>4, <2>1 DEF PackInv, PackTypeOK, AllPacked
<1>6. CurrentChained'
  <2>1. /\ f \in 1..Len(cuts) /\ taken + 1 \in 1..Len(cuts) /\ taken + 2 \in 1..Len(cuts)
        /\ f <= taken + 1 /\ taken + 2 = taken' + 1 /\ taken + 2 = (taken + 1) + 1
    BY <1>1, <1>2, CurrentFacts
  <2>0. /\ text[cuts[f]] \in Nat /\ text[cuts[taken + 1]] \in Nat
        /\ text[cuts[taken + 2]] \in Nat
    <3>1. \A i \in 1..Len(cuts) : text[cuts[i]] \in Nat
      BY <1>1, CurrentFacts
    <3> QED  BY <2>1, <3>1
  <2>2. text[cuts[taken + 1]] <= text[cuts[f]] + Overlap
    <3>1. text[cuts[taken + 1]] - text[cuts[f]] <= Overlap
      BY <1>2 DEF Carried, Tokens
    <3> QED  BY <2>0, <3>1, PolicyFacts
  <2>3. text[cuts[taken + 2]] <= text[cuts[taken + 1]] + AtomMax
    <3>1. taken + 1 \in 1..Len(cuts) - 1
      BY <1>1, <2>1, CurrentFacts
    <3>2. text[cuts[(taken + 1) + 1]] <= text[cuts[taken + 1]] + AtomMax
      BY <1>1, <3>1, CurrentFacts
    <3> QED  BY <2>1, <3>2
  <2>4. text[cuts[taken + 2]] <= text[cuts[f]] + AtomMax + Overlap
    BY <2>0, <2>2, <2>3, PolicyFacts
  <2>5. cuts[f] <= cuts[taken + 1] /\ cuts[taken + 1] <= cuts[taken + 2]
    BY <1>1, <2>1, CurrentFacts
  <2>6. taken' \in 0..Atoms' /\ first' \in 1..taken' + 1 /\ first' <= taken'
    BY <1>1, <1>2, <2>1, CurrentFacts DEF Atoms
  <2>7. Size > 0 /\ pieces = <<>> /\ looked = 0
    BY <1>1 DEF PackInv, CurrentChained
  <2> QED
    BY <1>1, <1>2, <1>4, <2>1, <2>2, <2>4, <2>5, <2>6, <2>7 DEF CurrentChained, Size
<1> QED  BY <1>3, <1>4, <1>5, <1>6 DEF PackInv

LEMMA CloseInv == PackInv /\ Close => PackInv'
<1> SUFFICES ASSUME PackInv, Close PROVE PackInv'  OBVIOUS
<1>1. /\ phase = "packing" /\ taken = Atoms /\ phase' = "joining"
      /\ UNCHANGED <<text, cuts, joins, first, taken, looked, pieces>>
  BY DEF Close
<1>2. first <= taken
  <2>1. Size > 0 /\ (taken = 0 \/ first <= taken) /\ WellFormed(text, cuts)
    BY <1>1 DEF PackInv, CurrentChained, PackTypeOK
  <2>2. taken # 0
    BY <1>1, <2>1, CutsInText DEF Atoms, Size
  <2> QED  BY <2>1, <2>2
<1>3. children' = Append(children, Current)
  BY <1>2 DEF Close
<1>4. PiecesBounded' /\ PiecesReach' /\ PiecesCover'
  BY <1>1, PackingKeepsPieces
<1>5. /\ children' \in Seq([start : Nat, end : Nat]) /\ children' # <<>>
      /\ children'[Len(children')].end = cuts[taken + 1]
      /\ ChildrenChained'
  BY <1>1, <1>2, <1>3, CurrentAppended
<1>6. PackTypeOK'
  <2>1. looked = 0 /\ pieces = <<>>
    BY <1>1 DEF PackInv, CurrentChained
  <2> QED  BY <1>1, <1>5, <2>1 DEF PackInv, PackTypeOK
<1>7. CurrentChained' /\ AllPacked'
  <2>1. cuts[taken + 1] = Size /\ Size > 0
    BY <1>1, CurrentFacts DEF PackInv, CurrentChained
  <2> QED  BY <1>1, <1>5, <2>1 DEF CurrentChained, AllPacked, Size
<1> QED  BY <1>4, <1>5, <1>6, <1>7 DEF PackInv

-------------------------------------------------------------------------------
(* Joining *)

(* What the second loop looks at next. *)
LEMMA ChildFacts ==
    ASSUME PackInv, Look
    PROVE  /\ looked \in Nat /\ looked' = looked + 1 /\ looked' \in 1..Len(children)
           /\ UNCHANGED <<text, cuts, phase, children>> /\ phase = "joining"
           /\ Child \in [start : Nat, end : Nat]
           /\ Child.start \in 0..Size /\ Child.end \in 0..Size /\ Reach \in 0..Size
           /\ Child.start <= Reach /\ Reach <= Child.end /\ Reach' = Child.end
           /\ text[Child.end] <= text[Child.start] + AtomMax + Overlap
           /\ looked > 0 => text[Reach] <= text[Child.start] + Overlap
           /\ Size \in Nat
           /\ \A a \in 0..Size : text[a] \in Nat
           /\ \A a, b \in 0..Size : a <= b => text[a] <= text[b]
<1>1. /\ looked < Len(children) /\ looked' = looked + 1 /\ phase = "joining"
      /\ UNCHANGED <<text, cuts, phase, children>>
  BY DEF Look
<1>2. /\ looked \in Nat /\ Len(children) \in Nat /\ looked + 1 \in 1..Len(children)
      /\ Child = children[looked + 1]
  BY <1>1 DEF PackInv, PackTypeOK, Child
<1>3. /\ Size \in Nat /\ \A a \in 0..Size : text[a] \in Nat
      /\ \A a, b \in 0..Size : a <= b => text[a] <= text[b]
  BY CutsInText, TextMonotone DEF PackInv, PackTypeOK, Size
<1>4. /\ Child \in [start : Nat, end : Nat]
      /\ Child.start \in 0..Size /\ Child.end \in 0..Size
      /\ Child.start <= Child.end
      /\ text[Child.end] <= text[Child.start] + AtomMax + Overlap
  <2>1. PackTypeOK /\ ChildrenChained
    BY DEF PackInv
  <2>2. Child \in [start : Nat, end : Nat]
    BY <1>2, <2>1, ElementTypes
  <2> QED  BY <1>2, <2>1, <2>2 DEF ChildrenChained
<1>5. Reach' = Child.end
  BY <1>1, <1>2 DEF Reach
<1>6. CASE looked = 0
  <2>1. Child.start = 0
    BY <1>2, <1>6 DEF PackInv, ChildrenChained
  <2> QED  BY <1>1, <1>2, <1>3, <1>4, <1>5, <1>6, <2>1 DEF Reach
<1>7. CASE looked > 0
  <2>1. Reach = children[looked].end /\ looked \in 1..Len(children) - 1
    BY <1>1, <1>2, <1>7 DEF Reach
  <2>2. /\ Child.start <= Reach /\ Reach <= Child.end
        /\ text[Reach] <= text[Child.start] + Overlap
    BY <1>2, <2>1 DEF PackInv, ChildrenChained
  <2>3. Reach \in 0..Size
    BY <2>1, <1>2 DEF PackInv, ChildrenChained
  <2> QED  BY <1>1, <1>2, <1>3, <1>4, <1>5, <2>2, <2>3
<1> QED  BY <1>2, <1>6, <1>7

(* A look at one more child changes nothing of the first three parts. *)
LEMMA LookKeeps ==
    ASSUME PackInv, Look, pieces' \in Seq([start : Nat, end : Nat, count : Nat])
    PROVE  PackTypeOK' /\ ChildrenChained' /\ CurrentChained' /\ AllPacked'
<1>1. /\ looked' \in 0..Len(children) /\ phase = "joining"
      /\ UNCHANGED <<text, cuts, phase, children>>
  BY ChildFacts
<1>2. PackTypeOK'
  BY <1>1 DEF PackInv, PackTypeOK
<1> QED  BY <1>1, <1>2 DEF PackInv, ChildrenChained, CurrentChained, AllPacked, Size

LEMMA DropInv == PackInv /\ Drop => PackInv'
<1> SUFFICES ASSUME PackInv, Drop PROVE PackInv'  OBVIOUS
<1>1. Look /\ Tokens(Child.start, Child.end) = 0 /\ UNCHANGED pieces
  BY DEF Drop, Blank, Count
<1>2. PackTypeOK' /\ ChildrenChained' /\ CurrentChained' /\ AllPacked'
  BY <1>1, LookKeeps DEF PackInv, PackTypeOK
<1>3. text[Child.end] = text[Child.start]
  <2>1. text[Child.end] \in Nat /\ text[Child.start] \in Nat
    BY <1>1, ChildFacts
  <2> QED  BY <1>1, <2>1 DEF Tokens
<1>4. text[Reach] = text[Reach'] /\ text' = text
  <2>1. text[Child.start] <= text[Reach] /\ text[Reach] <= text[Child.end]
    BY <1>1, ChildFacts
  <2>2. text[Child.start] \in Nat /\ text[Reach] \in Nat /\ Reach' = Child.end /\ text' = text
    BY <1>1, ChildFacts
  <2> QED  BY <1>3, <2>1, <2>2
<1>5. PiecesBounded'
  BY <1>1, ChildFacts DEF PackInv, PiecesBounded, Size
<1>6. PiecesReach'
  <2>1. Reach \in Nat /\ Reach' \in Nat /\ Reach <= Reach' /\ looked' > 0
    BY <1>1, ChildFacts
  <2>2. pieces # <<>> => pieces[Len(pieces)].end \in Nat
    BY ElementTypes DEF PackInv
  <2>3. PiecesReach  BY DEF PackInv
  <2> QED  BY <1>1, <1>4, <2>1, <2>2, <2>3 DEF PiecesReach
<1>7. PiecesCover'
  <2>1. phase' # "done" /\ Reach \in 0..Size /\ Reach' \in 0..Size /\ Size \in Nat
    BY <1>1, ChildFacts
  <2>2. ASSUME NEW a \in 1..Reach', text[a - 1] < text[a]
        PROVE  a <= Reach
    <3> SUFFICES ASSUME ~ (a <= Reach) PROVE FALSE  OBVIOUS
    <3>1. a \in 0..Size /\ a - 1 \in 0..Size /\ Reach <= a - 1 /\ a <= Reach'
      BY <2>1, <2>2
    <3>2. text[Reach] <= text[a - 1] /\ text[a] <= text[Reach']
      BY <1>1, <2>1, <3>1, ChildFacts
    <3>3. text[a - 1] \in Nat /\ text[a] \in Nat /\ text[Reach] \in Nat
      BY <1>1, <2>1, <3>1, ChildFacts
    <3> QED  BY <1>4, <2>2, <3>2, <3>3
  <2> QED  BY <1>1, <1>4, <2>1, <2>2 DEF PackInv, PiecesCover
<1> QED  BY <1>2, <1>5, <1>6, <1>7 DEF PackInv

LEMMA KeepInv == PackInv /\ Keep => PackInv'
<1> SUFFICES ASSUME PackInv, Keep PROVE PackInv'  OBVIOUS
<1>1. Look /\ pieces' = Append(pieces, Fragment(Child))
  BY DEF Keep
<1> DEFINE new == Fragment(Child)
<1>2. /\ text[Child.start] \in Nat /\ text[Child.end] \in Nat
      /\ text[Child.start] <= text[Child.end]
      /\ Child.start \in Nat /\ Child.end \in Nat /\ Child.start <= Child.end
      /\ text[Child.end] <= text[Child.start] + AtomMax + Overlap
  BY <1>1, ChildFacts
<1>3. /\ new \in [start : Nat, end : Nat, count : Nat]
      /\ new.start = Child.start /\ new.end = Child.end
      /\ text[new.end] <= text[new.start] + new.count
      /\ new.count <= AtomMax + Overlap
  BY <1>2, PolicyFacts DEF Fragment, Count, Tokens
<1> HIDE DEF new
<1>4. /\ pieces \in Seq([start : Nat, end : Nat, count : Nat])
      /\ pieces' \in Seq([start : Nat, end : Nat, count : Nat])
      /\ Len(pieces) \in Nat /\ Len(pieces') = Len(pieces) + 1 /\ pieces' # <<>>
      /\ pieces'[Len(pieces) + 1] = new
      /\ \A i \in 1..Len(pieces) : pieces'[i] = pieces[i]
  BY <1>1, <1>3 DEF new, PackInv, PackTypeOK
<1>5. PackTypeOK' /\ ChildrenChained' /\ CurrentChained' /\ AllPacked'
  BY <1>1, <1>4, LookKeeps
<1>6. text' = text /\ Size' = Size /\ Reach' = Child.end /\ phase' = "joining" /\ looked' > 0
  BY <1>1, ChildFacts DEF Size
<1>7. PiecesBounded'
  <2>1. \A i \in 1..Len(pieces') :
          /\ pieces'[i].start \in 0..Size /\ pieces'[i].end \in 0..Size
          /\ pieces'[i].start <= pieces'[i].end
          /\ text[pieces'[i].end] <= text[pieces'[i].start] + pieces'[i].count
          /\ pieces'[i].count <= AtomMax + Overlap
    <3>1. new.start \in 0..Size /\ new.end \in 0..Size /\ new.start <= new.end
      BY <1>1, <1>2, <1>3, ChildFacts
    <3>2. PiecesBounded  BY DEF PackInv
    <3> SUFFICES ASSUME NEW i \in 1..Len(pieces')
                 PROVE  /\ pieces'[i].start \in 0..Size /\ pieces'[i].end \in 0..Size
                        /\ pieces'[i].start <= pieces'[i].end
                        /\ text[pieces'[i].end]
                             <= text[pieces'[i].start] + pieces'[i].count
                        /\ pieces'[i].count <= AtomMax + Overlap
      OBVIOUS
    <3>3. CASE i \in 1..Len(pieces)
      <4>1. pieces'[i] = pieces[i]
        BY <1>4, <3>3
      <4> QED  BY <3>2, <3>3, <4>1 DEF PiecesBounded
    <3>4. CASE i = Len(pieces) + 1
      <4>1. pieces'[i] = new
        BY <1>4, <3>4
      <4> QED  BY <1>3, <3>1, <4>1
    <3> QED  BY <1>4, <3>3, <3>4
  <2>2. ASSUME NEW i \in 1..Len(pieces') - 1
        PROVE  text[pieces'[i].end] <= text[pieces'[i + 1].start] + Overlap
    <3>1. CASE i < Len(pieces)
      <4>1. i \in 1..Len(pieces) - 1 /\ i \in 1..Len(pieces) /\ i + 1 \in 1..Len(pieces)
        BY <1>4, <3>1
      <4>3. pieces'[i] = pieces[i] /\ pieces'[i + 1] = pieces[i + 1]
        BY <1>4, <4>1
      <4>2. PiecesBounded  BY DEF PackInv
      <4> QED  BY <4>1, <4>2, <4>3 DEF PiecesBounded
    <3>2. CASE i = Len(pieces)
      <4>1. pieces # <<>> /\ pieces'[i] = pieces[Len(pieces)] /\ pieces'[i + 1] = new
        BY <1>4, <3>2
      <4>2. text[pieces[Len(pieces)].end] = text[Reach] /\ looked > 0
        BY <4>1 DEF PackInv, PiecesReach
      <4>3. text[Reach] <= text[Child.start] + Overlap
        BY <1>1, <4>2, ChildFacts
      <4> QED  BY <1>3, <4>1, <4>2, <4>3
    <3> QED  BY <1>4, <2>2, <3>1, <3>2
  <2> QED  BY <1>6, <2>1, <2>2 DEF PiecesBounded
<1>8. PiecesReach'
  <2>1. pieces'[Len(pieces')] = new
    BY <1>4
  <2> QED  BY <1>2, <1>3, <1>6, <2>1 DEF PiecesReach
<1>9. PiecesCover'
  <2>1. Reach \in Nat /\ Child.start <= Reach
    BY <1>1, ChildFacts
  <2>2. ASSUME NEW a \in 1..Reach', text[a - 1] < text[a]
        PROVE  \E i \in 1..Len(pieces') : pieces'[i].start < a /\ a <= pieces'[i].end
    <3>1. CASE a <= Reach
      <4>1. PICK i \in 1..Len(pieces) : pieces[i].start < a /\ a <= pieces[i].end
        <5>1. a \in 1..Reach
          BY <1>2, <1>6, <2>1, <3>1
        <5>2. PiecesCover  BY DEF PackInv
        <5> QED  BY <2>2, <5>1, <5>2 DEF PiecesCover
      <4>2. i \in 1..Len(pieces') /\ pieces'[i] = pieces[i]
        BY <1>4
      <4> QED  BY <4>1, <4>2
    <3>2. CASE ~ (a <= Reach)
      <4>1. new.start < a /\ a <= new.end
        BY <1>2, <1>3, <1>6, <2>1, <3>2
      <4>2. Len(pieces) + 1 \in 1..Len(pieces')
        BY <1>4
      <4> QED  BY <1>4, <4>1, <4>2
    <3> QED  BY <3>1, <3>2
  <2> QED  BY <1>6, <2>2 DEF PiecesCover
<1> QED  BY <1>5, <1>7, <1>8, <1>9 DEF PackInv

LEMMA JoinInv == PackInv /\ Join => PackInv'
<1> SUFFICES ASSUME PackInv, Join PROVE PackInv'  OBVIOUS
<1> DEFINE n == Len(pieces)
           last == pieces[Len(pieces)]
           new == Merged(pieces[Len(pieces)], Child)
<1>1. /\ Look /\ pieces # <<>> /\ last.count + Count(Child) <= MaxTokens
      /\ pieces' = [pieces EXCEPT ![n] = new]
  BY DEF Join, CanMerge
<1>2. /\ pieces \in Seq([start : Nat, end : Nat, count : Nat])
      /\ n \in Nat /\ n \in 1..n /\ last \in [start : Nat, end : Nat, count : Nat]
  <2>1. PackTypeOK  BY DEF PackInv
  <2> QED  BY <1>1, <2>1, ElementTypes DEF PackTypeOK
<1>3. /\ text[Child.start] \in Nat /\ text[Child.end] \in Nat
      /\ text[Child.start] <= text[Child.end]
      /\ Child.start \in Nat /\ Child.end \in Nat
  BY <1>1, ChildFacts
<1>4. /\ last.start \in 0..Size /\ last.end \in 0..Size /\ last.start <= last.end
      /\ text[last.end] <= text[last.start] + last.count
  BY <1>2 DEF PackInv, PiecesBounded
<1>5. last.end <= Reach /\ text[last.end] = text[Reach]
  BY <1>1 DEF PackInv, PiecesReach
<1>6. text[Child.start] <= text[Reach] /\ Reach <= Child.end /\ Reach \in Nat
      /\ Child.start <= Reach /\ Child.end \in 0..Size
  BY <1>1, ChildFacts
<1>7. text[last.start] \in Nat /\ text[last.end] \in Nat
  BY <1>1, <1>4, ChildFacts
<1>8. /\ new \in [start : Nat, end : Nat, count : Nat]
      /\ new.start = last.start /\ new.end = Child.end
      /\ text[new.end] <= text[new.start] + new.count
      /\ new.count <= AtomMax + Overlap
  <2>1. Count(Child) = text[Child.end] - text[Child.start] /\ Count(Child) \in Nat
    BY <1>3 DEF Count, Tokens
  <2>2. new.count = last.count + Count(Child) /\ new.start = last.start /\ new.end = Child.end
    BY DEF Merged
  <2>3. new \in [start : Nat, end : Nat, count : Nat]
    BY <1>2, <1>3, <2>1 DEF Merged
  <2>4. last.count \in Nat
    BY <1>2
  <2>5. text[Child.end] <= text[last.start] + last.count + Count(Child)
    BY <1>3, <1>4, <1>5, <1>6, <1>7, <2>1, <2>4
  <2>6. last.count + Count(Child) <= AtomMax + Overlap
    BY <1>1, <2>1, <2>4, PolicyFacts
  <2> HIDE DEF new
  <2> QED  BY <1>7, <2>1, <2>2, <2>3, <2>4, <2>5, <2>6
<1> HIDE DEF new
<1>9. /\ pieces' \in Seq([start : Nat, end : Nat, count : Nat])
      /\ Len(pieces') = n /\ pieces' # <<>> /\ pieces'[n] = new
      /\ \A i \in 1..n : i # n => pieces'[i] = pieces[i]
  BY <1>1, <1>2, <1>8
<1>10. PackTypeOK' /\ ChildrenChained' /\ CurrentChained' /\ AllPacked'
  BY <1>1, <1>9, LookKeeps
<1>11. text' = text /\ Size' = Size /\ Reach' = Child.end /\ phase' = "joining" /\ looked' > 0
  BY <1>1, ChildFacts DEF Size
<1> HIDE DEF n, last
<1>12. PiecesBounded'
  <2>1. PiecesBounded  BY DEF PackInv
  <2>2. new.start \in 0..Size /\ new.end \in 0..Size /\ new.start <= new.end
    BY <1>4, <1>5, <1>6, <1>8
  <2>3. \A i \in 1..n :
          /\ pieces'[i].start \in 0..Size /\ pieces'[i].end \in 0..Size
          /\ pieces'[i].start <= pieces'[i].end
          /\ text[pieces'[i].end] <= text[pieces'[i].start] + pieces'[i].count
          /\ pieces'[i].count <= AtomMax + Overlap
    BY <1>8, <1>9, <2>1, <2>2 DEF PiecesBounded, n
  <2>4. \A i \in 1..n - 1 :
          text[pieces'[i].end] <= text[pieces'[i + 1].start] + Overlap
    <3> SUFFICES ASSUME NEW i \in 1..n - 1
                 PROVE  text[pieces'[i].end] <= text[pieces'[i + 1].start] + Overlap
      OBVIOUS
    <3>1. i \in 1..n /\ i # n /\ i + 1 \in 1..n
      BY <1>2
    <3>2. pieces'[i] = pieces[i]
      BY <1>9, <3>1
    <3>3. pieces'[i + 1].start = pieces[i + 1].start
      BY <1>8, <1>9, <3>1 DEF last, n
    <3>4. text[pieces[i].end] <= text[pieces[i + 1].start] + Overlap
      BY <2>1 DEF PiecesBounded, n
    <3> QED  BY <3>2, <3>3, <3>4
  <2> QED  BY <1>9, <1>11, <2>3, <2>4 DEF PiecesBounded
<1>13. PiecesReach'
  BY <1>3, <1>8, <1>9, <1>11 DEF PiecesReach
<1>14. PiecesCover'
  <2>1. ASSUME NEW a \in 1..Reach', text[a - 1] < text[a]
        PROVE  \E i \in 1..n : pieces'[i].start < a /\ a <= pieces'[i].end
    <3>1. CASE a <= Reach
      <4>1. PICK i \in 1..n : pieces[i].start < a /\ a <= pieces[i].end
        <5>1. a \in 1..Reach
          BY <1>3, <1>6, <1>11, <3>1
        <5>2. PiecesCover  BY DEF PackInv
        <5> QED  BY <2>1, <5>1, <5>2 DEF PiecesCover, n
      <4>2. pieces'[i].start < a /\ a <= pieces'[i].end
        <5>1. CASE i = n
          BY <1>2, <1>4, <1>5, <1>6, <1>8, <1>9, <4>1, <5>1 DEF last, n
        <5>2. CASE i # n
          BY <1>9, <4>1, <5>2
        <5> QED  BY <5>1, <5>2
      <4> QED  BY <4>2
    <3>2. CASE ~ (a <= Reach)
      <4>1. new.start < a /\ a <= new.end
        BY <1>3, <1>4, <1>5, <1>6, <1>8, <1>11, <3>2
      <4> QED  BY <1>2, <1>9, <4>1
    <3> QED  BY <3>1, <3>2
  <2> QED  BY <1>9, <1>11, <2>1 DEF PiecesCover
<1> QED  BY <1>10, <1>12, <1>13, <1>14 DEF PackInv

LEMMA FinishInv == PackInv /\ Finish => PackInv'
  BY DEF PackInv, Finish, PackTypeOK, ChildrenChained, CurrentChained, AllPacked,
         PiecesBounded, PiecesReach, PiecesCover, Reach, Size

LEMMA StutterInv == PackInv /\ UNCHANGED packVars => PackInv'
  BY DEF packVars, PackInv, PackTypeOK, ChildrenChained, CurrentChained, AllPacked,
         PiecesBounded, PiecesReach, PiecesCover, Reach, Size, Atoms

-------------------------------------------------------------------------------
(* The inductive invariant: children overlap little and leave no gap, and   *)
(* pieces cover all words up to the last child that was looked at.          *)
THEOREM Packed == PackSpec => []PackInv
<1>1. PackInit => PackInv
  BY InitInv
<1>2. PackInv /\ [PackNext]_packVars => PackInv'
  BY LoadInv, AddInv, SplitInv, CloseInv, DropInv, KeepInv, JoinInv, FinishInv,
     StutterInv DEF PackNext, PackStep
<1> QED  BY <1>1, <1>2, PTL DEF PackSpec

(* Under every policy and for every text, a chunk has at most one atom and  *)
(* one overlap more than fits.                                              *)
THEOREM PiecesLimited == PackSpec => []PieceLimit
<1>1. PackInv => PieceLimit
  <2> SUFFICES ASSUME PackInv, NEW i \in 1..Len(pieces)
               PROVE  Tokens(pieces[i].start, pieces[i].end) <= AtomMax + Overlap
    BY DEF PieceLimit
  <2>1. /\ text[pieces[i].end] <= text[pieces[i].start] + pieces[i].count
        /\ pieces[i].count <= AtomMax + Overlap
        /\ pieces[i].start \in 0..Size /\ pieces[i].end \in 0..Size
    BY DEF PackInv, PiecesBounded
  <2>2. pieces[i].count \in Nat
    BY ElementTypes DEF PackInv
  <2>3. text[pieces[i].end] \in Nat /\ text[pieces[i].start] \in Nat
    BY <2>1, TextMonotone DEF PackInv, PackTypeOK, Size
  <2> QED  BY <2>1, <2>2, <2>3, PolicyFacts DEF Tokens
<1> QED  BY <1>1, Packed, PTL

(* Two neighbouring chunks of a text share no more than the overlap.        *)
THEOREM NeighboursShareLittle == PackSpec => []LittleShared
<1>1. PackInv => LittleShared
  BY DEF PackInv, PiecesBounded, LittleShared
<1> QED  BY <1>1, Packed, PTL

(* However a text is packed, dropped and joined, each word is in a chunk.   *)
THEOREM NoWordLost == PackSpec => []NothingLost
<1>1. PackInv => NothingLost
  <2> SUFFICES ASSUME PackInv, phase = "done", NEW a \in 1..Size, text[a - 1] < text[a]
               PROVE  \E i \in 1..Len(pieces) : pieces[i].start < a /\ a <= pieces[i].end
    BY DEF NothingLost
  <2>1. Size \in Nat
    BY CutsInText DEF PackInv, PackTypeOK, Size
  <2>2. children # <<>> /\ children[Len(children)].end = Size /\ looked = Len(children)
    BY <2>1 DEF PackInv, AllPacked, PiecesCover
  <2>3. Reach = Size
    BY <2>2 DEF Reach, PackInv, PackTypeOK
  <2> QED  BY <2>3 DEF PackInv, PiecesCover
<1> QED  BY <1>1, Packed, PTL

-------------------------------------------------------------------------------
(* A book *)

(* Each step of chunk_book drives the packing as it lets itself be driven. *)
LEMMA StepPacks ==
    ASSUME Next
    PROVE  PackNext \/ UNCHANGED packVars
<1>1. CASE OpenPage
  BY <1>1 DEF OpenPage
<1>2. CASE NextSegment
  BY <1>2 DEF NextSegment, LoadText, PackNext
<1>3. CASE Pack
  BY <1>3 DEF Pack, PackNext
<1>4. CASE EmitBody \/ EmitFootnotes
  BY <1>4 DEF EmitBody, EmitFootnotes, Emit
<1>5. CASE OpenFootnotes
  BY <1>5 DEF OpenFootnotes, LoadText, PackNext
<1>6. CASE NoFootnotes
  BY <1>6 DEF NoFootnotes
<1>7. CASE Store
  BY <1>7 DEF Store
<1> QED  BY <1>1, <1>2, <1>3, <1>4, <1>5, <1>6, <1>7 DEF Next

(* Every step of chunk_book is a step of the packing of one text, or leaves *)
(* that packing alone.                                                      *)
THEOREM BookPacked == Spec => PackSpec
<1>1. Init => PackInit
  BY DEF Init
<1>2. [Next]_vars => [PackNext]_packVars
  BY StepPacks DEF vars
<1> QED  BY <1>1, <1>2, PTL DEF Spec, PackSpec

(* Of every book and under every policy: chunks are bounded, neighbours     *)
(* share little and no word of a text is lost between them.                 *)
THEOREM BookLosesNoWord == Spec => [](PieceLimit /\ LittleShared /\ NothingLost)
  BY BookPacked, PiecesLimited, NeighboursShareLittle, NoWordLost, PTL

-------------------------------------------------------------------------------
(* Numbers and order *)

(* A set of natural numbers has a least one. *)
LEMMA LeastNumber ==
    ASSUME NEW S \in SUBSET Nat, S # {}
    PROVE  \E i \in S : \A j \in S : i <= j
<1> DEFINE R == OpToRel(<, Nat)
<1>1. \A i, j \in Nat : j < i => <<j, i>> \in R
  BY DEF OpToRel
<1>2. IsWellFoundedOn(R, Nat)
  BY NatLessThanWellFounded
<1> HIDE DEF R
<1>3. PICK i \in S : \A j \in S : ~ (<<j, i>> \in R)
  BY <1>2, WFMin
<1>4. ASSUME NEW j \in S
      PROVE  i <= j
  <2>1. i \in Nat /\ j \in Nat
    OBVIOUS
  <2>2. ~ (j < i)
    BY <1>1, <1>3, <2>1
  <2> QED  BY <2>1, <2>2
<1> QED  BY <1>4

(* So Least finds it. *)
LEMMA LeastFound ==
    ASSUME NEW S \in SUBSET Nat, S # {}
    PROVE  Least(S) \in S /\ \A a \in S : Least(S) <= a
  BY LeastNumber DEF Least

(* Numbers up to n have a greatest one. *)
LEMMA GreatestFound ==
    ASSUME NEW n \in Nat, NEW S \in SUBSET (0..n), S # {}
    PROVE  Max(S) \in S /\ \A a \in S : a <= Max(S)
<1> DEFINE L == {n - a : a \in S}
<1>0. \A a \in S : a \in Nat /\ a <= n /\ n - a \in Nat
  OBVIOUS
<1>1. L \in SUBSET Nat /\ L # {}
  BY <1>0
<1>2. PICK l \in L : \A j \in L : l <= j
  <2> HIDE DEF L
  <2> QED  BY <1>1, LeastNumber
<1>3. PICK m \in S : l = n - m
  OBVIOUS
<1>4. \A a \in S : m >= a
  <2> TAKE a \in S
  <2>1. n - a \in L
    OBVIOUS
  <2>2. n - m <= n - a /\ a \in Nat /\ m \in Nat
    BY <1>0, <1>2, <1>3, <2>1
  <2> QED  BY <2>2
<1>5. Max(S) \in S /\ \A a \in S : Max(S) >= a
  BY <1>4 DEF Max
<1> QED  BY <1>5

(* An order of a set in which no two members are equal. *)
IsStrictOrder(R, S) ==
    /\ \A a \in S : <<a, a>> \notin R
    /\ \A a, b \in S : a # b => <<a, b>> \in R \/ <<b, a>> \in R
    /\ \A a, b, c \in S : <<a, b>> \in R /\ <<b, c>> \in R => <<a, c>> \in R

(* A finite set is enumerated once, in its order. *)
LEMMA Enumerated ==
    ASSUME NEW S, IsFiniteSet(S), NEW R, IsStrictOrder(R, S)
    PROVE  /\ Cardinality(S) \in Nat
           /\ DOMAIN Enumerate(S, R) = 1..Cardinality(S)
           /\ \A i \in 1..Cardinality(S) : Enumerate(S, R)[i] \in S
           /\ \A a \in S : \E i \in 1..Cardinality(S) : Enumerate(S, R)[i] = a
           /\ \A i, j \in 1..Cardinality(S) :
                 i < j => <<Enumerate(S, R)[i], Enumerate(S, R)[j]>> \in R
<1> DEFINE n == Cardinality(S)
           below(a) == {b \in S : <<b, a>> \in R}
           rank(a) == Cardinality(below(a))
<1>1. n \in Nat
  BY FS_CardinalityType
<1>2. \A a \in S : IsFiniteSet(below(a)) /\ rank(a) \in Nat
  <2> TAKE a \in S
  <2>1. below(a) \in SUBSET S
    OBVIOUS
  <2> HIDE DEF below
  <2> QED  BY <2>1, FS_Subset, FS_CardinalityType
<1>3. \A a, b \in S : <<a, b>> \in R => rank(a) < rank(b)
  <2> SUFFICES ASSUME NEW a \in S, NEW b \in S, <<a, b>> \in R PROVE rank(a) < rank(b)
    OBVIOUS
  <2>1. below(a) \subseteq below(b) /\ a \in below(b) /\ a \notin below(a)
    BY DEF IsStrictOrder
  <2>2. IsFiniteSet(below(b)) /\ rank(a) \in Nat /\ rank(b) \in Nat
    BY <1>2
  <2> HIDE DEF below
  <2>3. rank(a) <= rank(b) /\ rank(a) # rank(b)
    BY <2>1, <2>2, FS_Subset
  <2> HIDE DEF rank
  <2> QED  BY <2>2, <2>3
<1>4. \A a \in S : rank(a) < n
  <2> TAKE a \in S
  <2>1. below(a) \subseteq S /\ a \notin below(a)
    BY DEF IsStrictOrder
  <2>2. rank(a) \in Nat
    BY <1>2
  <2> HIDE DEF below
  <2>3. rank(a) <= n /\ rank(a) # n
    BY <2>1, FS_Subset
  <2> HIDE DEF rank, n
  <2> QED  BY <1>1, <2>2, <2>3
<1> HIDE DEF below, rank, n
<1>5. \A a, b \in S : rank(a) = rank(b) => a = b
  <2> SUFFICES ASSUME NEW a \in S, NEW b \in S, rank(a) = rank(b), a # b PROVE FALSE
    OBVIOUS
  <2>1. rank(a) < rank(b) \/ rank(b) < rank(a)
    BY <1>3 DEF IsStrictOrder
  <2> QED  BY <1>2, <2>1
<1> DEFINE f == [a \in S |-> rank(a) + 1]
<1>6. f \in Injection(S, 1..n)
  <2>1. \A a \in S : f[a] = rank(a) + 1 /\ f[a] \in 1..n
    BY <1>1, <1>2, <1>4
  <2>2. f \in [S -> 1..n]
    BY <2>1
  <2>3. \A a, b \in S : f[a] = f[b] => a = b
    BY <2>1, <1>2, <1>5
  <2> HIDE DEF f
  <2> QED  BY <2>2, <2>3 DEF Injection, IsInjective
<1>7. f \in Surjection(S, 1..n)
  <2>1. IsFiniteSet(1..n) /\ Cardinality(1..n) = n
    BY <1>1, FS_Interval
  <2> HIDE DEF f
  <2> QED  BY <1>6, <2>1, FS_Injection DEF n
<1>8. \A i \in 1..n : \E a \in S : rank(a) = i - 1
  <2> TAKE i \in 1..n
  <2>1. PICK a \in S : f[a] = i
    <3> HIDE DEF f
    <3> QED  BY <1>7 DEF Surjection
  <2>2. rank(a) + 1 = i
    BY <2>1
  <2> QED  BY <1>1, <1>2, <2>2
<1> HIDE DEF f
<1> DEFINE e(i) == CHOOSE a \in S : rank(a) = i - 1
<1>9. \A i \in 1..n : e(i) \in S /\ rank(e(i)) = i - 1
  BY <1>8
<1>10. Enumerate(S, R) = [i \in 1..n |-> e(i)]
  BY DEF Enumerate, rank, below, n
<1> HIDE DEF e
<1>11. \A a \in S : \E i \in 1..n : e(i) = a
  <2> TAKE a \in S
  <2> DEFINE k == rank(a) + 1
  <2>1. k \in 1..n /\ k - 1 = rank(a)
    BY <1>1, <1>2, <1>4
  <2> HIDE DEF k
  <2>2. e(k) \in S /\ rank(e(k)) = k - 1
    BY <1>9, <2>1
  <2> QED  BY <1>5, <2>1, <2>2
<1>12. \A i, j \in 1..n : i < j => <<e(i), e(j)>> \in R
  <2> SUFFICES ASSUME NEW i \in 1..n, NEW j \in 1..n, i < j PROVE <<e(i), e(j)>> \in R
    OBVIOUS
  <2>1. /\ e(i) \in S /\ e(j) \in S
        /\ rank(e(i)) = i - 1 /\ rank(e(j)) = j - 1 /\ i \in Int /\ j \in Int
    BY <1>1, <1>9
  <2>2. e(i) # e(j)
    BY <2>1
  <2>3. ~ (rank(e(j)) < rank(e(i)))
    BY <2>1
  <2>4. <<e(j), e(i)>> \notin R
    BY <1>3, <2>1, <2>3
  <2> QED  BY <2>1, <2>2, <2>4 DEF IsStrictOrder
<1> QED  BY <1>1, <1>9, <1>10, <1>11, <1>12 DEF n

(* A finite set of numbers is sorted. *)
LEMMA SortedFacts ==
    ASSUME NEW S \in SUBSET Nat, IsFiniteSet(S)
    PROVE  /\ Cardinality(S) \in Nat
           /\ DOMAIN Sorted(S) = 1..Cardinality(S)
           /\ \A i \in 1..Cardinality(S) : Sorted(S)[i] \in S
           /\ \A a \in S : \E i \in 1..Cardinality(S) : Sorted(S)[i] = a
           /\ \A i, j \in 1..Cardinality(S) : i < j => Sorted(S)[i] < Sorted(S)[j]
<1> DEFINE R == {p \in S \X S : p[1] < p[2]}
<1>1. \A a, b \in S : <<a, b>> \in R <=> a < b
  OBVIOUS
<1>2. IsStrictOrder(R, S)
  <2> HIDE DEF R
  <2> QED  BY <1>1 DEF IsStrictOrder
<1>3. Sorted(S) = Enumerate(S, R)
  BY DEF Sorted
<1> HIDE DEF R
<1> DEFINE n == Cardinality(S)
           s == Enumerate(S, R)
<1>4. /\ n \in Nat /\ DOMAIN s = 1..n
      /\ \A i \in 1..n : s[i] \in S
      /\ \A a \in S : \E i \in 1..n : s[i] = a
      /\ \A i, j \in 1..n : i < j => <<s[i], s[j]>> \in R
  BY <1>2, Enumerated
<1> HIDE DEF n, s
<1>5. \A i, j \in 1..n : i < j => s[i] < s[j]
  BY <1>1, <1>4
<1> QED  BY <1>3, <1>4, <1>5 DEF n, s

(* What is listed of a sequence at some of its places. *)
LEMMA ListedFacts ==
    ASSUME NEW s, NEW m \in Nat, DOMAIN s = 1..m, NEW T \in SUBSET (1..m)
    PROVE  /\ Cardinality(T) \in Nat
           /\ DOMAIN Listed(s, Sorted(T)) = 1..Cardinality(T)
           /\ Len(Listed(s, Sorted(T))) = Cardinality(T)
           /\ \A i \in 1..Cardinality(T) : \E j \in T : Listed(s, Sorted(T))[i] = s[j]
<1>1. T \in SUBSET Nat
  OBVIOUS
<1>2. IsFiniteSet(T)
  <2>1. IsFiniteSet(1..m)
    BY FS_Interval
  <2> QED  BY <2>1, FS_Subset
<1> DEFINE n == Cardinality(T)
           o == Sorted(T)
<1>3. n \in Nat /\ DOMAIN o = 1..n /\ \A i \in 1..n : o[i] \in T
  BY <1>1, <1>2, SortedFacts
<1> HIDE DEF n, o
<1>4. Listed(s, o) = [i \in 1..n |-> s[o[i]]]
  BY <1>3 DEF Listed
<1>5. Len(Listed(s, o)) = n
  BY <1>3, <1>4
<1>6. DOMAIN Listed(s, o) = 1..n /\ \A i \in 1..n : Listed(s, o)[i] = s[o[i]]
  BY <1>4
<1> QED  BY <1>3, <1>5, <1>6 DEF n, o

(* The values of a function on a finite set are finitely many. *)
LEMMA FiniteValues ==
    ASSUME NEW f, IsFiniteSet(DOMAIN f)
    PROVE  IsFiniteSet({f[x] : x \in DOMAIN f})
<1> DEFINE T == {f[x] : x \in DOMAIN f}
           g == [x \in DOMAIN f |-> f[x]]
<1>1. g \in Surjection(DOMAIN f, T)
  BY DEF Surjection
<1> HIDE DEF T, g
<1> QED  BY <1>1, FS_Surjection DEF T

(* The members of a finite set, put in any order. *)
LEMMA SetToSeqFacts ==
    ASSUME NEW S, IsFiniteSet(S)
    PROVE  /\ Cardinality(S) \in Nat
           /\ DOMAIN SetToSeq(S) = 1..Cardinality(S)
           /\ \A i \in 1..Cardinality(S) : SetToSeq(S)[i] \in S
           /\ \A a \in S : \E i \in 1..Cardinality(S) : SetToSeq(S)[i] = a
<1> DEFINE n == Cardinality(S)
<1>1. n \in Nat /\ \E f \in Bijection(1..n, S) : TRUE
  BY FS_CardinalityType DEF ExistsBijection
<1>2. IsFiniteSet(1..n) /\ Cardinality(1..n) = n
  <2> HIDE DEF n
  <2> QED  BY <1>1, FS_Interval
<1>3. SetToSeq(S) \in [1..n -> S] /\ IsInjective(SetToSeq(S))
  <2>1. \E f \in [1..n -> S] : IsInjective(f)
    BY <1>1 DEF Bijection, Injection, IsInjective
  <2> QED  BY <2>1 DEF SetToSeq
<1> DEFINE s == SetToSeq(S)
<1> HIDE DEF s
<1>4. s \in Injection(1..n, S)
  BY <1>3 DEF s, Injection, IsInjective
<1>5. s \in Surjection(1..n, S)
  BY <1>2, <1>4, FS_Injection
<1> QED  BY <1>1, <1>3, <1>5 DEF Surjection, s

-------------------------------------------------------------------------------
(* Ladders and segments *)

(* Boundaries at places of a text of n units. *)
IsLadder(bs, n) ==
    \E m \in Nat : DOMAIN bs = 1..m /\ \A i \in 1..m : bs[i].at \in 0..n

(* What a text and a table of contents are. *)
IsText(units) == units \in Seq(ToSet(units)) /\ \A u \in ToSet(units) : u.tokens \in Nat

IsToc(toc) ==
    /\ toc \in Seq(ToSet(toc))
    /\ \A e \in ToSet(toc) :
          /\ e.id \in Nat /\ e.page \in Nat /\ e.shamela \in Nat \ {None}
          /\ e.title \in Seq(ToSet(e.title))

(* A set of boundaries of a text is a ladder in any order. *)
LEMMA SetIsLadder ==
    ASSUME NEW n \in Nat, NEW S, IsFiniteSet(S), \A b \in S : b.at \in 0..n
    PROVE  IsLadder(SetToSeq(S), n) /\ ToSet(SetToSeq(S)) = S
  BY SetToSeqFacts DEF IsLadder, ToSet

(* What spans and titles begin in a text are finitely many boundaries of it. *)
LEMMA InlineFacts ==
    ASSUME NEW units, IsText(units)
    PROVE  /\ IsFiniteSet(Inline(units))
           /\ \A b \in Inline(units) : b.at \in 0..Len(units)
<1> DEFINE n == Len(units)
           spans == Starts(units, "span")
           titles == Starts(units, "title")
           f == [a \in spans |-> Boundary(a, "inline_toc", units[a + 1].id, units[a + 1].name)]
           g == [a \in titles |-> Boundary(a, "inline_title", None, <<>>)]
<1>1. n \in Nat
  BY DEF IsText
<1>2. spans \subseteq 0..n /\ titles \subseteq 0..n
  BY <1>1 DEF Starts
<1>3. IsFiniteSet(0..n)
  BY <1>1, FS_Interval
<1>4. IsFiniteSet(spans) /\ IsFiniteSet(titles)
  BY <1>2, <1>3, FS_Subset
<1>5. Inline(units) = {f[a] : a \in DOMAIN f} \cup {g[a] : a \in DOMAIN g}
  BY DEF Inline
<1>6. DOMAIN f = spans /\ DOMAIN g = titles
  OBVIOUS
<1>7. (\A a \in spans : f[a].at = a) /\ (\A a \in titles : g[a].at = a)
  BY DEF Boundary
<1> HIDE DEF f, g, spans, titles, n
<1>8. IsFiniteSet(Inline(units))
  BY <1>4, <1>5, <1>6, FiniteValues, FS_Union
<1>9. ASSUME NEW b \in Inline(units)
      PROVE  b.at \in 0..n
  <2>1. CASE b \in {f[a] : a \in DOMAIN f}
    <3>1. PICK a \in spans : b = f[a]
      BY <1>6, <2>1
    <3> QED  BY <1>2, <1>7, <3>1
  <2>2. CASE b \in {g[a] : a \in DOMAIN g}
    <3>1. PICK a \in titles : b = g[a]
      BY <1>6, <2>2
    <3> QED  BY <1>2, <1>7, <3>1
  <2> QED  BY <1>5, <2>1, <2>2
<1> QED  BY <1>8, <1>9 DEF n

(* A ladder goes on with another one. *)
LEMMA LaddersJoin ==
    ASSUME NEW n \in Nat, NEW k \in Nat, NEW s, NEW t,
           s = [i \in 1..k |-> s[i]], \A i \in 1..k : s[i].at \in 0..n,
           NEW m \in Nat, t = [i \in 1..m |-> t[i]], \A i \in 1..m : t[i].at \in 0..n
    PROVE  IsLadder(s \o t, n)
<1> DEFINE B == {s[i] : i \in 1..k} \cup {t[i] : i \in 1..m}
<1>1. \A b \in B : b.at \in 0..n
  OBVIOUS
<1>2. s \in Seq(B) /\ Len(s) = k /\ t \in Seq(B) /\ Len(t) = m
  OBVIOUS
<1> HIDE DEF B
<1> DEFINE st == s \o t
<1>3. st \in Seq(B) /\ Len(st) = k + m
  BY <1>2, ConcatProperties
<1> HIDE DEF st
<1>4. DOMAIN st = 1..(k + m) /\ \A i \in 1..(k + m) : st[i] \in B
  BY <1>3
<1>5. k + m \in Nat
  OBVIOUS
<1> QED  BY <1>1, <1>4, <1>5 DEF IsLadder, st

(* Recovered titles and the fallback make a ladder. *)
LEMMA TocLadderFacts ==
    ASSUME NEW units, IsText(units), NEW toc, NEW m \in Nat, DOMAIN toc = 1..m,
           \A i \in 1..m : Len(toc[i].title) \in Nat
    PROVE  IsLadder(TocLadder(units, toc), Len(units))
<1> DEFINE n == Len(units)
           hits == {i \in DOMAIN toc : toc[i].title # <<>> /\ Found(units, toc[i].title) # {}}
           matched == Listed(toc, Sorted(hits))
           rest == Listed(toc, Sorted(DOMAIN toc \ hits))
           s == [i \in DOMAIN matched |-> Recovered(units, matched[i])]
           t == Fallback(rest)
<1>1. n \in Nat
  BY DEF IsText
<1>2. hits \in SUBSET (1..m) /\ DOMAIN toc \ hits \in SUBSET (1..m)
  OBVIOUS
<1>3. \A j \in hits : Recovered(units, toc[j]).at \in 0..n
  <2> TAKE j \in hits
  <2>1. Found(units, toc[j].title) \subseteq 0..n /\ Found(units, toc[j].title) # {}
    BY <1>1 DEF Found
  <2>2. Found(units, toc[j].title) \in SUBSET Nat
    BY <2>1
  <2>3. Least(Found(units, toc[j].title)) \in 0..n
    BY <2>1, <2>2, LeastFound
  <2> QED  BY <2>3 DEF Recovered, Boundary
<1> HIDE DEF hits
<1>4. PICK k \in Nat : DOMAIN matched = 1..k /\ \A i \in 1..k : \E j \in hits : matched[i] = toc[j]
  <2> DEFINE k == Cardinality(hits)
  <2>1. k \in Nat /\ DOMAIN matched = 1..k /\ \A i \in 1..k : \E j \in hits : matched[i] = toc[j]
    BY <1>2, ListedFacts
  <2> HIDE DEF k, matched
  <2> QED  BY <2>1
<1>5. Len(rest) \in Nat
  BY <1>2, ListedFacts
<1> HIDE DEF matched, rest
<1>6. s = [i \in 1..k |-> s[i]] /\ \A i \in 1..k : s[i].at \in 0..n
  <2>1. \A i \in 1..k : Recovered(units, matched[i]).at \in 0..n
    BY <1>3, <1>4
  <2> QED  BY <1>4, <2>1
<1>7. \E l \in Nat : t = [i \in 1..l |-> t[i]] /\ \A i \in 1..l : t[i].at \in 0..n
  <2>1. CASE Len(rest) = 0
    <3>1. t = <<>>
      BY <2>1 DEF Fallback
    <3>2. t = [i \in 1..0 |-> t[i]] /\ \A i \in 1..0 : t[i].at \in 0..n
      BY <3>1
    <3> HIDE DEF t
    <3> QED  BY <3>2
  <2>2. ASSUME NEW b, t = <<b>>, b.at = 0
        PROVE  \E l \in Nat : t = [i \in 1..l |-> t[i]] /\ \A i \in 1..l : t[i].at \in 0..n
    <3>1. t = [i \in 1..1 |-> t[i]] /\ \A i \in 1..1 : t[i].at \in 0..n
      BY <1>1, <2>2
    <3> QED  BY <3>1
  <2>3. CASE Len(rest) = 1
    <3> DEFINE b == Boundary(0, "toc_page_fallback", rest[1].shamela, rest[1].title)
    <3>1. t = <<b>> /\ b.at = 0
      BY <2>3 DEF Fallback, Boundary
    <3> HIDE DEF b, t
    <3> QED  BY <2>2, <3>1
  <2>4. CASE Len(rest) # 0 /\ Len(rest) # 1
    <3> DEFINE b == Boundary(0, "ambiguous_toc_page", None, <<>>)
    <3>1. t = <<b>> /\ b.at = 0
      BY <2>4 DEF Fallback, Boundary
    <3> HIDE DEF b, t
    <3> QED  BY <2>2, <3>1
  <2> QED  BY <2>1, <2>3, <2>4
<1>8. TocLadder(units, toc) = s \o t
  BY DEF TocLadder, s, t, hits, matched, rest
<1> HIDE DEF s, t, n
<1>9. PICK l \in Nat : t = [i \in 1..l |-> t[i]] /\ \A i \in 1..l : t[i].at \in 0..n
  BY <1>7
<1>10. IsLadder(s \o t, n)
  BY <1>1, <1>6, <1>9, LaddersJoin
<1> QED  BY <1>8, <1>10 DEF n

(* Where the text is cut. *)
Points(bs) == {0} \cup {bs[i].at : i \in DOMAIN bs}

(* Segments are what lies between one point of a ladder and the next.      *)
SegmentsWhole(segs, bs, n) ==
    /\ Len(segs) \in Nat /\ segs = [i \in 1..Len(segs) |-> segs[i]]
    /\ \A i \in 1..Len(segs) :
          /\ segs[i].start \in 0..n /\ segs[i].end \in 0..n /\ segs[i].start < segs[i].end
          /\ segs[i].start \in Points(bs) /\ segs[i].end \in Points(bs) \cup {n}
          /\ segs[i].boundary = BoundaryAt(bs, segs[i].start)
          /\ \A a \in Points(bs) : ~ (segs[i].start < a /\ a < segs[i].end)
    /\ \A i, j \in 1..Len(segs) : i < j => segs[i].end <= segs[j].start
    /\ \A a \in Points(bs) : a < n => \E i \in 1..Len(segs) : segs[i].start = a
    /\ \A a \in 1..n : \E i \in 1..Len(segs) : segs[i].start < a /\ a <= segs[i].end

(* Segments makes them so of every ladder. *)
LEMMA SegmentFacts ==
    ASSUME NEW units, Len(units) \in Nat, NEW bs, IsLadder(bs, Len(units))
    PROVE  SegmentsWhole(Segments(units, bs), bs, Len(units))
<1> DEFINE L == Len(units)
           points == Points(bs)
           S == {a \in points : a < L}
           n == Cardinality(S)
           s == Sorted(S)
           end(i) == IF i < n THEN s[i + 1] ELSE L
           segs == Segments(units, bs)
<1>1. L \in Nat /\ \A a \in points : a \in 0..L
  BY DEF Points, IsLadder
<1>2. S \in SUBSET Nat /\ IsFiniteSet(S)
  <2>1. S \in SUBSET (0..L)
    BY <1>1
  <2>2. IsFiniteSet(0..L)
    BY <1>1, FS_Interval
  <2>3. S \in SUBSET Nat
    BY <1>1
  <2> HIDE DEF S
  <2>4. IsFiniteSet(S)
    BY <2>1, <2>2, FS_Subset
  <2> QED  BY <2>3, <2>4
<1>3. 0 \in points
  BY DEF Points
<1> HIDE DEF points
<1>4. /\ n \in Nat /\ DOMAIN s = 1..n
      /\ \A i \in 1..n : s[i] \in S
      /\ \A a \in S : \E i \in 1..n : s[i] = a
      /\ \A i, j \in 1..n : i < j => s[i] < s[j]
  <2> HIDE DEF S
  <2> QED  BY <1>2, SortedFacts
<1> HIDE DEF n, s
<1>5. Len(s) = n
  BY <1>4
<1>6. segs = [i \in 1..n |-> [start |-> s[i], end |-> end(i), boundary |-> BoundaryAt(bs, s[i])]]
  <2>1. Sorted({a \in {0} \cup {bs[i].at : i \in DOMAIN bs} : a < Len(units)}) = s
    BY DEF s, points, Points
  <2>2. segs = [i \in DOMAIN s |-> [start |-> s[i], end |-> IF i < Len(s) THEN s[i + 1] ELSE Len(units),
                                    boundary |-> BoundaryAt(bs, s[i])]]
    BY <2>1 DEF Segments
  <2> QED  BY <1>4, <1>5, <2>2
<1> HIDE DEF segs
<1>7. /\ Len(segs) = n /\ segs = [i \in 1..n |-> segs[i]]
      /\ \A i \in 1..n : /\ segs[i].start = s[i] /\ segs[i].end = end(i)
                         /\ segs[i].boundary = BoundaryAt(bs, s[i])
  BY <1>4, <1>6
<1>8. \A i \in 1..n : s[i] \in points /\ s[i] \in 0..L /\ s[i] < L
  BY <1>1, <1>4
<1>9. \A i \in 1..n : /\ end(i) \in points \cup {L} /\ end(i) \in 0..L /\ s[i] < end(i)
                      /\ i < n => end(i) = s[i + 1] /\ i + 1 \in 1..n
                      /\ i = n => end(i) = L
  BY <1>1, <1>4, <1>8
<1>10. \A i, j \in 1..n : i <= j => s[i] <= s[j]
  BY <1>4, <1>8
<1>11. ASSUME NEW i \in 1..n, NEW a \in points
       PROVE  ~ (s[i] < a /\ a < end(i))
  <2> SUFFICES ASSUME s[i] < a, a < end(i) PROVE FALSE
    OBVIOUS
  <2>1. a \in 0..L /\ a < L
    BY <1>1, <1>9
  <2>2. PICK j \in 1..n : s[j] = a
    BY <1>4, <2>1
  <2>3. i < j
    BY <1>10, <1>4, <1>8, <2>2
  <2>4. i < n /\ i + 1 <= j /\ i + 1 \in 1..n
    BY <1>4, <2>3
  <2>5. s[i + 1] <= s[j] /\ end(i) = s[i + 1]
    BY <1>9, <1>10, <2>4
  <2> QED  BY <1>8, <2>2, <2>4, <2>5
<1>12. ASSUME NEW i \in 1..n, NEW j \in 1..n, i < j
       PROVE  end(i) <= s[j]
  <2>1. i < n /\ i + 1 <= j /\ i + 1 \in 1..n
    BY <1>4, <1>12
  <2> QED  BY <1>9, <1>10, <2>1
<1>13. ASSUME NEW a \in 1..L
       PROVE  \E i \in 1..n : s[i] < a /\ a <= end(i)
  <2> DEFINE T == {i \in 1..n : s[i] < a}
  <2>1. 0 < L /\ 0 \in S
    BY <1>1, <1>3
  <2>2. PICK k \in 1..n : s[k] = 0
    BY <1>4, <2>1
  <2>3. T # {} /\ T \in SUBSET (0..n)
    BY <1>4, <2>2
  <2>4. PICK m \in T : \A i \in T : i <= m
    <3> HIDE DEF T
    <3> QED  BY <1>4, <2>3, GreatestFound
  <2>5. m \in 1..n /\ s[m] < a
    OBVIOUS
  <2>6. CASE m = n
    BY <1>9, <2>5, <2>6
  <2>7. CASE m # n
    <3>1. m < n /\ m + 1 \in 1..n /\ ~ (m + 1 <= m)
      BY <1>4, <2>5, <2>7
    <3>2. ~ (s[m + 1] < a)
      BY <2>4, <3>1
    <3>3. end(m) = s[m + 1] /\ s[m + 1] \in 0..L /\ a \in Nat
      BY <1>8, <1>9, <3>1
    <3> QED  BY <1>1, <2>5, <3>2, <3>3
  <2> QED  BY <2>6, <2>7
<1>14. \A a \in points : a < L => \E i \in 1..n : s[i] = a
  BY <1>4
<1> HIDE DEF S, end, L
<1> QED
  <2>1. /\ Len(segs) \in Nat /\ segs = [i \in 1..Len(segs) |-> segs[i]]
    BY <1>4, <1>7
  <2>2. \A i \in 1..Len(segs) :
          /\ segs[i].start \in 0..L /\ segs[i].end \in 0..L /\ segs[i].start < segs[i].end
          /\ segs[i].start \in points /\ segs[i].end \in points \cup {L}
          /\ segs[i].boundary = BoundaryAt(bs, segs[i].start)
          /\ \A a \in points : ~ (segs[i].start < a /\ a < segs[i].end)
    BY <1>7, <1>8, <1>9, <1>11
  <2>3. \A i, j \in 1..Len(segs) : i < j => segs[i].end <= segs[j].start
    BY <1>7, <1>12
  <2>4. \A a \in points : a < L => \E i \in 1..Len(segs) : segs[i].start = a
    BY <1>7, <1>14
  <2>5. \A a \in 1..L : \E i \in 1..Len(segs) : segs[i].start < a /\ a <= segs[i].end
    BY <1>7, <1>13
  <2> QED  BY <2>1, <2>2, <2>3, <2>4, <2>5 DEF SegmentsWhole, points, L, segs

(* Of the boundaries at a place one counts. *)
LEMMA BoundaryAtFacts ==
    ASSUME NEW bs, NEW n, IsLadder(bs, n), NEW a
    PROVE  \/ BoundaryAt(bs, a) \in ToSet(bs) /\ BoundaryAt(bs, a).at = a
           \/ /\ BoundaryAt(bs, a) = NoBoundary
              /\ \A b \in ToSet(bs) : b.at # a
<1> DEFINE here == {i \in DOMAIN bs : bs[i].at = a}
<1>1. CASE here = {}
  BY <1>1 DEF BoundaryAt, ToSet
<1>2. CASE here # {}
  <2>1. PICK m \in Nat : here \in SUBSET (0..m)
    BY DEF IsLadder
  <2>2. Max(here) \in here
    <3> HIDE DEF here
    <3> QED  BY <1>2, <2>1, GreatestFound
  <2>3. BoundaryAt(bs, a) = bs[Max(here)]
    BY <1>2 DEF BoundaryAt
  <2> QED  BY <2>2, <2>3 DEF ToSet
<1> QED  BY <1>1, <1>2

(* What is known of a book.                                                *)
LEMMA BookFacts ==
    ASSUME book \in Library
    PROVE  /\ IsToc(book.toc)
           /\ Pages \subseteq Nat
           /\ \A p \in Pages : /\ IsText(book.pages[p].body) /\ IsText(book.pages[p].footnotes)
                              /\ Len(book.pages[p].body) \in Nat
                              /\ Len(book.pages[p].footnotes) \in Nat
<1>1. IsToc(book.toc) /\ Pages \subseteq Nat
  BY LibraryAssumption DEF IsToc, Pages
<1>2. ASSUME NEW p \in Pages
      PROVE  IsText(book.pages[p].body) /\ IsText(book.pages[p].footnotes)
  BY LibraryAssumption DEF IsText, Pages
<1>3. \A u : IsText(u) => Len(u) \in Nat
  BY DEF IsText
<1> QED  BY <1>1, <1>2, <1>3

(* The boundaries of each page make a ladder. *)
LEMMA LadderFacts ==
    ASSUME book \in Library, NEW p \in Pages
    PROVE  IsLadder(LadderOf(p), Len(book.pages[p].body))
<1> DEFINE units == book.pages[p].body
           n == Len(units)
           toc == TocOn(p)
<1>1. IsText(units) /\ n \in Nat
  BY BookFacts
<1> HIDE DEF units
<1>2. LadderOf(p) = Boundaries(units, toc)
  BY DEF LadderOf, units
<1>3. CASE Inline(units) # {}
  <2>1. Boundaries(units, toc) = SetToSeq(Inline(units))
    BY <1>3 DEF Boundaries
  <2> QED  BY <1>1, <1>2, <2>1, InlineFacts, SetIsLadder DEF units
<1>4. CASE Inline(units) = {} /\ toc # <<>>
  <2>1. PICK m \in Nat : DOMAIN book.toc = 1..m /\ \A i \in 1..m : Len(book.toc[i].title) \in Nat
    <3>1. DOMAIN book.toc = 1..Len(book.toc) /\ Len(book.toc) \in Nat
      BY BookFacts DEF IsToc
    <3>2. \A i \in DOMAIN book.toc : book.toc[i] \in ToSet(book.toc)
      BY DEF ToSet
    <3>3. \A i \in DOMAIN book.toc : Len(book.toc[i].title) \in Nat
      BY <3>2, BookFacts DEF IsToc
    <3> QED  BY <3>1, <3>3
  <2> DEFINE T == {i \in DOMAIN book.toc : book.toc[i].page = p}
  <2>2. T \in SUBSET (1..m) /\ toc = Listed(book.toc, Sorted(T))
    BY <2>1 DEF TocOn
  <2> HIDE DEF T, toc
  <2>3. PICK k \in Nat : DOMAIN toc = 1..k /\ \A i \in 1..k : \E j \in T : toc[i] = book.toc[j]
    <3> DEFINE k == Cardinality(T)
    <3>1. k \in Nat /\ DOMAIN toc = 1..k /\ \A i \in 1..k : \E j \in T : toc[i] = book.toc[j]
      BY <2>1, <2>2, ListedFacts
    <3> HIDE DEF k
    <3> QED  BY <3>1
  <2>4. \A i \in 1..k : Len(toc[i].title) \in Nat
    BY <2>1, <2>2, <2>3
  <2>5. IsLadder(TocLadder(units, toc), n)
    BY <1>1, <2>3, <2>4, TocLadderFacts
  <2>6. LadderOf(p) = TocLadder(units, toc)
    BY <1>2, <1>4 DEF Boundaries
  <2> QED  BY <2>5, <2>6 DEF units
<1>5. CASE Inline(units) = {} /\ toc = <<>>
  <2> DEFINE starts == {0} \cup Ends(units, {"para"})
             f == [a \in starts |-> Boundary(a, "paragraph_fallback", None, <<>>)]
             S == {f[a] : a \in DOMAIN f}
  <2>1. starts \subseteq 0..n
    BY <1>1 DEF Ends
  <2>2. IsFiniteSet(starts)
    <3>1. IsFiniteSet(0..n)
      BY <1>1, FS_Interval
    <3> QED  BY <2>1, <3>1, FS_Subset
  <2>3. LadderOf(p) = SetToSeq(S)
    BY <1>2, <1>5 DEF Boundaries
  <2>4. DOMAIN f = starts /\ \A a \in starts : f[a].at = a
    BY DEF Boundary
  <2> HIDE DEF f, starts
  <2>5. IsFiniteSet(S)
    BY <2>2, <2>4, FiniteValues
  <2>6. \A b \in S : b.at \in 0..n
    BY <2>1, <2>4
  <2> HIDE DEF S
  <2> QED  BY <1>1, <2>3, <2>5, <2>6, SetIsLadder DEF units
<1> QED  BY <1>3, <1>4, <1>5

(* The segments of a page. *)
Segs(p) == Segments(book.pages[p].body, LadderOf(p))

(* The segments of each page are what lies between its points. *)
LEMMA PageSegments ==
    ASSUME book \in Library, NEW p \in Pages
    PROVE  SegmentsWhole(Segs(p), LadderOf(p), Len(book.pages[p].body))
  BY BookFacts, LadderFacts, SegmentFacts DEF Segs

-------------------------------------------------------------------------------
(* Sections *)

(* Entries are put in an order, each once. *)
LEMMA InOrderFacts ==
    ASSUME NEW toc, IsToc(toc)
    PROVE  /\ Len(toc) \in Nat
           /\ \A k \in 1..Len(toc) : InOrder(toc)[k] \in ToSet(toc)
<1> DEFINE D == DOMAIN toc
           before(e, f) == e.page < f.page \/ (e.page = f.page /\ e.id < f.id)
           R == {p \in D \X D : \/ before(toc[p[1]], toc[p[2]])
                                \/ p[1] < p[2] /\ ~ before(toc[p[2]], toc[p[1]])}
<1>1. Len(toc) \in Nat /\ D = 1..Len(toc)
  BY DEF IsToc
<1>2. \A i \in D : toc[i].page \in Nat /\ toc[i].id \in Nat
  BY DEF IsToc, ToSet
<1>3. \A i, j \in D : <<i, j>> \in R <=> (before(toc[i], toc[j]) \/ (i < j /\ ~ before(toc[j], toc[i])))
  OBVIOUS
<1>4. InOrder(toc) = Listed(toc, Enumerate(D, R))
  BY DEF InOrder
<1> HIDE DEF R
<1>5. IsStrictOrder(R, D)
  <2> DEFINE P(i) == toc[i].page
             I(i) == toc[i].id
  <2>1. \A i \in D : P(i) \in Nat /\ I(i) \in Nat /\ i \in Nat
    BY <1>1, <1>2
  <2>2. \A i, j \in D : before(toc[i], toc[j]) <=> (P(i) < P(j) \/ (P(i) = P(j) /\ I(i) < I(j)))
    OBVIOUS
  <2>3. \A i, j \in D : <<i, j>> \in R <=> \/ P(i) < P(j)
                                           \/ P(i) = P(j) /\ I(i) < I(j)
                                           \/ P(i) = P(j) /\ I(i) = I(j) /\ i < j
    <3> TAKE i \in D, j \in D
    <3>1. P(i) \in Nat /\ P(j) \in Nat /\ I(i) \in Nat /\ I(j) \in Nat /\ i \in Nat /\ j \in Nat
      BY <2>1
    <3>2. <<i, j>> \in R <=> (before(toc[i], toc[j]) \/ (i < j /\ ~ before(toc[j], toc[i])))
      BY <1>3
    <3>3. before(toc[i], toc[j]) <=> (P(i) < P(j) \/ (P(i) = P(j) /\ I(i) < I(j)))
      BY <2>2
    <3>4. before(toc[j], toc[i]) <=> (P(j) < P(i) \/ (P(j) = P(i) /\ I(j) < I(i)))
      BY <2>2
    <3> HIDE DEF P, I, before
    <3> QED  BY <3>1, <3>2, <3>3, <3>4
  <2> HIDE DEF P, I, D
  <2>4. \A a \in D : <<a, a>> \notin R
    BY <2>1, <2>3
  <2>5. \A a, b \in D : a # b => <<a, b>> \in R \/ <<b, a>> \in R
    BY <2>1, <2>3
  <2>6. \A a, b, c \in D : <<a, b>> \in R /\ <<b, c>> \in R => <<a, c>> \in R
    BY <2>1, <2>3
  <2> QED  BY <2>4, <2>5, <2>6 DEF IsStrictOrder
<1> DEFINE n == Len(toc)
<1>6. IsFiniteSet(D) /\ Cardinality(D) = n
  <2>1. n \in Nat /\ D = 1..n
    BY <1>1
  <2> HIDE DEF n, D
  <2>2. IsFiniteSet(1..n) /\ Cardinality(1..n) = n
    BY <2>1, FS_Interval
  <2> QED  BY <2>1, <2>2
<1> HIDE DEF n, D
<1>7. DOMAIN Enumerate(D, R) = 1..n /\ \A k \in 1..n : Enumerate(D, R)[k] \in D
  BY <1>5, <1>6, Enumerated
<1>8. \A k \in 1..n : InOrder(toc)[k] = toc[Enumerate(D, R)[k]]
  BY <1>4, <1>7 DEF Listed
<1>9. \A k \in 1..n : InOrder(toc)[k] \in ToSet(toc)
  BY <1>7, <1>8 DEF ToSet, D
<1> QED  BY <1>1, <1>9 DEF n

(* What a table of contents gives sections. *)
Titles(toc) == {e.title : e \in ToSet(toc)}

SectionRecords(toc) == [id : Nat, shamela : Nat \ {None}, trail : Seq(Titles(toc))]

IsBuilt(built, toc) ==
    built.sections \in Seq(SectionRecords(toc)) /\ built.context \in Seq(Titles(toc))

(* An entry adds a section with its own id and a trail of titles. *)
LEMMA AddSectionKeeps ==
    ASSUME NEW toc, IsToc(toc), NEW built, IsBuilt(built, toc), NEW e \in ToSet(toc)
    PROVE  IsBuilt(AddSection(toc, built, e), toc)
<1> DEFINE explicit == e.parent \in TocIds(toc)
           referenced == \E f \in ToSet(toc) : f.parent = e.id
           parent == CHOOSE f \in ToSet(toc) : f.id = e.parent
           above == {s \in ToSet(built.sections) : s.id = e.parent}
           prefix == CASE explicit /\ above # {} -> (CHOOSE s \in above : TRUE).trail
                       [] explicit /\ above = {} -> <<parent.title>>
                       [] ~ explicit /\ e.parent = None /\ ~ referenced -> built.context
                       [] OTHER -> <<>>
           line == Append(prefix, e.title)
           T == Titles(toc)
           S == SectionRecords(toc)
           r == [id |-> e.id, shamela |-> e.shamela, trail |-> line]
<1>1. built.sections \in Seq(S) /\ built.context \in Seq(T)
  BY DEF IsBuilt
<1>2. ASSUME above # {}
      PROVE  (CHOOSE s \in above : TRUE).trail \in Seq(T)
  <2>1. \A s \in S : s.trail \in Seq(T)
    BY DEF SectionRecords
  <2>2. \A s \in ToSet(built.sections) : s \in S
    <3> HIDE DEF S
    <3> QED  BY <1>1 DEF ToSet
  <2>3. (CHOOSE s \in above : TRUE) \in above
    BY <1>2
  <2> QED  BY <2>1, <2>2, <2>3
<1>3. explicit => parent \in ToSet(toc)
  BY DEF TocIds
<1>4. explicit => <<parent.title>> \in Seq(T)
  <2>1. explicit => parent.title \in T
    BY <1>3 DEF Titles
  <2> HIDE DEF T, parent
  <2> QED  BY <2>1
<1>5. <<>> \in Seq(T)
  OBVIOUS
<1> HIDE DEF T, S, above, parent, explicit, referenced
<1>6. prefix \in Seq(T)
  <2>1. CASE explicit /\ above # {}
    BY <1>2, <2>1
  <2>2. CASE explicit /\ above = {}
    BY <1>4, <2>2
  <2>3. CASE ~ explicit /\ e.parent = None /\ ~ referenced
    BY <1>1, <2>3
  <2>4. CASE ~ explicit /\ ~ (e.parent = None /\ ~ referenced)
    BY <1>5, <2>4
  <2> QED  BY <2>1, <2>2, <2>3, <2>4
<1> HIDE DEF prefix
<1>7. line \in Seq(T)
  <2>1. e.title \in T
    BY DEF T, Titles
  <2> QED  BY <1>6, <2>1
<1> HIDE DEF line
<1>8. r \in S
  BY <1>7 DEF S, SectionRecords, T, IsToc
<1> HIDE DEF r
<1>9. Append(built.sections, r) \in Seq(S)
  BY <1>1, <1>8
<1>10. AddSection(toc, built, e) =
         [sections |-> Append(built.sections, r),
          context |-> IF explicit \/ referenced THEN line ELSE built.context]
  BY DEF AddSection, r, line, prefix, above, parent, explicit, referenced
<1>11. /\ AddSection(toc, built, e).sections = Append(built.sections, r)
       /\ AddSection(toc, built, e).context = IF explicit \/ referenced THEN line ELSE built.context
  BY <1>10
<1> QED  BY <1>1, <1>7, <1>9, <1>11 DEF IsBuilt, S, T

(* f has what there is after each entry. *)
BuiltBy(f, toc, n) ==
    f = [k \in 0..n |-> IF k = 0 THEN [sections |-> <<>>, context |-> <<>>]
                        ELSE AddSection(toc, f[k - 1], InOrder(toc)[k])]

(* There is a function that adds one entry after the other. *)
LEMMA BuiltExists == \A toc : \A n \in Nat : \E f : BuiltBy(f, toc, n)
<1> TAKE toc
<1> DEFINE Bad == {n \in Nat : ~ \E f : BuiltBy(f, toc, n)}
<1> SUFFICES ASSUME Bad # {} PROVE FALSE
  OBVIOUS
<1>1. PICK n \in Bad : \A m \in Bad : n <= m
  <2>1. Bad \in SUBSET Nat
    OBVIOUS
  <2> HIDE DEF Bad
  <2> QED  BY <2>1, LeastNumber
<1>2. n \in Nat /\ ~ \E f : BuiltBy(f, toc, n)
  OBVIOUS
<1> DEFINE base == [sections |-> <<>>, context |-> <<>>]
<1>3. CASE n = 0
  <2> DEFINE f == [k \in 0..0 |-> base]
  <2>1. BuiltBy(f, toc, 0)
    BY DEF BuiltBy
  <2> QED  BY <1>2, <1>3, <2>1
<1>4. CASE n # 0
  <2>1. n - 1 \in Nat /\ ~ (n <= n - 1)
    BY <1>2, <1>4
  <2>2. PICK g : BuiltBy(g, toc, n - 1)
    BY <1>1, <2>1
  <2> DEFINE last == AddSection(toc, g[n - 1], InOrder(toc)[n])
             f == [k \in 0..n |-> IF k = n THEN last ELSE g[k]]
             run(h, k) == IF k = 0 THEN base ELSE AddSection(toc, h[k - 1], InOrder(toc)[k])
  <2>3. \A k \in 0..(n - 1) : g[k] = run(g, k)
    BY <2>1, <2>2 DEF BuiltBy
  <2>4. \A k \in 0..(n - 1) : f[k] = g[k]
    BY <1>2
  <2>5. f[n] = last /\ f = [k \in 0..n |-> f[k]]
    BY <1>2
  <2>6. \A k \in 0..n : f[k] = run(f, k)
    <3> TAKE k \in 0..n
    <3>1. CASE k = n
      <4>1. f[n - 1] = g[n - 1]
        BY <2>1, <2>4
      <4> HIDE DEF f
      <4> QED  BY <1>4, <2>5, <3>1, <4>1
    <3>2. CASE k # n
      <4>1. k \in 0..(n - 1) /\ (k # 0 => k - 1 \in 0..(n - 1))
        BY <1>2, <3>2
      <4> HIDE DEF f
      <4>2. f[k] = run(g, k)
        BY <2>3, <2>4, <4>1
      <4>3. k # 0 => f[k - 1] = g[k - 1]
        BY <2>4, <4>1
      <4> QED  BY <4>2, <4>3
    <3> QED  BY <3>1, <3>2
  <2> HIDE DEF f
  <2>7. BuiltBy(f, toc, n)
    <3>1. f = [k \in 0..n |-> run(f, k)]
      <4> HIDE DEF run
      <4> QED  BY <2>5, <2>6
    <3> QED  BY <3>1 DEF BuiltBy
  <2> QED  BY <1>2, <2>7
<1> QED  BY <1>3, <1>4

(* The sections of a table of contents are a sequence; each has the id of   *)
(* an entry.                                                                *)
LEMMA SectionsBuilt ==
    ASSUME NEW toc, IsToc(toc)
    PROVE  BuildSections(toc) \in Seq(SectionRecords(toc))
<1> DEFINE n == Len(toc)
           f == CHOOSE g : BuiltBy(g, toc, n)
<1>1. n \in Nat /\ \A k \in 1..n : InOrder(toc)[k] \in ToSet(toc)
  BY InOrderFacts
<1>2. BuildSections(toc) = f[n].sections
  BY DEF BuildSections, Built, BuiltBy
<1>3. BuiltBy(f, toc, n)
  BY <1>1, BuiltExists
<1> HIDE DEF f, n
<1>4. /\ f[0] = [sections |-> <<>>, context |-> <<>>]
      /\ \A k \in 1..n : f[k] = AddSection(toc, f[k - 1], InOrder(toc)[k])
  BY <1>1, <1>3 DEF BuiltBy
<1>5. IsBuilt(f[0], toc)
  BY <1>4 DEF IsBuilt
<1>6. \A k \in 0..n : IsBuilt(f[k], toc)
  <2> DEFINE Bad == {k \in 0..n : ~ IsBuilt(f[k], toc)}
  <2> SUFFICES ASSUME Bad # {} PROVE FALSE
    OBVIOUS
  <2>1. PICK k \in Bad : \A j \in Bad : k <= j
    <3>1. Bad \in SUBSET Nat
      BY <1>1
    <3> HIDE DEF Bad
    <3> QED  BY <3>1, LeastNumber
  <2>2. k \in 0..n /\ ~ IsBuilt(f[k], toc)
    OBVIOUS
  <2>3. k # 0
    BY <1>5, <2>2
  <2>4. k \in 1..n /\ k - 1 \in 0..n /\ ~ (k <= k - 1)
    BY <1>1, <2>2, <2>3
  <2>5. IsBuilt(f[k - 1], toc)
    BY <2>1, <2>4
  <2>6. IsBuilt(AddSection(toc, f[k - 1], InOrder(toc)[k]), toc)
    BY <1>1, <2>4, <2>5, AddSectionKeeps
  <2> QED  BY <1>4, <2>2, <2>4, <2>6
<1>7. IsBuilt(f[n], toc)
  BY <1>1, <1>6
<1> QED  BY <1>2, <1>7 DEF IsBuilt

(* The section that a heading's id leads to is one of the book. *)
LEMMA TrailForFacts ==
    ASSUME book \in Library, NEW id, SectionsFor(id) # {}
    PROVE  /\ Max(SectionsFor(id)) \in DOMAIN BuildSections(book.toc)
           /\ BuildSections(book.toc)[Max(SectionsFor(id))].shamela = id
           /\ id # None
<1> DEFINE secs == BuildSections(book.toc)
           n == Len(secs)
           m == Max(SectionsFor(id))
<1>1. secs \in Seq(SectionRecords(book.toc))
  BY BookFacts, SectionsBuilt
<1>2. n \in Nat /\ DOMAIN secs = 1..n /\ \A i \in 1..n : secs[i] \in SectionRecords(book.toc)
  <2> HIDE DEF secs
  <2> QED  BY <1>1, ElementOfSeq
<1>3. SectionsFor(id) \in SUBSET (0..n)
  BY <1>2 DEF SectionsFor
<1> HIDE DEF n
<1>4. m \in SectionsFor(id)
  BY <1>2, <1>3, GreatestFound
<1>5. m \in DOMAIN secs /\ secs[m].shamela = id
  BY <1>4 DEF SectionsFor
<1>6. secs[m].shamela # None
  <2>1. secs[m] \in SectionRecords(book.toc)
    BY <1>2, <1>5
  <2> HIDE DEF secs, m
  <2> QED  BY <2>1 DEF SectionRecords
<1> QED  BY <1>5, <1>6

(* Each section has one row, and each row is that of a section. *)
LEMMA RowsFacts ==
    ASSUME book \in Library
    PROVE  LET secs == BuildSections(book.toc)
               rows == Rows(secs)
           IN  /\ Len(secs) \in Nat /\ DOMAIN rows = 1..Len(secs) /\ DOMAIN secs = 1..Len(secs)
               /\ \A i \in DOMAIN rows : \E j \in DOMAIN secs : rows[i] = secs[j]
               /\ \A j \in DOMAIN secs : \E i \in DOMAIN rows : rows[i] = secs[j]
<1> DEFINE secs == BuildSections(book.toc)
           T == Titles(book.toc)
           n == Len(secs)
           D == DOMAIN secs
           depth(i) == Len(secs[i].trail)
           R == {p \in D \X D : \/ depth(p[1]) < depth(p[2])
                                \/ depth(p[1]) = depth(p[2]) /\ p[1] < p[2]}
<1>1. secs \in Seq(SectionRecords(book.toc))
  BY BookFacts, SectionsBuilt
<1>2. n \in Nat /\ D = 1..n /\ \A i \in 1..n : secs[i] \in SectionRecords(book.toc)
  <2> HIDE DEF secs
  <2> QED  BY <1>1, ElementOfSeq
<1>3. \A i \in D : depth(i) \in Nat
  <2> TAKE i \in D
  <2>1. secs[i] \in SectionRecords(book.toc)
    BY <1>2
  <2> HIDE DEF secs
  <2>2. secs[i].trail \in Seq(T)
    BY <2>1 DEF SectionRecords
  <2> HIDE DEF T
  <2> QED  BY <2>2
<1>4. Rows(secs) = Listed(secs, Enumerate(D, R))
  BY DEF Rows
<1> HIDE DEF secs
<1>5. IsStrictOrder(R, D)
  <2>1. \A i, j \in D : <<i, j>> \in R <=> \/ depth(i) < depth(j)
                                           \/ depth(i) = depth(j) /\ i < j
    OBVIOUS
  <2>2. \A i \in D : i \in Nat
    BY <1>2
  <2> HIDE DEF R, depth, D
  <2>3. \A a \in D : <<a, a>> \notin R
    BY <1>3, <2>1, <2>2
  <2>4. \A a, b \in D : a # b => <<a, b>> \in R \/ <<b, a>> \in R
    BY <1>3, <2>1, <2>2
  <2>5. \A a, b, c \in D : <<a, b>> \in R /\ <<b, c>> \in R => <<a, c>> \in R
    BY <1>3, <2>1, <2>2
  <2> QED  BY <2>3, <2>4, <2>5 DEF IsStrictOrder
<1> HIDE DEF R
<1>6. IsFiniteSet(D) /\ Cardinality(D) = n
  <2> HIDE DEF n, D
  <2>2. IsFiniteSet(1..n) /\ Cardinality(1..n) = n
    BY <1>2, FS_Interval
  <2> QED  BY <1>2, <2>2
<1> DEFINE o == Enumerate(D, R)
<1>7. /\ DOMAIN o = 1..n /\ \A k \in 1..n : o[k] \in D
      /\ \A a \in D : \E k \in 1..n : o[k] = a
  BY <1>5, <1>6, Enumerated
<1> DEFINE rows == Rows(secs)
<1>8. DOMAIN rows = 1..n /\ \A k \in 1..n : rows[k] = secs[o[k]]
  BY <1>4, <1>7 DEF Listed
<1> HIDE DEF o, rows, n, D
<1>9. \A i \in 1..n : \E j \in D : rows[i] = secs[j]
  BY <1>7, <1>8
<1>10. \A j \in D : \E i \in 1..n : rows[i] = secs[j]
  BY <1>7, <1>8
<1>11. n \in Nat /\ DOMAIN rows = 1..n /\ D = 1..n
       /\ (\A i \in DOMAIN rows : \E j \in D : rows[i] = secs[j])
       /\ (\A j \in D : \E i \in DOMAIN rows : rows[i] = secs[j])
  BY <1>2, <1>8, <1>9, <1>10
<1> QED  BY <1>11 DEF secs, rows, n, D

(* The trail of a section leads to a row with that trail. *)
LEMMA ResolveFacts ==
    ASSUME book \in Library, NEW j \in DOMAIN BuildSections(book.toc)
    PROVE  LET secs == BuildSections(book.toc)
               rows == Rows(secs)
               r == Resolve(rows, secs[j].trail)
           IN  r \in DOMAIN rows /\ r # None /\ rows[r].trail = secs[j].trail
<1> DEFINE secs == BuildSections(book.toc)
           rows == Rows(secs)
           n == Len(secs)
           line == secs[j].trail
           those == {i \in DOMAIN rows : rows[i].trail = line}
<1>1. /\ n \in Nat /\ DOMAIN rows = 1..n
      /\ \E i \in DOMAIN rows : rows[i] = secs[j]
  BY RowsFacts
<1> HIDE DEF rows, secs, n
<1>2. those # {} /\ those \in SUBSET (0..n)
  BY <1>1
<1>3. \E i \in those : \A k \in those : k <= i
  <2> HIDE DEF those
  <2> QED  BY <1>1, <1>2, GreatestFound
<1> DEFINE r == CHOOSE i \in those : \A k \in those : k <= i
<1>4. RowOf(rows, line) = r
  BY <1>2 DEF RowOf
<1>5. r \in those
  BY <1>3
<1> HIDE DEF r
<1>6. r \in DOMAIN rows /\ r # None /\ rows[r].trail = line
  BY <1>1, <1>5 DEF None
<1>7. Resolve(rows, line) = r
  BY <1>4, <1>6 DEF Resolve
<1> QED  BY <1>6, <1>7 DEF rows, secs, line

(* The pages that were opened; and there is one that is not done. *)
Read == Pages \ unread

Open == stage \in {"segments", "body", "footnotes"}

(* The segments of a page whose chunks are there. *)
Emitted(p) ==
    IF p = page /\ stage \in {"segments", "body"}
    THEN Len(Segs(p)) - Len(todo) - (IF stage = "body" THEN 1 ELSE 0)
    ELSE Len(Segs(p))

(* Where chunk_book is in the book. *)
PlaceInv ==
    /\ book \in Library
    /\ unread \subseteq Pages
    /\ stage \in {"pages", "segments", "body", "footnotes", "stored"}
    /\ \A p \in Read, q \in unread : p < q
    /\ \A p \in Read : p <= page
    /\ Open => page \in Read
    /\ stage \notin {"segments", "body"} => todo = <<>>
    /\ stage = "stored" => unread = {}

(* What it has of an open page. *)
PageInv ==
    /\ stage \in {"segments", "body"} =>
          /\ Len(todo) \in 0..Len(Segs(page))
          /\ todo = [i \in 1..Len(todo) |-> Segs(page)[Len(Segs(page)) - Len(todo) + i]]
    /\ stage = "body" =>
          /\ Len(todo) < Len(Segs(page))
          /\ segment = Segs(page)[Len(Segs(page)) - Len(todo)]
          /\ ~ Navigational(Slice(Body, segment.start, segment.end))
          /\ text = Before(Slice(Body, segment.start, segment.end))
    /\ stage = "footnotes" => text = Before(Footnotes)

(* A chunk stands in a segment that was packed, or in the footnotes. *)
InSegment(c, p, i) == Segs(p)[i].start <= c.start /\ c.end <= Segs(p)[i].end

(* The chunks are a list. *)
ListInv == Len(chunks) \in Nat /\ chunks = [i \in 1..Len(chunks) |-> chunks[i]]

(* A chunk stands in a segment with prose, or in the footnotes of its      *)
(* page.                                                                   *)
ChunkInv ==
    \A c \in ToSet(chunks) :
          /\ c.page \in Read /\ c.role \in {"body", "footnote"}
          /\ c.start \in Nat /\ c.end \in Nat /\ c.start < c.end
          /\ c.role = "body" =>
                \E i \in 1..Emitted(c.page) :
                    /\ InSegment(c, c.page, i)
                    /\ IsContent(c.page, <<Segs(c.page)[i].start, Segs(c.page)[i].end>>)
          /\ c.role = "footnote" => c.end <= Len(book.pages[c.page].footnotes)

(* Chunks of one segment have one trail. *)
SameTrail ==
    \A p \in Pages : \A c, d \in Of(p, "body") : \A i \in 1..Len(Segs(p)) :
        InSegment(c, p, i) /\ InSegment(d, p, i) => c.trail = d.trail

(* What was packed is in chunks, and so are footnotes of a page that is    *)
(* done.                                                                   *)
CoverInv ==
    \A p \in Read :
        /\ \A i \in 1..Emitted(p) :
              IsContent(p, <<Segs(p)[i].start, Segs(p)[i].end>>) =>
                 \A a \in Segs(p)[i].start + 1..Segs(p)[i].end : Covered(p, "body", a)
        /\ ~ (p = page /\ Open) =>
              \A a \in DOMAIN TextOf(p, "footnote") : Covered(p, "footnote", a)

(* A trail set by an entry is that of its section. *)
UnderIsRight(u, line) == u # None => SectionsFor(u) # {} /\ line = TrailFor(u)

UnderInv ==
    /\ UnderIsRight(under, trail)
    /\ \A i \in 1..Len(chunks) : UnderIsRight(chunks[i].under, chunks[i].trail)

(* The rows are made of the sections and of the chunks as they are. *)
StoreInv ==
    stage = "stored" =>
        /\ sections = Rows(BuildSections(book.toc))
        /\ owners = [i \in DOMAIN chunks |-> Resolve(sections, chunks[i].trail)]

(* The trail that headings leave to what comes after the last of them. *)
Latest(H, h) == \A g \in H : g[1] < h[1] \/ (g[1] = h[1] /\ g[2].at <= h[2].at)

LeftBy(H, line) ==
    IF H = {} THEN line = book.root
    ELSE \E h \in H : Latest(H, h) /\ (Alone(h) => line = HeadingTrail(h[2]))

(* The headings that chunk_book came past, and those above a chunk. *)
Passed ==
    {h \in Headings :
        /\ h[1] \notin unread
        /\ h[1] = page /\ todo # <<>> => h[2].at < Head(todo).start}

Above(c) == {h \in Headings : NotAfter(h, c)}

(* The trail, and that of each chunk, is the one they left. *)
TrailInv ==
    /\ LeftBy(Passed, trail)
    /\ \A c \in ToSet(chunks) : c.role = "body" => LeftBy(Above(c), c.trail)

(* No piece is empty. *)
PiecesSolid == \A i \in 1..Len(pieces) : pieces[i].start < pieces[i].end

-------------------------------------------------------------------------------
(* Pieces have a length. *)
LEMMA SolidStep ==
    ASSUME PackInv, PiecesSolid, [PackNext]_packVars
    PROVE  PiecesSolid'
<1>1. pieces \in Seq([start : Nat, end : Nat, count : Nat]) /\ Len(pieces) \in Nat
  BY DEF PackInv, PackTypeOK
<1>2. \A i \in 1..Len(pieces) : pieces[i].start < pieces[i].end
  BY DEF PiecesSolid
<1>3. ASSUME Look, ~ Blank(Child)
      PROVE  Child.start \in Nat /\ Child.end \in Nat /\ Child.start < Child.end
  <2>1. /\ Child.start \in 0..Size /\ Child.end \in 0..Size /\ Size \in Nat
        /\ Child.start <= Reach /\ Reach <= Child.end /\ Reach \in 0..Size
        /\ \A a \in 0..Size : text[a] \in Nat
    BY <1>3, ChildFacts
  <2>2. Child.start # Child.end
    <3>1. text[Child.end] - text[Child.start] # 0 /\ text[Child.start] \in Nat
      BY <1>3, <2>1 DEF Blank, Count, Tokens
    <3> QED  BY <3>1
  <2> QED  BY <2>1, <2>2
<1>4. CASE Keep
  <2>1. Look /\ ~ Blank(Child) /\ pieces' = Append(pieces, Fragment(Child))
    BY <1>4 DEF Keep
  <2> DEFINE new == Fragment(Child)
  <2>2. new.start < new.end
    BY <1>3, <2>1 DEF Fragment
  <2> HIDE DEF new
  <2>3. /\ Len(pieces') = Len(pieces) + 1 /\ pieces'[Len(pieces) + 1] = new
        /\ \A i \in 1..Len(pieces) : pieces'[i] = pieces[i]
    BY <1>1, <2>1 DEF new
  <2>4. ASSUME NEW i \in 1..Len(pieces')
        PROVE  pieces'[i].start < pieces'[i].end
    <3>1. CASE i = Len(pieces) + 1
      BY <2>2, <2>3, <3>1
    <3>2. CASE i # Len(pieces) + 1
      <4>1. i \in 1..Len(pieces)
        BY <1>1, <2>3, <3>2
      <4> QED  BY <1>2, <2>3, <4>1
    <3> QED  BY <3>1, <3>2
  <2> QED  BY <2>4 DEF PiecesSolid
<1>5. CASE Join
  <2> DEFINE n == Len(pieces)
             new == Merged(pieces[n], Child)
  <2>1. Look /\ ~ Blank(Child) /\ pieces # <<>> /\ pieces' = [pieces EXCEPT ![n] = new]
    BY <1>5 DEF Join
  <2>2. n \in 1..n /\ pieces[n].start \in Nat /\ pieces[n].end \in Nat
    BY <2>1, ElementTypes DEF PackInv
  <2>3. pieces[n].start < pieces[n].end
    BY <1>2, <2>2
  <2>4. pieces[n].end <= Child.end
    <3>1. pieces[n].end <= Reach
      BY <2>1 DEF PackInv, PiecesReach
    <3>2. Reach <= Child.end /\ Reach \in 0..Size /\ Size \in Nat
      BY <2>1, ChildFacts
    <3>3. Child.end \in Nat
      BY <1>3, <2>1
    <3> QED  BY <2>2, <3>1, <3>2, <3>3
  <2>5. new.start < new.end
    <3>1. Child.end \in Nat
      BY <1>3, <2>1
    <3>2. new.start = pieces[n].start /\ new.end = Child.end
      BY DEF Merged
    <3> HIDE DEF new, n
    <3> QED  BY <2>2, <2>3, <2>4, <3>1, <3>2
  <2> HIDE DEF new
  <2>6. Len(pieces') = n /\ pieces'[n] = new /\ \A i \in 1..n : i # n => pieces'[i] = pieces[i]
    BY <1>1, <2>1, <2>2
  <2> HIDE DEF n
  <2>7. \A i \in 1..n : pieces'[i].start < pieces'[i].end
    BY <1>2, <2>5, <2>6 DEF n
  <2> QED  BY <2>6, <2>7 DEF PiecesSolid
<1>6. CASE Load
  BY <1>6 DEF Load, PiecesSolid
<1>7. CASE UNCHANGED pieces
  BY <1>7 DEF PiecesSolid
<1> QED
  <2>1. Add \/ Split \/ Close \/ Drop \/ Finish \/ UNCHANGED packVars => UNCHANGED pieces
    BY DEF Add, Split, Close, Drop, Finish, packVars
  <2> QED  BY <1>4, <1>5, <1>6, <1>7, <2>1 DEF PackNext, PackStep

-------------------------------------------------------------------------------
(* Where chunk_book is *)

(* No page is open at first. *)
LEMMA PlaceInit == Init => PlaceInv /\ PageInv
<1> SUFFICES ASSUME Init PROVE PlaceInv /\ PageInv  OBVIOUS
<1>1. Read = {} /\ stage = "pages" /\ book \in Library /\ unread = Pages /\ todo = <<>>
  BY DEF Init, Read, Pages
<1> QED  BY <1>1 DEF PlaceInv, PageInv, Open

(* Pages are opened in their order, each once. *)
LEMMA PlaceStep ==
    ASSUME PlaceInv, [Next]_vars
    PROVE  PlaceInv'
<1>0. ASSUME UNCHANGED <<book, unread, page>>,
             stage' \in {"pages", "segments", "body", "footnotes"},
             Open' => Open, stage' \notin {"segments", "body"} => todo' = <<>>
      PROVE  PlaceInv'
  BY <1>0 DEF PlaceInv, Read, Pages
<1>1. CASE OpenPage
  <2>1. unread # {} /\ unread \in SUBSET Nat /\ unread \subseteq Pages /\ book \in Library
    BY <1>1, BookFacts DEF OpenPage, PlaceInv
  <2> DEFINE p == Least(unread)
  <2>2. p \in unread /\ \A q \in unread : p <= q
    BY <2>1, LeastFound
  <2>3. /\ page' = p /\ unread' = unread \ {p} /\ book' = book /\ stage' = "segments"
    BY <1>1 DEF OpenPage
  <2> HIDE DEF p
  <2>4. Read' = Read \cup {p} /\ Pages' = Pages /\ Read \in SUBSET Nat
    BY <2>1, <2>2, <2>3, BookFacts DEF Read, Pages
  <2>5. \A q \in Read : q < p
    BY <2>2 DEF PlaceInv
  <2>6. \A r \in unread' : p < r
    BY <2>1, <2>2, <2>3
  <2>7. \A q \in Read', r \in unread' : q < r
    BY <2>3, <2>4, <2>6 DEF PlaceInv
  <2>8. \A q \in Read' : q <= page'
    BY <2>1, <2>2, <2>3, <2>4, <2>5
  <2> QED  BY <2>1, <2>3, <2>4, <2>7, <2>8 DEF PlaceInv
<1>2. CASE NextSegment
  BY <1>0, <1>2 DEF NextSegment, PlaceInv, Open
<1>3. CASE Pack
  BY <1>0, <1>3 DEF Pack, bookVars, PlaceInv, Open
<1>4. CASE EmitBody \/ EmitFootnotes
  BY <1>0, <1>4 DEF EmitBody, EmitFootnotes, Emit, PlaceInv, Open
<1>5. CASE OpenFootnotes \/ NoFootnotes
  BY <1>0, <1>5 DEF OpenFootnotes, NoFootnotes, PlaceInv, Open
<1>6. CASE Store
  BY <1>6 DEF Store, PlaceInv, Read, Pages, Open
<1>7. CASE UNCHANGED vars
  BY <1>7 DEF vars, bookVars, PlaceInv, Read, Pages, Open
<1> QED  BY <1>1, <1>2, <1>3, <1>4, <1>5, <1>6, <1>7 DEF Next

(* Nothing changes of a book. *)
LEMMA SegsStay == book' = book => /\ Pages' = Pages
                                  /\ \A p : /\ Segs(p)' = Segs(p)
                                            /\ LadderOf(p)' = LadderOf(p)
                                            /\ \A r : IsContent(p, r)' = IsContent(p, r)
  BY DEF Pages, Segs, LadderOf, TocOn, IsContent

(* The page that is open is one of the book as it was given. *)
LEMMA SegsOfPage ==
    ASSUME book' = book, NEW p, page' = p
    PROVE  /\ Segs(page)' = Segs(p)
           /\ Body' = book.pages[p].body /\ Footnotes' = book.pages[p].footnotes
  BY DEF Segs, LadderOf, TocOn, Body, Footnotes

(* What is read of an open page and what is left. *)
LEMMA OpenFacts ==
    ASSUME PlaceInv, PageInv, stage \in {"segments", "body"}
    PROVE  /\ page \in Pages /\ page \in Read /\ book \in Library
           /\ SegmentsWhole(Segs(page), LadderOf(page), Len(Body))
           /\ Len(Segs(page)) \in Nat /\ Len(todo) \in Nat /\ Len(todo) <= Len(Segs(page))
           /\ todo = [i \in 1..Len(todo) |-> Segs(page)[Len(Segs(page)) - Len(todo) + i]]
<1>1. page \in Pages /\ page \in Read /\ book \in Library
  BY DEF PlaceInv, Open, Read
<1>2. SegmentsWhole(Segs(page), LadderOf(page), Len(Body))
  BY <1>1, PageSegments DEF Body
<1>3. Len(Segs(page)) \in Nat
  BY <1>2 DEF SegmentsWhole
<1> QED  BY <1>1, <1>2, <1>3 DEF PageInv

(* The next segment is the first that is left. *)
LEMMA HeadFacts ==
    ASSUME PlaceInv, PageInv, NextSegment
    PROVE  /\ Len(todo) >= 1 /\ Len(todo') = Len(todo) - 1
           /\ segment' = Segs(page)[Len(Segs(page)) - Len(todo')]
           /\ todo' = [i \in 1..Len(todo') |-> Segs(page)[Len(Segs(page)) - Len(todo') + i]]
           /\ Head(todo) = segment'
<1>1. stage = "segments" /\ todo # <<>> /\ segment' = Head(todo) /\ todo' = Tail(todo)
  BY DEF NextSegment
<1> DEFINE n == Len(Segs(page))
           m == Len(todo)
           S == {todo[i] : i \in 1..m}
<1>2. n \in Nat /\ m \in Nat /\ m <= n /\ todo = [i \in 1..m |-> Segs(page)[n - m + i]]
  BY <1>1, OpenFacts
<1> HIDE DEF n, m
<1>3. todo \in Seq(S) /\ \A i \in 1..m : todo[i] = Segs(page)[n - m + i]
  <2>1. \A i \in 1..m : todo[i] \in S
    OBVIOUS
  <2>2. todo = [i \in 1..m |-> todo[i]]
    BY <1>2
  <2> HIDE DEF S
  <2>3. todo \in Seq(S)
    BY <1>2, <2>1, <2>2
  <2> QED  BY <1>2, <2>3
<1> HIDE DEF S
<1>4. m >= 1 /\ Len(todo') = m - 1 /\ segment' = todo[1] /\ \A i \in 1..m - 1 : todo'[i] = todo[i + 1]
  BY <1>1, <1>3 DEF m
<1>5. todo' = [i \in 1..m - 1 |-> todo'[i]]
  <2>1. todo' \in Seq(S)
    BY <1>1, <1>3, HeadTailProperties
  <2> QED  BY <1>4, <2>1
<1>6. segment' = Segs(page)[n - (m - 1)]
  <2>1. 1 \in 1..m /\ n - m + 1 = n - (m - 1)
    BY <1>2, <1>4
  <2> QED  BY <1>3, <1>4, <2>1
<1>7. \A i \in 1..m - 1 : todo'[i] = Segs(page)[n - (m - 1) + i]
  <2> TAKE i \in 1..m - 1
  <2>1. i + 1 \in 1..m /\ n - m + (i + 1) = n - (m - 1) + i
    BY <1>2, <1>4
  <2> QED  BY <1>3, <1>4, <2>1
<1>8. todo' = [i \in 1..m - 1 |-> Segs(page)[n - (m - 1) + i]]
  BY <1>5, <1>7
<1> QED  BY <1>1, <1>4, <1>6, <1>8 DEF n, m

(* What is left of a page are the last of its segments. *)
LEMMA PageStep ==
    ASSUME PlaceInv, PageInv, [Next]_vars
    PROVE  PageInv'
<1>1. CASE OpenPage
  <2>1. unread # {} /\ unread \in SUBSET Nat /\ unread \subseteq Pages /\ book \in Library
    BY <1>1, BookFacts DEF OpenPage, PlaceInv
  <2> DEFINE p == Least(unread)
  <2>2. p \in Pages
    BY <2>1, LeastFound
  <2>3. page' = p /\ book' = book /\ stage' = "segments" /\ todo' = Segs(p)
    BY <1>1 DEF OpenPage, Segs, LadderOf
  <2> HIDE DEF p
  <2>4. Segs(page)' = Segs(p)
    BY <2>3, SegsOfPage
  <2> DEFINE n == Len(Segs(p))
  <2>5. n \in Nat /\ Segs(p) = [i \in 1..n |-> Segs(p)[i]]
    BY <2>1, <2>2, PageSegments DEF SegmentsWhole
  <2>6. todo' = [i \in 1..n |-> Segs(p)[n - n + i]] /\ n \in 0..n
    BY <2>3, <2>5
  <2> QED  BY <2>3, <2>4, <2>6 DEF PageInv
<1>2. CASE NextSegment
  <2>1. book' = book /\ page' = page /\ stage = "segments"
    BY <1>2 DEF NextSegment
  <2>2. Segs(page)' = Segs(page) /\ Body' = Body
    BY <2>1, SegsOfPage DEF Body
  <2>3. /\ Len(todo) >= 1 /\ Len(todo') = Len(todo) - 1
        /\ segment' = Segs(page)[Len(Segs(page)) - Len(todo')]
        /\ todo' = [i \in 1..Len(todo') |-> Segs(page)[Len(Segs(page)) - Len(todo') + i]]
    BY <1>2, HeadFacts
  <2>4. Len(todo) \in Nat /\ Len(Segs(page)) \in Nat /\ Len(todo) <= Len(Segs(page))
    BY <2>1, OpenFacts
  <2>5. \/ stage' = "segments"
        \/ /\ stage' = "body" /\ ~ Navigational(Slice(Body, segment'.start, segment'.end))
           /\ text' = Before(Slice(Body, segment'.start, segment'.end))
    BY <1>2 DEF NextSegment, LoadText
  <2> QED  BY <2>2, <2>3, <2>4, <2>5 DEF PageInv
<1>3. ASSUME UNCHANGED <<book, page, todo, segment, text>>, stage' \in {stage, "segments", "pages"},
             stage' = "segments" => stage \in {"segments", "body"}
      PROVE  PageInv'
  <2>1. Segs(page)' = Segs(page) /\ Body' = Body /\ Footnotes' = Footnotes
    BY <1>3, SegsOfPage DEF Body, Footnotes
  <2> QED  BY <1>3, <2>1 DEF PageInv
<1>4. CASE Pack
  <2>1. UNCHANGED text
    BY <1>4 DEF Pack, PackStep, Add, Split, Close, Look, Drop, Keep, Join, Finish
  <2> QED  BY <1>3, <1>4, <2>1 DEF Pack, bookVars
<1>5. CASE EmitBody \/ EmitFootnotes \/ NoFootnotes
  BY <1>3, <1>5 DEF EmitBody, EmitFootnotes, Emit, NoFootnotes, packVars
<1>6. CASE OpenFootnotes
  <2>1. book' = book /\ page' = page /\ stage' = "footnotes" /\ text' = Before(Footnotes)
    BY <1>6 DEF OpenFootnotes, LoadText
  <2>2. Footnotes' = Footnotes
    BY <2>1 DEF Footnotes
  <2> QED  BY <2>1, <2>2 DEF PageInv
<1>7. CASE Store
  BY <1>7 DEF Store, PageInv
<1>8. CASE UNCHANGED vars
  BY <1>3, <1>8 DEF vars, bookVars, packVars
<1> QED  BY <1>1, <1>2, <1>4, <1>5, <1>6, <1>7, <1>8 DEF Next

(* What the chunks of a text add to the others. *)
LEMMA EmitFacts ==
    ASSUME NEW role, NEW offset, Emit(role, offset), ListInv, PackInv
    PROVE  /\ ListInv'
           /\ \A i \in 1..Len(chunks) : chunks'[i] = chunks[i]
           /\ \A i \in 1..Len(chunks') :
                 \/ i \in 1..Len(chunks) /\ chunks'[i] = chunks[i]
                 \/ \E j \in 1..Len(pieces) : chunks'[i] = Chunk(role, offset, pieces[j])
           /\ \A j \in 1..Len(pieces) :
                 \E i \in 1..Len(chunks') : chunks'[i] = Chunk(role, offset, pieces[j])
<1> DEFINE n == Len(chunks)
           m == Len(pieces)
           new == [i \in DOMAIN pieces |-> Chunk(role, offset, pieces[i])]
           C == {chunks[i] : i \in 1..n} \cup {new[i] : i \in 1..m}
<1>1. n \in Nat /\ chunks = [i \in 1..n |-> chunks[i]]
  BY DEF ListInv
<1>2. m \in Nat /\ DOMAIN pieces = 1..m
  BY DEF PackInv, PackTypeOK
<1>3. new = [i \in 1..m |-> new[i]] /\ \A i \in 1..m : new[i] = Chunk(role, offset, pieces[i])
  BY <1>2
<1>4. chunks' = chunks \o new
  BY DEF Emit
<1> HIDE DEF n, m, new
<1>5. chunks \in Seq(C) /\ new \in Seq(C) /\ Len(new) = m /\ Len(chunks) = n
  <2>1. (\A i \in 1..n : chunks[i] \in C) /\ (\A i \in 1..m : new[i] \in C)
    OBVIOUS
  <2> HIDE DEF C
  <2>2. chunks \in Seq(C)
    BY <1>1, <2>1
  <2>3. new \in Seq(C)
    BY <1>2, <1>3, <2>1
  <2> QED  BY <1>2, <1>3, <2>2, <2>3 DEF n
<1> HIDE DEF C
<1>6. /\ chunks' \in Seq(C) /\ Len(chunks') = n + m
      /\ \A i \in 1..n + m : chunks'[i] = IF i <= n THEN chunks[i] ELSE new[i - n]
  BY <1>4, <1>5, ConcatProperties
<1>7. ListInv'
  <2>1. n + m \in Nat /\ chunks' = [i \in 1..n + m |-> chunks'[i]]
    BY <1>1, <1>2, <1>6
  <2> QED  BY <1>6, <2>1 DEF ListInv
<1>8. \A i \in 1..n : chunks'[i] = chunks[i]
  BY <1>1, <1>2, <1>6
<1>9. \A i \in 1..n + m : \/ i \in 1..n /\ chunks'[i] = chunks[i]
                          \/ \E j \in 1..m : chunks'[i] = Chunk(role, offset, pieces[j])
  <2> TAKE i \in 1..n + m
  <2>1. CASE i <= n
    BY <1>1, <1>6, <2>1
  <2>2. CASE ~ (i <= n)
    <3>1. i - n \in 1..m /\ chunks'[i] = new[i - n]
      BY <1>1, <1>2, <1>6, <2>2
    <3> QED  BY <1>3, <3>1
  <2> QED  BY <2>1, <2>2
<1>10. \A j \in 1..m : \E i \in 1..n + m : chunks'[i] = Chunk(role, offset, pieces[j])
  <2> TAKE j \in 1..m
  <2>1. n + j \in 1..n + m /\ ~ (n + j <= n) /\ (n + j) - n = j
    BY <1>1, <1>2
  <2>2. chunks'[n + j] = new[j]
    BY <1>6, <2>1
  <2> QED  BY <1>3, <2>1, <2>2
<1> QED  BY <1>6, <1>7, <1>8, <1>9, <1>10 DEF n, m

(* Chunks are added at the end. *)
LEMMA ListStep ==
    ASSUME ListInv, PackInv, [Next]_vars
    PROVE  ListInv'
<1>1. CASE EmitBody \/ EmitFootnotes
  BY <1>1, EmitFacts DEF EmitBody, EmitFootnotes
<1>2. CASE UNCHANGED chunks
  BY <1>2 DEF ListInv
<1> QED
  BY <1>1, <1>2 DEF Next, vars, bookVars, OpenPage, NextSegment, Pack, OpenFootnotes, NoFootnotes,
                    Store

-------------------------------------------------------------------------------
(* Sections *)

(* Sections depend on the book alone. *)
LEMMA UnderStays ==
    book' = book => \A u, line : UnderIsRight(u, line) <=> UnderIsRight(u, line)'
  BY DEF UnderIsRight, SectionsFor, TrailFor

(* The trail and the heading that set it go together. *)
LEMMA UnderStep ==
    ASSUME ListInv, PackInv, UnderInv, [Next]_vars
    PROVE  UnderInv'
<1>0. book' = book
  BY DEF Next, vars, bookVars, OpenPage, NextSegment, Pack, EmitBody, EmitFootnotes, Emit,
         OpenFootnotes, NoFootnotes, Store
<1>1. UnderIsRight(under, trail) /\ \A i \in 1..Len(chunks) : UnderIsRight(chunks[i].under, chunks[i].trail)
  BY DEF UnderInv
<1>2. ASSUME UNCHANGED chunks, UnderIsRight(under', trail')
      PROVE  UnderInv'
  BY <1>0, <1>1, <1>2, UnderStays DEF UnderInv, UnderIsRight, SectionsFor, TrailFor
<1>3. CASE NextSegment
  <2>1. ASSUME NEW b, Headed(b)
        PROVE  UnderIsRight(under', trail')
    <3>1. CASE SectionsFor(b.id) # {} /\ trail' = TrailFor(b.id) /\ under' = b.id
      BY <3>1 DEF UnderIsRight
    <3>2. CASE under' = None
      BY <3>2 DEF UnderIsRight
    <3>3. CASE UNCHANGED <<trail, under>>
      BY <1>1, <3>3
    <3> QED  BY <2>1, <3>1, <3>2, <3>3 DEF Headed
  <2>2. Headed(segment'.boundary) /\ UNCHANGED chunks
    BY <1>3 DEF NextSegment
  <2> QED  BY <1>2, <2>1, <2>2
<1>4. ASSUME NEW role, NEW offset, Emit(role, offset)
      PROVE  UnderInv'
  <2>1. UNCHANGED <<trail, under>>
    BY <1>4 DEF Emit
  <2>2. ASSUME NEW i \in 1..Len(chunks')
        PROVE  UnderIsRight(chunks'[i].under, chunks'[i].trail)
    <3>1. CASE i \in 1..Len(chunks) /\ chunks'[i] = chunks[i]
      BY <1>1, <3>1
    <3>2. CASE \E j \in 1..Len(pieces) : chunks'[i] = Chunk(role, offset, pieces[j])
      <4>1. chunks'[i].under = under /\ chunks'[i].trail = trail
        BY <3>2 DEF Chunk
      <4> QED  BY <1>1, <4>1
    <3> QED  BY <1>4, <2>2, <3>1, <3>2, EmitFacts
  <2> QED  BY <1>0, <1>1, <2>1, <2>2 DEF UnderInv, UnderIsRight, SectionsFor, TrailFor
<1>5. CASE EmitBody \/ EmitFootnotes
  BY <1>4, <1>5 DEF EmitBody, EmitFootnotes
<1>6. CASE UNCHANGED <<chunks, trail, under>>
  BY <1>1, <1>2, <1>6
<1> QED
  BY <1>3, <1>5, <1>6 DEF Next, vars, bookVars, OpenPage, Pack, OpenFootnotes, NoFootnotes, Store

(* Rows are stored once, in the end. *)
LEMMA StoreStep ==
    ASSUME StoreInv, [Next]_vars
    PROVE  StoreInv'
<1>1. CASE Store
  BY <1>1 DEF Store, StoreInv, Resolve, RowOf
<1>2. CASE UNCHANGED vars
  BY <1>2 DEF vars, bookVars, StoreInv, Resolve
<1>3. CASE stage' # "stored"
  BY <1>3 DEF StoreInv
<1> QED
  BY <1>1, <1>2, <1>3 DEF Next, vars, bookVars, OpenPage, NextSegment, Pack, EmitBody,
         EmitFootnotes, Emit, OpenFootnotes, NoFootnotes

(* What is stored of chunks whose trails are right is right. *)
LEMMA StoredRight ==
    ASSUME book \in Library, ListInv, UnderInv, StoreInv
    PROVE  ChunksInTheirSection
<1> SUFFICES ASSUME stage = "stored", TrailsDiffer, NEW i \in DOMAIN chunks,
                    chunks[i].under # None
             PROVE  owners[i] # None /\ sections[owners[i]].shamela = chunks[i].under
  BY DEF ChunksInTheirSection
<1> DEFINE secs == BuildSections(book.toc)
           u == chunks[i].under
           j == Max(SectionsFor(u))
           r == owners[i]
<1>1. sections = Rows(secs) /\ r = Resolve(sections, chunks[i].trail)
  BY DEF StoreInv
<1>2. SectionsFor(u) # {} /\ chunks[i].trail = TrailFor(u)
  <2>1. i \in 1..Len(chunks)
    BY DEF ListInv
  <2> QED  BY <2>1 DEF UnderInv, UnderIsRight
<1>3. j \in DOMAIN secs /\ secs[j].shamela = u /\ chunks[i].trail = secs[j].trail
  BY <1>2, TrailForFacts DEF TrailFor
<1> HIDE DEF j, u, r
<1>4. r \in DOMAIN sections /\ r # None /\ sections[r].trail = secs[j].trail
  BY <1>1, <1>3, ResolveFacts
<1>5. PICK k \in DOMAIN secs : sections[r] = secs[k]
  BY <1>1, <1>4, RowsFacts
<1>6. k = j
  BY <1>3, <1>4, <1>5 DEF TrailsDiffer
<1> QED  BY <1>3, <1>4, <1>5, <1>6 DEF u, r

-------------------------------------------------------------------------------
(* The tokens of a text *)

(* f has the tokens of the first units. *)
SummedBy(f, units, n) ==
    f = [a \in 0..n |-> IF a = 0 THEN 0 ELSE f[a - 1] + units[a].tokens]

(* There is a function that adds the tokens up. *)
LEMMA SumExists == \A units : \A n \in Nat : \E f : SummedBy(f, units, n)
<1> TAKE units
<1> DEFINE Bad == {n \in Nat : ~ \E f : SummedBy(f, units, n)}
<1> SUFFICES ASSUME Bad # {} PROVE FALSE
  OBVIOUS
<1>1. PICK n \in Bad : \A m \in Bad : n <= m
  <2>1. Bad \in SUBSET Nat
    OBVIOUS
  <2> HIDE DEF Bad
  <2> QED  BY <2>1, LeastNumber
<1>2. n \in Nat /\ ~ \E f : SummedBy(f, units, n)
  OBVIOUS
<1>3. CASE n = 0
  <2> DEFINE f == [k \in 0..0 |-> 0]
  <2>1. SummedBy(f, units, 0)
    BY DEF SummedBy
  <2> QED  BY <1>2, <1>3, <2>1
<1>4. CASE n # 0
  <2>1. n - 1 \in Nat /\ ~ (n <= n - 1)
    BY <1>2, <1>4
  <2>2. PICK g : SummedBy(g, units, n - 1)
    BY <1>1, <2>1
  <2> DEFINE last == g[n - 1] + units[n].tokens
             f == [k \in 0..n |-> IF k = n THEN last ELSE g[k]]
             run(h, k) == IF k = 0 THEN 0 ELSE h[k - 1] + units[k].tokens
  <2>3. \A k \in 0..(n - 1) : g[k] = run(g, k)
    BY <2>1, <2>2 DEF SummedBy
  <2>4. \A k \in 0..(n - 1) : f[k] = g[k]
    BY <1>2
  <2>5. f[n] = last /\ f = [k \in 0..n |-> f[k]]
    BY <1>2
  <2>6. \A k \in 0..n : f[k] = run(f, k)
    <3> TAKE k \in 0..n
    <3>1. CASE k = n
      <4>1. f[n - 1] = g[n - 1]
        BY <2>1, <2>4
      <4> HIDE DEF f
      <4> QED  BY <1>4, <2>5, <3>1, <4>1
    <3>2. CASE k # n
      <4>1. k \in 0..(n - 1) /\ (k # 0 => k - 1 \in 0..(n - 1))
        BY <1>2, <3>2
      <4> HIDE DEF f
      <4>2. f[k] = run(g, k)
        BY <2>3, <2>4, <4>1
      <4>3. k # 0 => f[k - 1] = g[k - 1]
        BY <2>4, <4>1
      <4> QED  BY <4>2, <4>3
    <3> QED  BY <3>1, <3>2
  <2> HIDE DEF f
  <2>7. SummedBy(f, units, n)
    <3>1. f = [k \in 0..n |-> run(f, k)]
      <4> HIDE DEF run
      <4> QED  BY <2>5, <2>6
    <3> QED  BY <3>1 DEF SummedBy
  <2> QED  BY <1>2, <2>7
<1> QED  BY <1>3, <1>4

(* The tokens before each place: those before the last and its own. *)
LEMMA BeforeFacts ==
    ASSUME NEW units, Len(units) \in Nat, \A i \in 1..Len(units) : units[i].tokens \in Nat
    PROVE  /\ DOMAIN Before(units) = 0..Len(units)
           /\ \A a \in 1..Len(units) :
                 Before(units)[a] = Before(units)[a - 1] + units[a].tokens
           /\ \A a \in 0..Len(units) : Before(units)[a] \in Nat
<1> DEFINE n == Len(units)
           f == CHOOSE g : SummedBy(g, units, n)
<1>1. Before(units) = f
  BY DEF Before, SummedBy
<1>2. SummedBy(f, units, n)
  BY SumExists
<1> HIDE DEF f, n
<1>3. n \in Nat /\ \A i \in 1..n : units[i].tokens \in Nat
  BY DEF n
<1>4. DOMAIN f = 0..n /\ f[0] = 0 /\ \A a \in 1..n : f[a] = f[a - 1] + units[a].tokens
  BY <1>2, <1>3 DEF SummedBy
<1>5. \A a \in 0..n : f[a] \in Nat
  <2> DEFINE Bad == {a \in 0..n : f[a] \notin Nat}
  <2> SUFFICES ASSUME Bad # {} PROVE FALSE
    OBVIOUS
  <2>1. PICK a \in Bad : \A b \in Bad : a <= b
    <3>1. Bad \in SUBSET Nat
      BY <1>3
    <3> HIDE DEF Bad
    <3> QED  BY <3>1, LeastNumber
  <2>2. a \in 0..n /\ f[a] \notin Nat
    OBVIOUS
  <2>3. a # 0
    BY <1>4, <2>2
  <2>4. a \in 1..n /\ a - 1 \in 0..n /\ ~ (a <= a - 1)
    BY <1>3, <2>2, <2>3
  <2>5. f[a - 1] \in Nat
    BY <2>1, <2>4
  <2>6. units[a].tokens \in Nat /\ f[a] = f[a - 1] + units[a].tokens
    BY <1>3, <1>4, <2>4
  <2> QED  BY <2>2, <2>5, <2>6
<1> QED  BY <1>1, <1>4, <1>5 DEF n

(* Units of a text have tokens. *)
LEMMA TextFacts ==
    ASSUME NEW units, IsText(units)
    PROVE  Len(units) \in Nat /\ \A i \in 1..Len(units) : units[i].tokens \in Nat
<1>1. Len(units) \in Nat /\ DOMAIN units = 1..Len(units)
  BY DEF IsText
<1>2. \A i \in 1..Len(units) : units[i] \in ToSet(units)
  BY <1>1 DEF ToSet
<1> QED  BY <1>1, <1>2 DEF IsText

(* A stretch of a text is a text. *)
LEMMA SliceFacts ==
    ASSUME NEW units, IsText(units), NEW a \in 0..Len(units), NEW b \in 0..Len(units), a <= b
    PROVE  /\ Len(Slice(units, a, b)) = b - a
           /\ \A i \in 1..b - a : /\ Slice(units, a, b)[i] = units[a + i]
                                  /\ Slice(units, a, b)[i].tokens \in Nat
<1>1. Len(units) \in Nat /\ \A i \in 1..Len(units) : units[i].tokens \in Nat
  BY TextFacts
<1>2. units \in Seq(ToSet(units))
  BY DEF IsText
<1> DEFINE T == ToSet(units)
           n == Len(units)
<1> HIDE DEF T
<1>3. /\ Len(SubSeq(units, a + 1, b)) = b - a
      /\ \A i \in 1..b - a : SubSeq(units, a + 1, b)[i] = units[a + i]
  <2>1. n \in Nat /\ a \in 0..n /\ b \in 0..n /\ units \in Seq(T)
    BY <1>1, <1>2 DEF T
  <2> HIDE DEF n
  <2>2. Len(SubSeq(units, a + 1, b)) = IF a + 1 <= b THEN b - (a + 1) + 1 ELSE 0
    BY <2>1
  <2>3. Len(SubSeq(units, a + 1, b)) = b - a
    BY <2>1, <2>2
  <2>4. \A i \in 1..b - a : SubSeq(units, a + 1, b)[i] = units[a + i]
    <3> TAKE i \in 1..b - a
    <3>1. a + i = (a + 1) + i - 1 /\ i \in 1..(b - (a + 1) + 1)
      BY <2>1
    <3>2. SubSeq(units, a + 1, b)[i] = units[(a + 1) + i - 1]
      BY <2>1, <3>1
    <3> QED  BY <3>1, <3>2
  <2> QED  BY <2>3, <2>4
<1>4. \A i \in 1..b - a : a + i \in 1..Len(units)
  BY <1>1
<1> QED  BY <1>1, <1>3, <1>4 DEF Slice

-------------------------------------------------------------------------------
(* Headings *)

(* So do headings, and the trails they leave. *)
LEMMA HeadingsStay ==
    book' = book => /\ Headings' = Headings
                    /\ \A H, line : LeftBy(H, line)' <=> LeftBy(H, line)
  BY DEF Headings, LadderOf, TocOn, Pages, SectionsFor, LeftBy, Alone, HeadingTrail, TrailFor

(* A heading is a boundary of its page with text after it. *)
LEMMA HeadingFacts ==
    ASSUME book \in Library, NEW h \in Headings
    PROVE  /\ h[1] \in Pages /\ h[1] \in Nat
           /\ h[2] \in ToSet(LadderOf(h[1])) /\ h[2].at \in Points(LadderOf(h[1]))
           /\ h[2].at \in Nat /\ h[2].at < Len(book.pages[h[1]].body)
           /\ SectionsFor(h[2].id) # {} \/ h[2].title # <<>>
<1>1. PICK p \in Pages : h \in {p} \X ToSet(LadderOf(p))
  BY DEF Headings
<1>2. h[1] = p /\ h[2] \in ToSet(LadderOf(p))
  BY <1>1
<1>3. /\ h[2].at < Len(book.pages[h[1]].body)
      /\ SectionsFor(h[2].id) # {} \/ h[2].title # <<>>
  BY DEF Headings
<1>4. PICK i \in DOMAIN LadderOf(p) : h[2] = LadderOf(p)[i]
  BY <1>2 DEF ToSet
<1>5. h[2].at \in Nat
  <2>1. IsLadder(LadderOf(p), Len(book.pages[p].body))
    BY LadderFacts
  <2>2. Len(book.pages[p].body) \in Nat
    BY BookFacts
  <2> QED  BY <1>4, <2>1, <2>2 DEF IsLadder
<1>6. h[2].at \in Points(LadderOf(p))
  BY <1>4 DEF Points
<1>7. p \in Nat
  BY BookFacts
<1> QED  BY <1>1, <1>2, <1>3, <1>5, <1>6, <1>7

(* The last m of n. *)
LeftOf(t, S, n, m) == t = [i \in 1..m |-> S[n - m + i]]

(* What is left of the segments of a page. *)
LEMMA LeftFacts ==
    ASSUME NEW n \in Nat, NEW m \in 0..n, NEW S, NEW t, LeftOf(t, S, n, m)
    PROVE  /\ t # <<>> <=> m # 0
           /\ m # 0 => Head(t) = S[n - m + 1]
<1> USE DEF LeftOf
<1>1. CASE m = 0
  BY <1>1
<1>2. CASE m # 0
  <2>1. 1 \in 1..m
    BY <1>2
  <2>2. t[1] = S[n - m + 1] /\ t # <<>>
    BY <2>1
  <2> DEFINE T == {t[i] : i \in 1..m}
  <2>3. \A i \in 1..m : t[i] \in T
    OBVIOUS
  <2> HIDE DEF T
  <2>4. t \in Seq(T)
    BY <2>3
  <2>5. Head(t) = t[1]
    BY <2>2, <2>4
  <2> QED  BY <1>2, <2>2, <2>5
<1> QED  BY <1>1, <1>2

(* Segments of a page start one after the other. *)
LEMMA StartsInOrder ==
    ASSUME NEW segs, NEW bs, NEW n \in Nat, SegmentsWhole(segs, bs, n)
    PROVE  /\ Len(segs) \in Nat
           /\ \A i \in 1..Len(segs) : /\ segs[i].start \in Nat /\ segs[i].end \in Nat
                                      /\ segs[i].start < segs[i].end /\ segs[i].end <= n
           /\ \A i, j \in 1..Len(segs) : i <= j => segs[i].start <= segs[j].start
<1>1. \A i \in 1..Len(segs) : /\ segs[i].start \in Nat /\ segs[i].end \in Nat
                              /\ segs[i].start < segs[i].end /\ segs[i].end <= n
  BY DEF SegmentsWhole
<1>2. Len(segs) \in Nat /\ \A i, j \in 1..Len(segs) : i < j => segs[i].end <= segs[j].start
  BY DEF SegmentsWhole
<1>3. ASSUME NEW i \in 1..Len(segs), NEW j \in 1..Len(segs), i <= j
      PROVE  segs[i].start <= segs[j].start
  <2>1. CASE i = j
    BY <1>1, <2>1
  <2>2. CASE i < j
    BY <1>1, <1>2, <2>2
  <2> QED  BY <1>2, <1>3, <2>1, <2>2
<1> QED  BY <1>1, <1>2, <1>3

(* The headings up to a place of a segment are those before the next one.  *)
LEMMA HeadingsUpTo ==
    ASSUME book \in Library, NEW p \in Pages, NEW k \in 1..Len(Segs(p)), NEW a \in Nat,
           Segs(p)[k].start <= a, a < Segs(p)[k].end, NEW h \in Headings, h[1] = p
    PROVE  /\ h[2].at <= a <=> h[2].at <= Segs(p)[k].start
           /\ h[2].at <= a <=> (k < Len(Segs(p)) => h[2].at < Segs(p)[k + 1].start)
<1> DEFINE n == Len(book.pages[p].body)
           s == Segs(p)
           at == h[2].at
<1>1. n \in Nat /\ SegmentsWhole(s, LadderOf(p), n)
  BY PageSegments, BookFacts
<1>2. at \in Points(LadderOf(p)) /\ at \in Nat /\ at < n
  BY HeadingFacts
<1>3. /\ Len(s) \in Nat
      /\ \A i \in 1..Len(s) : /\ s[i].start \in Nat /\ s[i].end \in Nat
                              /\ s[i].start < s[i].end
      /\ \A i, j \in 1..Len(s) : i <= j => s[i].start <= s[j].start
  BY <1>1, StartsInOrder
<1>4. /\ \A i \in 1..Len(s) : ~ (s[i].start < at /\ at < s[i].end)
      /\ \E i \in 1..Len(s) : s[i].start = at
      /\ \A i, j \in 1..Len(s) : i < j => s[i].end <= s[j].start
  BY <1>1, <1>2 DEF SegmentsWhole
<1>5. s[k].start <= a /\ a < s[k].end /\ k \in 1..Len(s)
  OBVIOUS
<1> HIDE DEF s, at, n
<1>6. at <= a <=> at <= s[k].start
  BY <1>2, <1>3, <1>4, <1>5
<1>7. ASSUME k < Len(s)
      PROVE  at <= s[k].start <=> at < s[k + 1].start
  <2>1. k + 1 \in 1..Len(s) /\ k < k + 1
    BY <1>3, <1>7
  <2>2. s[k].end <= s[k + 1].start /\ s[k].start < s[k].end /\ s[k + 1].start \in Nat
        /\ s[k].start \in Nat /\ s[k].end \in Nat
    BY <1>3, <1>4, <2>1
  <2>3. PICK i \in 1..Len(s) : s[i].start = at
    BY <1>4
  <2>4. CASE i <= k
    <3>1. at <= s[k].start
      BY <1>3, <1>5, <2>3, <2>4
    <3> QED  BY <1>2, <2>2, <3>1
  <2>5. CASE ~ (i <= k)
    <3>1. k + 1 <= i
      BY <1>3, <2>5
    <3>2. s[k + 1].start <= at
      BY <1>3, <2>1, <2>3, <3>1
    <3> QED  BY <1>2, <2>2, <3>2
  <2> QED  BY <2>4, <2>5
<1>8. ASSUME ~ (k < Len(s))
      PROVE  at <= s[k].start
  <2>1. PICK i \in 1..Len(s) : s[i].start = at
    BY <1>4
  <2>2. i <= k
    BY <1>3, <1>5, <1>8
  <2> QED  BY <1>3, <1>5, <2>1, <2>2
<1> QED  BY <1>6, <1>7, <1>8 DEF s, at

(* What was passed, with an open page, is what is not after its last segment. *)
LEMMA PassedUpTo ==
    ASSUME PlaceInv, PageInv, stage \in {"segments", "body"}, Len(todo) < Len(Segs(page)),
           NEW a \in Nat, Segs(page)[Len(Segs(page)) - Len(todo)].start <= a,
           a < Segs(page)[Len(Segs(page)) - Len(todo)].end
    PROVE  Passed = {h \in Headings : h[1] < page \/ (h[1] = page /\ h[2].at <= a)}
<1> DEFINE n == Len(Segs(page))
           m == Len(todo)
           k == n - m
<1>1. /\ page \in Pages /\ page \in Read /\ book \in Library
      /\ n \in Nat /\ m \in Nat /\ m <= n /\ todo = [i \in 1..m |-> Segs(page)[n - m + i]]
  BY OpenFacts
<1>2. m \in 0..n /\ k \in 1..n /\ (m # 0 <=> k < n)
  BY <1>1
<1>3. /\ todo # <<>> <=> m # 0
      /\ m # 0 => Head(todo) = Segs(page)[k + 1]
  <2> DEFINE S == Segs(page)
  <2>1. n \in Nat /\ m \in 0..n /\ LeftOf(todo, S, n, m)
    BY <1>1, <1>2 DEF LeftOf
  <2> HIDE DEF n, m, S
  <2>2. /\ todo # <<>> <=> m # 0
        /\ m # 0 => Head(todo) = S[n - m + 1]
    BY <2>1, LeftFacts
  <2> QED  BY <2>2 DEF S
<1>4. ASSUME NEW h \in Headings
      PROVE  h \in Passed <=> (h[1] < page \/ (h[1] = page /\ h[2].at <= a))
  <2>1. h[1] \in Pages /\ h[1] \in Nat
    BY <1>1, HeadingFacts
  <2>2. h[1] \notin unread <=> h[1] <= page
    <3>1. page \in Nat
      BY <1>1, BookFacts
    <3>2. h[1] \in Read => h[1] <= page
      BY DEF PlaceInv
    <3>3. h[1] \in unread => page < h[1]
      BY <1>1 DEF PlaceInv
    <3> QED  BY <2>1, <3>1, <3>2, <3>3 DEF Read
  <2>3. ASSUME h[1] = page
        PROVE  (todo # <<>> => h[2].at < Head(todo).start) <=> h[2].at <= a
    <3>1. h[2].at <= a <=> (k < n => h[2].at < Segs(page)[k + 1].start)
      BY <1>1, <1>2, <2>3, HeadingsUpTo
    <3> QED  BY <1>2, <1>3, <3>1
  <2>4. page \in Nat
    BY <1>1, BookFacts
  <2>5. h[1] <= page <=> (h[1] < page \/ h[1] = page)
    BY <2>1, <2>4
  <2>6. h[1] < page => h[1] # page
    BY <2>1, <2>4
  <2> QED  BY <2>2, <2>3, <2>5, <2>6 DEF Passed
<1> QED  BY <1>4 DEF Passed

(* An open page passes no heading. *)
LEMMA OpenPassesNothing ==
    ASSUME PlaceInv, OpenPage
    PROVE  Passed' = Passed
<1>1. unread # {} /\ unread \in SUBSET Nat /\ unread \subseteq Pages /\ book \in Library
  BY BookFacts DEF OpenPage, PlaceInv
<1> DEFINE p == Least(unread)
<1>2. p \in unread /\ p \in Pages
  BY <1>1, LeastFound
<1>3. page' = p /\ unread' = unread \ {p} /\ book' = book /\ todo' = Segs(p) /\ todo = <<>>
  BY DEF OpenPage, Segs, LadderOf, PlaceInv
<1> HIDE DEF p
<1> DEFINE s == Segs(p)
           n == Len(book.pages[p].body)
<1>4. n \in Nat /\ SegmentsWhole(s, LadderOf(p), n)
  BY <1>1, <1>2, PageSegments, BookFacts
<1>5. Headings' = Headings
  BY <1>3, HeadingsStay
<1>6. ASSUME NEW h \in Headings, h[1] = p
      PROVE  todo' # <<>> /\ ~ (h[2].at < Head(todo').start)
  <2>1. h[2].at \in Points(LadderOf(p)) /\ h[2].at \in Nat /\ h[2].at < n
    BY <1>1, <1>6, HeadingFacts
  <2> HIDE DEF s, n
  <2>2. PICK i \in 1..Len(s) : s[i].start = h[2].at
    BY <1>4, <2>1 DEF SegmentsWhole
  <2>3. /\ Len(s) \in Nat /\ \A j, k \in 1..Len(s) : j <= k => s[j].start <= s[k].start
        /\ \A j \in 1..Len(s) : s[j].start \in Nat
    BY <1>4, StartsInOrder
  <2>4. 1 \in 1..Len(s) /\ s[1].start <= s[i].start
    BY <2>2, <2>3
  <2>5. LeftOf(s, s, Len(s), Len(s))
    <3> DEFINE m == Len(s)
    <3>1. s = [j \in 1..m |-> s[j]] /\ m \in Nat
      BY <1>4 DEF SegmentsWhole
    <3> HIDE DEF m
    <3>2. s = [j \in 1..m |-> s[m - m + j]]
      BY <3>1
    <3> QED  BY <3>2 DEF LeftOf, m
  <2>6. s # <<>> /\ Head(s) = s[1]
    <3>1. Len(s) \in 0..Len(s) /\ Len(s) # 0 /\ Len(s) - Len(s) + 1 = 1
      BY <2>3, <2>4
    <3> QED  BY <2>3, <2>5, <3>1, LeftFacts
  <2>7. s[1].start \in Nat
    BY <2>3, <2>4
  <2>8. ~ (h[2].at < s[1].start)
    BY <2>1, <2>2, <2>4, <2>7
  <2> QED  BY <1>3, <2>6, <2>8 DEF s
<1>7. ASSUME NEW h \in Headings
      PROVE  /\ h[1] \notin unread' /\ (h[1] = page' /\ todo' # <<>> => h[2].at < Head(todo').start)
             <=> h[1] \notin unread
  BY <1>2, <1>3, <1>6
<1>8. Passed' = {h \in Headings : h[1] \notin unread}
  BY <1>5, <1>7 DEF Passed
<1>9. Passed = {h \in Headings : h[1] \notin unread}
  BY <1>3 DEF Passed
<1> QED  BY <1>8, <1>9

(* The next segment passes the headings where it starts. *)
LEMMA SegmentPasses ==
    ASSUME PlaceInv, PageInv, NextSegment
    PROVE  \A h \in Headings :
              /\ h \in Passed <=> h[1] \notin unread /\ (h[1] = page => h[2].at < segment'.start)
              /\ h \in Passed' <=> h[1] \notin unread /\ (h[1] = page => h[2].at <= segment'.start)
<1> DEFINE n == Len(Segs(page))
           m == Len(todo')
           k == n - m
           S == Segs(page)
<1>1. /\ stage = "segments" /\ todo # <<>> /\ book' = book /\ page' = page /\ unread' = unread
  BY DEF NextSegment
<1>2. /\ page \in Pages /\ book \in Library /\ n \in Nat /\ Len(todo) \in Nat /\ Len(todo) <= n
  BY <1>1, OpenFacts
<1>3. /\ Len(todo) >= 1 /\ Len(todo') = Len(todo) - 1
      /\ segment' = Segs(page)[n - m] /\ LeftOf(todo', S, n, m) /\ Head(todo) = segment'
  BY HeadFacts DEF LeftOf
<1>4. m \in Nat /\ m \in 0..n /\ k \in 1..n /\ n - m + 1 = k + 1
  BY <1>2, <1>3
<1>5. /\ todo' # <<>> <=> m # 0
      /\ m # 0 => Head(todo') = Segs(page)[k + 1]
  <2> HIDE DEF n, m, S
  <2>1. /\ todo' # <<>> <=> m # 0
        /\ m # 0 => Head(todo') = S[n - m + 1]
    BY <1>2, <1>3, <1>4, LeftFacts
  <2> QED  BY <1>4, <2>1 DEF S
<1>6. SegmentsWhole(Segs(page), LadderOf(page), Len(book.pages[page].body))
  BY <1>2, PageSegments
<1>7. Segs(page)[k].start \in Nat /\ Segs(page)[k].start < Segs(page)[k].end
  BY <1>2, <1>4, <1>6, StartsInOrder, BookFacts
<1> TAKE h \in Headings
<1>8. h \in Passed <=> h[1] \notin unread /\ (h[1] = page => h[2].at < segment'.start)
  BY <1>1, <1>3 DEF Passed
<1>9. h \in Passed' <=> h[1] \notin unread /\ (h[1] = page => h[2].at <= segment'.start)
  <2>1. h \in Passed' <=> h[1] \notin unread /\ (h[1] = page /\ todo' # <<>> => h[2].at < Head(todo').start)
    <3>1. Headings' = Headings
      BY <1>1, HeadingsStay
    <3> QED  BY <1>1, <3>1 DEF Passed
  <2>2. ASSUME h[1] = page
        PROVE  (todo' # <<>> => h[2].at < Head(todo').start) <=> h[2].at <= segment'.start
    <3> DEFINE a == Segs(page)[k].start
    <3>1. a \in Nat /\ Segs(page)[k].start <= a /\ a < Segs(page)[k].end
      BY <1>7
    <3> HIDE DEF a
    <3>2. h[2].at <= a <=> (k < n => h[2].at < Segs(page)[k + 1].start)
      BY <1>2, <1>4, <2>2, <3>1, HeadingsUpTo
    <3>3. m # 0 <=> k < n
      BY <1>2, <1>4
    <3>4. segment'.start = a
      BY <1>3 DEF a
    <3> HIDE DEF k, n, m
    <3> QED  BY <1>5, <3>2, <3>3, <3>4
  <2> QED  BY <2>1, <2>2
<1> QED  BY <1>8, <1>9

(* The chunks that a text adds to those that are there. *)
LEMMA NewChunks ==
    ASSUME NEW role, NEW offset, Emit(role, offset), ListInv, PackInv
    PROVE  /\ \A c \in ToSet(chunks') :
                 \/ c \in ToSet(chunks)
                 \/ \E j \in 1..Len(pieces) : c = Chunk(role, offset, pieces[j])
           /\ \A c \in ToSet(chunks) : c \in ToSet(chunks')
           /\ \A j \in 1..Len(pieces) : Chunk(role, offset, pieces[j]) \in ToSet(chunks')
<1>1. /\ ListInv'
      /\ \A i \in 1..Len(chunks) : chunks'[i] = chunks[i]
      /\ \A i \in 1..Len(chunks') :
            \/ i \in 1..Len(chunks) /\ chunks'[i] = chunks[i]
            \/ \E j \in 1..Len(pieces) : chunks'[i] = Chunk(role, offset, pieces[j])
      /\ \A j \in 1..Len(pieces) :
            \E i \in 1..Len(chunks') : chunks'[i] = Chunk(role, offset, pieces[j])
  BY EmitFacts
<1>2. DOMAIN chunks = 1..Len(chunks) /\ DOMAIN chunks' = 1..Len(chunks')
  BY <1>1 DEF ListInv
<1>3. ASSUME NEW c \in ToSet(chunks')
      PROVE  \/ c \in ToSet(chunks)
             \/ \E j \in 1..Len(pieces) : c = Chunk(role, offset, pieces[j])
  BY <1>1, <1>2 DEF ToSet
<1>4. ASSUME NEW c \in ToSet(chunks)
      PROVE  c \in ToSet(chunks')
  <2>1. PICK i \in 1..Len(chunks) : c = chunks[i]
    BY <1>2 DEF ToSet
  <2>2. Len(chunks) <= Len(chunks') /\ Len(chunks) \in Nat /\ Len(chunks') \in Nat
    <3> DEFINE new == [j \in DOMAIN pieces |-> Chunk(role, offset, pieces[j])]
    <3>1. chunks' = chunks \o new
      BY DEF Emit
    <3>2. Len(pieces) \in Nat /\ DOMAIN pieces = 1..Len(pieces)
      BY DEF PackInv, PackTypeOK
    <3>3. Len(new) = Len(pieces)
      BY <3>2
    <3> HIDE DEF new
    <3>4. Len(chunks') = Len(chunks) + Len(new)
      BY <3>1 
    <3> QED  BY <3>2, <3>3, <3>4 DEF ListInv
  <2>3. i \in 1..Len(chunks') /\ chunks'[i] = c
    BY <1>1, <2>1, <2>2
  <2> QED  BY <1>2, <2>3 DEF ToSet
<1>5. ASSUME NEW j \in 1..Len(pieces)
      PROVE  Chunk(role, offset, pieces[j]) \in ToSet(chunks')
  BY <1>1, <1>2 DEF ToSet
<1> QED  BY <1>3, <1>4, <1>5

(* The text that is packed is the segment. *)
LEMMA SegmentSize ==
    ASSUME PlaceInv, PageInv, PackInv, stage = "body"
    PROVE  /\ Len(Segs(page)) - Len(todo) \in 1..Len(Segs(page))
           /\ segment = Segs(page)[Len(Segs(page)) - Len(todo)]
           /\ segment.start \in 0..Len(Body) /\ segment.end \in 0..Len(Body)
           /\ Len(Body) \in Nat /\ segment.start < segment.end
           /\ Size = segment.end - segment.start
<1>1. /\ page \in Pages /\ book \in Library
      /\ SegmentsWhole(Segs(page), LadderOf(page), Len(Body))
      /\ Len(Segs(page)) \in Nat /\ Len(todo) \in Nat /\ Len(todo) <= Len(Segs(page))
  BY OpenFacts
<1>2. /\ Len(todo) < Len(Segs(page))
      /\ segment = Segs(page)[Len(Segs(page)) - Len(todo)]
      /\ text = Before(Slice(Body, segment.start, segment.end))
  BY DEF PageInv
<1>3. Len(Segs(page)) - Len(todo) \in 1..Len(Segs(page))
  BY <1>1, <1>2
<1>4. IsText(Body) /\ Len(Body) \in Nat
  BY <1>1, BookFacts DEF Body
<1>5. segment.start \in 0..Len(Body) /\ segment.end \in 0..Len(Body) /\ segment.start < segment.end
  BY <1>1, <1>2, <1>3 DEF SegmentsWhole
<1> DEFINE units == Slice(Body, segment.start, segment.end)
           a == segment.start
           b == segment.end
<1>6. a \in 0..Len(Body) /\ b \in 0..Len(Body) /\ a <= b
  BY <1>4, <1>5
<1>7. Len(units) = b - a /\ \A i \in 1..b - a : units[i].tokens \in Nat
  BY <1>4, <1>6, SliceFacts
<1>8. b - a \in Nat
  BY <1>4, <1>6
<1> HIDE DEF units, a, b
<1>9. DOMAIN text = 0..b - a
  BY <1>2, <1>7, <1>8, BeforeFacts DEF units
<1>10. DOMAIN text = 0..Size /\ Size \in Nat
  BY CutsInText DEF PackInv, PackTypeOK, WellFormed, Size
<1>11. Size = b - a
  BY <1>8, <1>9, <1>10
<1> QED  BY <1>2, <1>3, <1>4, <1>5, <1>11 DEF a, b

(* A chunk of a page's body is in its segment. *)
LEMMA ChunkPlace ==
    ASSUME PlaceInv, PageInv, PackInv, PiecesSolid, stage = "body",
           NEW j \in 1..Len(pieces), NEW c, c = Chunk("body", segment.start, pieces[j])
    PROVE  /\ c.page = page /\ c.role = "body" /\ c.trail = trail
           /\ c.start \in Nat /\ c.end \in Nat /\ c.start < c.end
           /\ segment.start <= c.start /\ c.end <= segment.end
           /\ c.start = segment.start + pieces[j].start /\ c.end = segment.start + pieces[j].end
<1>1. /\ c.page = page /\ c.role = "body" /\ c.trail = trail
      /\ c.start = segment.start + pieces[j].start /\ c.end = segment.start + pieces[j].end
  BY DEF Chunk
<1>2. pieces[j].start \in 0..Size /\ pieces[j].end \in 0..Size /\ pieces[j].start < pieces[j].end
  BY DEF PackInv, PiecesBounded, PiecesSolid
<1>3. /\ segment.start \in 0..Len(Body) /\ segment.end \in 0..Len(Body) /\ Len(Body) \in Nat
      /\ segment.start < segment.end /\ Size = segment.end - segment.start
  BY SegmentSize
<1> DEFINE a == segment.start
           b == segment.end
           s == pieces[j].start
           e == pieces[j].end
           n == Len(Body)
<1>4. a \in 0..n /\ b \in 0..n /\ n \in Nat /\ s \in 0..b - a /\ e \in 0..b - a /\ s < e /\ a < b
  BY <1>2, <1>3
<1> HIDE DEF a, b, s, e, n
<1>5. a + s \in Nat /\ a + e \in Nat /\ a + s < a + e /\ a <= a + s /\ a + e <= b
  BY <1>4
<1> QED  BY <1>1, <1>5 DEF a, b, s, e

(* A trail left by some headings is left by the same ones after a step. *)
LEMMA LeftByLater ==
    ASSUME book' = book, NEW H, Passed' = H, NEW line, trail' = line, LeftBy(H, line)
    PROVE  LeftBy(Passed, trail)'
  BY DEF LeftBy, Latest, Alone, HeadingTrail, TrailFor, SectionsFor, LadderOf, TocOn

(* A segment's boundary leaves the trail of the heading that stands alone    *)
(* there, and nothing if there is none.                                      *)
LEMMA BoundaryLeaves ==
    ASSUME PlaceInv, PageInv, NextSegment
    PROVE  /\ \A h \in Headings : h[1] = page /\ h[2].at = segment'.start /\ Alone(h)
                                    => trail' = HeadingTrail(h[2])
           /\ (\A h \in Headings : ~ (h[1] = page /\ h[2].at = segment'.start))
                                    => trail' = trail
<1> DEFINE b == segment'.boundary
           a == segment'.start
           ladder == LadderOf(page)
           n == Len(book.pages[page].body)
<1>1. Headed(b)
  BY DEF NextSegment
<1>2. page \in Pages /\ book \in Library
  BY OpenFacts DEF NextSegment
<1>3. b = BoundaryAt(ladder, a) /\ a \in 0..n /\ n \in Nat /\ a < n
  <2>1. SegmentsWhole(Segs(page), ladder, n) /\ n \in Nat
    BY <1>2, PageSegments, BookFacts
  <2>2. Len(todo) >= 1 /\ Len(todo') = Len(todo) - 1
        /\ segment' = Segs(page)[Len(Segs(page)) - Len(todo')]
    BY HeadFacts
  <2>3. Len(Segs(page)) \in Nat /\ Len(todo) \in Nat /\ Len(todo) <= Len(Segs(page))
    BY OpenFacts DEF NextSegment
  <2> DEFINE k == Len(Segs(page)) - Len(todo')
  <2>4. k \in 1..Len(Segs(page)) /\ segment' = Segs(page)[k]
    BY <2>2, <2>3
  <2> HIDE DEF k
  <2>5. /\ Segs(page)[k].start \in 0..n /\ Segs(page)[k].end \in 0..n
        /\ Segs(page)[k].start < Segs(page)[k].end
        /\ Segs(page)[k].boundary = BoundaryAt(ladder, Segs(page)[k].start)
    BY <2>1, <2>4 DEF SegmentsWhole
  <2> HIDE DEF n, ladder
  <2>6. Segs(page)[k].start < n
    BY <2>1, <2>5
  <2> QED  BY <2>1, <2>4, <2>5, <2>6
<1>4. IsLadder(ladder, n)
  BY <1>2, LadderFacts
<1>5. \/ b \in ToSet(ladder) /\ b.at = a
      \/ b = NoBoundary /\ \A c \in ToSet(ladder) : c.at # a
  BY <1>3, <1>4, BoundaryAtFacts
<1> HIDE DEF b, a
<1>6. ASSUME NEW h \in Headings, h[1] = page, h[2].at = a, Alone(h)
      PROVE  trail' = HeadingTrail(h[2])
  <2>1. h[2] \in ToSet(ladder) /\ (SectionsFor(h[2].id) # {} \/ h[2].title # <<>>)
    BY <1>2, <1>6, HeadingFacts
  <2>2. b \in ToSet(ladder) /\ b.at = a
    BY <1>5, <1>6, <2>1
  <2>3. b = h[2]
    BY <1>6, <2>2 DEF Alone
  <2> QED  BY <1>1, <2>1, <2>3 DEF Headed, HeadingTrail
<1>7. ASSUME \A h \in Headings : ~ (h[1] = page /\ h[2].at = a)
      PROVE  trail' = trail
  <2>1. SectionsFor(b.id) = {} /\ b.title = <<>>
    <3>1. CASE b \in ToSet(ladder) /\ b.at = a
      <4> DEFINE h == <<page, b>>
      <4>1. h \in UNION {{p} \X ToSet(LadderOf(p)) : p \in Pages}
        BY <1>2, <3>1
      <4>2. h[1] = page /\ h[2] = b
        OBVIOUS
      <4>3. h \notin Headings
        BY <1>7, <3>1, <4>2
      <4> HIDE DEF h
      <4>4. h[2].at < Len(book.pages[h[1]].body)
        BY <1>3, <3>1, <4>2
      <4> QED  BY <4>1, <4>2, <4>3, <4>4 DEF Headings
    <3>2. CASE b = NoBoundary
      <4>1. b.id = None /\ b.title = <<>>
        BY <3>2 DEF NoBoundary, Boundary
      <4>2. SectionsFor(None) = {}
        BY <1>2, TrailForFacts
      <4> QED  BY <4>1, <4>2
    <3> QED  BY <1>5, <3>1, <3>2
  <2> QED  BY <1>1, <2>1 DEF Headed
<1> QED  BY <1>6, <1>7 DEF a

(* The trail is the one of the last heading that was passed. *)
LEMMA TrailPasses ==
    ASSUME PlaceInv, PageInv, LeftBy(Passed, trail), NextSegment
    PROVE  LeftBy(Passed, trail)'
<1>1. book' = book /\ stage = "segments"
  BY DEF NextSegment
<1>2. page \in Pages /\ page \in Read /\ book \in Library /\ page \in Nat
  BY <1>1, OpenFacts, BookFacts
<1>3. PICK H : H = Passed'
  OBVIOUS
<1>4. PICK line : line = trail'
  OBVIOUS
<1> DEFINE a == segment'.start
<1>5. \A h \in Headings :
         /\ h \in Passed <=> h[1] \notin unread /\ (h[1] = page => h[2].at < a)
         /\ h \in H <=> h[1] \notin unread /\ (h[1] = page => h[2].at <= a)
  BY <1>3, SegmentPasses
<1>6. H \subseteq Headings /\ Passed \subseteq Headings
  <2>1. Headings' = Headings
    BY <1>1, HeadingsStay
  <2> QED  BY <1>3, <2>1 DEF Passed
<1>7. /\ \A h \in Headings : h[1] = page /\ h[2].at = a /\ Alone(h) => line = HeadingTrail(h[2])
      /\ (\A h \in Headings : ~ (h[1] = page /\ h[2].at = a)) => line = trail
  BY <1>4, BoundaryLeaves
<1>8. a \in Nat
  <2>1. Len(todo) >= 1 /\ Len(todo') = Len(todo) - 1
        /\ segment' = Segs(page)[Len(Segs(page)) - Len(todo')]
    BY HeadFacts
  <2>2. Len(Segs(page)) \in Nat /\ Len(todo) \in Nat /\ Len(todo) <= Len(Segs(page))
    BY <1>1, OpenFacts
  <2> DEFINE k == Len(Segs(page)) - Len(todo')
  <2>3. k \in 1..Len(Segs(page)) /\ segment' = Segs(page)[k]
    BY <2>1, <2>2
  <2> HIDE DEF k
  <2>4. SegmentsWhole(Segs(page), LadderOf(page), Len(Body))
    BY <1>1, OpenFacts
  <2> QED  BY <2>3, <2>4 DEF SegmentsWhole
<1> HIDE DEF a
<1>9. CASE \E h \in Headings : h[1] = page /\ h[2].at = a
  <2>1. PICK h \in Headings : h[1] = page /\ h[2].at = a
    BY <1>9
  <2>2. h \in H
    <3>1. page \notin unread
      BY <1>2 DEF Read
    <3> QED  BY <1>5, <1>8, <2>1, <3>1
  <2>3. ASSUME NEW g \in H
        PROVE  g[1] < h[1] \/ (g[1] = h[1] /\ g[2].at <= h[2].at)
    <3>1. g \in Headings /\ g[1] \in Pages /\ g[1] \in Nat /\ g[1] \notin unread
      BY <1>2, <1>5, <1>6, HeadingFacts
    <3>2. g[1] <= page
      BY <3>1 DEF PlaceInv, Read
    <3>3. g[1] = page => g[2].at <= a
      BY <1>5, <3>1
    <3> QED  BY <1>2, <2>1, <3>1, <3>2, <3>3
  <2>4. Alone(h) => line = HeadingTrail(h[2])
    BY <1>7, <2>1
  <2>5. LeftBy(H, line)
    BY <2>2, <2>3, <2>4 DEF LeftBy, Latest
  <2> QED  BY <1>1, <1>3, <1>4, <2>5, LeftByLater
<1>10. CASE ~ \E h \in Headings : h[1] = page /\ h[2].at = a
  <2>1. line = trail
    BY <1>7, <1>10
  <2>2. H = Passed
    <3>1. ASSUME NEW h \in Headings, h[1] = page
          PROVE  h[2].at < a <=> h[2].at <= a
      <4>1. h[2].at \in Nat /\ h[2].at # a
        BY <1>2, <1>10, <3>1, HeadingFacts
      <4> QED  BY <1>8, <4>1
    <3>2. \A h \in Headings : h \in H <=> h \in Passed
      BY <1>5, <3>1
    <3> QED  BY <1>6, <3>2
  <2>3. LeftBy(H, line)
    BY <2>1, <2>2
  <2> QED  BY <1>1, <1>3, <1>4, <2>3, LeftByLater
<1> QED  BY <1>9, <1>10

(* Each step leaves the trail of the headings passed. *)
LEMMA TrailStep ==
    ASSUME PlaceInv, PageInv, ListInv, PackInv, PiecesSolid, TrailInv, [Next]_vars
    PROVE  TrailInv'
<1>0. book' = book /\ Headings' = Headings
  <2>1. book' = book
    BY DEF Next, vars, bookVars, OpenPage, NextSegment, Pack, EmitBody, EmitFootnotes, Emit,
         OpenFootnotes, NoFootnotes, Store
  <2> QED  BY <2>1, HeadingsStay
<1>1. LeftBy(Passed, trail)'
  <2>0. LeftBy(Passed, trail)
    BY DEF TrailInv
  <2>1. ASSUME Passed' = Passed, trail' = trail
        PROVE  LeftBy(Passed, trail)'
    <3>1. PICK H : H = Passed
      OBVIOUS
    <3>2. PICK line : line = trail
      OBVIOUS
    <3>3. Passed' = H /\ trail' = line /\ LeftBy(H, line)
      BY <2>0, <2>1, <3>1, <3>2
    <3> QED  BY <1>0, <3>3, LeftByLater
  <2>2. CASE OpenPage
    BY <2>1, <2>2, OpenPassesNothing DEF OpenPage
  <2>3. CASE NextSegment
    BY <2>0, <2>3, TrailPasses
  <2>4. CASE UNCHANGED <<unread, page, todo, trail>>
    BY <1>0, <2>1, <2>4 DEF Passed
  <2> QED
    BY <2>2, <2>3, <2>4 DEF Next, vars, bookVars, Pack, EmitBody, EmitFootnotes, Emit,
         OpenFootnotes, NoFootnotes, Store
<1>2. ASSUME NEW c \in ToSet(chunks'), c.role = "body"
      PROVE  LeftBy(Above(c), c.trail)
  <2>1. ASSUME c \in ToSet(chunks)
        PROVE  LeftBy(Above(c), c.trail)
    BY <1>2, <2>1 DEF TrailInv
  <2>2. CASE EmitBody
    <3>1. stage = "body" /\ Emit("body", segment.start)
      BY <2>2 DEF EmitBody
    <3>2. ASSUME NEW j \in 1..Len(pieces), c = Chunk("body", segment.start, pieces[j])
          PROVE  LeftBy(Above(c), c.trail)
      <4>1. /\ c.page = page /\ c.trail = trail /\ c.start \in Nat /\ c.end \in Nat
            /\ c.start < c.end /\ segment.start <= c.start /\ c.end <= segment.end
        BY <3>1, <3>2, ChunkPlace
      <4>2. /\ Len(Segs(page)) - Len(todo) \in 1..Len(Segs(page))
            /\ segment = Segs(page)[Len(Segs(page)) - Len(todo)]
            /\ segment.end \in Nat /\ Len(todo) < Len(Segs(page))
        BY <3>1, SegmentSize DEF PageInv
      <4>3. c.start < segment.end
        BY <4>1, <4>2
      <4>4. Passed = {h \in Headings : h[1] < page \/ (h[1] = page /\ h[2].at <= c.start)}
        BY <3>1, <4>1, <4>2, <4>3, PassedUpTo
      <4>5. Passed = Above(c)
        BY <4>1, <4>4 DEF Above, NotAfter
      <4> QED  BY <4>1, <4>5 DEF TrailInv
    <3> QED  BY <2>1, <3>1, <3>2, NewChunks
  <2>3. CASE EmitFootnotes
    <3>1. Emit("footnote", 0)
      BY <2>3 DEF EmitFootnotes
    <3>2. \A j \in 1..Len(pieces) : Chunk("footnote", 0, pieces[j]).role = "footnote"
      BY DEF Chunk
    <3> QED  BY <1>2, <2>1, <3>1, <3>2, NewChunks
  <2>4. CASE UNCHANGED chunks
    BY <2>1, <2>4
  <2> QED
    BY <2>2, <2>3, <2>4 DEF Next, vars, bookVars, OpenPage, NextSegment, Pack, OpenFootnotes,
         NoFootnotes, Store
<1>3. ASSUME NEW c \in ToSet(chunks'), c.role = "body"
      PROVE  LeftBy(Above(c), c.trail)'
  <2>1. PICK H : H = Above(c)
    OBVIOUS
  <2>2. LeftBy(H, c.trail)
    BY <1>2, <1>3, <2>1
  <2>3. Above(c)' = H
    BY <1>0, <2>1 DEF Above, NotAfter
  <2> QED
    BY <1>0, <2>2, <2>3 DEF LeftBy, Latest, Alone, HeadingTrail, TrailFor, SectionsFor, LadderOf,
         TocOn
<1> QED  BY <1>1, <1>3 DEF TrailInv

(* So the headings are kept. *)
LEMMA TrailHeld == TrailInv => HeadingsKept
  BY DEF TrailInv, HeadingsKept, Above, LeftBy, Latest

-------------------------------------------------------------------------------
(* Chunks and segments *)

(* The book does not change. *)
LEMMA BookStays == [Next]_vars => book' = book
  BY DEF Next, vars, bookVars, OpenPage, NextSegment, Pack, EmitBody, EmitFootnotes, Emit,
         OpenFootnotes, NoFootnotes, Store

(* Only so many segments of a page were packed as it has. *)
LEMMA EmittedFacts ==
    ASSUME PlaceInv, PageInv, NEW p \in Read
    PROVE  /\ Emitted(p) \in Nat /\ Emitted(p) <= Len(Segs(p)) /\ Len(Segs(p)) \in Nat
           /\ stage \in {"segments", "body"} =>
                 /\ Len(todo) \in Nat
                 /\ Emitted(page) = Len(Segs(page)) - Len(todo) - (IF stage = "body" THEN 1 ELSE 0)
<1>1. Len(Segs(p)) \in Nat
  BY PageSegments DEF SegmentsWhole, Read, PlaceInv
<1>2. CASE p = page /\ stage \in {"segments", "body"}
  <2>1. Len(todo) \in Nat /\ Len(todo) <= Len(Segs(page))
    BY <1>2, OpenFacts
  <2>2. stage = "body" => Len(todo) < Len(Segs(page))
    BY DEF PageInv
  <2> QED  BY <1>1, <1>2, <2>1, <2>2 DEF Emitted
<1>3. CASE ~ (p = page /\ stage \in {"segments", "body"})
  <2>1. Emitted(p) = Len(Segs(p))
    BY <1>3 DEF Emitted
  <2>2. stage \in {"segments", "body"} => Len(todo) \in Nat
    BY OpenFacts
  <2>3. stage \in {"segments", "body"} =>
           Emitted(page) = Len(Segs(page)) - Len(todo) - (IF stage = "body" THEN 1 ELSE 0)
    BY DEF Emitted
  <2> QED  BY <1>1, <2>1, <2>2, <2>3
<1> QED  BY <1>2, <1>3

(* One more segment is packed or left out, or a page is opened. *)
LEMMA EmittedStep ==
    ASSUME PlaceInv, PageInv, [Next]_vars
    PROVE  /\ \A p \in Read : p \in Read' /\ Emitted(p) <= Emitted(p)' /\ Emitted(p)' \in Int
           /\ \A p \in Read' : \A i \in 1..Emitted(p)' :
                 \/ p \in Read /\ i \in 1..Emitted(p)
                 \/ /\ p = page /\ i = Len(Segs(page)) - Len(todo)
                    /\ EmitBody
                 \/ /\ p = page /\ NextSegment /\ segment' = Segs(page)[i]
                    /\ Navigational(Slice(Body, segment'.start, segment'.end))
<1>0. book' = book /\ Pages' = Pages /\ \A p : Segs(p)' = Segs(p)
  BY BookStays, SegsStay
<1>1. \A p \in Read : Emitted(p) \in Nat /\ Emitted(p) <= Len(Segs(p)) /\ Len(Segs(p)) \in Nat
  BY EmittedFacts
<1>2. ASSUME Read' = Read, \A p \in Read : Emitted(p)' = Emitted(p)
      PROVE  /\ \A p \in Read : p \in Read' /\ Emitted(p) <= Emitted(p)' /\ Emitted(p)' \in Int
             /\ \A p \in Read' : \A i \in 1..Emitted(p)' : p \in Read /\ i \in 1..Emitted(p)
  BY <1>1, <1>2
<1>3. CASE OpenPage
  <2>1. unread # {} /\ unread \in SUBSET Nat /\ unread \subseteq Pages /\ book \in Library
    BY <1>3, BookFacts DEF OpenPage, PlaceInv
  <2>9. PICK q : q = Least(unread)
    OBVIOUS
  <2>2. q \in unread /\ q \in Pages
    BY <2>1, <2>9, LeastFound
  <2>3. /\ page' = q /\ unread' = unread \ {q} /\ stage' = "segments" /\ stage = "pages"
        /\ todo' = Segs(q)
    BY <1>3, <2>9 DEF OpenPage, Segs, LadderOf
  <2>4. Read' = Read \cup {q} /\ q \notin Read
    BY <1>0, <2>1, <2>2, <2>3 DEF Read
  <2>5. \A p \in Read : Emitted(p)' = Len(Segs(p)) /\ Emitted(p) = Len(Segs(p))
    BY <1>0, <2>3, <2>4 DEF Emitted
  <2>6. Emitted(q)' = 0
    <3>1. Len(Segs(q)) \in Nat
      BY <2>1, <2>2, PageSegments DEF SegmentsWhole
    <3>2. Len(todo') = Len(Segs(q)) /\ Len(Segs(q)') = Len(Segs(q)) /\ q = page'
      BY <1>0, <2>3
    <3>3. Emitted(q)' = Len(Segs(q)') - Len(todo') - 0
      BY <2>3 DEF Emitted
    <3> QED  BY <3>1, <3>2, <3>3
  <2>7. \A p \in Read : p \in Read' /\ Emitted(p) <= Emitted(p)' /\ Emitted(p)' \in Int
    BY <1>1, <2>4, <2>5
  <2>8. ASSUME NEW p \in Read', NEW i \in 1..Emitted(p)'
        PROVE  p \in Read /\ i \in 1..Emitted(p)
    <3>1. p # q
      BY <2>6, <2>8
    <3> QED  BY <2>4, <2>5, <2>8, <3>1
  <2> QED  BY <2>7, <2>8
<1>4. CASE NextSegment
  <2>1. UNCHANGED <<unread, page>> /\ stage = "segments" /\ stage' \in {"segments", "body"}
    BY <1>4 DEF NextSegment
  <2>2. Read' = Read
    BY <1>0, <2>1 DEF Read
  <2> DEFINE n == Len(Segs(page))
             m == Len(todo)
  <2>3. n \in Nat /\ m \in Nat /\ m >= 1 /\ Len(todo') = m - 1 /\ m <= n /\ page \in Read
        /\ segment' = Segs(page)[n - (m - 1)]
    BY <1>4, <2>1, OpenFacts, HeadFacts
  <2>4. Emitted(page) = n - m - 0
    BY <2>1 DEF Emitted
  <2>5. Emitted(page)' = n - (m - 1) - (IF stage' = "body" THEN 1 ELSE 0)
    BY <1>0, <2>1, <2>3 DEF Emitted
  <2>6. ASSUME NEW p \in Read, p # page
        PROVE  Emitted(p)' = Emitted(p)
    BY <1>0, <2>1, <2>6 DEF Emitted
  <2>7. CASE stage' = "body"
    <3>1. Emitted(page)' = Emitted(page)
      <4> HIDE DEF n, m
      <4> QED  BY <2>3, <2>4, <2>5, <2>7
    <3>2. \A p \in Read : Emitted(p)' = Emitted(p)
      <4> TAKE p \in Read
      <4>1. CASE p = page
        BY <2>1, <2>4, <2>3, <2>7, <1>0, <4>1 DEF Emitted
      <4> QED  BY <2>6, <4>1
    <3> QED  BY <1>2, <2>2, <3>2
  <2>8. CASE stage' = "segments"
    <3>1. Navigational(Slice(Body, segment'.start, segment'.end))
      BY <1>4, <2>8 DEF NextSegment
    <3>2. ASSUME NEW p \in Read, p = page
          PROVE  Emitted(p)' = n - m + 1 /\ Emitted(p) = n - m
      <4>1. Emitted(p)' = n - (m - 1) - 0 /\ Emitted(p) = n - m - 0
        BY <1>0, <2>1, <2>3, <2>8, <3>2 DEF Emitted
      <4> HIDE DEF n, m
      <4> QED  BY <2>3, <4>1
    <3>3. n - (m - 1) = n - m + 1
      BY <2>3
    <3> HIDE DEF n, m
    <3>4. \A p \in Read : Emitted(p) <= Emitted(p)' /\ Emitted(p)' \in Int
      BY <1>1, <2>3, <2>6, <3>2
    <3>5. ASSUME NEW p \in Read, NEW i \in 1..Emitted(p)'
          PROVE  i \in 1..Emitted(p) \/ (p = page /\ i = n - (m - 1))
      <4>1. CASE p = page
        BY <2>3, <3>2, <4>1
      <4> QED  BY <2>6, <3>5, <4>1
    <3> QED  BY <1>4, <2>2, <2>3, <3>1, <3>4, <3>5
  <2> QED  BY <2>1, <2>7, <2>8
<1>5. CASE EmitBody
  <2>1. /\ UNCHANGED <<unread, page, todo>> /\ stage = "body" /\ stage' = "segments"
    BY <1>5 DEF EmitBody, Emit
  <2>2. Read' = Read
    BY <1>0, <2>1 DEF Read
  <2> DEFINE n == Len(Segs(page))
             m == Len(todo)
  <2>3. n \in Nat /\ m \in Nat
    BY <2>1, OpenFacts
  <2>4. ASSUME NEW p \in Read, p = page
        PROVE  Emitted(p)' = n - m /\ Emitted(p) = n - m - 1
    <3>1. Emitted(p)' = n - m - 0 /\ Emitted(p) = n - m - 1
      BY <1>0, <2>1, <2>4 DEF Emitted
    <3> HIDE DEF n, m
    <3> QED  BY <2>3, <3>1
  <2>5. ASSUME NEW p \in Read, p # page
        PROVE  Emitted(p)' = Emitted(p)
    BY <1>0, <2>1, <2>5 DEF Emitted
  <2> HIDE DEF n, m
  <2>6. \A p \in Read : Emitted(p) <= Emitted(p)' /\ Emitted(p)' \in Int
    BY <1>1, <2>3, <2>4, <2>5
  <2>7. ASSUME NEW p \in Read, NEW i \in 1..Emitted(p)'
        PROVE  i \in 1..Emitted(p) \/ (p = page /\ i = n - m)
    <3>1. CASE p = page
      BY <2>3, <2>4, <3>1
    <3> QED  BY <2>5, <2>7, <3>1
  <2> QED  BY <1>5, <2>2, <2>6, <2>7 DEF n, m
<1>6. ASSUME UNCHANGED <<unread, page, todo>>, todo = <<>>, stage \notin {"body"}, stage' \notin {"body"}
      PROVE  Read' = Read /\ \A p \in Read : Emitted(p)' = Emitted(p)
  <2>1. Read' = Read
    BY <1>0, <1>6 DEF Read
  <2>2. ASSUME NEW p \in Read
        PROVE  Emitted(p) = Len(Segs(p)) /\ Emitted(p)' = Len(Segs(p))
    <3>1. Len(Segs(p)) - 0 - 0 = Len(Segs(p))
      BY <1>1, <2>2
    <3>2. Len(todo) = 0 /\ Len(todo') = 0
      BY <1>6
    <3> QED  BY <1>0, <1>6, <3>1, <3>2 DEF Emitted
  <2> QED  BY <2>1, <2>2
<1>7. CASE OpenFootnotes \/ EmitFootnotes \/ NoFootnotes \/ Store
  <2>1. UNCHANGED <<unread, page, todo>> /\ stage # "body" /\ stage' # "body" /\ todo = <<>>
    BY <1>7 DEF OpenFootnotes, EmitFootnotes, Emit, NoFootnotes, Store, PlaceInv
  <2> QED  BY <1>2, <1>6, <2>1
<1>8. CASE Pack \/ UNCHANGED vars
  <2>1. UNCHANGED <<unread, page, todo, stage>>
    BY <1>8 DEF Pack, vars, bookVars
  <2>2. Read' = Read /\ \A p \in Read : Emitted(p)' = Emitted(p)
    BY <1>0, <2>1 DEF Read, Emitted
  <2> QED  BY <1>2, <2>2
<1> QED  BY <1>3, <1>4, <1>5, <1>7, <1>8 DEF Next

(* What has a length stands in one segment. *)
LEMMA OneSegment ==
    ASSUME book \in Library, NEW p \in Pages, NEW a \in Nat, NEW i \in 1..Len(Segs(p)),
           NEW j \in 1..Len(Segs(p)), Segs(p)[i].start <= a, a < Segs(p)[i].end,
           Segs(p)[j].start <= a, a < Segs(p)[j].end
    PROVE  i = j
<1> DEFINE s == Segs(p)
<1>1. /\ Len(s) \in Nat
      /\ \A k \in 1..Len(s) : s[k].start \in Nat /\ s[k].end \in Nat
      /\ \A k, l \in 1..Len(s) : k < l => s[k].end <= s[l].start
  BY PageSegments, BookFacts, StartsInOrder DEF SegmentsWhole
<1>2. s[i].start <= a /\ a < s[i].end /\ s[j].start <= a /\ a < s[j].end
  OBVIOUS
<1> HIDE DEF s
<1>3. s[i].start \in Nat /\ s[i].end \in Nat /\ s[j].start \in Nat /\ s[j].end \in Nat
  BY <1>1 DEF s
<1>4. ~ (i < j) /\ ~ (j < i)
  BY <1>1, <1>2, <1>3 DEF s
<1> QED  BY <1>1, <1>4 DEF s

(* A footnote's chunks are in the footnotes. *)
LEMMA FootnotePlace ==
    ASSUME PlaceInv, PageInv, PackInv, PiecesSolid, stage = "footnotes",
           NEW j \in 1..Len(pieces), NEW c, c = Chunk("footnote", 0, pieces[j])
    PROVE  /\ c.page = page /\ c.role = "footnote"
           /\ c.start \in Nat /\ c.end \in Nat /\ c.start < c.end
           /\ c.start = pieces[j].start /\ c.end = pieces[j].end
           /\ c.end <= Len(Footnotes) /\ Size = Len(Footnotes)
<1>1. page \in Pages /\ book \in Library
  BY DEF PlaceInv, Open, Read
<1>2. /\ Len(Footnotes) \in Nat /\ \A i \in 1..Len(Footnotes) : Footnotes[i].tokens \in Nat
  BY <1>1, BookFacts, TextFacts DEF Footnotes
<1>3. text = Before(Footnotes)
  BY DEF PageInv
<1>4. DOMAIN text = 0..Len(Footnotes)
  BY <1>2, <1>3, BeforeFacts
<1>5. DOMAIN text = 0..Size /\ Size \in Nat
  BY CutsInText DEF PackInv, PackTypeOK, WellFormed, Size
<1>6. Size = Len(Footnotes)
  BY <1>2, <1>4, <1>5
<1>7. pieces[j].start \in 0..Size /\ pieces[j].end \in 0..Size /\ pieces[j].start < pieces[j].end
  BY DEF PackInv, PiecesBounded, PiecesSolid
<1>8. c.start = 0 + pieces[j].start /\ c.end = 0 + pieces[j].end /\ c.page = page
      /\ c.role = "footnote"
  BY DEF Chunk
<1> QED  BY <1>2, <1>5, <1>6, <1>7, <1>8

(* New chunks stand in the segment that was packed, or in the footnotes. *)
LEMMA ChunkStep ==
    ASSUME PlaceInv, PageInv, ListInv, PackInv, PiecesSolid, ChunkInv, [Next]_vars
    PROVE  ChunkInv'
<1> DEFINE Fits(c, i) == /\ InSegment(c, c.page, i)
                         /\ IsContent(c.page, <<Segs(c.page)[i].start, Segs(c.page)[i].end>>)
<1>0. /\ book' = book /\ Pages' = Pages
      /\ \A p : Segs(p)' = Segs(p) /\ \A r : IsContent(p, r)' = IsContent(p, r)
  BY BookStays, SegsStay
<1>1. \A p \in Read : p \in Read' /\ Emitted(p) <= Emitted(p)' /\ Emitted(p) \in Nat /\ Emitted(p)' \in Int
  BY EmittedStep, EmittedFacts
<1>2. ASSUME NEW c \in ToSet(chunks)
      PROVE  /\ c.page \in Read' /\ c.role \in {"body", "footnote"}
             /\ c.start \in Nat /\ c.end \in Nat /\ c.start < c.end
             /\ c.role = "body" => \E i \in 1..Emitted(c.page)' : Fits(c, i)
             /\ c.role = "footnote" => c.end <= Len(book.pages[c.page].footnotes)
  <2>1. /\ c.page \in Read /\ c.role \in {"body", "footnote"}
        /\ c.start \in Nat /\ c.end \in Nat /\ c.start < c.end
        /\ c.role = "body" => \E i \in 1..Emitted(c.page) : Fits(c, i)
        /\ c.role = "footnote" => c.end <= Len(book.pages[c.page].footnotes)
    BY <1>2 DEF ChunkInv
  <2> HIDE DEF Fits
  <2>2. c.page \in Read' /\ Emitted(c.page) <= Emitted(c.page)' /\ Emitted(c.page) \in Nat
        /\ Emitted(c.page)' \in Int
    BY <1>1, <2>1
  <2>3. c.role = "body" => \E i \in 1..Emitted(c.page)' : Fits(c, i)
    <3> SUFFICES ASSUME c.role = "body" PROVE \E i \in 1..Emitted(c.page)' : Fits(c, i)
      OBVIOUS
    <3>1. PICK i \in 1..Emitted(c.page) : Fits(c, i)
      BY <2>1
    <3>2. c.page \in Read'
      BY <2>2
    <3>3. i \in 1..Emitted(c.page)'
      BY <2>2, <3>1
    <3> QED  BY <3>1, <3>3
  <2> QED  BY <2>1, <2>2, <2>3
<1>3. ASSUME EmitBody, NEW j \in 1..Len(pieces), NEW c, c = Chunk("body", segment.start, pieces[j])
      PROVE  /\ c.page \in Read' /\ c.role = "body"
             /\ c.start \in Nat /\ c.end \in Nat /\ c.start < c.end
             /\ \E i \in 1..Emitted(c.page)' : Fits(c, i)
  <2> DEFINE k == Len(Segs(page)) - Len(todo)
  <2>1. stage = "body"
    BY <1>3 DEF EmitBody
  <2>2. /\ c.page = page /\ c.role = "body" /\ c.start \in Nat /\ c.end \in Nat /\ c.start < c.end
        /\ segment.start <= c.start /\ c.end <= segment.end
    BY <1>3, <2>1, ChunkPlace
  <2>3. k \in 1..Len(Segs(page)) /\ segment = Segs(page)[k]
    BY <2>1, SegmentSize
  <2>4. page \in Read /\ ~ Navigational(Slice(Body, segment.start, segment.end))
    BY <2>1, OpenFacts DEF PageInv
  <2>5. Fits(c, k)
    <3>1. InSegment(c, page, k)
      BY <2>2, <2>3 DEF InSegment
    <3>2. IsContent(page, <<segment.start, segment.end>>)
      BY <2>4 DEF IsContent, Body
    <3> QED  BY <2>2, <2>3, <3>1, <3>2
  <2>6. Emitted(c.page)' = k
    <3>1. page' = page /\ stage' = "segments" /\ todo' = todo
      BY <1>3 DEF EmitBody, Emit
    <3>2. Len(Segs(page)) \in Nat /\ Len(todo) \in Nat
      BY <2>1, OpenFacts
    <3>3. Emitted(c.page)' = Len(Segs(page)) - Len(todo) - 0
      BY <1>0, <2>2, <3>1 DEF Emitted
    <3> QED  BY <3>2, <3>3
  <2>7. Len(Segs(page)) \in Nat
    BY <2>1, OpenFacts
  <2> HIDE DEF Fits, k
  <2>8. k \in 1..Emitted(c.page)'
    BY <2>3, <2>6, <2>7
  <2> QED  BY <1>1, <2>2, <2>4, <2>5, <2>8
<1>4. ASSUME EmitFootnotes, NEW j \in 1..Len(pieces), NEW c, c = Chunk("footnote", 0, pieces[j])
      PROVE  /\ c.page \in Read' /\ c.role = "footnote"
             /\ c.start \in Nat /\ c.end \in Nat /\ c.start < c.end
             /\ c.end <= Len(book.pages[c.page].footnotes)
  <2>1. stage = "footnotes" /\ page \in Read
    BY <1>4 DEF EmitFootnotes, PlaceInv, Open
  <2> QED  BY <1>1, <1>4, <2>1, FootnotePlace DEF Footnotes
<1>5. ASSUME NEW c \in ToSet(chunks')
      PROVE  /\ c.page \in Read' /\ c.role \in {"body", "footnote"}
             /\ c.start \in Nat /\ c.end \in Nat /\ c.start < c.end
             /\ c.role = "body" => \E i \in 1..Emitted(c.page)' : Fits(c, i)
             /\ c.role = "footnote" => c.end <= Len(book.pages[c.page].footnotes)
  <2> HIDE DEF Fits
  <2>1. CASE c \in ToSet(chunks)
    BY <1>2, <2>1
  <2>2. CASE EmitBody /\ c \notin ToSet(chunks)
    <3>1. PICK j \in 1..Len(pieces) : c = Chunk("body", segment.start, pieces[j])
      BY <1>5, <2>2, NewChunks DEF EmitBody
    <3> QED  BY <1>3, <2>2, <3>1
  <2>3. CASE EmitFootnotes /\ c \notin ToSet(chunks)
    <3>1. PICK j \in 1..Len(pieces) : c = Chunk("footnote", 0, pieces[j])
      BY <1>5, <2>3, NewChunks DEF EmitFootnotes
    <3> QED  BY <1>4, <2>3, <3>1
  <2>4. CASE UNCHANGED chunks
    BY <2>1, <2>4
  <2> QED
    BY <2>1, <2>2, <2>3, <2>4 DEF Next, vars, bookVars, OpenPage, NextSegment, Pack,
         OpenFootnotes, NoFootnotes, Store
<1> QED  BY <1>0, <1>5 DEF ChunkInv, InSegment

(* All chunks of a segment have its trail. *)
LEMMA SameTrailStep ==
    ASSUME PlaceInv, PageInv, ListInv, PackInv, PiecesSolid, ChunkInv, SameTrail, [Next]_vars
    PROVE  SameTrail'
<1>0. book' = book /\ Pages' = Pages /\ \A p : Segs(p)' = Segs(p)
  BY BookStays, SegsStay
<1>1. ASSUME NEW p \in Pages, NEW c \in Of(p, "body"), NEW d \in Of(p, "body"),
             NEW i \in 1..Len(Segs(p)), InSegment(c, p, i), InSegment(d, p, i)
      PROVE  c.trail = d.trail
  BY <1>1 DEF SameTrail
<1>2. ASSUME NEW p \in Pages, NEW c \in Of(p, "body")', NEW d \in Of(p, "body")',
             NEW i \in 1..Len(Segs(p)), InSegment(c, p, i), InSegment(d, p, i),
             ~ EmitBody
      PROVE  c.trail = d.trail
  <2>1. Of(p, "body")' \subseteq Of(p, "body")
    <3>1. CASE EmitFootnotes
      <4>1. \A j \in 1..Len(pieces) : Chunk("footnote", 0, pieces[j]).role = "footnote"
        BY DEF Chunk
      <4> QED  BY <3>1, <4>1, NewChunks DEF Of, EmitFootnotes
    <3>2. CASE UNCHANGED chunks
      BY <3>2 DEF Of
    <3> QED
      BY <1>2, <3>1, <3>2 DEF Next, vars, bookVars, OpenPage, NextSegment, Pack,
           OpenFootnotes, NoFootnotes, Store
  <2> QED  BY <1>1, <1>2, <2>1
<1>3. ASSUME EmitBody, NEW p \in Pages, NEW c \in Of(p, "body")', NEW d \in Of(p, "body")',
             NEW i \in 1..Len(Segs(p)), InSegment(c, p, i), InSegment(d, p, i)
      PROVE  c.trail = d.trail
  <2>1. stage = "body" /\ Emit("body", segment.start)
    BY <1>3 DEF EmitBody
  <2> DEFINE k == Len(Segs(page)) - Len(todo)
  <2>2. /\ k \in 1..Len(Segs(page)) /\ segment = Segs(page)[k] /\ segment.end \in Nat
        /\ page \in Pages /\ page \in Read /\ book \in Library
    BY <2>1, SegmentSize, OpenFacts
  <2> HIDE DEF k
  <2>3. ASSUME NEW x \in Of(p, "body")'
        PROVE  \/ x \in Of(p, "body")
               \/ /\ p = page /\ x.trail = trail /\ x.start \in Nat /\ InSegment(x, page, k)
                  /\ x.start < x.end /\ x.end \in Nat
    <3>1. x \in ToSet(chunks') /\ x.page = p /\ x.role = "body"
      BY DEF Of
    <3>2. CASE x \in ToSet(chunks)
      BY <3>1, <3>2 DEF Of
    <3>3. ASSUME NEW j \in 1..Len(pieces), x = Chunk("body", segment.start, pieces[j])
          PROVE  /\ p = page /\ x.trail = trail /\ x.start \in Nat /\ InSegment(x, page, k)
                 /\ x.start < x.end /\ x.end \in Nat
      BY <2>1, <2>2, <3>1, <3>3, ChunkPlace DEF InSegment
    <3> QED  BY <2>1, <3>1, <3>2, <3>3, NewChunks
  <2>4. ASSUME NEW x \in Of(p, "body"), InSegment(x, p, i), p = page
        PROVE  i # k
    <3>1. x \in ToSet(chunks) /\ x.page = p /\ x.role = "body"
      BY DEF Of
    <3>2. x.start \in Nat /\ x.end \in Nat /\ x.start < x.end
      BY <3>1 DEF ChunkInv
    <3>3. PICK j \in 1..Emitted(p) : InSegment(x, p, j)
      BY <3>1 DEF ChunkInv
    <3>4. Emitted(p) = k - 1 /\ Len(Segs(p)) \in Nat /\ Len(todo) \in Nat
      <4>1. Emitted(page) = Len(Segs(page)) - Len(todo) - 1 /\ Len(Segs(page)) \in Nat
            /\ Len(todo) \in Nat
        BY <2>1, <2>2, EmittedFacts
      <4> QED  BY <2>4, <4>1 DEF k
    <3>5. j \in 1..Len(Segs(p)) /\ j # k
      BY <2>2, <2>4, <3>4
    <3>6. j = i
      <4>1. /\ Segs(p)[i].start <= x.start /\ x.end <= Segs(p)[i].end
            /\ Segs(p)[j].start <= x.start /\ x.end <= Segs(p)[j].end
        BY <2>4, <3>3 DEF InSegment
      <4>2. Segs(p)[i].end \in Nat /\ Segs(p)[j].end \in Nat
        BY <2>2, <3>5, PageSegments, BookFacts, StartsInOrder
      <4>3. x.start < Segs(p)[i].end /\ x.start < Segs(p)[j].end
        BY <3>2, <4>1, <4>2
      <4> QED  BY <2>2, <3>2, <3>5, <4>1, <4>3, OneSegment
    <3> QED  BY <3>5, <3>6
  <2>5. ASSUME NEW x, p = page, x.start \in Nat, x.end \in Nat, x.start < x.end,
               InSegment(x, page, k), InSegment(x, p, i)
        PROVE  i = k
    <3>1. /\ Segs(p)[i].start <= x.start /\ x.end <= Segs(p)[i].end
          /\ Segs(p)[k].start <= x.start /\ x.end <= Segs(p)[k].end
      BY <2>5 DEF InSegment
    <3>2. Segs(p)[i].end \in Nat /\ Segs(p)[k].end \in Nat /\ k \in 1..Len(Segs(p))
      BY <2>2, <2>5, PageSegments, BookFacts, StartsInOrder
    <3>3. x.start < Segs(p)[i].end /\ x.start < Segs(p)[k].end
      BY <2>5, <3>1, <3>2
    <3> QED  BY <2>2, <2>5, <3>1, <3>2, <3>3, OneSegment
  <2>6. CASE c \in Of(p, "body") /\ d \in Of(p, "body")
    BY <1>1, <1>3, <2>6
  <2>7. CASE ~ (c \in Of(p, "body") /\ d \in Of(p, "body"))
    <3>1. p = page /\ i = k
      BY <1>3, <2>3, <2>5, <2>7
    <3>2. c \notin Of(p, "body") /\ d \notin Of(p, "body")
      BY <1>3, <2>4, <3>1
    <3> QED  BY <1>3, <2>3, <3>2
  <2> QED  BY <2>6, <2>7
<1>4. ASSUME NEW p \in Pages, NEW c \in Of(p, "body")', NEW d \in Of(p, "body")',
             NEW i \in 1..Len(Segs(p)), InSegment(c, p, i), InSegment(d, p, i)
      PROVE  c.trail = d.trail
  BY <1>2, <1>3, <1>4
<1> QED  BY <1>0, <1>4 DEF SameTrail, InSegment

-------------------------------------------------------------------------------
(* Coverage *)

(* What is covered stays covered. *)
LEMMA CoverKept ==
    ASSUME book' = book, ToSet(chunks) \subseteq ToSet(chunks'), NEW p, NEW role, NEW a,
           Covered(p, role, a)
    PROVE  Covered(p, role, a)'
<1>1. Ignored(p)' = Ignored(p)
  <2>1. SegmentRanges(p)' = SegmentRanges(p)
    BY DEF SegmentRanges, LadderOf, TocOn
  <2>2. \A r : IsContent(p, r)' = IsContent(p, r)
    BY SegsStay
  <2> QED  BY <2>1, <2>2 DEF Ignored
<1>2. TextOf(p, role)' = TextOf(p, role)
  BY DEF TextOf
<1>3. Of(p, role) \subseteq Of(p, role)'
  BY DEF Of
<1> QED  BY <1>1, <1>2, <1>3 DEF Covered

(* Chunks only come. *)
LEMMA ChunksStay ==
    ASSUME ListInv, PackInv, [Next]_vars
    PROVE  ToSet(chunks) \subseteq ToSet(chunks')
<1>1. CASE EmitBody \/ EmitFootnotes
  BY <1>1, NewChunks DEF EmitBody, EmitFootnotes
<1>2. CASE UNCHANGED chunks
  BY <1>2
<1> QED
  BY <1>1, <1>2 DEF Next, vars, bookVars, OpenPage, NextSegment, Pack, OpenFootnotes, NoFootnotes,
                    Store

(* When a text is done, each word of it is in a piece. *)
LEMMA WordInPiece ==
    ASSUME PackInv, phase = "done", NEW units, text = Before(units), Len(units) = Size,
           \A i \in 1..Len(units) : units[i].tokens \in Nat,
           NEW a \in 1..Size, units[a].tokens # 0
    PROVE  \E j \in 1..Len(pieces) : pieces[j].start < a /\ a <= pieces[j].end
<1>1. Size \in Nat
  BY CutsInText DEF PackInv, PackTypeOK, Size
<1>2. /\ text[a] = text[a - 1] + units[a].tokens /\ text[a - 1] \in Nat /\ units[a].tokens \in Nat
  <2>1. a \in 1..Len(units) /\ a - 1 \in 0..Len(units) /\ Len(units) \in Nat
    BY <1>1
  <2> QED  BY <2>1, BeforeFacts
<1>3. text[a - 1] < text[a]
  BY <1>2
<1>4. children # <<>> /\ children[Len(children)].end = Size /\ looked = Len(children)
  BY <1>1 DEF PackInv, AllPacked, PiecesCover
<1>5. Reach = Size
  BY <1>4 DEF Reach, PackInv, PackTypeOK
<1> QED  BY <1>3, <1>5 DEF PackInv, PiecesCover

(* A text without tokens has none anywhere. *)
LEMMA NothingInText ==
    ASSUME NEW units, Len(units) \in Nat, \A i \in 1..Len(units) : units[i].tokens \in Nat,
           Before(units)[Len(units)] = 0
    PROVE  \A a \in 1..Len(units) : units[a].tokens = 0
<1> DEFINE n == Len(units)
           t == Before(units)
           Some == {a \in 0..n : t[a] # 0}
<1>1. /\ n \in Nat /\ t[n] = 0 /\ \A i \in 1..n : units[i].tokens \in Nat
      /\ \A a \in 1..n : t[a] = t[a - 1] + units[a].tokens
      /\ \A a \in 0..n : t[a] \in Nat
  BY BeforeFacts
<1> HIDE DEF n, t
<1>2. Some = {}
  <2> SUFFICES ASSUME Some # {} PROVE FALSE
    OBVIOUS
  <2>1. PICK a \in Some : \A b \in Some : b <= a
    <3>1. Some \in SUBSET (0..n)
      OBVIOUS
    <3> HIDE DEF Some
    <3> QED  BY <1>1, <3>1, GreatestFound
  <2>2. a \in 0..n /\ t[a] # 0
    OBVIOUS
  <2>3. a # n
    BY <1>1, <2>2
  <2>4. a + 1 \in 1..n /\ a + 1 \in 0..n /\ (a + 1) - 1 = a /\ ~ (a + 1 <= a)
    BY <1>1, <2>2, <2>3
  <2>5. t[a + 1] = 0
    BY <2>1, <2>4
  <2>6. t[a + 1] = t[a] + units[a + 1].tokens /\ t[a] \in Nat /\ units[a + 1].tokens \in Nat
    BY <1>1, <2>2, <2>4
  <2> QED  BY <2>2, <2>5, <2>6
<1>3. ASSUME NEW a \in 1..n
      PROVE  units[a].tokens = 0
  <2>1. a \in 0..n /\ a - 1 \in 0..n
    BY <1>1
  <2>2. t[a] = 0 /\ t[a - 1] = 0
    BY <1>2, <2>1
  <2>3. t[a] = t[a - 1] + units[a].tokens /\ units[a].tokens \in Nat
    BY <1>1
  <2> QED  BY <2>2, <2>3
<1> QED  BY <1>3 DEF n

(* The words of a packed segment are in its chunks. *)
LEMMA BodyCovered ==
    ASSUME PlaceInv, PageInv, ListInv, PackInv, PiecesSolid, EmitBody,
           NEW a \in segment.start + 1..segment.end, NEW p, p = page
    PROVE  Covered(p, "body", a)'
<1>1. stage = "body" /\ Emit("body", segment.start) /\ phase = "done" /\ book' = book
  BY DEF EmitBody, Emit
<1>2. /\ segment.start \in 0..Len(Body) /\ segment.end \in 0..Len(Body) /\ Len(Body) \in Nat
      /\ segment.start < segment.end /\ Size = segment.end - segment.start
  BY <1>1, SegmentSize
<1>3. page \in Pages /\ book \in Library
  BY <1>1, OpenFacts
<1> DEFINE s == segment.start
           e == segment.end
           units == Slice(Body, s, e)
           i == a - s
<1>4. Body = book.pages[page].body /\ IsText(Body)
  BY <1>3, BookFacts DEF Body
<1>5. s \in 0..Len(Body) /\ e \in 0..Len(Body) /\ s <= e
  BY <1>2
<1>6. Len(units) = e - s /\ \A k \in 1..e - s : units[k] = Body[s + k] /\ units[k].tokens \in Nat
  BY <1>4, <1>5, SliceFacts
<1>7. i \in 1..e - s /\ s + i = a /\ a \in Nat /\ i \in Nat /\ s \in Nat /\ e \in Nat
  BY <1>2
<1>8. text = Before(units)
  BY <1>1 DEF PageInv
<1> HIDE DEF units
<1>9. CASE Body[a].tokens = 0
  <2>1. TextOf(p, "body")' = Body
    BY <1>1, <1>4 DEF TextOf
  <2> QED  BY <1>9, <2>1 DEF Covered
<1>10. CASE Body[a].tokens # 0
  <2>1. units[i].tokens # 0
    BY <1>6, <1>7, <1>10
  <2>2. PICK j \in 1..Len(pieces) : pieces[j].start < i /\ i <= pieces[j].end
    <3>1. Len(units) = Size /\ i \in 1..Size /\ \A k \in 1..Len(units) : units[k].tokens \in Nat
      BY <1>2, <1>6, <1>7
    <3> HIDE DEF i
    <3> QED  BY <1>1, <1>8, <2>1, <3>1, WordInPiece
  <2>3. PICK c : c = Chunk("body", segment.start, pieces[j])
    OBVIOUS
  <2>4. /\ c.page = page /\ c.role = "body" /\ c.start = s + pieces[j].start /\ c.end = s + pieces[j].end
    BY <1>1, <2>3, ChunkPlace
  <2>5. pieces[j].start \in Nat /\ pieces[j].end \in Nat
    BY ElementTypes DEF PackInv
  <2>6. c.start < a /\ a <= c.end
    BY <1>7, <2>2, <2>4, <2>5
  <2>7. c \in ToSet(chunks')
    BY <1>1, <2>3, NewChunks
  <2>8. c \in Of(p, "body")'
    BY <2>4, <2>7 DEF Of
  <2> QED  BY <2>6, <2>8 DEF Covered
<1> QED  BY <1>9, <1>10
(* The words of a page's footnotes are in its chunks. *)
LEMMA FootnotesCovered ==
    ASSUME PlaceInv, PageInv, ListInv, PackInv, PiecesSolid, EmitFootnotes \/ NoFootnotes,
           NEW p, p = page, NEW a \in DOMAIN TextOf(p, "footnote")
    PROVE  Covered(p, "footnote", a)'
<1>1. book' = book
  BY DEF EmitFootnotes, NoFootnotes, Emit
<1>2. page \in Pages /\ book \in Library
  BY DEF PlaceInv, Open, Read, EmitFootnotes, NoFootnotes
<1>3. TextOf(p, "footnote") = Footnotes /\ TextOf(p, "footnote")' = Footnotes
  BY <1>1 DEF TextOf, Footnotes
<1>4. IsText(Footnotes) /\ Len(Footnotes) \in Nat
      /\ \A i \in 1..Len(Footnotes) : Footnotes[i].tokens \in Nat
  BY <1>2, BookFacts, TextFacts DEF Footnotes
<1>5. a \in 1..Len(Footnotes) /\ a \in Nat
  BY <1>3, <1>4 DEF IsText
<1>6. CASE Footnotes[a].tokens = 0
  BY <1>3, <1>6 DEF Covered
<1>7. CASE EmitFootnotes /\ Footnotes[a].tokens # 0
  <2>1. stage = "footnotes" /\ Emit("footnote", 0) /\ phase = "done" /\ text = Before(Footnotes)
    BY <1>7 DEF EmitFootnotes, Emit, PageInv
  <2>2. Size = Len(Footnotes)
    <3>1. DOMAIN text = 0..Len(Footnotes)
      BY <1>4, <2>1, BeforeFacts
    <3>2. DOMAIN text = 0..Size /\ Size \in Nat
      BY CutsInText DEF PackInv, PackTypeOK, WellFormed, Size
    <3> QED  BY <1>4, <3>1, <3>2
  <2>3. PICK j \in 1..Len(pieces) : pieces[j].start < a /\ a <= pieces[j].end
    BY <1>4, <1>5, <1>7, <2>1, <2>2, WordInPiece
  <2>4. PICK c : c = Chunk("footnote", 0, pieces[j])
    OBVIOUS
  <2>5. c.page = page /\ c.role = "footnote" /\ c.start = pieces[j].start /\ c.end = pieces[j].end
    BY <2>1, <2>4, FootnotePlace
  <2>6. c \in ToSet(chunks')
    BY <2>1, <2>4, NewChunks
  <2>7. c \in Of(p, "footnote")'
    BY <2>5, <2>6 DEF Of
  <2> QED  BY <2>3, <2>5, <2>7 DEF Covered
<1>8. CASE NoFootnotes
  <2>1. Before(Footnotes)[Len(Footnotes)] = 0
    BY <1>8 DEF NoFootnotes
  <2>2. Footnotes[a].tokens = 0
    BY <1>4, <1>5, <2>1, NothingInText
  <2> QED  BY <1>6, <2>2
<1> QED  BY <1>6, <1>7, <1>8

(* When a segment or the footnotes are done, all of their words are in     *)
(* chunks.                                                                 *)
LEMMA CoverStep ==
    ASSUME PlaceInv, PageInv, ListInv, PackInv, PiecesSolid, CoverInv, [Next]_vars
    PROVE  CoverInv'
<1>0. /\ book' = book /\ ToSet(chunks) \subseteq ToSet(chunks')
      /\ \A p : Segs(p)' = Segs(p) /\ \A r : IsContent(p, r)' = IsContent(p, r)
  BY BookStays, SegsStay, ChunksStay
<1>1. ASSUME NEW p \in Read', NEW i \in 1..Emitted(p)',
             IsContent(p, <<Segs(p)[i].start, Segs(p)[i].end>>),
             NEW a \in Segs(p)[i].start + 1..Segs(p)[i].end
      PROVE  Covered(p, "body", a)'
  <2>1. CASE p \in Read /\ i \in 1..Emitted(p)
    <3>1. Covered(p, "body", a)
      BY <1>1, <2>1 DEF CoverInv
    <3> QED  BY <1>0, <3>1, CoverKept
  <2>2. CASE p = page /\ i = Len(Segs(page)) - Len(todo) /\ EmitBody
    <3>1. segment = Segs(p)[i]
      BY <2>2, SegmentSize DEF EmitBody
    <3> QED  BY <1>1, <2>2, <3>1, BodyCovered
  <2>3. CASE /\ p = page /\ NextSegment /\ segment' = Segs(page)[i]
             /\ Navigational(Slice(Body, segment'.start, segment'.end))
    <3>1. ~ IsContent(p, <<Segs(p)[i].start, Segs(p)[i].end>>)
      BY <2>3 DEF IsContent, Body
    <3> QED  BY <1>1, <3>1
  <2> QED  BY <1>1, <2>1, <2>2, <2>3, EmittedStep
<1>2. ASSUME NEW p \in Read', ~ (p = page' /\ Open'),
             NEW a \in DOMAIN TextOf(p, "footnote")
      PROVE  Covered(p, "footnote", a)'
  <2>1. ASSUME p \in Read, ~ (p = page /\ Open)
        PROVE  Covered(p, "footnote", a)'
    <3>1. Covered(p, "footnote", a)
      BY <1>2, <2>1 DEF CoverInv
    <3> QED  BY <1>0, <3>1, CoverKept
  <2>2. CASE OpenPage
    <3>1. Read' = Read \cup {page'} /\ ~ Open /\ Open'
      BY <2>2, <1>0, LeastFound, BookFacts DEF OpenPage, Read, Pages, Open, PlaceInv
    <3> QED  BY <1>2, <2>1, <3>1
  <2>3. CASE EmitFootnotes \/ NoFootnotes
    <3>1. Read' = Read
      BY <1>0, <2>3 DEF EmitFootnotes, NoFootnotes, Emit, Read, Pages
    <3>2. CASE p = page
      BY <1>2, <2>3, <3>2, FootnotesCovered
    <3> QED  BY <1>2, <2>1, <3>1, <3>2
  <2>4. CASE UNCHANGED <<unread, page>> /\ (Open => Open')
    <3>1. Read' = Read
      BY <1>0, <2>4 DEF Read, Pages
    <3> QED  BY <1>2, <2>1, <2>4, <3>1
  <2>5. CASE Store
    <3>1. Read' = Read /\ ~ Open
      BY <1>0, <2>5 DEF Store, Read, Pages, Open
    <3> QED  BY <1>2, <2>1, <3>1
  <2> QED
    BY <2>2, <2>3, <2>4, <2>5 DEF Next, vars, bookVars, NextSegment, Pack, EmitBody, Emit,
       OpenFootnotes, Open
<1>3. \A p : TextOf(p, "footnote")' = TextOf(p, "footnote")
  BY <1>0 DEF TextOf
<1> QED  BY <1>0, <1>1, <1>2, <1>3 DEF CoverInv

-------------------------------------------------------------------------------
(* The gate *)

(* The harness finds the segments that chunk_book made. *)
LEMMA RangesAreSegments ==
    ASSUME book \in Library, NEW p \in Pages, NEW i \in 1..Len(Segs(p))
    PROVE  <<Segs(p)[i].start, Segs(p)[i].end>> \in SegmentRanges(p)
<1> DEFINE n == Len(book.pages[p].body)
           points == {0} \cup {b.at : b \in ToSet(LadderOf(p))}
           s == Segs(p)[i].start
           e == Segs(p)[i].end
<1>1. points = Points(LadderOf(p))
  BY DEF Points, ToSet
<1>2. SegmentsWhole(Segs(p), LadderOf(p), n)
  BY PageSegments
<1>3. s \in points /\ e \in points \cup {n} /\ s < e /\ \A a \in points : ~ (s < a /\ a < e)
  BY <1>1, <1>2 DEF SegmentsWhole
<1>4. SegmentRanges(p) = {r \in points \X (points \cup {n}) :
                            r[1] < r[2] /\ ~ \E c \in points : r[1] < c /\ c < r[2]}
  BY DEF SegmentRanges
<1> HIDE DEF points, n, s, e
<1>5. <<s, e>> \in SegmentRanges(p)
  BY <1>3, <1>4
<1> QED  BY <1>5 DEF s, e

(* Once the book is chunked each part of its gate passes. *)
LEMMA ChecksPass ==
    ASSUME PlaceInv, PageInv, ChunkInv, SameTrail, CoverInv, stage = "stored", NEW p \in Pages
    PROVE  /\ CheckVerbatim(p) /\ CheckInlineToc(p) /\ CheckSectionIntegrity(p)
           /\ CheckOverlapWithinSection(p) /\ CheckCoverage(p)
<1> DEFINE n == Len(book.pages[p].body)
           s == Segs(p)
<1>1. book \in Library /\ p \in Read /\ ~ Open /\ Emitted(p) = Len(s)
  BY DEF PlaceInv, Read, Open, Emitted
<1>2. IsText(book.pages[p].body) /\ n \in Nat /\ Len(book.pages[p].footnotes) \in Nat
  BY <1>1, BookFacts
<1>3. SegmentsWhole(s, LadderOf(p), n) /\ Len(s) \in Nat
  BY <1>1, PageSegments DEF SegmentsWhole
<1>4. \A i \in 1..Len(s) : /\ s[i].start \in Nat /\ s[i].end \in Nat
                           /\ s[i].start < s[i].end /\ s[i].end <= n
  BY <1>2, <1>3, StartsInOrder
<1>5. ASSUME NEW c \in Of(p, "body")
      PROVE  /\ c.start \in Nat /\ c.end \in Nat /\ c.start < c.end
             /\ \E i \in 1..Len(s) : InSegment(c, p, i) /\ IsContent(p, <<s[i].start, s[i].end>>)
  <2>1. c \in ToSet(chunks) /\ c.page = p /\ c.role = "body"
    BY DEF Of
  <2> QED  BY <1>1, <2>1 DEF ChunkInv
<1>6. CheckVerbatim(p)
  <2>1. ASSUME NEW c \in Of(p, "body")
        PROVE  0 <= c.start /\ c.start <= c.end /\ c.end <= n
    <3>1. PICK i \in 1..Len(s) : InSegment(c, p, i)
      BY <1>5
    <3>2. c.end <= s[i].end /\ s[i].end <= n /\ s[i].end \in Nat
      BY <1>4, <3>1 DEF InSegment
    <3> HIDE DEF n, s
    <3> QED  BY <1>2, <1>5, <3>2
  <2>2. ASSUME NEW c \in Of(p, "footnote")
        PROVE  0 <= c.start /\ c.start <= c.end /\ c.end <= Len(book.pages[p].footnotes)
    <3>1. c \in ToSet(chunks) /\ c.page = p /\ c.role = "footnote"
      BY DEF Of
    <3> QED  BY <3>1 DEF ChunkInv
  <2> QED  BY <2>1, <2>2 DEF CheckVerbatim, TextOf
<1>7. CheckInlineToc(p)
  <2> SUFFICES ASSUME NEW a \in Starts(book.pages[p].body, "span")
               PROVE  \E b \in ToSet(LadderOf(p)) :
                         /\ b.source = "inline_toc" /\ b.at = a
                         /\ b.id = book.pages[p].body[a + 1].id
    BY DEF CheckInlineToc
  <2> DEFINE units == book.pages[p].body
             b == Boundary(a, "inline_toc", units[a + 1].id, units[a + 1].name)
  <2>1. b \in Inline(units)
    BY DEF Inline
  <2>2. LadderOf(p) = SetToSeq(Inline(units))
    BY <2>1 DEF LadderOf, Boundaries
  <2>3. ToSet(LadderOf(p)) = Inline(units)
    BY <1>2, <2>2, InlineFacts, SetIsLadder
  <2>4. b.source = "inline_toc" /\ b.at = a /\ b.id = units[a + 1].id
    BY DEF Boundary
  <2> HIDE DEF b
  <2> QED  BY <2>1, <2>3, <2>4
<1>8. CheckSectionIntegrity(p)
  <2> SUFFICES ASSUME NEW c \in Of(p, "body")
               PROVE  \E r \in SegmentRanges(p) :
                         IsContent(p, r) /\ r[1] <= c.start /\ c.end <= r[2]
    BY DEF CheckSectionIntegrity
  <2>1. PICK i \in 1..Len(s) : InSegment(c, p, i) /\ IsContent(p, <<s[i].start, s[i].end>>)
    BY <1>5
  <2>2. PICK r : r = <<s[i].start, s[i].end>>
    OBVIOUS
  <2>3. r \in SegmentRanges(p)
    BY <1>1, <2>2, RangesAreSegments
  <2>4. r[1] <= c.start /\ c.end <= r[2]
    BY <2>1, <2>2 DEF InSegment
  <2> QED  BY <2>1, <2>2, <2>3, <2>4
<1>9. CheckOverlapWithinSection(p)
  <2> SUFFICES ASSUME NEW c \in Of(p, "body"), NEW d \in Of(p, "body"),
                      c.start <= d.start, d.start < c.end
               PROVE  c.trail = d.trail
    BY DEF CheckOverlapWithinSection
  <2>1. PICK i \in 1..Len(s) : InSegment(c, p, i)
    BY <1>5
  <2>2. PICK j \in 1..Len(s) : InSegment(d, p, j)
    BY <1>5
  <2>3. /\ s[i].start <= c.start /\ c.end <= s[i].end /\ s[j].start <= d.start /\ d.end <= s[j].end
        /\ c.start \in Nat /\ c.end \in Nat /\ d.start \in Nat /\ d.end \in Nat /\ d.start < d.end
        /\ s[i].start \in Nat /\ s[i].end \in Nat /\ s[j].end \in Nat
    BY <1>4, <1>5, <2>1, <2>2 DEF InSegment
  <2>4. s[i].start <= d.start /\ d.start < s[i].end /\ d.start < s[j].end
    <3> HIDE DEF s
    <3> QED  BY <2>3
  <2>5. i = j
    BY <1>1, <2>3, <2>4, OneSegment
  <2> QED  BY <2>1, <2>2, <2>5 DEF SameTrail
<1>10. CheckCoverage(p)
  <2>1. ASSUME NEW a \in DOMAIN TextOf(p, "body")
        PROVE  Covered(p, "body", a)
    <3>1. a \in 1..n
      BY <1>2 DEF TextOf, IsText
    <3>2. PICK i \in 1..Len(s) : s[i].start < a /\ a <= s[i].end
      BY <1>3, <3>1 DEF SegmentsWhole
    <3>3. CASE IsContent(p, <<s[i].start, s[i].end>>)
      <4>1. a \in s[i].start + 1..s[i].end
        <5> HIDE DEF s, n
        <5> QED  BY <1>2, <1>4, <3>1, <3>2
      <4> QED  BY <1>1, <3>3, <4>1 DEF CoverInv
    <3>4. CASE ~ IsContent(p, <<s[i].start, s[i].end>>)
      <4>1. PICK r : r = <<s[i].start, s[i].end>>
        OBVIOUS
      <4>2. r \in Ignored(p)
        BY <1>1, <3>4, <4>1, RangesAreSegments DEF Ignored
      <4>3. r[1] < a /\ a <= r[2]
        BY <3>2, <4>1
      <4> QED  BY <4>2, <4>3 DEF Covered
    <3> QED  BY <3>3, <3>4
  <2>2. ASSUME NEW a \in DOMAIN TextOf(p, "footnote")
        PROVE  Covered(p, "footnote", a)
    BY <1>1, <2>2 DEF CoverInv
  <2> QED  BY <2>1, <2>2 DEF CheckCoverage
<1> QED  BY <1>6, <1>7, <1>8, <1>9, <1>10

(* So the gate has nothing to find. *)
LEMMA NothingFound ==
    ASSUME PlaceInv, PageInv, ChunkInv, SameTrail, CoverInv
    PROVE  GatePasses
<1> SUFFICES ASSUME stage = "stored" PROVE HardFindings = {}
  BY DEF GatePasses
<1>1. \A p \in Pages : /\ CheckVerbatim(p) /\ CheckInlineToc(p) /\ CheckSectionIntegrity(p)
                       /\ CheckOverlapWithinSection(p) /\ CheckCoverage(p)
  BY ChecksPass
<1> QED  BY <1>1 DEF HardFindings

-------------------------------------------------------------------------------
(* The invariant of a book's chunking: where chunk_book is, what the chunks  *)
(* that are there cover, and that each trail is the one its headings leave.  *)
BookInv ==
    /\ PackInv /\ PiecesSolid
    /\ PlaceInv /\ PageInv /\ ListInv
    /\ ChunkInv /\ SameTrail /\ CoverInv
    /\ UnderInv /\ StoreInv
    /\ TrailInv

(* There are no chunks at first. *)
LEMMA BookInit == Init => BookInv
<1> SUFFICES ASSUME Init PROVE BookInv  OBVIOUS
<1>1. PackInit /\ stage = "pages" /\ unread = Pages /\ chunks = <<>> /\ trail = book.root
      /\ under = None /\ book \in Library
  BY DEF Init, Pages
<1>2. PackInv /\ PlaceInv /\ PageInv
  BY <1>1, InitInv, PlaceInit
<1>3. PiecesSolid
  BY <1>1 DEF PackInit, PiecesSolid
<1>4. ToSet(chunks) = {} /\ Len(chunks) = 0 /\ ListInv
  BY <1>1 DEF ToSet, ListInv
<1>5. ChunkInv /\ SameTrail
  BY <1>4 DEF ChunkInv, SameTrail, Of
<1>6. Read = {}
  BY <1>1 DEF Read
<1>7. CoverInv
  BY <1>6 DEF CoverInv
<1>8. UnderInv /\ StoreInv
  BY <1>1, <1>4 DEF UnderInv, UnderIsRight, StoreInv
<1>9. Passed = {}
  BY <1>1, HeadingFacts DEF Passed
<1>10. TrailInv
  BY <1>1, <1>4, <1>9 DEF TrailInv, LeftBy
<1> QED  BY <1>2, <1>3, <1>4, <1>5, <1>7, <1>8, <1>10 DEF BookInv

(* Each step keeps the invariant. *)
LEMMA BookStep == BookInv /\ [Next]_vars => BookInv'
<1> SUFFICES ASSUME BookInv, [Next]_vars PROVE BookInv'  OBVIOUS
<1> USE DEF BookInv
<1>1. [PackNext]_packVars
  BY StepPacks DEF vars
<1>2. PackInv'
  BY <1>1, LoadInv, AddInv, SplitInv, CloseInv, DropInv, KeepInv, JoinInv, FinishInv,
     StutterInv DEF PackNext, PackStep
<1>3. PiecesSolid'
  BY <1>1, SolidStep
<1>4. PlaceInv' /\ PageInv' /\ ListInv'
  BY PlaceStep, PageStep, ListStep
<1>5. ChunkInv' /\ SameTrail' /\ CoverInv'
  BY ChunkStep, SameTrailStep, CoverStep
<1>6. UnderInv' /\ StoreInv' /\ TrailInv'
  BY UnderStep, StoreStep, TrailStep
<1> QED  BY <1>2, <1>3, <1>4, <1>5, <1>6

(* The invariant holds of every book under every policy: it is what the    *)
(* gate, the headings and the sections of the rows rest on.                *)
THEOREM BookChunked == Spec => []BookInv
  BY BookInit, BookStep, PTL DEF Spec

(* Whatever the headings, breaks and sizes of a book, each of its words is   *)
(* in a chunk of its own section or under a heading left out as navigational:*)
(* the structural gate of the evaluation finds nothing.                      *)
THEOREM GateFindsNothing == Spec => []GatePasses
<1>1. BookInv => GatePasses
  BY NothingFound DEF BookInv
<1> QED  BY <1>1, BookChunked, PTL

(* A chunk of a page's body has the trail of the nearest heading above it.   *)
THEOREM HeadingsAreKept == Spec => []HeadingsKept
<1>1. BookInv => HeadingsKept
  BY TrailHeld DEF BookInv
<1> QED  BY <1>1, BookChunked, PTL

(* If the trails of a book's sections differ, each chunk is stored in the    *)
(* section under whose heading it stands.                                    *)
THEOREM ChunksKeepTheirSection == Spec => []ChunksInTheirSection
<1>1. BookInv => ChunksInTheirSection
  BY StoredRight DEF BookInv, PlaceInv
<1> QED  BY <1>1, BookChunked, PTL
=============================================================================
