------------------------------- MODULE Packing -------------------------------
(***************************************************************************)
(* How one text becomes pieces: split_section_offsets packs the atoms of   *)
(* the text into overlapping children, and merge_short_fragments joins     *)
(* children that are too short.  One step is one turn of a loop.           *)
(*                                                                         *)
(* A text is the number of tokens before each of its places, text[0] to    *)
(* text[n]: count_tokens is additive at the places where the code cuts,    *)
(* and a stretch without tokens is white space.                            *)
(***************************************************************************)
EXTENDS Naturals, Sequences

CONSTANTS
    MaxTokens,    \* SizePolicy.max_tokens
    MinTokens,    \* SizePolicy.min_tokens
    SplitTarget,  \* SizePolicy.split_target_tokens
    Overlap,      \* SizePolicy.overlap_tokens
    AtomMax       \* the most tokens an atom has: max_tokens, or
                  \* split_target_tokens and the rest of one long word

ASSUME PolicyAssumption ==
    /\ MaxTokens \in Nat /\ MinTokens \in Nat /\ SplitTarget \in Nat
    /\ Overlap \in Nat /\ AtomMax \in Nat
    /\ MaxTokens <= AtomMax /\ SplitTarget <= AtomMax

VARIABLES
    text,      \* the tokens before each place
    cuts,      \* the places between the atoms, first and last included
    joins,     \* are short children of this text joined?
    phase,     \* where the work on it is
    first,     \* the first atom in current
    taken,     \* how many atoms were taken
    children,  \* what split_section_offsets returns
    looked,    \* how many children the second loop has seen
    pieces     \* the fragments that become chunks

packVars == <<text, cuts, joins, phase, first, taken, children, looked, pieces>>

Tokens(a, b) == text[b] - text[a]

Size == cuts[Len(cuts)]

Atoms == Len(cuts) - 1

WellFormed(t, c) ==
    /\ c \in Seq(Nat) /\ Len(c) >= 1 /\ c[1] = 0
    /\ DOMAIN t = 0..c[Len(c)]
    /\ \A a \in DOMAIN t : t[a] \in Nat
    /\ \A a, b \in DOMAIN t : a <= b => t[a] <= t[b]
    /\ \A i, j \in 1..Len(c) : i < j => c[i] < c[j]
    /\ \A i \in 1..Len(c) - 1 : t[c[i + 1]] <= t[c[i]] + AtomMax

PackInit ==
    /\ text = [a \in {0} |-> 0] /\ cuts = <<0>> /\ joins = FALSE
    /\ phase = "done"
    /\ first = 1 /\ taken = 0 /\ children = <<>>
    /\ looked = 0 /\ pieces = <<>>

(* A text that fits is one child, whatever its atoms. *)
Load ==
    /\ phase = "done"
    /\ WellFormed(text', cuts') /\ joins' \in BOOLEAN
    /\ first' = 1 /\ taken' = 0 /\ looked' = 0 /\ pieces' = <<>>
    /\ \/ /\ Size' = 0
          /\ children' = <<>> /\ phase' = "joining"
       \/ /\ Size' > 0 /\ text'[Size'] - text'[0] <= MaxTokens
          /\ children' = <<[start |-> 0, end |-> Size']>> /\ phase' = "joining"
       \/ /\ Size' > 0 /\ text'[Size'] - text'[0] > MaxTokens
          /\ children' = <<>> /\ phase' = "packing"

Current == [start |-> cuts[first], end |-> cuts[taken + 1]]

(* Mutant: the target is checked before the atom is counted. *)
FullBefore == first <= taken /\ Tokens(cuts[first], cuts[taken + 1]) > SplitTarget

Full == first <= taken /\ Tokens(cuts[first], cuts[taken + 2]) > SplitTarget

Add ==
    /\ phase = "packing" /\ taken < Atoms /\ ~ Full
    /\ taken' = taken + 1
    /\ UNCHANGED <<text, cuts, joins, phase, first, children, looked, pieces>>

(* Mutant: the overlap is checked after the atom is carried. *)
CarriedOneMore(f) ==
    /\ f <= taken
    /\ Tokens(cuts[f + 1], cuts[taken + 1]) <= Overlap
    /\ \A g \in first..(f - 1) : Tokens(cuts[g + 1], cuts[taken + 1]) > Overlap

(* The atoms from f on are the longest end of current within the overlap. *)
Carried(f) ==
    /\ Tokens(cuts[f], cuts[taken + 1]) <= Overlap
    /\ \A g \in first..(f - 1) : Tokens(cuts[g], cuts[taken + 1]) > Overlap

Split ==
    /\ phase = "packing" /\ taken < Atoms /\ Full
    /\ children' = Append(children, Current)
    /\ \E f \in first..(taken + 1) : Carried(f) /\ first' = f
    /\ taken' = taken + 1
    /\ UNCHANGED <<text, cuts, joins, phase, looked, pieces>>

(* Mutant: what is left in current is forgotten. *)
CloseForgetting ==
    /\ phase = "packing" /\ taken = Atoms
    /\ phase' = "joining"
    /\ UNCHANGED <<text, cuts, joins, first, taken, children, looked, pieces>>

Close ==
    /\ phase = "packing" /\ taken = Atoms
    /\ children' = IF first <= taken THEN Append(children, Current) ELSE children
    /\ phase' = "joining"
    /\ UNCHANGED <<text, cuts, joins, first, taken, looked, pieces>>

-------------------------------------------------------------------------------
(* Fragments: count is what count_tokens says of the joined texts, which   *)
(* counts an overlap twice.                                                *)

Child == children[looked + 1]

Count(c) == Tokens(c.start, c.end)

Blank(c) == Count(c) = 0

Fragment(c) == [start |-> c.start, end |-> c.end, count |-> Count(c)]

CanMerge(p, c) ==
    /\ joins
    /\ p.count < MinTokens \/ Count(c) < MinTokens
    /\ p.count + Count(c) <= MaxTokens

Merged(p, c) == [start |-> p.start, end |-> c.end, count |-> p.count + Count(c)]

Look ==
    /\ phase = "joining" /\ looked < Len(children)
    /\ looked' = looked + 1
    /\ UNCHANGED <<text, cuts, joins, phase, first, taken, children>>

Drop == Look /\ Blank(Child) /\ UNCHANGED pieces

Keep ==
    /\ Look /\ ~ Blank(Child)
    /\ pieces # <<>> => ~ CanMerge(pieces[Len(pieces)], Child)
    /\ pieces' = Append(pieces, Fragment(Child))

Join ==
    /\ Look /\ ~ Blank(Child)
    /\ pieces # <<>> /\ CanMerge(pieces[Len(pieces)], Child)
    /\ pieces' = [pieces EXCEPT ![Len(pieces)] = Merged(@, Child)]

Finish ==
    /\ phase = "joining" /\ looked = Len(children)
    /\ phase' = "done"
    /\ UNCHANGED <<text, cuts, joins, first, taken, children, looked, pieces>>

PackStep == Add \/ Split \/ Close \/ Drop \/ Keep \/ Join \/ Finish

PackNext == Load \/ PackStep

PackSpec == PackInit /\ [][PackNext]_packVars

-------------------------------------------------------------------------------
(* Properties *)

(* sizing.py promises no bound for what the overlap is added to: a piece   *)
(* has at most one atom and one overlap, however it was packed and joined. *)
PieceLimit ==
    \A i \in 1..Len(pieces) :
        Tokens(pieces[i].start, pieces[i].end) <= AtomMax + Overlap

(* Two neighbours share no more tokens than overlap_tokens, joined or not. *)
LittleShared ==
    \A i \in 1..Len(pieces) - 1 :
        text[pieces[i].end] <= text[pieces[i + 1].start] + Overlap

(* No word of a text is lost between packing, dropping and joining. *)
NothingLost ==
    phase = "done" =>
        \A a \in 1..Size : text[a - 1] < text[a] =>
            \E i \in 1..Len(pieces) : pieces[i].start < a /\ a <= pieces[i].end
=============================================================================
