------------------------------ MODULE BookIndex ------------------------------
(***************************************************************************)
(* What ingestion promises to whoever searches: the abstract specification *)
(* of a book's place in the index.                                         *)
(*                                                                         *)
(*   current[b]     the chunk ids of the edition of b that is in force     *)
(*   searchable[b]  those of them a search can return                      *)
(*                                                                         *)
(* An edition is replaced as a whole and by ids that were not in use, its  *)
(* passages then become searchable some at a time, and none of them is     *)
(* taken away except by the next edition.  A search therefore never mixes  *)
(* two editions of a book, and a chunk id names one passage for ever.      *)
(***************************************************************************)
EXTENDS Naturals

CONSTANT Books

VARIABLES current, searchable

vars == <<current, searchable>>

Init ==
    /\ current = [b \in Books |-> {}]
    /\ searchable = [b \in Books |-> {}]

(* A new edition of b comes into force; nothing of it can be found yet. *)
Replace(b) ==
    /\ current' \in [Books -> SUBSET Nat]
    /\ \A c \in Books \ {b} : current'[c] = current[c]
    /\ \A c \in Books : current'[b] \cap current[c] = {}
    /\ searchable' = [searchable EXCEPT ![b] = {}]

(* More passages of the edition in force can be found. *)
Reveal(b) ==
    /\ searchable' \in [Books -> SUBSET Nat]
    /\ \A c \in Books \ {b} : searchable'[c] = searchable[c]
    /\ searchable[b] \subseteq searchable'[b]
    /\ searchable'[b] \subseteq current[b]
    /\ UNCHANGED current

Next == \E b \in Books : Replace(b) \/ Reveal(b)

Spec == Init /\ [][Next]_vars

===============================================================================
