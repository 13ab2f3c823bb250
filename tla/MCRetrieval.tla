----------------------------- MODULE MCRetrieval -----------------------------
(* An instance of Retrieval for TLC. *)
EXTENDS Retrieval

CONSTANT MaxEditions    \* bound: editions of each book ever drawn

OneRequest == {"r"}

Spot(page, offset, role, section, tokens) ==
    [page |-> page, offset |-> offset, role |-> role, section |-> section,
     tokens |-> tokens]

(* Book 1: a section with four body chunks on three pages.  The second is  *)
(* kept with its neighbours on either side; the third has them too, but    *)
(* the cap takes one away; the last is cut down to itself.  Book 2: two    *)
(* chunks outside of any section, a footnote that sorts before the body of *)
(* its page.                                                               *)
TwoBooks == 1..2
SmallLayout ==
    [b \in TwoBooks |->
       IF b = 1 THEN <<Spot(1, 0, 1, 1, 1), Spot(2, 0, 1, 1, 1), Spot(2, 4, 1, 1, 1),
                       Spot(3, 0, 1, 1, 3)>>
       ELSE <<Spot(1, 2, 1, NoSection, 4), Spot(1, 0, 2, NoSection, 1)>>]

SmallEditions == [b \in TwoBooks |-> IF b = 1 THEN 2 ELSE 1]

SmallInquiries ==
    {[kind |-> "retrieve", book |-> 1, k |-> 2],
     [kind |-> "ask", book |-> AnyBook, k |-> 2]}

Editions(b) == {rows[i].edition : i \in {j \in DOMAIN rows : rows[j].book = b}}

Pending == \E r \in Requests : req[r].step # "done"

Unasked == \A r \in Requests : req[r].step = "idle"

(* Book 2 stands still while a request is in progress, and the whole index *)
(* once all requests are answered.                                         *)
BoundedReindex ==
    /\ Pending
    /\ \E b \in Books : Reindex(b) /\ (b = 2 => Unasked)
    /\ \A b \in Books : Cardinality(Editions(b)') <= MaxEditions[b]

BoundedNext == (\E r \in Requests : Request(r)) \/ BoundedReindex

BoundedSpec == Init /\ [][BoundedNext]_vars

=============================================================================
