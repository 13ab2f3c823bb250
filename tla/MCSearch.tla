------------------------------- MODULE MCSearch -------------------------------
(* An instance of SearchDuringIngest for TLC. *)
EXTENDS SearchDuringIngest, TLC

OneRequest == {"r"}

Spot(page, offset, role, section, tokens) ==
    [page |-> page, offset |-> offset, role |-> role, section |-> section,
     tokens |-> tokens]

(* Book 1: two neighbours in a section.  Book 2: one chunk outside of any. *)
TwoBooks == 1..2
TinyLayout ==
    [b \in TwoBooks |->
       IF b = 1 THEN <<Spot(1, 0, 1, 1, 1), Spot(1, 1, 1, 1, 1)>>
       ELSE <<Spot(1, 0, 1, 0, 1)>>]
TinyCounts == [b \in TwoBooks |-> Len(TinyLayout[b])]

(* A process for each book, named by it. *)
OneBookEach ==
    [b \in TwoBooks |-> {[driver |-> "corpus", resume |-> FALSE, dry |-> FALSE,
                          books |-> {b}]}]

TinyInquiries ==
    {[kind |-> "retrieve", book |-> 1, k |-> 1],
     [kind |-> "ask", book |-> 0, k |-> 2]}

=============================================================================
