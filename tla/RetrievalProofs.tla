--------------------------- MODULE RetrievalProofs ---------------------------
(***************************************************************************)
(* Proofs about Retrieval, for any books, layouts, limits and requests.    *)
(* IndexInv says that an edition is committed as a whole or not at all;    *)
(* Sound says of a request what it knows by then, in particular that a row *)
(* it has seen is committed still or Gone for good; PartsInv says that     *)
(* what it has expanded is a WholePassage.                                 *)
(***************************************************************************)
EXTENDS Retrieval, FiniteSetTheorems, WellFoundedInduction, TLAPS

(* An edition has a row for each place of its book, in their order. *)
Numbered(i) ==
    LET e == rows[i].edition
        b == rows[i].book
    IN  /\ b \in Books /\ e \in Nat \ {0}
        /\ rows[i].at = i - e + 1
        /\ rows[i].at \in 1..Len(Layout[b])
        /\ \A n \in 1..Len(Layout[b]) :
             /\ e + n - 1 \in DOMAIN rows
             /\ rows[e + n - 1].book = b /\ rows[e + n - 1].edition = e

RowsInv ==
    /\ \E n \in Nat : DOMAIN rows = 1..n
    /\ \A i \in DOMAIN rows : Numbered(i)

(* With a row of an edition all its rows are committed, and no others. *)
WholeEdition(b) ==
    \A i \in chunks[b] : \A j \in DOMAIN rows :
        j \in chunks[b] <=> rows[j].book = b /\ rows[j].edition = rows[i].edition

IndexInv ==
    /\ RowsInv
    /\ chunks = [b \in Books |-> chunks[b]] /\ points = [b \in Books |-> points[b]]
    /\ \A b \in Books :
         /\ \A i \in chunks[b] \cup points[b] : i \in DOMAIN rows /\ rows[i].book = b
         /\ WholeEdition(b)

(* The row of i was replaced: no commit brings it back. *)
Gone(i) == i \notin chunks[rows[i].book] /\ i \notin Newest(rows[i].book)

Seen(i) == i \in DOMAIN rows /\ (i \in chunks[rows[i].book] \/ Gone(i))

(* What a step of the environment leaves as it is. *)
Onward ==
    /\ \A i \in DOMAIN rows : i \in DOMAIN rows' /\ rows'[i] = rows[i]
    /\ \A i : Seen(i) => Seen(i)'
    /\ \A i : i \in DOMAIN rows /\ Gone(i) => Gone(i)'

-------------------------------------------------------------------------------
(* The index *)

LEMMA NewestTyped ==
    ASSUME NEW b, NEW i \in Newest(b)
    PROVE  i \in DOMAIN rows /\ rows[i].book = b
  BY DEF Newest

LEMMA RowOfEdition ==
    ASSUME RowsInv, NEW i \in DOMAIN rows
    PROVE  /\ i \in Nat \ {0} /\ rows[i].book \in Books /\ rows[i].edition \in Nat \ {0}
           /\ rows[i].edition <= i
<1>1. PICK n \in Nat : DOMAIN rows = 1..n
  BY DEF RowsInv
<1>2. Numbered(i)
  BY DEF RowsInv
<1> QED  BY <1>1, <1>2, LayoutAssumption DEF Numbered

(* A draw adds an edition that is newer than all others. *)
LEMMA DrawKeeps ==
    ASSUME IndexInv, NEW b \in Books, Draw(b)
    PROVE  IndexInv' /\ Onward
<1>1. PICK n \in Nat : DOMAIN rows = 1..n
  BY DEF IndexInv, RowsInv
<1>2. Cardinality(DOMAIN rows) = n
  BY <1>1, FS_Interval
<1> DEFINE len == Len(Layout[b])
<1>3. len \in Nat
  BY LayoutAssumption
<1>4. rows' = [i \in 1..(n + len) |-> IF i <= n THEN rows[i]
                                     ELSE [book |-> b, at |-> i - n, edition |-> n + 1]]
  BY <1>2 DEF Draw
<1>5. /\ DOMAIN rows' = 1..(n + len)
      /\ \A i \in 1..n : i \in 1..(n + len) /\ rows'[i] = rows[i]
      /\ \A i \in 1..(n + len) \ 1..n :
            rows'[i].book = b /\ rows'[i].at = i - n /\ rows'[i].edition = n + 1
  BY <1>3, <1>4
<1>6. UNCHANGED <<chunks, points>>
  BY DEF Draw, index
<1>7. \A i \in 1..n : i \in Nat /\ rows[i].edition \in Nat /\ rows[i].edition <= n
                      /\ rows[i].book \in Books
  BY <1>1, RowOfEdition DEF IndexInv
<1>8. RowsInv'
  <2>1. ASSUME NEW i \in DOMAIN rows' PROVE Numbered(i)'
    <3>1. CASE i \in 1..n
      <4>1. Numbered(i)
        BY <1>1, <3>1 DEF IndexInv, RowsInv
      <4> QED  BY <1>1, <1>5, <3>1, <4>1 DEF Numbered
    <3>2. CASE i \notin 1..n
      <4>1. /\ rows'[i].book = b /\ rows'[i].at = i - n /\ rows'[i].edition = n + 1
            /\ i \in 1..(n + len) /\ i \in Nat /\ i > n
        BY <1>3, <1>5, <2>1, <3>2
      <4>2. rows'[i].at \in 1..len /\ rows'[i].at = i - (n + 1) + 1
        BY <1>3, <4>1
      <4>3. ASSUME NEW m \in 1..len
            PROVE  /\ (n + 1) + m - 1 \in DOMAIN rows'
                   /\ rows'[(n + 1) + m - 1].book = b
                   /\ rows'[(n + 1) + m - 1].edition = n + 1
        <5>1. (n + 1) + m - 1 \in 1..(n + len) \ 1..n
          BY <1>3
        <5> QED  BY <1>5, <5>1
      <4>4. n + 1 \in Nat \ {0}
        OBVIOUS
      <4> QED  BY <4>1, <4>2, <4>3, <4>4 DEF Numbered
    <3> QED  BY <3>1, <3>2
  <2>2. n + len \in Nat
    BY <1>3
  <2> QED  BY <1>5, <2>1, <2>2 DEF RowsInv
<1> HIDE DEF len
<1>9. IndexInv'
  <2>1. ASSUME NEW c \in Books PROVE WholeEdition(c)'
    <3> SUFFICES ASSUME NEW i \in chunks[c], NEW j \in DOMAIN rows'
                 PROVE  j \in chunks[c] <=>
                          rows'[j].book = c /\ rows'[j].edition = rows'[i].edition
      BY <1>6 DEF WholeEdition
    <3>1. i \in 1..n /\ rows'[i] = rows[i] /\ rows[i].edition \in Nat /\ rows[i].edition <= n
      BY <1>1, <1>5, <1>7 DEF IndexInv
    <3>2. CASE j \in 1..n
      BY <1>1, <1>5, <3>1, <3>2 DEF IndexInv, WholeEdition
    <3>3. CASE j \notin 1..n
      <4>1. rows'[j].edition = n + 1 /\ j \notin chunks[c]
        BY <1>1, <1>5, <3>3 DEF IndexInv
      <4> QED  BY <3>1, <4>1
    <3> QED  BY <3>2, <3>3
  <2>2. ASSUME NEW c \in Books, NEW i \in chunks[c] \cup points[c]
        PROVE  i \in DOMAIN rows' /\ rows'[i].book = c
    BY <1>1, <1>5 DEF IndexInv
  <2> QED  BY <1>6, <1>8, <2>1, <2>2 DEF IndexInv
<1>10. ASSUME NEW i \in DOMAIN rows, i \notin Newest(rows[i].book)
       PROVE  i \notin Newest(rows[i].book)'
  <2>1. PICK j \in DOMAIN rows : /\ rows[j].book = rows[i].book
                                 /\ ~(rows[j].edition <= rows[i].edition)
    BY <1>10 DEF Newest
  <2> QED  BY <1>1, <1>5, <2>1 DEF Newest
<1>11. \A i \in DOMAIN rows : i \in DOMAIN rows' /\ rows'[i] = rows[i]
  BY <1>1, <1>5
<1>12. \A i \in DOMAIN rows : Gone(i) => Gone(i)'
  BY <1>6, <1>10, <1>11 DEF Gone
<1> QED  BY <1>6, <1>9, <1>11, <1>12 DEF Onward, Seen

(* A commit puts the newest edition in the place of the one before it. *)
LEMMA PublishKeeps ==
    ASSUME IndexInv, NEW b \in Books, Publish(b)
    PROVE  IndexInv' /\ Onward
<1>1. /\ chunks' = [chunks EXCEPT ![b] = Newest(b)]
      /\ UNCHANGED <<points, rows>>
  BY DEF Publish
<1>2. /\ chunks'[b] = Newest(b)
      /\ \A c \in Books \ {b} : chunks'[c] = chunks[c]
      /\ chunks' = [c \in Books |-> chunks'[c]]
  BY <1>1 DEF IndexInv
<1>3. WholeEdition(b)'
  <2> SUFFICES ASSUME NEW i \in Newest(b), NEW j \in DOMAIN rows
               PROVE  j \in Newest(b) <=>
                        rows[j].book = b /\ rows[j].edition = rows[i].edition
    BY <1>1, <1>2 DEF WholeEdition
  <2>1. \A k \in DOMAIN rows : rows[k].edition \in Nat
    BY RowOfEdition DEF IndexInv
  <2>2. i \in DOMAIN rows /\ rows[i].book = b
    BY NewestTyped
  <2>3. CASE j \in Newest(b)
    BY <2>1, <2>2, <2>3 DEF Newest
  <2>4. CASE rows[j].book = b /\ rows[j].edition = rows[i].edition
    BY <2>4 DEF Newest
  <2> QED  BY <2>3, <2>4
<1>4. ASSUME NEW c \in Books \ {b} PROVE WholeEdition(c)'
  BY <1>1, <1>2 DEF IndexInv, WholeEdition
<1>5. RowsInv'
  BY <1>1 DEF IndexInv, RowsInv, Numbered
<1>6. \A c \in Books : \A i \in chunks'[c] \cup points[c] : i \in DOMAIN rows /\ rows[i].book = c
  BY <1>2, NewestTyped DEF IndexInv
<1>7. IndexInv'
  BY <1>1, <1>2, <1>3, <1>4, <1>5, <1>6 DEF IndexInv
<1>8. ASSUME NEW i \in DOMAIN rows, Seen(i) PROVE Seen(i)'
  BY <1>1, <1>2, <1>8, RowOfEdition DEF IndexInv, Seen, Gone, Newest
<1>9. ASSUME NEW i \in DOMAIN rows, Gone(i) PROVE Gone(i)'
  BY <1>1, <1>2, <1>9, RowOfEdition DEF IndexInv, Gone, Newest
<1>10. \A i : Seen(i) => i \in DOMAIN rows
  BY DEF Seen
<1> QED  BY <1>1, <1>7, <1>8, <1>9, <1>10 DEF Onward

(* Points come and go; rows do not change by it. *)
LEMMA PointsKeep ==
    ASSUME IndexInv, NEW b \in Books, DeletePoints(b) \/ RevealPoints(b)
    PROVE  IndexInv' /\ Onward
<1>1. UNCHANGED <<chunks, rows>>
  BY DEF DeletePoints, RevealPoints
<1>2. /\ \A c \in Books : points'[c] \subseteq points[c] \cup chunks[c]
      /\ points' = [c \in Books |-> points'[c]]
  BY DEF DeletePoints, RevealPoints, IndexInv
<1>3. \A c \in Books : WholeEdition(c)'
  BY <1>1 DEF IndexInv, WholeEdition
<1>4. RowsInv'
  BY <1>1 DEF IndexInv, RowsInv, Numbered
<1>5. IndexInv'
  BY <1>1, <1>2, <1>3, <1>4 DEF IndexInv
<1> QED  BY <1>1, <1>5 DEF Onward, Seen, Gone, Newest

LEMMA ReindexKeeps ==
    ASSUME IndexInv, NEW b \in Books, Reindex(b)
    PROVE  IndexInv' /\ Onward
  BY DrawKeeps, PublishKeeps, PointsKeep DEF Reindex

-------------------------------------------------------------------------------
(* Stable ids *)

(* The order of two triples. *)
LEMMA Lexical ==
    ASSUME NEW a, NEW b, NEW c, NEW d, NEW e, NEW f
    PROVE  Lexically(<<a, b, c>>, <<d, e, f>>)
             <=> a < d \/ (a = d /\ b < e) \/ (a = d /\ b = e /\ c < f)
<1> DEFINE s == <<a, b, c>>
           t == <<d, e, f>>
           first(n) == s[n] < t[n] /\ \A m \in 1..(n - 1) : s[m] = t[m]
<1>1. Lexically(s, t) <=> first(1) \/ first(2) \/ first(3)
  <2>1. DOMAIN s = {1, 2, 3}
    OBVIOUS
  <2> HIDE DEF s, t
  <2> QED  BY <2>1 DEF Lexically
<1>2. first(1) <=> a < d
  <2>1. 1..(1 - 1) = {}
    OBVIOUS
  <2> QED  BY <2>1
<1>3. first(2) <=> b < e /\ a = d
  <2>1. 1..(2 - 1) = {1}
    OBVIOUS
  <2> QED  BY <2>1
<1>4. first(3) <=> c < f /\ a = d /\ b = e
  <2>1. 1..(3 - 1) = {1, 2}
    OBVIOUS
  <2> QED  BY <2>1
<1> HIDE DEF first
<1> QED  BY <1>1, <1>2, <1>3, <1>4 DEF s, t

(* While its row is committed, a chunk has the place on its page that it   *)
(* has in the book at rest: the whole edition is there, and nothing else.  *)
LEMMA OrdinalAtRest ==
    ASSUME IndexInv, NEW i \in DOMAIN rows, i \in PageMates(i)
    PROVE  <<rows[i].book, Place(i).page, Ordinal(i, PageMates(i))>>
             = StableId(rows[i].book, rows[i].at)
<1> DEFINE b == rows[i].book
           e == rows[i].edition
           n == rows[i].at
           places == 1..Len(Layout[b])
           Before(m) == /\ Layout[b][m].page = Layout[b][n].page
                        /\ Lexically(<<Layout[b][m].offset, Layout[b][m].role, m>>,
                                     <<Layout[b][n].offset, Layout[b][n].role, n>>)
           A == {j \in PageMates(i) : PageBefore(j, i)}
           B == {m \in places : Before(m)}
           f == [m \in B |-> e + m - 1]
<1>1. /\ b \in Books /\ i \in Nat /\ e \in Nat /\ n \in places
      /\ n = i - e + 1 /\ DOMAIN Layout[b] = places /\ Len(Layout[b]) \in Nat
  BY RowOfEdition, LayoutAssumption DEF IndexInv, RowsInv, Numbered
<1>2. i \in chunks[b]
  BY DEF PageMates, Committed, IndexInv
<1>3. \A j \in DOMAIN rows : j \in chunks[b] <=> rows[j].book = b /\ rows[j].edition = e
  BY <1>1, <1>2 DEF IndexInv, WholeEdition
<1>4. ASSUME NEW m \in places
      PROVE  /\ e + m - 1 \in chunks[b] /\ e + m - 1 \in Nat
             /\ rows[e + m - 1].book = b /\ rows[e + m - 1].at = m
  <2>1. /\ e + m - 1 \in DOMAIN rows
        /\ rows[e + m - 1].book = b /\ rows[e + m - 1].edition = e
    BY DEF IndexInv, RowsInv, Numbered
  <2>2. rows[e + m - 1].at = (e + m - 1) - e + 1
    BY <2>1 DEF IndexInv, RowsInv, Numbered
  <2>3. m \in Nat /\ m >= 1
    BY <1>1
  <2> QED  BY <1>1, <1>3, <2>1, <2>2, <2>3
<1>5. ASSUME NEW j \in chunks[b]
      PROVE  /\ j \in DOMAIN rows /\ j \in Nat
             /\ rows[j].book = b /\ rows[j].at \in places
             /\ j = e + rows[j].at - 1
  <2>1. j \in DOMAIN rows /\ rows[j].book = b /\ rows[j].edition = e
    BY <1>1, <1>3 DEF IndexInv
  <2>2. rows[j].at = j - e + 1 /\ rows[j].at \in places
    BY <2>1 DEF IndexInv, RowsInv, Numbered
  <2>3. j \in Nat
    BY <2>1, RowOfEdition DEF IndexInv
  <2> QED  BY <1>1, <2>1, <2>2, <2>3
<1>6. \A j : j \in PageMates(i) <=> j \in chunks[b] /\ Place(j).page = Place(i).page
  BY <1>1 DEF PageMates, Committed, IndexInv
<1>7. Place(i) = Layout[b][n]
  BY DEF Place
<1>8. ASSUME NEW m \in places
      PROVE  PageBefore(e + m - 1, i) /\ Place(e + m - 1).page = Place(i).page <=> Before(m)
  <2>1. Place(e + m - 1) = Layout[b][m]
    BY <1>4 DEF Place
  <2>2. e + m - 1 < i <=> m < n
    BY <1>1
  <2> QED  BY <1>7, <2>1, <2>2, Lexical DEF PageBefore
<1>9. ASSUME NEW j \in A
      PROVE  rows[j].at \in B /\ f[rows[j].at] = j
  <2>1. j \in chunks[b] /\ PageBefore(j, i) /\ Place(j).page = Place(i).page
    BY <1>6
  <2>2. rows[j].at \in places /\ j = e + rows[j].at - 1
    BY <1>5, <2>1
  <2>3. Before(rows[j].at)
    BY <1>8, <2>1, <2>2
  <2> HIDE DEF Before, places
  <2> QED  BY <2>2, <2>3
<1>10. ASSUME NEW m \in B
       PROVE  f[m] \in A
  <2>1. m \in places /\ Before(m) /\ f[m] = e + m - 1
    OBVIOUS
  <2> HIDE DEF Before, places, f
  <2>2. e + m - 1 \in chunks[b] /\ PageBefore(e + m - 1, i)
        /\ Place(e + m - 1).page = Place(i).page
    BY <1>4, <1>8, <2>1
  <2> QED  BY <1>6, <2>1, <2>2
<1>11. ASSUME NEW m \in B, NEW o \in B, f[m] = f[o]
       PROVE  m = o
  <2>1. m \in Nat /\ o \in Nat
    OBVIOUS
  <2>2. f[m] = e + m - 1 /\ f[o] = e + o - 1
    OBVIOUS
  <2>3. e \in Nat
    BY <1>1
  <2>4. e + m - 1 = e + o - 1
    BY <1>11, <2>2
  <2> HIDE DEF f, B, e
  <2> QED  BY <2>1, <2>3, <2>4
<1>12. ExistsBijection(B, A)
  <2>1. f \in [B -> A]
    BY <1>10
  <2> HIDE DEF f, A, B
  <2>2. f \in Bijection(B, A)
    BY <1>9, <1>11, <2>1 DEF Bijection, Injection, Surjection, IsInjective
  <2> QED  BY <2>2 DEF ExistsBijection
<1>13. IsFiniteSet(B)
  <2>1. 1 \in Int /\ Len(Layout[b]) \in Int
    BY <1>1
  <2>2. IsFiniteSet(places)
    BY <2>1, FS_Interval
  <2>3. B \subseteq places
    OBVIOUS
  <2> QED  BY <2>2, <2>3, FS_Subset
<1>14. Cardinality(A) = Cardinality(B)
  BY <1>12, <1>13, FS_Bijection
<1>15. StableId(b, n) = <<b, Layout[b][n].page, Cardinality(B) + 1>>
  BY <1>1 DEF StableId
<1>16. Ordinal(i, PageMates(i)) = Cardinality(A) + 1
  BY DEF Ordinal
<1> HIDE DEF A, B
<1> QED  BY <1>7, <1>14, <1>15, <1>16

-------------------------------------------------------------------------------
(* A request *)

Fields ==
    {"step", "inquiry", "late", "arms", "found", "candidates", "real", "titled",
     "todo", "hit", "parts", "passages", "degraded", "reranked", "cause", "reply"}

Unsearched == {"idle", "translate", "dense"}
Unread == Unsearched \cup {"sparse", "root", "hydrate"}
Expanding == {"expand", "siblings", "ordinal", "answer"}
Unranked == {"root", "hydrate", "sections", "rerank"}
Good == {"ok", "partial", "cited", "deflected"}

Shape(x) ==
    /\ DOMAIN x = Fields
    /\ x.step \in Steps /\ x.late \in BOOLEAN /\ x.reranked \in BOOLEAN
    /\ x.inquiry \in InquiryType
    /\ x.step # "done" => x.reply = "none" /\ x.cause = "none"

(* All a request is about was found under its filter and had a row. *)
Searched(x) ==
    /\ \A i \in x.found \cup x.candidates :
         i \in DOMAIN rows
         /\ (x.inquiry.book # AnyBook => rows[i].book = x.inquiry.book)
    /\ x.step \in Unsearched => x.found = {}
    /\ x.step \in Unread => x.candidates = {}
    /\ x.real = x.candidates /\ x.todo \subseteq x.candidates
    /\ x.step \in {"siblings", "ordinal"} => x.hit \in x.candidates
    /\ \A p \in x.passages : p.id \in x.candidates

(* A candidate without its section's trail is one whose row is gone. *)
Rowed(x) ==
    /\ \A i \in x.candidates : Seen(i)
    /\ x.step \in Expanding \cup {"rerank"} =>
         \A i \in x.candidates : HasSection(i) => i \in x.titled \/ Gone(i)
    /\ x.cause = "lookup" => x.hit \in x.candidates /\ Gone(x.hit)

Cited(x) ==
    \A p \in x.passages :
        p.trail /\ p.stable = StableId(rows[p.id].book, rows[p.id].at)

(* What was skipped so far is in the report, and was skipped for lateness. *)
Reported(x) ==
    /\ x.step \in Unsearched \cup {"sparse"} => x.degraded = {} /\ ~x.reranked
    /\ x.step = "sparse" => x.arms = {"dense"}
    /\ x.step = "root" => "sparse_skipped" \notin x.degraded
    /\ x.step \in Unranked \cup Expanding \/ x.reply \in Good =>
         ("sparse_skipped" \in x.degraded <=> x.arms = {"dense"})
    /\ x.step \in Unranked => ~x.reranked /\ "rerank_skipped" \notin x.degraded
    /\ x.step \in Expanding \/ x.reply \in Good =>
         (x.candidates # {} => (x.reranked <=> "rerank_skipped" \notin x.degraded))
    /\ x.degraded # {} => x.late
    /\ x.late => x.step # "idle" /\ x.inquiry.kind = "retrieve"
    /\ x.step = "answer" \/ x.reply \in Good =>
         (x.degraded # {} => "deadline_hit" \in x.degraded)
    /\ "sparse_skipped" \in x.degraded => ~x.reranked

Sound(x) == Shape(x) /\ Searched(x) /\ Rowed(x) /\ Cited(x) /\ Reported(x)

ReqInv ==
    /\ req = [r \in Requests |-> req[r]]
    /\ \A r \in Requests : Sound(req[r])

(* The environment does not make a request's knowledge wrong. *)
LEMMA OnwardSound ==
    ASSUME ReqInv, Onward, UNCHANGED req
    PROVE  ReqInv'
<1> SUFFICES ASSUME NEW r \in Requests PROVE Sound(req[r])'
  BY DEF ReqInv
<1>1. Sound(req[r])
  BY DEF ReqInv
<1>2. Shape(req[r])' /\ Reported(req[r])'
  BY <1>1 DEF Sound, Shape, Reported
<1>3. Searched(req[r])'
  BY <1>1 DEF Sound, Searched, Onward
<1>4. Rowed(req[r])'
  <2>1. \A i \in req[r].candidates : Seen(i) /\ i \in DOMAIN rows
    BY <1>1 DEF Sound, Rowed, Seen
  <2>2. \A i \in req[r].candidates : Seen(i)' /\ (Gone(i) => Gone(i)')
    BY <2>1 DEF Onward
  <2>3. \A i \in req[r].candidates : HasSection(i)' <=> HasSection(i)
    BY <2>1 DEF Onward, HasSection, Place
  <2> QED  BY <1>1, <2>2, <2>3 DEF Sound, Rowed
<1>5. Cited(req[r])'
  <2>1. \A p \in req[r].passages : p.id \in DOMAIN rows
    BY <1>1 DEF Sound, Searched
  <2>2. \A p \in req[r].passages : rows'[p.id] = rows[p.id]
    BY <2>1 DEF Onward
  <2>3. \A p \in req[r].passages :
          p.trail /\ p.stable = StableId(rows[p.id].book, rows[p.id].at)
    BY <1>1 DEF Sound, Cited
  <2>4. \A p \in req'[r].passages :
          p.trail /\ p.stable = StableId(rows'[p.id].book, rows'[p.id].at)
    BY <2>2, <2>3
  <2> QED  BY <2>4 DEF Cited, StableId
<1> QED  BY <1>2, <1>3, <1>4, <1>5 DEF Sound

(* What is true of a request's new record is true of it afterwards. *)
LEMMA Transport ==
    ASSUME UNCHANGED <<index, rows>>, NEW r \in Requests, Sound(req'[r])
    PROVE  Sound(req[r])'
<1>1. UNCHANGED <<chunks, points, rows>>
  BY DEF index
<1>2. \A i : (Gone(i)' <=> Gone(i)) /\ (Seen(i)' <=> Seen(i))
             /\ (HasSection(i)' <=> HasSection(i))
  BY <1>1 DEF Gone, Seen, Newest, HasSection, Place
<1>3. Shape(req[r])' /\ Reported(req[r])'
  BY DEF Sound, Shape, Reported
<1>4. Searched(req[r])'
  BY <1>1 DEF Sound, Searched
<1>5. Rowed(req[r])'
  BY <1>2 DEF Sound, Rowed
<1>6. Cited(req[r])'
  BY <1>1 DEF Sound, Cited, StableId
<1> QED  BY <1>3, <1>4, <1>5, <1>6 DEF Sound

(* What a request does to itself, with the other requests left alone. *)
Alone(r) == req = [q \in Requests |-> req[q]] /\ Sound(req[r]) /\ IndexInv

LEMMA Chosen ==
    ASSUME NEW n, NEW S, NEW T \in kSubset(n, S)
    PROVE  T \subseteq S
  BY DEF kSubset

(* What a search may find has a row of the book that was asked about. *)
LEMMA EligibleTyped ==
    ASSUME NEW r \in Requests, Alone(r), NEW i \in Eligible(r)
    PROVE  i \in DOMAIN rows
           /\ (req[r].inquiry.book # AnyBook => rows[i].book = req[r].inquiry.book)
<1>1. req[r].inquiry.book \in Books \cup {AnyBook}
  BY DEF Alone, Sound, Shape, InquiryType
<1>2. \A b \in Books : \A j \in points[b] : j \in DOMAIN rows /\ rows[j].book = b
  BY DEF Alone, IndexInv
<1> QED  BY <1>1, <1>2 DEF Eligible

LEMMA SearchSound ==
    ASSUME NEW r \in Requests, Alone(r),
           Translate(r) \/ SearchDense(r) \/ SearchSparse(r) \/ SkipSparse(r)
             \/ SearchRoot(r)
    PROVE  Sound(req'[r])
<1>1. CASE Translate(r)
  <2>1. req'[r] = [req[r] EXCEPT !.step = "dense"] /\ req[r].step = "translate"
    BY <1>1 DEF Translate, Alone
  <2>2. Shape(req'[r])
    BY <2>1 DEF Alone, Sound, Shape, Steps
  <2>3. Searched(req'[r])
    BY <2>1 DEF Alone, Sound, Shape, Searched, Fields, Unsearched, Unread
  <2>4. Rowed(req'[r]) /\ Cited(req'[r])
    BY <2>1 DEF Alone, Sound, Shape, Rowed, Cited, Fields, Expanding
  <2>5. Reported(req'[r])
    BY <2>1 DEF Alone, Sound, Shape, Reported, Fields, Unsearched, Unranked, Expanding
  <2> QED  BY <2>2, <2>3, <2>4, <2>5 DEF Sound
<1>2. CASE SearchDense(r)
  <2>1. PICK S : /\ S \subseteq Eligible(r)
                 /\ req'[r] = [req[r] EXCEPT !.step = "sparse", !.found = S,
                                             !.arms = {"dense"}]
                 /\ req[r].step = "dense"
    BY <1>2, Chosen DEF SearchDense, Alone
  <2>2. Shape(req'[r])
    BY <2>1 DEF Alone, Sound, Shape, Steps, Fields
  <2>3. Searched(req'[r])
    BY <2>1, EligibleTyped DEF Alone, Sound, Shape, Searched, Fields, Unsearched, Unread
  <2>4. Rowed(req'[r]) /\ Cited(req'[r])
    BY <2>1 DEF Alone, Sound, Shape, Rowed, Cited, Fields, Expanding
  <2>5. Reported(req'[r])
    BY <2>1 DEF Alone, Sound, Shape, Reported, Fields, Unsearched, Unranked, Expanding, Good
  <2> QED  BY <2>2, <2>3, <2>4, <2>5 DEF Sound
<1>3. CASE SearchSparse(r)
  <2>1. PICK S : /\ S \subseteq Eligible(r)
                 /\ req'[r] = [req[r] EXCEPT !.step = AfterSparse(r), !.found = @ \cup S,
                                             !.arms = @ \cup {"bm25"}]
                 /\ req[r].step = "sparse" /\ AfterSparse(r) \in {"root", "hydrate"}
    BY <1>3 DEF SearchSparse, Alone, Matches, AfterSparse
  <2>2. Shape(req'[r])
    BY <2>1 DEF Alone, Sound, Shape, Steps, Fields
  <2>3. Searched(req'[r])
    BY <2>1, EligibleTyped DEF Alone, Sound, Shape, Searched, Fields, Unsearched, Unread
  <2>4. Rowed(req'[r]) /\ Cited(req'[r])
    BY <2>1 DEF Alone, Sound, Shape, Rowed, Cited, Fields, Expanding
  <2>5. Reported(req'[r])
    BY <2>1 DEF Alone, Sound, Shape, Reported, Fields, Unsearched, Unranked, Expanding, Good
  <2> QED  BY <2>2, <2>3, <2>4, <2>5 DEF Sound
<1>4. CASE SkipSparse(r)
  <2>1. /\ req'[r] = [req[r] EXCEPT !.step = "hydrate",
                                    !.degraded = @ \cup {"sparse_skipped"}]
        /\ req[r].step = "sparse" /\ req[r].late
    BY <1>4 DEF SkipSparse, Alone
  <2>2. Shape(req'[r])
    BY <2>1 DEF Alone, Sound, Shape, Steps, Fields
  <2>3. Searched(req'[r])
    BY <2>1 DEF Alone, Sound, Shape, Searched, Fields, Unsearched, Unread
  <2>4. Rowed(req'[r]) /\ Cited(req'[r])
    BY <2>1 DEF Alone, Sound, Shape, Rowed, Cited, Fields, Expanding
  <2>5. Reported(req'[r])
    BY <2>1 DEF Alone, Sound, Shape, Reported, Fields, Unsearched, Unranked, Expanding, Good
  <2> QED  BY <2>2, <2>3, <2>4, <2>5 DEF Sound
<1>5. CASE SearchRoot(r)
  <2>1. PICK S : /\ S \subseteq Eligible(r)
                 /\ req'[r] = [req[r] EXCEPT !.step = "hydrate", !.found = @ \cup S,
                                             !.arms = @ \cup {"root"}]
                 /\ req[r].step = "root"
    BY <1>5 DEF SearchRoot, Alone, Matches
  <2>2. Shape(req'[r])
    BY <2>1 DEF Alone, Sound, Shape, Steps, Fields
  <2>3. Searched(req'[r])
    BY <2>1, EligibleTyped DEF Alone, Sound, Shape, Searched, Fields, Unsearched, Unread
  <2>4. Rowed(req'[r]) /\ Cited(req'[r])
    BY <2>1 DEF Alone, Sound, Shape, Rowed, Cited, Fields, Expanding
  <2>5. Reported(req'[r])
    BY <2>1 DEF Alone, Sound, Shape, Reported, Fields, Unsearched, Unranked, Expanding, Good
  <2> QED  BY <2>2, <2>3, <2>4, <2>5 DEF Sound
<1> QED  BY <1>1, <1>2, <1>3, <1>4, <1>5

(* A row that a request has seen is committed or gone. *)
LEMMA CommittedOrGone ==
    ASSUME IndexInv, NEW i, Seen(i)
    PROVE  /\ i \in Committed <=> ~Gone(i)
           /\ i \in Committed <=> i \in chunks[rows[i].book]
<1>1. i \in DOMAIN rows /\ rows[i].book \in Books
  BY RowOfEdition DEF IndexInv, Seen
<1>2. \A b \in Books : i \in chunks[b] => b = rows[i].book
  BY DEF IndexInv
<1> QED  BY <1>1, <1>2 DEF Committed, Gone, Seen

LEMMA CommittedSeen ==
    ASSUME IndexInv, NEW i \in Committed
    PROVE  Seen(i)
  BY DEF IndexInv, Committed, Seen

LEMMA HydrateSound ==
    ASSUME NEW r \in Requests, Alone(r),
           Hydrate(r) \/ HydrateSections(r) \/ Rerank(r) \/ SkipRerank(r)
    PROVE  Sound(req'[r])
<1>1. CASE Hydrate(r)
  <2>1. PICK kept : /\ kept \subseteq req[r].found \cap Committed
                    /\ req'[r] = [req[r] EXCEPT !.step = AfterHydrate(kept),
                                                !.candidates = kept, !.real = kept]
                    /\ req[r].step = "hydrate"
                    /\ AfterHydrate(kept) = IF kept = {} THEN "expand" ELSE "sections"
    <3>1. PICK F \in Fusions(r) :
            req' = [req EXCEPT ![r] = [@ EXCEPT !.step = AfterHydrate(F \cap Committed),
                                                !.candidates = F \cap Committed,
                                                !.real = F \cap Committed]]
      BY <1>1 DEF Hydrate
    <3>2. F \subseteq req[r].found
      BY Chosen DEF Fusions
    <3> DEFINE kept == F \cap Committed
    <3>3. /\ req'[r] = [req[r] EXCEPT !.step = AfterHydrate(kept),
                                       !.candidates = kept, !.real = kept]
          /\ req[r].step = "hydrate" /\ kept \subseteq req[r].found \cap Committed
      BY <1>1, <3>1, <3>2 DEF Hydrate, Alone
    <3> HIDE DEF kept
    <3> QED  BY <3>3 DEF AfterHydrate
  <2>2. Shape(req'[r])
    BY <2>1 DEF Alone, Sound, Shape, Steps, Fields
  <2>3. Searched(req'[r])
    BY <2>1 DEF Alone, Sound, Shape, Searched, Fields, Unsearched, Unread
  <2>4. Rowed(req'[r]) /\ Cited(req'[r])
    BY <2>1, CommittedSeen DEF Alone, Sound, Shape, Rowed, Cited, Fields, Expanding
  <2>5. Reported(req'[r])
    BY <2>1 DEF Alone, Sound, Shape, Reported, Fields, Unsearched, Unranked, Expanding, Good
  <2> QED  BY <2>2, <2>3, <2>4, <2>5 DEF Sound
<1>2. CASE HydrateSections(r)
  <2>1. /\ req'[r] = [req[r] EXCEPT !.step = "rerank",
                        !.titled = {i \in req[r].candidates :
                                      HasSection(i) /\ i \in Committed}]
        /\ req[r].step = "sections"
    BY <1>2 DEF HydrateSections, Alone
  <2>2. Shape(req'[r])
    BY <2>1 DEF Alone, Sound, Shape, Steps, Fields
  <2>3. Searched(req'[r])
    BY <2>1 DEF Alone, Sound, Shape, Searched, Fields, Unsearched, Unread
  <2>4. Rowed(req'[r]) /\ Cited(req'[r])
    BY <2>1, CommittedOrGone DEF Alone, Sound, Shape, Rowed, Cited, Fields, Expanding
  <2>5. Reported(req'[r])
    BY <2>1 DEF Alone, Sound, Shape, Reported, Fields, Unsearched, Unranked, Expanding, Good
  <2> QED  BY <2>2, <2>3, <2>4, <2>5 DEF Sound
<1>3. CASE Rerank(r)
  <2>1. PICK H : /\ H \subseteq req[r].candidates
                 /\ req'[r] = [req[r] EXCEPT !.step = "expand", !.todo = H,
                                             !.reranked = TRUE]
                 /\ req[r].step = "rerank" /\ ~req[r].late
    <3>1. PICK H \in kSubset(Kept(r), req[r].candidates) :
            req' = [req EXCEPT ![r] = [req[r] EXCEPT !.step = "expand", !.todo = H,
                                                     !.reranked = TRUE]]
      BY <1>3 DEF Rerank
    <3>2. H \subseteq req[r].candidates
      BY Chosen
    <3> QED  BY <1>3, <3>1, <3>2 DEF Rerank, Alone
  <2>2. Shape(req'[r])
    BY <2>1 DEF Alone, Sound, Shape, Steps, Fields
  <2>3. Searched(req'[r])
    BY <2>1 DEF Alone, Sound, Shape, Searched, Fields, Unsearched, Unread
  <2>4. Rowed(req'[r]) /\ Cited(req'[r])
    BY <2>1 DEF Alone, Sound, Shape, Rowed, Cited, Fields, Expanding
  <2>5. Reported(req'[r])
    BY <2>1 DEF Alone, Sound, Shape, Reported, Fields, Unsearched, Unranked, Expanding, Good
  <2> QED  BY <2>2, <2>3, <2>4, <2>5 DEF Sound
<1>4. CASE SkipRerank(r)
  <2>1. PICK H : /\ H \subseteq req[r].candidates
                 /\ req'[r] = [req[r] EXCEPT !.step = "expand", !.todo = H,
                                  !.degraded = @ \cup {"rerank_skipped"}]
                 /\ req[r].step = "rerank" /\ req[r].late
    <3>1. PICK H \in kSubset(Kept(r), req[r].candidates) :
            req' = [req EXCEPT ![r] = [req[r] EXCEPT !.step = "expand", !.todo = H,
                                         !.degraded = @ \cup {"rerank_skipped"}]]
      BY <1>4 DEF SkipRerank
    <3>2. H \subseteq req[r].candidates
      BY Chosen
    <3> QED  BY <1>4, <3>1, <3>2 DEF SkipRerank, Alone
  <2>2. Shape(req'[r])
    BY <2>1 DEF Alone, Sound, Shape, Steps, Fields
  <2>3. Searched(req'[r])
    BY <2>1 DEF Alone, Sound, Shape, Searched, Fields, Unsearched, Unread
  <2>4. Rowed(req'[r]) /\ Cited(req'[r])
    BY <2>1 DEF Alone, Sound, Shape, Rowed, Cited, Fields, Expanding
  <2>5. Reported(req'[r])
    BY <2>1 DEF Alone, Sound, Shape, Reported, Fields, Unsearched, Unranked, Expanding, Good
  <2> QED  BY <2>2, <2>3, <2>4, <2>5 DEF Sound
<1> QED  BY <1>1, <1>2, <1>3, <1>4

(* However a request ends badly, what it knows stays true. *)
LEMMA RaiseSound ==
    ASSUME NEW r \in Requests, Alone(r), NEW i, NEW cause,
           Raise(r, i, cause), Working(r),
           cause = "lookup" => i \in req[r].candidates /\ Gone(i)
    PROVE  Sound(req'[r])
<1>1. PICK reply : /\ reply \in {"400", "500", "502"}
                   /\ req'[r] = [req[r] EXCEPT !.step = "done", !.cause = cause,
                                    !.hit = i, !.todo = {}, !.reply = reply]
  BY DEF Raise, Alone
<1> HIDE DEF Raise
<1>2. Shape(req'[r])
  BY <1>1 DEF Alone, Sound, Shape, Steps, Fields
<1>3. Searched(req'[r])
  BY <1>1 DEF Alone, Sound, Shape, Searched, Fields, Unsearched, Unread
<1>4. Rowed(req'[r]) /\ Cited(req'[r])
  BY <1>1 DEF Alone, Sound, Shape, Rowed, Cited, Fields, Expanding
<1>5. Reported(req'[r])
  BY <1>1 DEF Alone, Sound, Shape, Reported, Fields, Unsearched, Unranked, Expanding, Good
<1> QED  BY <1>2, <1>3, <1>4, <1>5 DEF Sound

LEMMA ExpandSound ==
    ASSUME NEW r \in Requests, Alone(r), LoadHit(r) \/ ReadSiblings(r) \/ ReadOrdinal(r)
    PROVE  Sound(req'[r])
<1> USE DEF Alone
<1>1. \A i \in req[r].candidates : Seen(i)
  BY DEF Sound, Rowed
<1>2. \A i \in req[r].candidates : i \notin Committed => Gone(i)
  BY <1>1, CommittedOrGone
<1>3. /\ req[r].todo \subseteq req[r].candidates
      /\ req[r].step \in {"siblings", "ordinal"} => req[r].hit \in req[r].candidates
  BY DEF Sound, Searched
<1>4. CASE LoadHit(r)
  <2> PICK i \in req[r].todo :
        IF i \in Committed THEN Load(r, i) ELSE Raise(r, i, "lookup")
    BY <1>4 DEF LoadHit
  <2>1. CASE i \in Committed
    <3>1. PICK step \in {"siblings", "ordinal"} :
             req'[r] = [req[r] EXCEPT !.step = step, !.hit = i, !.todo = @ \ {i},
                                      !.parts = {i}]
      BY <2>1 DEF Load, AfterLoad
    <3>2. req[r].step = "expand"
      BY <1>4 DEF LoadHit
    <3>3. Shape(req'[r])
      BY <3>1, <3>2 DEF Sound, Shape, Steps, Fields
    <3>4. Searched(req'[r])
      BY <1>3, <3>1, <3>2 DEF Sound, Shape, Searched, Fields, Unsearched, Unread
    <3>5. Rowed(req'[r]) /\ Cited(req'[r])
      BY <3>1, <3>2 DEF Sound, Shape, Rowed, Cited, Fields, Expanding
    <3>6. Reported(req'[r])
      BY <3>1, <3>2
         DEF Sound, Shape, Reported, Fields, Unsearched, Unranked, Expanding, Good
    <3> QED  BY <3>3, <3>4, <3>5, <3>6 DEF Sound
  <2>2. CASE i \notin Committed
    <3>1. Raise(r, i, "lookup") /\ Working(r)
      BY <1>4, <2>2 DEF LoadHit, Working
    <3> QED  BY <1>2, <1>3, <2>2, <3>1, RaiseSound
  <2> QED  BY <2>1, <2>2
<1>5. CASE ReadSiblings(r)
  <2> DEFINE i == req[r].hit
             S == Siblings(i)
  <2>1. CASE S # {} /\ i \notin S
    <3>1. Raise(r, i, "lookup") /\ Working(r)
      BY <1>5, <2>1 DEF ReadSiblings, Working
    <3>2. i \notin Committed
      BY <2>1 DEF Siblings
    <3> QED  BY <1>2, <1>3, <1>5, <3>1, <3>2, RaiseSound DEF ReadSiblings
  <2>2. CASE ~(S # {} /\ i \notin S)
    <3>1. PICK parts : req'[r] = [req[r] EXCEPT !.step = "ordinal", !.parts = parts]
      BY <1>5, <2>2 DEF ReadSiblings
    <3>2. req[r].step = "siblings"
      BY <1>5 DEF ReadSiblings
    <3>3. Shape(req'[r])
      BY <3>1, <3>2 DEF Sound, Shape, Steps, Fields
    <3>4. Searched(req'[r])
      BY <1>3, <3>1, <3>2 DEF Sound, Shape, Searched, Fields, Unsearched, Unread
    <3>5. Rowed(req'[r]) /\ Cited(req'[r])
      BY <3>1, <3>2 DEF Sound, Shape, Rowed, Cited, Fields, Expanding
    <3>6. Reported(req'[r])
      BY <3>1, <3>2
         DEF Sound, Shape, Reported, Fields, Unsearched, Unranked, Expanding, Good
    <3> QED  BY <3>3, <3>4, <3>5, <3>6 DEF Sound
  <2> QED  BY <2>1, <2>2
<1>6. CASE ReadOrdinal(r)
  <2> DEFINE i == req[r].hit
             mates == PageMates(i)
  <2>1. req[r].step = "ordinal" /\ i \in req[r].candidates
    BY <1>3, <1>6 DEF ReadOrdinal
  <2>2. i \in DOMAIN rows
    BY <1>1, <2>1 DEF Seen
  <2>3. CASE i \in mates
    <3>1. req'[r] = [req[r] EXCEPT !.step = "expand",
                                   !.passages = @ \cup {Passage(r, mates)}]
      BY <1>6, <2>3 DEF ReadOrdinal
    <3>2. i \in Committed /\ ~Gone(i)
      BY <1>1, <2>1, <2>3, CommittedOrGone DEF PageMates
    <3>3. HasSection(i) => i \in req[r].titled
      BY <2>1, <3>2 DEF Sound, Rowed, Expanding
    <3>4. /\ Passage(r, mates).id = i /\ Passage(r, mates).trail
          /\ Passage(r, mates).stable = StableId(rows[i].book, rows[i].at)
      BY <2>2, <2>3, <3>3, OrdinalAtRest DEF Passage
    <3>5. PICK passage :
            /\ req'[r] = [req[r] EXCEPT !.step = "expand", !.passages = @ \cup {passage}]
            /\ passage.id = i /\ passage.trail
            /\ passage.stable = StableId(rows[i].book, rows[i].at)
      BY <3>1, <3>4
    <3> HIDE DEF mates
    <3>6. Shape(req'[r])
      BY <2>1, <3>5 DEF Sound, Shape, Steps, Fields
    <3>7. Searched(req'[r])
      BY <2>1, <3>5 DEF Sound, Shape, Searched, Fields, Unsearched, Unread
    <3>8. Rowed(req'[r]) /\ Cited(req'[r])
      BY <2>1, <3>5 DEF Sound, Shape, Rowed, Cited, Fields, Expanding
    <3>9. Reported(req'[r])
      BY <2>1, <3>5
         DEF Sound, Shape, Reported, Fields, Unsearched, Unranked, Expanding, Good
    <3> QED  BY <3>6, <3>7, <3>8, <3>9 DEF Sound
  <2>4. CASE i \notin mates
    <3>1. Raise(r, i, "lookup") /\ Working(r)
      BY <1>6, <2>4 DEF ReadOrdinal, Working
    <3>2. i \notin Committed
      BY <2>4 DEF PageMates
    <3> QED  BY <1>2, <2>1, <3>1, <3>2, RaiseSound
  <2> QED  BY <2>3, <2>4
<1> QED  BY <1>4, <1>5, <1>6

LEMMA EndSound ==
    ASSUME NEW r \in Requests, Alone(r),
           Ask(r) \/ Conclude(r) \/ Respond(r) \/ Reject(r) \/ Fail(r) \/ Expire(r)
    PROVE  Sound(req'[r])
<1>1. CASE Ask(r)
  <2>1. PICK q \in InquiryType :
           /\ req'[r] = [req[r] EXCEPT !.step = "translate", !.inquiry = q]
           /\ req[r].step = "idle"
    BY <1>1, InquiriesAssumption DEF Ask, Alone
  <2>2. Shape(req'[r])
    BY <2>1 DEF Alone, Sound, Shape, Steps, Fields
  <2>3. Searched(req'[r])
    BY <2>1 DEF Alone, Sound, Shape, Searched, Fields, Unsearched, Unread
  <2>4. Rowed(req'[r]) /\ Cited(req'[r])
    BY <2>1 DEF Alone, Sound, Shape, Rowed, Cited, Fields, Expanding
  <2>5. Reported(req'[r])
    BY <2>1 DEF Alone, Sound, Shape, Reported, Fields, Unsearched, Unranked, Expanding, Good
  <2> QED  BY <2>2, <2>3, <2>4, <2>5 DEF Sound
<1>2. CASE Conclude(r)
  <2>1. /\ req'[r] = [req[r] EXCEPT !.step = "answer",
                        !.degraded = IF req[r].late THEN @ \cup {"deadline_hit"} ELSE @]
        /\ req[r].step = "expand"
    BY <1>2 DEF Conclude, Alone
  <2>2. Shape(req'[r])
    BY <2>1 DEF Alone, Sound, Shape, Steps, Fields
  <2>3. Searched(req'[r])
    BY <2>1 DEF Alone, Sound, Shape, Searched, Fields, Unsearched, Unread
  <2>4. Rowed(req'[r]) /\ Cited(req'[r])
    BY <2>1 DEF Alone, Sound, Shape, Rowed, Cited, Fields, Expanding
  <2>5. Reported(req'[r])
    BY <2>1 DEF Alone, Sound, Shape, Reported, Fields, Unsearched, Unranked, Expanding, Good
  <2> QED  BY <2>2, <2>3, <2>4, <2>5 DEF Sound
<1>3. CASE Respond(r)
  <2>1. PICK reply :
           /\ req'[r] = [req[r] EXCEPT !.step = "done", !.reply = reply]
           /\ req[r].step = "answer"
    BY <1>3 DEF Respond, Alone
  <2>2. Shape(req'[r])
    BY <2>1 DEF Alone, Sound, Shape, Steps, Fields
  <2>3. Searched(req'[r])
    BY <2>1 DEF Alone, Sound, Shape, Searched, Fields, Unsearched, Unread
  <2>4. Rowed(req'[r]) /\ Cited(req'[r])
    BY <2>1 DEF Alone, Sound, Shape, Rowed, Cited, Fields, Expanding
  <2>5. Reported(req'[r])
    BY <2>1 DEF Alone, Sound, Shape, Reported, Fields, Unsearched, Unranked, Expanding, Good
  <2> QED  BY <2>2, <2>3, <2>4, <2>5 DEF Sound
<1>4. CASE Reject(r)
  <2>1. Raise(r, req[r].hit, "value") /\ Working(r)
    BY <1>4 DEF Reject, Working
  <2> QED  BY <2>1, RaiseSound
<1>5. CASE Fail(r)
  <2>1. Raise(r, req[r].hit, "other") /\ Working(r)
    BY <1>5 DEF Fail
  <2> QED  BY <2>1, RaiseSound
<1>6. CASE Expire(r)
  <2>1. /\ req'[r] = [req[r] EXCEPT !.late = TRUE]
        /\ req[r].step \notin {"idle", "done"} /\ req[r].inquiry.kind = "retrieve"
    BY <1>6 DEF Expire, Working, Alone
  <2>2. Shape(req'[r])
    BY <2>1 DEF Alone, Sound, Shape, Steps, Fields
  <2>3. Searched(req'[r])
    BY <2>1 DEF Alone, Sound, Shape, Searched, Fields, Unsearched, Unread
  <2>4. Rowed(req'[r]) /\ Cited(req'[r])
    BY <2>1 DEF Alone, Sound, Shape, Rowed, Cited, Fields, Expanding
  <2>5. Reported(req'[r])
    BY <2>1 DEF Alone, Sound, Shape, Reported, Fields, Unsearched, Unranked, Expanding, Good
  <2> QED  BY <2>2, <2>3, <2>4, <2>5 DEF Sound
<1> QED  BY <1>1, <1>2, <1>3, <1>4, <1>5, <1>6

-------------------------------------------------------------------------------
(* The theorems *)

(* A request changes its own record and nothing else. *)
LEMMA RequestAlone ==
    ASSUME ReqInv, NEW r \in Requests, Request(r)
    PROVE  /\ UNCHANGED <<index, rows>>
           /\ req' = [q \in Requests |-> req'[q]]
           /\ \A q \in Requests \ {r} : req'[q] = req[q]
<1>1. UNCHANGED <<index, rows>>
  BY DEF Request, Step, Ask, Translate, SearchDense, SearchSparse, SkipSparse,
         SearchRoot, Hydrate, HydrateSections, Rerank, SkipRerank, LoadHit,
         ReadSiblings, ReadOrdinal, Conclude, Respond, Reject, Fail, Expire
<1>2. \E v : req' = [req EXCEPT ![r] = v]
  BY DEF Request, Step, Ask, Translate, SearchDense, SearchSparse, SkipSparse,
         SearchRoot, Hydrate, HydrateSections, Rerank, SkipRerank, LoadHit, Load,
         ReadSiblings, ReadOrdinal, Conclude, Respond, Reject, Fail, Expire, Raise
<1> QED  BY <1>1, <1>2 DEF ReqInv

LEMMA RequestKeeps ==
    ASSUME IndexInv, ReqInv, NEW r \in Requests, Request(r)
    PROVE  IndexInv' /\ ReqInv'
<1>1. Alone(r)
  BY DEF Alone, ReqInv
<1>2. Sound(req'[r])
  BY <1>1, SearchSound, HydrateSound, ExpandSound, EndSound DEF Request, Step
<1>3. /\ UNCHANGED <<index, rows>>
      /\ req' = [q \in Requests |-> req'[q]]
      /\ \A q \in Requests \ {r} : req'[q] = req[q]
  BY RequestAlone
<1>4. \A q \in Requests : Sound(req'[q])
  BY <1>2, <1>3 DEF ReqInv
<1>5. \A q \in Requests : Sound(req[q])'
  BY <1>3, <1>4, Transport
<1>6. IndexInv'
  BY <1>3 DEF IndexInv, RowsInv, Numbered, WholeEdition, index
<1> QED  BY <1>3, <1>5, <1>6 DEF ReqInv

LEMMA InitSound == Init => IndexInv /\ ReqInv
<1> SUFFICES ASSUME Init PROVE IndexInv /\ ReqInv
  OBVIOUS
<1>1. IndexInv
  <2>1. DOMAIN rows = 1..0
    BY DEF Init
  <2>2. RowsInv
    BY <2>1 DEF RowsInv
  <2> QED  BY <2>2 DEF Init, IndexInv, WholeEdition
<1>2. \A r \in Requests : req[r] = Idle
  BY DEF Init
<1>3. Shape(Idle)
  BY DEF Idle, Shape, Fields, Steps, InquiryType
<1>4. Searched(Idle) /\ Rowed(Idle) /\ Cited(Idle)
  BY DEF Idle, Searched, Rowed, Cited, Expanding
<1>5. Reported(Idle)
  BY DEF Idle, Reported, Expanding, Unranked, Good
<1> QED  BY <1>1, <1>2, <1>3, <1>4, <1>5 DEF Init, ReqInv, Sound

(* At any moment the index holds whole editions, and every request knows   *)
(* of its rows, its citations and its omissions what is true.              *)
THEOREM RetrievalInvHolds == Spec => [](IndexInv /\ ReqInv)
<1>1. IndexInv /\ ReqInv /\ [Next]_vars => IndexInv' /\ ReqInv'
  <2> SUFFICES ASSUME IndexInv, ReqInv, [Next]_vars PROVE IndexInv' /\ ReqInv'
    OBVIOUS
  <2>1. CASE \E r \in Requests : Request(r)
    BY <2>1, RequestKeeps
  <2>2. CASE \E b \in Books : Reindex(b)
    <3>1. IndexInv' /\ Onward
      BY <2>2, ReindexKeeps
    <3>2. UNCHANGED req
      BY <2>2 DEF Reindex, Draw, Publish, DeletePoints, RevealPoints
    <3> QED  BY <3>1, <3>2, OnwardSound
  <2>3. CASE UNCHANGED vars
    <3>1. UNCHANGED <<chunks, points, rows, req>>
      BY <2>3 DEF vars, index
    <3>2. IndexInv' /\ Onward
      BY <3>1 DEF IndexInv, RowsInv, Numbered, WholeEdition, Onward, Seen, Gone, Newest
    <3> QED  BY <3>1, <3>2, OnwardSound
  <2> QED  BY <2>1, <2>2, <2>3 DEF Next
<1> QED  BY <1>1, InitSound, PTL DEF Spec

(* stable_ids.py: a passage is cited by the id it has in the book at rest, *)
(* whatever the layouts and whatever is committed between two statements.  *)
THEOREM CitationsStable == Spec => []StableIdsHold
<1>1. ReqInv => StableIdsHold
  BY DEF ReqInv, Sound, Cited, StableIdsHold
<1> QED  BY <1>1, RetrievalInvHolds, PTL

(* retrieval/service.py: a question about one book is answered from it.    *)
THEOREM AnsweredFromTheBook == Spec => []FilterHonoured
<1>1. ReqInv => FilterHonoured
  BY DEF ReqInv, Sound, Searched, FilterHonoured
<1> QED  BY <1>1, RetrievalInvHolds, PTL

(* _hydrate: no passage is returned without the trail of its section.      *)
THEOREM TrailsAlwaysThere == Spec => []TrailsComplete
<1>1. ReqInv => TrailsComplete
  BY DEF ReqInv, Sound, Cited, TrailsComplete
<1> QED  BY <1>1, RetrievalInvHolds, PTL

(* ContextExpander: a lookup fails only for a row that was a candidate and *)
(* that a commit has taken away since.                                     *)
THEOREM LookupsExplained == Spec => []LookupFailsExplained
<1>1. ASSUME IndexInv, ReqInv PROVE LookupFailsExplained
  <2> SUFFICES ASSUME NEW r \in Requests, req[r].cause = "lookup"
               PROVE  req[r].hit \in req[r].real /\ req[r].hit \notin Committed
    BY DEF LookupFailsExplained
  <2>1. /\ req[r].hit \in req[r].candidates /\ Gone(req[r].hit)
        /\ req[r].real = req[r].candidates
        /\ \A i \in req[r].candidates : Seen(i)
    BY <1>1 DEF ReqInv, Sound, Rowed, Searched
  <2>2. req[r].hit \notin Committed
    BY <1>1, <2>1, CommittedOrGone
  <2> QED  BY <2>1, <2>2
<1> QED  BY <1>1, RetrievalInvHolds, PTL

(* _outcome: the report names what was skipped and nothing else.           *)
THEOREM ReportsTrue == Spec => []ReportTrue
<1>1. ReqInv => ReportTrue
  <2> SUFFICES ASSUME NEW r \in Requests, Reported(req[r]), req[r].reply \in Good,
                      req[r].inquiry \in InquiryType
               PROVE
        /\ "sparse_skipped" \in req[r].degraded <=> req[r].arms = {"dense"}
        /\ req[r].candidates # {} =>
             (req[r].reranked <=> "rerank_skipped" \notin req[r].degraded)
        /\ req[r].degraded # {} => "deadline_hit" \in req[r].degraded
        /\ req[r].arms = {"dense"} => ~req[r].reranked
        /\ req[r].inquiry.kind = "ask" => req[r].degraded = {}
    BY DEF ReqInv, Sound, Shape, ReportTrue, Good
  <2> QED  BY DEF Reported
<1> QED  BY <1>1, RetrievalInvHolds, PTL

-------------------------------------------------------------------------------
(* The extent of a passage *)

(* A family of subsets of a finite set has a smallest member. *)
LEMMA Smallest ==
    ASSUME NEW S, IsFiniteSet(S), NEW F \in SUBSET SUBSET S, F # {}
    PROVE  \E U \in F : \A V \in F : V \subseteq U => V = U
<1>1. F \subseteq FiniteSubsetsOf(S)
  BY FS_FiniteSubsetsOfFinite DEF FiniteSubsetsOf
<1>2. \E U \in F : \A V \in F : ~(<<V, U>> \in StrictSubsetOrdering(S))
  BY <1>1, FS_StrictSubsetOrderingWellFounded, WFMin
<1>3. \A U, V \in SUBSET S : <<V, U>> \in StrictSubsetOrdering(S) <=> V \subseteq U /\ V # U
  BY DEF StrictSubsetOrdering
<1> QED  BY <1>2, <1>3

(* The guard of the token cap, and what it cuts. *)
Fits(U) == Cardinality(U) <= 1 \/ Tokens(U) <= MaxTokens
Cut(i, U, S) == U \ {FarEnd(i, U, S)}

(* Everything cutting comes to from U. *)
Cuts(i, T, S, U) ==
    {V \in SUBSET T :
        \A C \in SUBSET SUBSET T :
            U \in C /\ (\A W \in C : Fits(W) \/ Cut(i, W, S) \in C) => V \in C}

(* There is nothing to cut from what fits. *)
LEMMA CutsStop ==
    ASSUME NEW i, NEW T, NEW S, NEW U \in SUBSET T, Fits(U)
    PROVE  Cuts(i, T, S, U) = {U}
<1>1. U \in Cuts(i, T, S, U)
  BY DEF Cuts
<1>2. ASSUME NEW V \in Cuts(i, T, S, U)
      PROVE  V = U
  <2>1. {U} \in SUBSET SUBSET T /\ U \in {U} /\ \A W \in {U} : Fits(W)
    OBVIOUS
  <2> QED  BY <2>1 DEF Cuts
<1> QED  BY <1>1, <1>2

(* What does not fit is cut, and cut again. *)
LEMMA CutsGoOn ==
    ASSUME NEW i, NEW T, NEW S, NEW U \in SUBSET T, ~ Fits(U)
    PROVE  Cuts(i, T, S, U) = {U} \union Cuts(i, T, S, Cut(i, U, S))
<1> DEFINE Closed(C) == \A W \in C : Fits(W) \/ Cut(i, W, S) \in C
           N == Cut(i, U, S)
<1>1. N \in SUBSET T
  BY DEF Cut
<1>2. U \in Cuts(i, T, S, U)
  BY DEF Cuts
<1>3. ASSUME NEW V \in Cuts(i, T, S, N)
      PROVE  V \in Cuts(i, T, S, U)
  <2> SUFFICES ASSUME NEW C \in SUBSET SUBSET T, U \in C, Closed(C)
               PROVE  V \in C
    BY DEF Cuts
  <2>1. N \in C
    OBVIOUS
  <2> QED  BY <2>1 DEF Cuts
<1>4. ASSUME NEW V \in Cuts(i, T, S, U), V # U
      PROVE  V \in Cuts(i, T, S, N)
  <2> SUFFICES ASSUME NEW C \in SUBSET SUBSET T, N \in C, Closed(C)
               PROVE  V \in C
    BY DEF Cuts
  <2>1. C \union {U} \in SUBSET SUBSET T /\ U \in C \union {U} /\ Closed(C \union {U})
    OBVIOUS
  <2>2. V \in C \union {U}
    BY <2>1 DEF Cuts
  <2> QED  BY <1>4, <2>2
<1> QED  BY <1>2, <1>3, <1>4

IsCap(cap, i, T, S) ==
    cap = [U \in SUBSET T |-> IF Fits(U) THEN U ELSE cap[Cut(i, U, S)]]

(* TokenCap's recursive function exists: it is what its equation says.     *)
LEMMA CapEquation ==
    ASSUME NEW i, NEW T, NEW S
    PROVE  \E cap : IsCap(cap, i, T, S) /\ TokenCap(i, T, S) = cap[T]
<1> DEFINE Body(g) == [U \in SUBSET T |-> IF Fits(U) THEN U ELSE g[Cut(i, U, S)]]
           Ends(U) == {V \in Cuts(i, T, S, U) : Fits(V)}
           Some(X) == CHOOSE V : V \in X
           h == [U \in SUBSET T |-> Some(Ends(U))]
<1>1. ASSUME NEW U \in SUBSET T
      PROVE  Some(Ends(U)) = IF Fits(U) THEN U ELSE h[Cut(i, U, S)]
  <2>1. CASE Fits(U)
    <3>1. Cuts(i, T, S, U) = {U}
      BY <2>1, CutsStop
    <3>2. Ends(U) = {U}
      BY <2>1, <3>1
    <3> QED  BY <2>1, <3>2
  <2>2. CASE ~ Fits(U)
    <3>1. Ends(U) = Ends(Cut(i, U, S))
      BY <2>2, CutsGoOn
    <3>2. Cut(i, U, S) \in SUBSET T
      BY DEF Cut
    <3> QED  BY <2>2, <3>1, <3>2
  <2> QED  BY <2>1, <2>2
<1>2. h = Body(h)
  <2>1. \A U \in SUBSET T : h[U] = Some(Ends(U))
    OBVIOUS
  <2>2. h = [U \in SUBSET T |-> h[U]]
    OBVIOUS
  <2> HIDE DEF h, Ends, Some
  <2>3. \A U \in SUBSET T : h[U] = IF Fits(U) THEN U ELSE h[Cut(i, U, S)]
    BY <1>1, <2>1
  <2> QED  BY <2>2, <2>3
<1> DEFINE cap == CHOOSE g : g = Body(g)
<1>3. cap = Body(cap)
  BY <1>2
<1>4. TokenCap(i, T, S) = cap[T]
  BY DEF TokenCap, Fits, Cut
<1>5. IsCap(cap, i, T, S)
  BY <1>3 DEF IsCap
<1> QED  BY <1>4, <1>5

(* The rows of i's section in its edition, committed or not. *)
SectionOf(i) ==
    {j \in DOMAIN rows : /\ rows[j].edition = rows[i].edition
                         /\ rows[j].book = rows[i].book
                         /\ Place(j).section = Place(i).section
                         /\ Place(j).role = Place(i).role}

(* With two chunks of S, U has all those between them. *)
Unbroken(U, S) ==
    \A j \in S : (\E x, k \in U : SiblingBefore(x, j) /\ SiblingBefore(j, k)) => j \in U

(* rows are put in one order, that of _section_siblings. *)
LEMMA OneOrder ==
    ASSUME RowsInv
    PROVE  /\ \A i \in DOMAIN rows : ~ SiblingBefore(i, i)
           /\ \A i, j \in DOMAIN rows : i # j => SiblingBefore(i, j) \/ SiblingBefore(j, i)
           /\ \A i, j, k \in DOMAIN rows :
                SiblingBefore(i, j) /\ SiblingBefore(j, k) => SiblingBefore(i, k)
<1>1. \A i \in DOMAIN rows : i \in Nat /\ Place(i).page \in Nat /\ Place(i).offset \in Nat
  <2> TAKE i \in DOMAIN rows
  <2>1. i \in Nat /\ rows[i].book \in Books
    BY RowOfEdition
  <2>2. rows[i].at \in 1..Len(Layout[rows[i].book])
    BY DEF RowsInv, Numbered
  <2>3. Place(i) \in PlaceType
    BY <2>1, <2>2, LayoutAssumption DEF Place
  <2> QED  BY <2>1, <2>3 DEF PlaceType
<1>2. \A i, j : SiblingBefore(i, j) <=>
        \/ Place(i).page < Place(j).page
        \/ Place(i).page = Place(j).page /\ Place(i).offset < Place(j).offset
        \/ Place(i).page = Place(j).page /\ Place(i).offset = Place(j).offset /\ i < j
  BY Lexical DEF SiblingBefore
<1>3. \A i \in DOMAIN rows : ~ SiblingBefore(i, i)
  BY <1>1, <1>2
<1>4. ASSUME NEW i \in DOMAIN rows, NEW j \in DOMAIN rows, i # j
      PROVE  SiblingBefore(i, j) \/ SiblingBefore(j, i)
  <2> DEFINE p == Place(i).page
             q == Place(j).page
             s == Place(i).offset
             t == Place(j).offset
  <2>1. p \in Nat /\ q \in Nat /\ s \in Nat /\ t \in Nat /\ i \in Nat /\ j \in Nat
    BY <1>1
  <2>2. /\ SiblingBefore(i, j) <=> p < q \/ (p = q /\ s < t) \/ (p = q /\ s = t /\ i < j)
        /\ SiblingBefore(j, i) <=> q < p \/ (q = p /\ t < s) \/ (q = p /\ t = s /\ j < i)
    BY <1>2
  <2> HIDE DEF p, q, s, t
  <2> QED  BY <1>4, <2>1, <2>2
<1>5. \A i, j, k \in DOMAIN rows :
        SiblingBefore(i, j) /\ SiblingBefore(j, k) => SiblingBefore(i, k)
  BY <1>1, <1>2
<1> QED  BY <1>3, <1>4, <1>5

(* A selection has a first and a last chunk. *)
LEMMA EndsThere ==
    ASSUME RowsInv, NEW U \in SUBSET DOMAIN rows, IsFiniteSet(U), U # {}
    PROVE  /\ FirstOf(U) \in U /\ \A k \in U : ~ SiblingBefore(k, FirstOf(U))
           /\ LastOf(U) \in U /\ \A k \in U : ~ SiblingBefore(LastOf(U), k)
<1> DEFINE Lower(j) == {k \in U : SiblingBefore(k, j)}
           Upper(j) == {k \in U : SiblingBefore(j, k)}
<1>1. /\ \A i \in U : ~ SiblingBefore(i, i)
      /\ \A i, j, k \in U : SiblingBefore(i, j) /\ SiblingBefore(j, k) => SiblingBefore(i, k)
  BY OneOrder
<1>2. \E j \in U : \A k \in U : ~ SiblingBefore(k, j)
  <2> DEFINE F == {Lower(j) : j \in U}
  <2>1. F \in SUBSET SUBSET U /\ F # {}
    OBVIOUS
  <2> HIDE DEF F
  <2>2. PICK V \in F : \A W \in F : W \subseteq V => W = V
    BY <2>1, Smallest
  <2>3. PICK j \in U : V = Lower(j)
    BY DEF F
  <2>4. ASSUME NEW k \in U, SiblingBefore(k, j) PROVE FALSE
    <3>1. Lower(k) \in F
      BY DEF F
    <3>2. Lower(k) \subseteq Lower(j) /\ k \in Lower(j) /\ k \notin Lower(k)
      BY <1>1, <2>4
    <3> QED  BY <2>2, <2>3, <3>1, <3>2
  <2> QED  BY <2>4
<1>3. \E j \in U : \A k \in U : ~ SiblingBefore(j, k)
  <2> DEFINE F == {Upper(j) : j \in U}
  <2>1. F \in SUBSET SUBSET U /\ F # {}
    OBVIOUS
  <2> HIDE DEF F
  <2>2. PICK V \in F : \A W \in F : W \subseteq V => W = V
    BY <2>1, Smallest
  <2>3. PICK j \in U : V = Upper(j)
    BY DEF F
  <2>4. ASSUME NEW k \in U, SiblingBefore(j, k) PROVE FALSE
    <3>1. Upper(k) \in F
      BY DEF F
    <3>2. Upper(k) \subseteq Upper(j) /\ k \in Upper(j) /\ k \notin Upper(k)
      BY <1>1, <2>4
    <3> QED  BY <2>2, <2>3, <3>1, <3>2
  <2> QED  BY <2>4
<1> QED  BY <1>2, <1>3 DEF FirstOf, LastOf

(* Unless the hit is all there is, an end that is not the hit is cut. *)
LEMMA CutAtEnd ==
    ASSUME RowsInv, NEW U \in SUBSET DOMAIN rows, IsFiniteSet(U), NEW i \in U,
           U # {i}, NEW S, S \subseteq DOMAIN rows, U \subseteq S, Unbroken(U, S)
    PROVE  /\ FarEnd(i, U, S) \in U /\ FarEnd(i, U, S) # i
           /\ Unbroken(Cut(i, U, S), S)
<1> DEFINE left == FirstOf(U)
           right == LastOf(U)
           end == FarEnd(i, U, S)
<1>1. /\ left \in U /\ \A k \in U : ~ SiblingBefore(k, left)
      /\ right \in U /\ \A k \in U : ~ SiblingBefore(right, k)
  BY EndsThere
<1>2. /\ end = left \/ (end = right /\ right # i)
      /\ left = i /\ right # i => end = right
  <2> DEFINE far == Rank(right, S) - Rank(i, S) >= Rank(i, S) - Rank(left, S)
  <2>1. end = IF right # i /\ (left = i \/ far) THEN right ELSE left
    BY DEF FarEnd
  <2> HIDE DEF far, left, right, end
  <2> QED  BY <2>1
<1>3. ~ (left = i /\ right = i)
  <2>1. PICK k \in U : k # i
    OBVIOUS
  <2> HIDE DEF left, right
  <2> QED  BY <1>1, <2>1, OneOrder
<1> HIDE DEF left, right, end
<1>4. end \in U /\ end # i
  BY <1>1, <1>2, <1>3
<1>5. Unbroken(U \ {end}, S)
  <2>1. ASSUME NEW j \in S, NEW x \in U \ {end}, NEW k \in U \ {end},
               SiblingBefore(x, j), SiblingBefore(j, k)
        PROVE  j \in U \ {end}
    BY <1>1, <1>2, <2>1 DEF Unbroken
  <2> QED  BY <2>1 DEF Unbroken
<1> QED  BY <1>4, <1>5 DEF Cut, end

(* The token cap leaves an unbroken selection about the hit, within the    *)
(* limit unless it is the hit alone.                                       *)
LEMMA CapKeeps ==
    ASSUME RowsInv, NEW S \in SUBSET DOMAIN rows, NEW T \in SUBSET S, IsFiniteSet(T),
           NEW i \in T, Unbroken(T, S)
    PROVE  LET V == TokenCap(i, T, S)
           IN  /\ i \in V /\ V \subseteq T /\ Unbroken(V, S)
               /\ Tokens(V) <= MaxTokens \/ V = {i}
<1>1. PICK cap : IsCap(cap, i, T, S) /\ TokenCap(i, T, S) = cap[T]
  BY CapEquation
<1> DEFINE Capped(U, V) == /\ i \in V /\ V \subseteq U /\ Unbroken(V, S)
                           /\ Tokens(V) <= MaxTokens \/ V = {i}
           F == {U \in SUBSET T : i \in U /\ Unbroken(U, S) /\ ~ Capped(U, cap[U])}
<1>2. F = {}
  <2> SUFFICES ASSUME F # {} PROVE FALSE
    OBVIOUS
  <2>1. F \in SUBSET SUBSET T
    OBVIOUS
  <2> HIDE DEF F
  <2>2. PICK U \in F : \A V \in F : V \subseteq U => V = U
    BY <2>1, Smallest
  <2>3. U \in SUBSET T /\ i \in U /\ Unbroken(U, S) /\ ~ Capped(U, cap[U])
    BY DEF F
  <2>4. IsFiniteSet(U)
    BY <2>3, FS_Subset
  <2>5. CASE Fits(U)
    <3>1. cap[U] = U
      BY <1>1, <2>3, <2>5 DEF IsCap
    <3>2. ASSUME Cardinality(U) <= 1 PROVE U = {i}
      <4>1. Cardinality({i}) = 1 /\ IsFiniteSet({i}) /\ {i} \subseteq U
        BY <2>3, FS_Singleton
      <4>2. Cardinality({i}) <= Cardinality(U) /\ Cardinality(U) \in Nat
        BY <2>4, <4>1, FS_Subset, FS_CardinalityType
      <4>3. Cardinality(U) = 1
        BY <3>2, <4>1, <4>2
      <4> QED  BY <2>4, <4>1, <4>3, FS_Subset
    <3> QED  BY <2>3, <2>5, <3>1, <3>2 DEF Fits
  <2>6. CASE ~ Fits(U)
    <3> DEFINE N == Cut(i, U, S)
    <3>1. U # {i}
      <4>1. Cardinality({i}) = 1
        BY FS_Singleton
      <4> QED  BY <2>6, <4>1 DEF Fits
    <3>2. FarEnd(i, U, S) \in U /\ FarEnd(i, U, S) # i /\ Unbroken(N, S)
      BY <2>3, <2>4, <3>1, CutAtEnd
    <3>3. N \in SUBSET T /\ N \subseteq U /\ N # U /\ i \in N
      BY <2>3, <3>2 DEF Cut
    <3>4. cap[U] = cap[N]
      BY <1>1, <2>3, <2>6 DEF IsCap
    <3> HIDE DEF N
    <3>5. N \notin F
      BY <2>2, <3>3
    <3>6. Capped(N, cap[N])
      BY <3>2, <3>3, <3>5 DEF F
    <3> QED  BY <2>3, <3>3, <3>4, <3>6
  <2> QED  BY <2>5, <2>6
<1>3. Capped(T, cap[T])
  BY <1>2
<1> QED  BY <1>1, <1>3

(* The hit and so many chunks before and behind it are unbroken. *)
LEMMA NeighboursUnbroken ==
    ASSUME RowsInv, NEW S \in SUBSET DOMAIN rows, IsFiniteSet(S), NEW i \in S
    PROVE  i \in Neighbours(i, S) /\ Unbroken(Neighbours(i, S), S)
<1>1. ASSUME NEW j \in S
      PROVE  Rank(j, S) \in Nat
  <2>1. IsFiniteSet({k \in S : SiblingBefore(k, j)})
    BY FS_Subset
  <2> QED  BY <2>1, FS_CardinalityType DEF Rank
<1>2. ASSUME NEW j \in S, NEW k \in S, SiblingBefore(j, k)
      PROVE  Rank(j, S) <= Rank(k, S)
  <2> DEFINE J == {x \in S : SiblingBefore(x, j)}
             K == {x \in S : SiblingBefore(x, k)}
  <2>1. J \subseteq K
    BY <1>2, OneOrder
  <2>2. IsFiniteSet(K)
    BY FS_Subset
  <2>3. Cardinality(J) <= Cardinality(K)
    BY <2>1, <2>2, FS_Subset
  <2> QED  BY <2>3 DEF Rank
<1>3. i \in Neighbours(i, S)
  BY <1>1, LimitsAssumption DEF Neighbours
<1>4. ASSUME NEW j \in S, NEW x \in Neighbours(i, S), NEW k \in Neighbours(i, S),
             SiblingBefore(x, j), SiblingBefore(j, k)
      PROVE  j \in Neighbours(i, S)
  <2>1. /\ x \in S /\ Rank(x, S) \in Nat /\ Rank(i, S) <= Rank(x, S) + Window
        /\ k \in S /\ Rank(k, S) \in Nat /\ Rank(k, S) <= Rank(i, S) + Window
    BY <1>1 DEF Neighbours
  <2>2. Rank(x, S) <= Rank(j, S) /\ Rank(j, S) <= Rank(k, S)
    BY <1>2, <1>4, <2>1
  <2>3. /\ Rank(j, S) <= Rank(i, S) + Window
        /\ Rank(i, S) <= Rank(j, S) + Window
    BY <1>1, <2>1, <2>2, LimitsAssumption
  <2> QED  BY <2>3 DEF Neighbours
<1> QED  BY <1>3, <1>4 DEF Unbroken

(* What a passage is, however often the index changes afterwards. *)
WholePassage(i, P) ==
    /\ i \in P /\ P \subseteq SectionOf(i) /\ Unbroken(P, SectionOf(i))
    /\ Tokens(P) <= MaxTokens \/ P = {i}

(* The hit by itself is a whole passage. *)
LEMMA HitAlone ==
    ASSUME RowsInv, NEW i \in DOMAIN rows
    PROVE  WholePassage(i, {i})
<1>1. i \in SectionOf(i)
  BY DEF SectionOf
<1>2. ASSUME NEW j \in SectionOf(i), SiblingBefore(i, j), SiblingBefore(j, i)
      PROVE  FALSE
  BY <1>2, OneOrder DEF SectionOf
<1> QED  BY <1>1, <1>2 DEF WholePassage, Unbroken

(* With a row of a section, all of the section is committed. *)
LEMMA SiblingsAreSection ==
    ASSUME IndexInv, NEW i \in DOMAIN rows
    PROVE  /\ Siblings(i) \subseteq SectionOf(i)
           /\ Siblings(i) = {} \/ Siblings(i) = SectionOf(i)
<1>1. \A b \in Books : \A j \in chunks[b] : j \in DOMAIN rows /\ rows[j].book = b
  BY DEF IndexInv
<1>2. rows[i].book \in Books
  BY RowOfEdition DEF IndexInv
<1>3. Siblings(i) \subseteq SectionOf(i)
  BY <1>1 DEF Siblings, SectionOf, Committed
<1>4. ASSUME NEW j \in Siblings(i), NEW k \in SectionOf(i)
      PROVE  k \in Siblings(i)
  <2>1. j \in chunks[rows[i].book] /\ rows[j].edition = rows[i].edition
    BY <1>1, <1>2 DEF Siblings, Committed
  <2>2. k \in DOMAIN rows /\ rows[k].book = rows[i].book /\ rows[k].edition = rows[i].edition
    BY DEF SectionOf
  <2>3. k \in chunks[rows[i].book]
    BY <1>2, <2>1, <2>2 DEF IndexInv, WholeEdition
  <2> QED  BY <1>2, <2>3 DEF SectionOf, Siblings, Committed
<1> QED  BY <1>3, <1>4

(* What ReadSiblings makes of the siblings it reads. *)
LEMMA ExpansionWhole ==
    ASSUME IndexInv, NEW i \in DOMAIN rows, i \in Siblings(i)
    PROVE  WholePassage(i, TokenCap(i, Neighbours(i, Siblings(i)), Siblings(i)))
<1> DEFINE S == SectionOf(i)
<1>1. Siblings(i) = S /\ i \in S
  BY SiblingsAreSection
<1>2. IsFiniteSet(S) /\ S \in SUBSET DOMAIN rows
  <2>1. PICK n \in Nat : DOMAIN rows = 1..n
    BY DEF IndexInv, RowsInv
  <2>2. IsFiniteSet(DOMAIN rows)
    BY <2>1, FS_Interval
  <2> QED  BY <2>2, FS_Subset DEF SectionOf
<1> HIDE DEF S
<1>3. RowsInv
  BY DEF IndexInv
<1>4. i \in Neighbours(i, S) /\ Unbroken(Neighbours(i, S), S) /\ Neighbours(i, S) \in SUBSET S
  BY <1>1, <1>2, <1>3, NeighboursUnbroken DEF Neighbours
<1>5. IsFiniteSet(Neighbours(i, S))
  BY <1>2, <1>4, FS_Subset
<1> DEFINE T == Neighbours(i, S)
           V == TokenCap(i, T, S)
<1> HIDE DEF T
<1>6. /\ i \in V /\ V \subseteq T /\ Unbroken(V, S)
      /\ Tokens(V) <= MaxTokens \/ V = {i}
  BY <1>2, <1>3, <1>4, <1>5, CapKeeps DEF T
<1> HIDE DEF V
<1>7. WholePassage(i, V)
  BY <1>4, <1>6 DEF WholePassage, S, T
<1> QED  BY <1>1, <1>7 DEF V, T

(* What a request has expanded so far. *)
Framed(x) ==
    /\ x.step \in {"siblings", "ordinal"} => WholePassage(x.hit, x.parts)
    /\ \A p \in x.passages : WholePassage(p.id, p.parts)

PartsInv == \A r \in Requests : Framed(req[r])

(* An edition that is drawn takes nothing from the ones before it and adds *)
(* nothing to them.                                                        *)
LEMMA SectionKept ==
    ASSUME IndexInv, NEW b \in Books, Reindex(b), NEW i \in DOMAIN rows
    PROVE  SectionOf(i)' = SectionOf(i)
<1>1. CASE Draw(b)
  <2>1. PICK n \in Nat : DOMAIN rows = 1..n
    BY DEF IndexInv, RowsInv
  <2>2. Cardinality(DOMAIN rows) = n
    BY <2>1, FS_Interval
  <2> DEFINE len == Len(Layout[b])
  <2>3. len \in Nat
    BY LayoutAssumption
  <2>4. rows' = [j \in 1..(n + len) |-> IF j <= n THEN rows[j]
                                   ELSE [book |-> b, at |-> j - n, edition |-> n + 1]]
    BY <1>1, <2>2 DEF Draw
  <2> HIDE DEF len
  <2>5. /\ DOMAIN rows' = 1..(n + len)
        /\ \A j \in 1..n : j \in 1..(n + len) /\ rows'[j] = rows[j]
        /\ \A j \in 1..(n + len) \ 1..n : rows'[j].edition = n + 1
    BY <2>3, <2>4
  <2>6. rows'[i] = rows[i] /\ rows[i].edition # n + 1
    BY <2>1, <2>5, RowOfEdition DEF IndexInv
  <2> QED  BY <2>1, <2>5, <2>6 DEF SectionOf, Place
<1>2. CASE ~ Draw(b)
  <2>1. UNCHANGED rows
    BY <1>2 DEF Reindex, Publish, DeletePoints, RevealPoints
  <2> QED  BY <2>1 DEF SectionOf, Place
<1> QED  BY <1>1, <1>2

(* A passage stays whole whatever the index becomes. *)
LEMMA WholeKept ==
    ASSUME Onward, NEW i \in DOMAIN rows, SectionOf(i)' = SectionOf(i), NEW P,
           WholePassage(i, P)
    PROVE  WholePassage(i, P)'
<1>1. SectionOf(i) \subseteq DOMAIN rows /\ P \subseteq SectionOf(i) /\ i \in P
  BY DEF SectionOf, WholePassage
<1>2. \A j \in DOMAIN rows : Place(j)' = Place(j)
  BY DEF Onward, Place
<1>3. \A j, k \in DOMAIN rows : SiblingBefore(j, k)' <=> SiblingBefore(j, k)
  BY <1>2 DEF SiblingBefore
<1>4. Tokens(P)' = Tokens(P)
  <2>1. [j \in P |-> Place(j)'.tokens] = [j \in P |-> Place(j).tokens]
    BY <1>1, <1>2
  <2> QED  BY <2>1 DEF Tokens
<1>5. Unbroken(P, SectionOf(i))'
  BY <1>1, <1>3 DEF WholePassage, Unbroken
<1> QED  BY <1>1, <1>4, <1>5 DEF WholePassage

(* What is expanded has a row. *)
LEMMA HitHasRow ==
    ASSUME ReqInv, NEW r \in Requests
    PROVE  /\ \A i \in req[r].candidates : i \in DOMAIN rows
           /\ req[r].step \in {"siblings", "ordinal"} => req[r].hit \in DOMAIN rows
           /\ \A p \in req[r].passages : p.id \in DOMAIN rows
<1>1. Searched(req[r])
  BY DEF ReqInv, Sound
<1> QED  BY <1>1 DEF Searched

(* The environment leaves every request's passages whole. *)
LEMMA EnvironmentFramed ==
    ASSUME IndexInv, ReqInv, PartsInv, Onward, UNCHANGED req,
           \A i \in DOMAIN rows : SectionOf(i)' = SectionOf(i)
    PROVE  PartsInv'
<1> SUFFICES ASSUME NEW r \in Requests PROVE Framed(req[r])'
  BY DEF PartsInv
<1>1. Framed(req[r])
  BY DEF PartsInv
<1>2. ASSUME req[r].step \in {"siblings", "ordinal"}
      PROVE  WholePassage(req[r].hit, req[r].parts)'
  <2> DEFINE i == req[r].hit
             P == req[r].parts
  <2>1. i \in DOMAIN rows /\ WholePassage(i, P)
    BY <1>1, <1>2, HitHasRow DEF Framed
  <2> QED  BY <2>1, WholeKept
<1>3. ASSUME NEW p \in req[r].passages
      PROVE  WholePassage(p.id, p.parts)'
  <2>1. p.id \in DOMAIN rows /\ WholePassage(p.id, p.parts)
    BY <1>1, HitHasRow DEF Framed
  <2> QED  BY <2>1, WholeKept
<1> QED  BY <1>2, <1>3 DEF Framed

(* The other steps expand nothing. *)
LEMMA OthersFramed ==
    ASSUME ReqInv, NEW r \in Requests, Request(r), Framed(req[r]),
           ~ LoadHit(r), ~ ReadSiblings(r), ~ ReadOrdinal(r)
    PROVE  Framed(req'[r])
<1> DEFINE x == req[r]
           y == req'[r]
           Same == /\ y.passages = x.passages
                   /\ y.step \in {"siblings", "ordinal"} =>
                        y.step = x.step /\ y.hit = x.hit /\ y.parts = x.parts
<1>1. DOMAIN x = Fields /\ x = req[r] /\ req = [q \in Requests |-> req[q]]
  BY DEF ReqInv, Sound, Shape
<1>2. ASSUME NEW i, NEW cause, Raise(r, i, cause)
      PROVE  Same
  BY <1>1, <1>2 DEF Raise, Fields
<1>3. ASSUME Ask(r) PROVE Same
  <2>1. \E q : y = [x EXCEPT !.step = "translate", !.inquiry = q]
    BY <1>1, <1>3 DEF Ask
  <2> QED  BY <1>1, <2>1 DEF Fields
<1>4. ASSUME Translate(r) PROVE Same
  <2>1. y = [x EXCEPT !.step = "dense"]
    BY <1>1, <1>4 DEF Translate
  <2> QED  BY <1>1, <2>1 DEF Fields
<1>5. ASSUME SearchDense(r) \/ SearchSparse(r) \/ SearchRoot(r) PROVE Same
  <2>1. \E s \in {"sparse", "root", "hydrate"} : \E F, A :
           y = [x EXCEPT !.step = s, !.found = F, !.arms = A]
    <3>1. \E F : SearchSparse(r) =>
             y = [x EXCEPT !.step = AfterSparse(r), !.found = F, !.arms = @ \cup {"bm25"}]
      BY <1>1 DEF SearchSparse
    <3>2. AfterSparse(r) \in {"root", "hydrate"}
      BY DEF AfterSparse
    <3>3. CASE SearchSparse(r)
      BY <3>1, <3>2, <3>3
    <3>4. CASE SearchDense(r)
      <4>1. \E F : y = [x EXCEPT !.step = "sparse", !.found = F, !.arms = {"dense"}]
        BY <1>1, <3>4 DEF SearchDense
      <4> QED  BY <4>1
    <3>5. CASE SearchRoot(r)
      <4>1. \E F : y = [x EXCEPT !.step = "hydrate", !.found = F,
                                   !.arms = x.arms \cup {"root"}]
        BY <1>1, <3>5 DEF SearchRoot
      <4> QED  BY <4>1
    <3> QED  BY <1>5, <3>3, <3>4, <3>5
  <2> QED  BY <1>1, <2>1 DEF Fields
<1>6. ASSUME SkipSparse(r) PROVE Same
  <2>1. \E D : y = [x EXCEPT !.step = "hydrate", !.degraded = D]
    BY <1>1, <1>6 DEF SkipSparse
  <2> QED  BY <1>1, <2>1 DEF Fields
<1>7. ASSUME Hydrate(r) PROVE Same
  <2>1. \E s \in {"expand", "sections"} : \E K :
           y = [x EXCEPT !.step = s, !.candidates = K, !.real = K]
    BY <1>1, <1>7 DEF Hydrate, AfterHydrate
  <2> QED  BY <1>1, <2>1 DEF Fields
<1>8. ASSUME HydrateSections(r) PROVE Same
  <2>1. \E T : y = [x EXCEPT !.step = "rerank", !.titled = T]
    BY <1>1, <1>8 DEF HydrateSections
  <2> QED  BY <1>1, <2>1 DEF Fields
<1>9. ASSUME Rerank(r) PROVE Same
  <2>1. \E H : y = [x EXCEPT !.step = "expand", !.todo = H, !.reranked = TRUE]
    BY <1>1, <1>9 DEF Rerank
  <2> QED  BY <1>1, <2>1 DEF Fields
<1>10. ASSUME SkipRerank(r) PROVE Same
  <2>1. \E H, D : y = [x EXCEPT !.step = "expand", !.todo = H, !.degraded = D]
    BY <1>1, <1>10 DEF SkipRerank
  <2> QED  BY <1>1, <2>1 DEF Fields
<1>11. ASSUME Conclude(r) PROVE Same
  <2>1. \E D : y = [x EXCEPT !.step = "answer", !.degraded = D]
    BY <1>1, <1>11 DEF Conclude
  <2> QED  BY <1>1, <2>1 DEF Fields
<1>12. ASSUME Respond(r) PROVE Same
  <2>1. \E a : y = [x EXCEPT !.step = "done", !.reply = a]
    BY <1>1, <1>12 DEF Respond
  <2> QED  BY <1>1, <2>1 DEF Fields
<1>13. ASSUME Expire(r) PROVE Same
  <2>1. y = [x EXCEPT !.late = TRUE]
    BY <1>1, <1>13 DEF Expire
  <2> QED  BY <1>1, <2>1 DEF Fields
<1> HIDE DEF Same
<1>14. ASSUME Reject(r) \/ Fail(r) PROVE Same
  BY <1>2, <1>14 DEF Reject, Fail
<1>15. Same
  BY <1>3, <1>4, <1>5, <1>6, <1>7, <1>8, <1>9, <1>10, <1>11, <1>12, <1>13, <1>14
     DEF Request, Step
<1> QED  BY <1>15 DEF Same, Framed

(* A request's new record is judged by the same rows. *)
LEMMA FrameTransport ==
    ASSUME UNCHANGED rows, NEW r \in Requests, Framed(req'[r])
    PROVE  Framed(req[r])'
<1>1. \A i, P : WholePassage(i, P)' <=> WholePassage(i, P)
  BY DEF WholePassage, SectionOf, Unbroken, SiblingBefore, Place, Tokens
<1> QED  BY <1>1 DEF Framed

(* A step of a request makes whole passages only. *)
LEMMA RequestFramed ==
    ASSUME IndexInv, ReqInv, NEW r \in Requests, Request(r), Framed(req[r])
    PROVE  Framed(req'[r])
<1>1. DOMAIN req[r] = Fields /\ req = [q \in Requests |-> req[q]]
  BY DEF ReqInv, Sound, Shape
<1>2. ASSUME NEW i, Raise(r, i, "lookup")
      PROVE  Framed(req'[r])
  <2>1. req'[r].step = "done" /\ req'[r].passages = req[r].passages
    BY <1>1, <1>2 DEF Raise, Fields
  <2> QED  BY <2>1 DEF Framed
<1>3. CASE LoadHit(r)
  <2> PICK i \in req[r].todo :
        IF i \in Committed THEN Load(r, i) ELSE Raise(r, i, "lookup")
    BY <1>3 DEF LoadHit
  <2>1. CASE i \in Committed
    <3>1. req'[r].hit = i /\ req'[r].parts = {i} /\ req'[r].passages = req[r].passages
      BY <1>1, <2>1 DEF Load, Fields
    <3>2. i \in DOMAIN rows
      BY <2>1 DEF Committed, IndexInv
    <3>3. WholePassage(i, {i})
      BY <3>2, HitAlone DEF IndexInv
    <3> QED  BY <3>1, <3>3 DEF Framed
  <2>2. CASE i \notin Committed
    BY <1>2, <2>2
  <2> QED  BY <2>1, <2>2
<1>4. CASE ReadSiblings(r)
  <2> DEFINE i == req[r].hit
             S == Siblings(i)
             T == TokenCap(i, Neighbours(i, S), S)
  <2>1. i \in DOMAIN rows
    BY <1>4, HitHasRow DEF ReadSiblings
  <2>2. CASE S # {} /\ i \notin S
    BY <1>2, <1>4, <2>2 DEF ReadSiblings
  <2>3. CASE ~(S # {} /\ i \notin S)
    <3>1. req' = [req EXCEPT ![r] = [req[r] EXCEPT !.step = "ordinal",
                                       !.parts = IF S = {} THEN {i} ELSE T]]
      BY <1>4, <2>3 DEF ReadSiblings
    <3>2. WholePassage(i, IF S = {} THEN {i} ELSE T)
      <4>1. CASE S = {}
        BY <2>1, <4>1, HitAlone DEF IndexInv
      <4>2. CASE S # {}
        BY <2>1, <2>3, <4>2, ExpansionWhole
      <4> QED  BY <4>1, <4>2
    <3> HIDE DEF S, T
    <3>3. /\ req'[r].hit = i /\ req'[r].passages = req[r].passages
          /\ req'[r].parts = IF S = {} THEN {i} ELSE T
      BY <1>1, <3>1 DEF Fields
    <3> QED  BY <3>2, <3>3 DEF Framed
  <2> QED  BY <2>2, <2>3
<1>5. CASE ReadOrdinal(r)
  <2> DEFINE i == req[r].hit
             mates == PageMates(i)
  <2>1. CASE i \in mates
    <3>1. req' = [req EXCEPT ![r] = [req[r] EXCEPT !.step = "expand",
                                        !.passages = @ \cup {Passage(r, mates)}]]
      BY <1>5, <2>1 DEF ReadOrdinal
    <3>2. Passage(r, mates).id = i /\ Passage(r, mates).parts = req[r].parts
      BY DEF Passage
    <3>3. WholePassage(i, req[r].parts)
      BY <1>5 DEF ReadOrdinal, Framed
    <3> PICK passage : passage = Passage(r, mates)
      OBVIOUS
    <3> HIDE DEF mates
    <3>4. /\ req'[r].passages = req[r].passages \cup {passage}
          /\ req'[r].step = "expand"
      BY <1>1, <3>1 DEF Fields
    <3> QED  BY <3>2, <3>3, <3>4 DEF Framed
  <2>2. CASE i \notin mates
    BY <1>2, <1>5, <2>2 DEF ReadOrdinal
  <2> QED  BY <2>1, <2>2
<1>6. CASE ~ LoadHit(r) /\ ~ ReadSiblings(r) /\ ~ ReadOrdinal(r)
  BY <1>6, OthersFramed
<1> QED  BY <1>3, <1>4, <1>5, <1>6

(* Every passage of every request is whole at any moment: a request only   *)
(* ever reads an edition that is committed as a whole.                     *)
THEOREM PartsInvHolds == Spec => []PartsInv
<1>1. Init => PartsInv
  BY DEF Init, Idle, PartsInv, Framed
<1>2. IndexInv /\ ReqInv /\ PartsInv /\ [Next]_vars => PartsInv'
  <2> SUFFICES ASSUME IndexInv, ReqInv, PartsInv, [Next]_vars PROVE PartsInv'
    OBVIOUS
  <2>1. ASSUME NEW r \in Requests, Request(r) PROVE PartsInv'
    <3>1. /\ UNCHANGED <<index, rows>>
          /\ \A q \in Requests \ {r} : req'[q] = req[q]
      BY <2>1, RequestAlone
    <3>2. \A q \in Requests : Framed(req'[q])
      BY <2>1, <3>1, RequestFramed DEF PartsInv
    <3>3. ASSUME NEW q \in Requests PROVE Framed(req[q])'
      BY <3>1, <3>2, FrameTransport
    <3> QED  BY <3>3 DEF PartsInv
  <2>2. ASSUME NEW b \in Books, Reindex(b) PROVE PartsInv'
    <3>1. Onward
      BY <2>2, ReindexKeeps
    <3>2. UNCHANGED req
      BY <2>2 DEF Reindex, Draw, Publish, DeletePoints, RevealPoints
    <3>3. \A i \in DOMAIN rows : SectionOf(i)' = SectionOf(i)
      BY <2>2, SectionKept
    <3> QED  BY <3>1, <3>2, <3>3, EnvironmentFramed
  <2>3. CASE UNCHANGED vars
    <3>1. UNCHANGED rows /\ UNCHANGED req
      BY <2>3 DEF vars
    <3> QED  BY <3>1, FrameTransport DEF PartsInv
  <2> QED  BY <2>1, <2>2, <2>3 DEF Next
<1> QED  BY <1>1, <1>2, RetrievalInvHolds, PTL DEF Spec

(* context.py: a passage is one unbroken run of one section in one edition *)
(* with the hit in it, over the token cap only if it is the hit alone.     *)
THEOREM PassagesAreWhole == Spec => []PassagesWhole
<1>1. ASSUME IndexInv, ReqInv, PartsInv PROVE PassagesWhole
  <2> SUFFICES ASSUME NEW r \in Requests, NEW p \in req[r].passages
               PROVE
        /\ p.id \in p.parts
        /\ Tokens(p.parts) <= MaxTokens \/ p.parts = {p.id}
        /\ \A i \in p.parts :
             /\ rows[i].edition = rows[p.id].edition
             /\ Place(i).section = Place(p.id).section
             /\ Place(i).role = Place(p.id).role
        /\ \A j \in Siblings(p.id) :
             (\E i, k \in p.parts : SiblingBefore(i, j) /\ SiblingBefore(j, k))
                => j \in p.parts
    BY DEF PassagesWhole
  <2>1. WholePassage(p.id, p.parts)
    BY <1>1 DEF PartsInv, Framed
  <2>2. p.id \in DOMAIN rows
    BY <1>1, HitHasRow
  <2>3. Siblings(p.id) \subseteq SectionOf(p.id)
    BY <1>1, <2>2, SiblingsAreSection
  <2> QED  BY <2>1, <2>3 DEF WholePassage, SectionOf, Unbroken
<1> QED  BY <1>1, PartsInvHolds, RetrievalInvHolds, PTL

=============================================================================
