----------------------------- MODULE ConsoleProofs -----------------------------
(****************************************************************************)
(* Proofs about the console, for any lists, page size, filters and bounds.   *)
(*                                                                          *)
(* Paging misses nothing that has its place to itself, because a row never   *)
(* moves up: rows that come in only add to those before it.  So such a row    *)
(* of what the reader is owed stays at or behind the page on the screen, and  *)
(* when that page is answered by reads that no write overlapped, it is behind *)
(* it and the count says that more is to come.  A row that has its stamps in  *)
(* common with another has no such place, and no claim is made of it.         *)
(****************************************************************************)
EXTENDS Console, FiniteSetTheorems, TLAPS

\* Later stamps make a weak order: rows that neither comes before the other have
\* the same rows before them.
Ordered ==
  /\ \A r \in Rows : r \notin above[r]
  /\ \A r \in Rows : \A x \in above[r] : above[x] \subseteq above[r]
  /\ \A r, x \in Rows : x \notin above[r] /\ r \notin above[x] => above[r] = above[x]

\* The first place of the list that a row may have.
Rank(r, f) == Cardinality(above[r] \cap Matching(f)) + 1

\* What a request has read, in part or in whole.
Reading(a) ==
  /\ a \in [rows : (SUBSET Ids) \cup {Unread}, top : Ids \cup {NoRow},
            total : (0..MaxWrites[list]) \cup {Unread}]
  /\ a.rows # Unread => Cardinality(a.rows) <= PageSize /\ (a.rows # {} => a.top \in a.rows)

AnswersOK ==
  /\ \A k \in DOMAIN fetches : Reading(fetches[k])
  /\ \A k \in DOMAIN cache : cache[k].rows # {} => cache[k].top \in cache[k].rows

\* The events and audit pages have moved the selection to what they show.
SelectionOK ==
  open /\ list \in {"events", "audit"} =>
    IF Shown.rows = {} THEN selected = NoRow ELSE selected \in Shown.rows

ScreenInv == TypeOK /\ Ordered /\ AnswersOK /\ SelectionOK

\* A request that is calm has read the table as it still is.
Current(k) ==
  /\ fetches[k].rows # Unread => fetches[k].rows \in Page(k)
  /\ fetches[k].total # Unread => fetches[k].total = Cardinality(Matching(k[1]))

\* A row that is owed lies at or behind a page, if no other has the same stamps.
Placed(r, f, p) == r \in Matching(f) /\ (Tied(r, f) = {} => Rank(r, f) > SkipOf(p))

Behind(p) == \A r \in walk.owed : Placed(r, filter, p)

\* Of the rows owed, one has its place to itself.
Owing == \E r \in walk.owed : Tied(r, filter) = {}

Answered == Key \in DOMAIN cache /\ Key \notin DOMAIN fetches

WalkInv ==
  /\ walk.calm => \A k \in DOMAIN fetches : Current(k)
  /\ walk.calm /\ open =>
       /\ Behind(page)
       /\ Answered => Behind(page + 1) /\ (Owing => cache[Key].total > page * PageSize)

ConsoleInv == ScreenInv /\ WalkInv

-----------------------------------------------------------------------------
(* Lists, ranks and pages.                                                    *)

LEMMA Limits ==
  ASSUME TypeOK
  PROVE  /\ MaxWrites[list] \in Nat /\ PageSize \in Nat /\ PageSize > 0
         /\ written \in Nat /\ written <= MaxWrites[list] /\ page \in Nat /\ page > 0
BY ConsoleAssumption DEF TypeOK

LEMMA RowsFinite ==
  ASSUME TypeOK
  PROVE  /\ IsFiniteSet(Rows) /\ Rows \subseteq Ids
         /\ Cardinality(Rows) \in Nat /\ Cardinality(Rows) <= MaxWrites[list]
<1>1. Rows \subseteq 1..written
  BY DEF TypeOK
<1>2. IsFiniteSet(1..written) /\ Cardinality(1..written) = written
  BY Limits, FS_Interval
<1>3. IsFiniteSet(Rows) /\ Cardinality(Rows) <= written
  BY <1>1, <1>2, FS_Subset
<1> QED BY <1>1, <1>3, Limits, FS_CardinalityType DEF Ids

LEMMA MatchingFinite ==
  ASSUME TypeOK, NEW f
  PROVE  /\ IsFiniteSet(Matching(f)) /\ Matching(f) \subseteq Rows
         /\ Cardinality(Matching(f)) \in 0..MaxWrites[list]
<1>1. Matching(f) \subseteq Rows
  BY DEF Matching
<1>2. IsFiniteSet(Matching(f)) /\ Cardinality(Matching(f)) <= Cardinality(Rows)
  BY <1>1, RowsFinite, FS_Subset
<1>3. Cardinality(Matching(f)) \in Nat
  BY <1>2, FS_CardinalityType
<1> QED BY <1>1, <1>2, <1>3, RowsFinite, Limits

\* A row of the list has a rank, which the count of the list reaches.
LEMMA RankBounded ==
  ASSUME TypeOK, Ordered, NEW f, NEW r \in Matching(f)
  PROVE  /\ Rank(r, f) \in Nat /\ Rank(r, f) > 0
         /\ Rank(r, f) <= Cardinality(Matching(f))
<1> DEFINE A == above[r] \cap Matching(f)
<1>1. r \in Rows /\ r \notin A
  BY DEF Matching, Ordered
<1>2. IsFiniteSet(A)
  BY MatchingFinite, FS_Subset
<1>3. Cardinality(A \cup {r}) = Cardinality(A) + 1
  BY <1>1, <1>2, FS_AddElement
<1>4. A \cup {r} \subseteq Matching(f)
  OBVIOUS
<1>5. Cardinality(A \cup {r}) <= Cardinality(Matching(f))
  BY <1>4, MatchingFinite, FS_Subset
<1>6. Cardinality(A) \in Nat
  BY <1>2, FS_CardinalityType
<1> QED BY <1>3, <1>5, <1>6 DEF Rank

\* The rows before a page, the rows on it, and how many they are.
LEMMA PageParts ==
  ASSUME TypeOK, NEW k \in Keys, NEW s \in Page(k)
  PROVE  \E a \in Beginnings(k[1], SkipOf(k[2])), b \in Beginnings(k[1], SkipOf(k[2]) + PageSize) :
           /\ a \cap s = {} /\ b = a \cup s
           /\ IsFiniteSet(a) /\ IsFiniteSet(b)
           /\ Cardinality(a) \in Nat /\ Cardinality(a) <= SkipOf(k[2])
           /\ Cardinality(b) \in Nat /\ Cardinality(b) <= SkipOf(k[2]) + PageSize
           /\ SkipOf(k[2]) \in Nat
<1>1. PICK a \in Beginnings(k[1], SkipOf(k[2])) :
        a \cap s = {} /\ a \cup s \in Beginnings(k[1], SkipOf(k[2]) + PageSize)
  BY DEF Page
<1>2. k[2] \in Nat /\ k[2] > 0 /\ PageSize \in Nat /\ PageSize > 0
  BY Limits DEF Keys
<1>3. SkipOf(k[2]) \in Nat
  <2>1. k[2] - 1 \in Nat
    BY <1>2
  <2> QED BY <1>2, <2>1 DEF SkipOf
<1>4. ASSUME NEW n \in Nat, NEW c \in Beginnings(k[1], n)
      PROVE  IsFiniteSet(c) /\ Cardinality(c) \in Nat /\ Cardinality(c) <= n
  <2>1. c \subseteq Matching(k[1]) /\ (Cardinality(c) = n \/ Cardinality(c) < n)
    BY DEF Beginnings
  <2>2. IsFiniteSet(c) /\ Cardinality(c) \in Nat
    BY <2>1, MatchingFinite, FS_Subset, FS_CardinalityType
  <2> QED BY <2>1, <2>2
<1>5. SkipOf(k[2]) + PageSize \in Nat
  BY <1>2, <1>3
<1>6. IsFiniteSet(a) /\ Cardinality(a) \in Nat /\ Cardinality(a) <= SkipOf(k[2])
  BY <1>3, <1>4
<1>7. PICK b \in Beginnings(k[1], SkipOf(k[2]) + PageSize) : b = a \cup s
  BY <1>1
<1>8. IsFiniteSet(b) /\ Cardinality(b) \in Nat /\ Cardinality(b) <= SkipOf(k[2]) + PageSize
  BY <1>4, <1>5
<1> QED BY <1>1, <1>3, <1>6, <1>7, <1>8

\* skip and take of the endpoints give a page of no more rows than were asked for.
LEMMA PageBounded ==
  ASSUME TypeOK, NEW k \in Keys, NEW s \in Page(k)
  PROVE  /\ s \subseteq Matching(k[1]) /\ s \in SUBSET Ids /\ IsFiniteSet(s)
         /\ Cardinality(s) <= PageSize
<1>1. s \subseteq Matching(k[1])
  BY DEF Page
<1>2. IsFiniteSet(s) /\ Cardinality(s) \in Nat
  BY <1>1, MatchingFinite, FS_Subset, FS_CardinalityType
<1>3. PICK a \in Beginnings(k[1], SkipOf(k[2])), b \in Beginnings(k[1], SkipOf(k[2]) + PageSize) :
        /\ a \cap s = {} /\ b = a \cup s
        /\ IsFiniteSet(a) /\ IsFiniteSet(b)
        /\ Cardinality(a) \in Nat /\ Cardinality(a) <= SkipOf(k[2])
        /\ Cardinality(b) \in Nat /\ Cardinality(b) <= SkipOf(k[2]) + PageSize
        /\ SkipOf(k[2]) \in Nat
  BY PageParts
<1>4. Cardinality(b) = Cardinality(a) + Cardinality(s)
  <2>1. Cardinality(a \cup s) = Cardinality(a) + Cardinality(s) - Cardinality(a \cap s)
    BY <1>2, <1>3, FS_Union
  <2>2. Cardinality(a \cap s) = 0
    BY <1>3, FS_EmptySet
  <2> QED BY <1>2, <1>3, <2>1, <2>2
<1>5. Cardinality(a) = SkipOf(k[2]) \/ a = Matching(k[1])
  BY DEF Beginnings
<1>6. CASE a = Matching(k[1])
  <2>1. s = {}
    BY <1>1, <1>3, <1>6
  <2> QED BY <1>1, <1>2, <2>1, FS_EmptySet, Limits, MatchingFinite, RowsFinite
<1>7. CASE Cardinality(a) = SkipOf(k[2])
  BY <1>1, <1>2, <1>3, <1>4, <1>7, Limits, MatchingFinite, RowsFinite
<1> QED BY <1>5, <1>6, <1>7

\* A row with its place to itself is on the page its place is on, in whatever
\* order the query lists the others: if it is not, it comes after the page.
LEMMA NotListed ==
  ASSUME TypeOK, Ordered, NEW k \in Keys, NEW s \in Page(k), NEW r \in Matching(k[1]),
         Tied(r, k[1]) = {}, Rank(r, k[1]) > SkipOf(k[2]), r \notin s
  PROVE  Rank(r, k[1]) > SkipOf(k[2]) + PageSize
<1> DEFINE M == Matching(k[1])
           U == above[r] \cap M
<1>1. PICK a \in Beginnings(k[1], SkipOf(k[2])), b \in Beginnings(k[1], SkipOf(k[2]) + PageSize) :
        /\ a \cap s = {} /\ b = a \cup s
        /\ IsFiniteSet(a) /\ IsFiniteSet(b)
        /\ Cardinality(a) \in Nat /\ Cardinality(a) <= SkipOf(k[2])
        /\ Cardinality(b) \in Nat /\ Cardinality(b) <= SkipOf(k[2]) + PageSize
        /\ SkipOf(k[2]) \in Nat
  BY PageParts
<1>2. M \subseteq Rows /\ IsFiniteSet(M)
  BY MatchingFinite
<1>3. IsFiniteSet(U) /\ Cardinality(U) \in Nat /\ Rank(r, k[1]) = Cardinality(U) + 1
  BY <1>2, FS_Subset, FS_CardinalityType DEF Rank
<1>4. r \in M /\ r \notin U
  BY <1>2 DEF Ordered
<1>5. r \notin a
  <2> SUFFICES ASSUME r \in a PROVE FALSE
    OBVIOUS
  <2>1. U \cup {r} \subseteq a
    BY DEF Beginnings
  <2>2. Cardinality(U \cup {r}) = Cardinality(U) + 1
    BY <1>3, <1>4, FS_AddElement
  <2>3. Cardinality(U \cup {r}) <= Cardinality(a)
    BY <1>1, <2>1, FS_Subset
  <2> QED BY <1>1, <1>3, <2>2, <2>3
<1>6. r \notin b
  BY <1>1, <1>5
<1>7. b \subseteq U
  <2> SUFFICES ASSUME NEW x \in b PROVE x \in U
    OBVIOUS
  <2>1. x \in M /\ x # r /\ r \notin above[x]
    BY <1>4, <1>6 DEF Beginnings
  <2>2. above[x] # above[r]
    BY <2>1 DEF Tied
  <2> QED BY <1>2, <2>1, <2>2 DEF Ordered
<1>8. Cardinality(b) <= Cardinality(U)
  BY <1>3, <1>7, FS_Subset
<1>9. Cardinality(b) = SkipOf(k[2]) + PageSize
  BY <1>4, <1>6 DEF Beginnings
<1> QED BY <1>1, <1>3, <1>8, <1>9, Limits
-----------------------------------------------------------------------------
(* Requests and the screen.                                                   *)

LEMMA ConsoleInit == Init => ConsoleInv
<1> SUFFICES ASSUME Init PROVE ConsoleInv
  OBVIOUS
<1>1. Rows = {} /\ DOMAIN cache = {} /\ DOMAIN fetches = {}
  BY DEF Init, Rows
<1>2. list \in Lists /\ MaxWrites[list] \in Nat /\ MaxClears[list] \in Nat
  BY ConsoleAssumption DEF Init
<1>3. TypeOK
  <2>1. above \in [Rows -> SUBSET Rows]
    BY <1>1 DEF Init
  <2>2. walk \in [owed : SUBSET Ids, calm : BOOLEAN]
    BY DEF Init
  <2>3. written \in 0..MaxWrites[list] /\ cleared \in 0..MaxClears[list] /\ page \in 1..(MaxWrites[list] + 1)
    BY <1>2 DEF Init
  <2>4. open \in BOOLEAN /\ filter \in Filters /\ selected \in Ids \cup {NoRow}
    BY DEF Init, Filters
  <2>5. Rows \subseteq 1..written /\ DOMAIN cache \subseteq Keys /\ DOMAIN fetches \subseteq Keys
    BY <1>1
  <2>6. \A k \in DOMAIN cache : cache[k] \in Answers /\ Cardinality(cache[k].rows) <= PageSize
    BY <1>1
  <2> QED BY <1>2, <2>1, <2>2, <2>3, <2>4, <2>5, <2>6 DEF TypeOK
<1>4. Ordered /\ AnswersOK /\ SelectionOK
  BY <1>1 DEF Init, Ordered, AnswersOK, SelectionOK
<1>5. WalkInv
  BY <1>1 DEF Init, WalkInv
<1> QED BY <1>3, <1>4, <1>5 DEF ConsoleInv, ScreenInv

LEMMA KeyParts ==
  ASSUME NEW k \in Keys PROVE k[1] \in Filters /\ k[2] \in Nat /\ k[2] > 0 /\ k = <<k[1], k[2]>>
BY DEF Keys

LEMMA KeysThere ==
  ASSUME TypeOK
  PROVE  Key \in Keys /\ First \in Keys /\ \A f \in Filters : <<f, 1>> \in Keys
<1>1. All \in Filters /\ 1 \in 1..(MaxWrites[list] + 1)
  BY Limits DEF Filters
<1> QED BY <1>1 DEF TypeOK, Key, First, Keys

\* While its table stands, a list has the same rows in the same places.
LEMMA TableStands ==
  ASSUME UNCHANGED table
  PROVE  /\ UNCHANGED <<list, above, written, cleared, Rows, Ids, Keys, Answers>>
         /\ \A f : Matching(f)' = Matching(f)
         /\ \A r, f : Tied(r, f)' = Tied(r, f)
         /\ \A r, f : Rank(r, f)' = Rank(r, f)
         /\ \A r, f, p : Placed(r, f, p)' = Placed(r, f, p)
         /\ \A f, n : Beginnings(f, n)' = Beginnings(f, n)
         /\ \A k : Page(k)' = Page(k)
BY DEF table, Rows, Ids, Keys, Answers, Matching, Tied, Rank, Placed, SkipOf, Beginnings, Page

\* A request joins those in flight.
LEMMA Asked ==
  ASSUME TypeOK, AnswersOK, NEW k \in Keys, fetches' = Asking(k)
  PROVE  /\ DOMAIN fetches' = DOMAIN fetches \cup {k} /\ DOMAIN fetches' \subseteq Keys
         /\ \A x \in DOMAIN fetches' :
              Reading(fetches'[x]) /\ fetches'[x] = IF x \in DOMAIN fetches THEN fetches[x] ELSE Nothing
<1>1. DOMAIN fetches \subseteq Keys
  BY DEF TypeOK
<1>2. Reading(Nothing)
  BY DEF Nothing, Reading
<1> QED BY <1>1, <1>2 DEF Asking, With, AnswersOK

\* The table of answers: one more, the others as they were.
LEMMA Kept ==
  ASSUME TypeOK, NEW k \in Keys, NEW a \in Answers, Cardinality(a.rows) <= PageSize,
         cache' = With(cache, k, a)
  PROVE  /\ DOMAIN cache' = DOMAIN cache \cup {k} /\ DOMAIN cache' \subseteq Keys
         /\ \A x \in DOMAIN cache' : cache'[x] = IF x = k THEN a ELSE cache[x]
         /\ \A x \in DOMAIN cache' :
              cache'[x] \in Answers /\ Cardinality(cache'[x].rows) <= PageSize
BY DEF TypeOK, With

LEMMA CachedParts ==
  ASSUME TypeOK, NEW k
  PROVE  Cached(cache, k) \in Answers /\ (k \in DOMAIN cache => Cached(cache, k) = cache[k])
<1>1. [rows |-> {}, top |-> NoRow, total |-> 0] \in Answers
  BY Limits DEF Answers
<1> QED BY <1>1 DEF TypeOK, Cached

\* A page that is drawn from a cache in order has moved its selection.
LEMMA Drawn ==
  ASSUME NEW f, NEW p, NEW sel \in Ids \cup {NoRow}, NEW c, Draw(f, p, sel, c),
         Cached(c, <<f, p>>).rows # {} => Cached(c, <<f, p>>).top \in Cached(c, <<f, p>>).rows,
         Cached(c, <<f, p>>).top \in Ids \cup {NoRow}, list' = list
  PROVE  /\ filter' = f /\ page' = p /\ cache' = c
         /\ selected' \in Ids \cup {NoRow}
         /\ SelectionOK'
<1>1. filter' = f /\ page' = p /\ cache' = c
  BY DEF Draw
<1>2. Shown' = Cached(c, <<f, p>>)
  BY <1>1 DEF Shown, Key
<1> DEFINE s == Cached(c, <<f, p>>)
<1>3. selected' = IF list \in {"events", "audit"} THEN Settled(s, sel) ELSE sel
  BY DEF Draw, Effect
<1> HIDE DEF s
<1>4. Settled(s, sel) \in Ids \cup {NoRow}
  BY DEF Settled, s
<1>5. SelectionOK'
  BY <1>2, <1>3 DEF SelectionOK, Settled, s
<1> QED BY <1>1, <1>3, <1>4, <1>5
-----------------------------------------------------------------------------
(* Steps that leave the table as it is.                                       *)

LEMMA OrderStands ==
  ASSUME Ordered, UNCHANGED table PROVE Ordered'
BY TableStands DEF Ordered

\* The part of the types the pipeline and the resets write.
LEMMA TableTypes ==
  ASSUME TypeOK, UNCHANGED table
  PROVE  /\ (list \in Lists)' /\ (above \in [Rows -> SUBSET Rows])' /\ (Rows \subseteq 1..written)'
         /\ (written \in 0..MaxWrites[list])' /\ (cleared \in 0..MaxClears[list])'
BY TableStands DEF TypeOK

LEMMA ReadingStands ==
  ASSUME UNCHANGED table, NEW a, Reading(a) PROVE Reading(a)'
BY TableStands DEF Reading

LEMMA CurrentStands ==
  ASSUME UNCHANGED table, NEW k, fetches'[k] = fetches[k], Current(k) PROVE Current(k)'
BY TableStands DEF Current

LEMMA SkipParts ==
  ASSUME NEW p \in Nat, NEW q \in Nat, p <= q, PageSize \in Nat, PageSize > 0
  PROVE  /\ SkipOf(p) \in Int /\ SkipOf(q) \in Int /\ SkipOf(p) <= SkipOf(q)
         /\ SkipOf(p + 1) = SkipOf(p) + PageSize /\ SkipOf(p + 1) = p * PageSize
         /\ p <= p * PageSize /\ SkipOf(1) = 0
<1>1. SkipOf(p + 1) = p * PageSize /\ SkipOf(1) = 0
  BY DEF SkipOf
<1>2. (p - 1) * PageSize + PageSize = p * PageSize
  OBVIOUS
<1>3. PICK d \in Nat : q = p + d
  <2>1. q - p \in Nat /\ q = p + (q - p)
    OBVIOUS
  <2> QED BY <2>1
<1>4. d * PageSize \in Nat /\ (q - 1) * PageSize = (p - 1) * PageSize + d * PageSize
  BY <1>3
<1>5. PICK e \in Nat : PageSize = e + 1
  <2>1. PageSize - 1 \in Nat /\ PageSize = (PageSize - 1) + 1
    OBVIOUS
  <2> QED BY <2>1
<1>6. p * PageSize = p * e + p /\ p * e \in Nat
  BY <1>5
<1> QED BY <1>1, <1>2, <1>4, <1>6 DEF SkipOf

\* Rows of a walk that starts lie behind the beginning of the list.
LEMMA AllBehind ==
  ASSUME TypeOK, Ordered, NEW f, NEW r \in Matching(f)
  PROVE  Placed(r, f, 1)
<1>1. SkipOf(1) = 0
  BY Limits DEF SkipOf
<1> QED BY <1>1, RankBounded DEF Placed

\* A page is drawn from the cache and asked for: Mount, NextPage, PreviousPage
\* and SubmitFilter.
LEMMA Moved ==
  ASSUME ConsoleInv, NEW f \in Filters, NEW p \in 1..(MaxWrites[list] + 1),
         NEW sel \in Ids \cup {NoRow},
         Draw(f, p, sel, cache), fetches' = Asking(<<f, p>>), UNCHANGED table, open' \in BOOLEAN,
         walk' \in [owed : SUBSET Ids, calm : BOOLEAN],
         walk'.calm => \A x \in DOMAIN fetches : Current(x),
         walk'.calm => \A r \in walk'.owed : Placed(r, f, p)
  PROVE  ConsoleInv'
<1> USE DEF ConsoleInv, ScreenInv
<1>1. <<f, p>> \in Keys
  BY DEF Keys
<1>2. /\ DOMAIN fetches' = DOMAIN fetches \cup {<<f, p>>} /\ DOMAIN fetches' \subseteq Keys
      /\ \A x \in DOMAIN fetches' :
           Reading(fetches'[x]) /\ fetches'[x] = IF x \in DOMAIN fetches THEN fetches[x] ELSE Nothing
  BY <1>1, Asked
<1>3. Cached(cache, <<f, p>>) \in Answers
      /\ (<<f, p>> \in DOMAIN cache => Cached(cache, <<f, p>>) = cache[<<f, p>>])
  BY CachedParts
<1>4. Cached(cache, <<f, p>>).top \in Ids \cup {NoRow}
  BY <1>3 DEF Answers
<1>5. Cached(cache, <<f, p>>).rows # {} => Cached(cache, <<f, p>>).top \in Cached(cache, <<f, p>>).rows
  BY <1>3 DEF Cached, AnswersOK
<1>6. list' = list
  BY TableStands
<1>7. filter' = f /\ page' = p /\ cache' = cache /\ selected' \in Ids \cup {NoRow} /\ SelectionOK'
  BY <1>4, <1>5, <1>6, Drawn
<1>8. TypeOK'
  <2>1. (DOMAIN cache \subseteq Keys)' /\ (DOMAIN fetches \subseteq Keys)'
    BY <1>2, <1>7, TableStands DEF TypeOK
  <2>2. (\A k \in DOMAIN cache : cache[k] \in Answers /\ Cardinality(cache[k].rows) <= PageSize)'
    BY <1>7, TableStands DEF TypeOK
  <2>3. (filter \in Filters)' /\ (page \in 1..(MaxWrites[list] + 1))'
        /\ (selected \in Ids \cup {NoRow})' /\ (walk \in [owed : SUBSET Ids, calm : BOOLEAN])'
    BY <1>7, TableStands DEF Filters
  <2> QED BY <2>1, <2>2, <2>3, TableTypes DEF TypeOK
<1>9. Ordered'
  BY OrderStands
<1>10. AnswersOK'
  BY <1>2, <1>7, ReadingStands DEF AnswersOK
<1>11. WalkInv'
  <2>1. Key' = <<f, p>> /\ ~Answered'
    BY <1>2, <1>7 DEF Key, Answered
  <2>2. walk'.calm => \A x \in DOMAIN fetches' : Current(x)'
    <3> SUFFICES ASSUME walk'.calm, NEW x \in DOMAIN fetches' PROVE Current(x)'
      OBVIOUS
    <3>1. CASE x \in DOMAIN fetches
      BY <1>2, <3>1, CurrentStands
    <3>2. CASE x \notin DOMAIN fetches
      BY <1>2, <3>2 DEF Current, Nothing
    <3> QED BY <3>1, <3>2
  <2>3. walk'.calm => Behind(page)'
    BY <1>7, TableStands DEF Behind
  <2> QED BY <2>1, <2>2, <2>3 DEF WalkInv
<1> QED BY <1>7, <1>8, <1>9, <1>10, <1>11
LEMMA OwedParts ==
  ASSUME ConsoleInv, NEW f \in Filters
  PROVE  [owed |-> Matching(f) \ Cached(cache, <<f, 1>>).rows, calm |-> DOMAIN fetches = {}]
           \in [owed : SUBSET Ids, calm : BOOLEAN]
BY MatchingFinite, RowsFinite DEF ConsoleInv, ScreenInv

LEMMA FirstPage ==
  ASSUME ConsoleInv, NEW f \in Filters, NEW sel \in Ids \cup {NoRow},
         Draw(f, 1, sel, cache), fetches' = Asking(<<f, 1>>), UNCHANGED table, open' \in BOOLEAN,
         WalkFrom(f)
  PROVE  ConsoleInv'
<1>1. TypeOK /\ Ordered
  BY DEF ConsoleInv, ScreenInv
<1>2. 1 \in 1..(MaxWrites[list] + 1)
  BY <1>1, Limits
<1>3. walk' = [owed |-> Matching(f) \ Cached(cache, <<f, 1>>).rows, calm |-> DOMAIN fetches = {}]
  BY DEF WalkFrom
<1>4. walk' \in [owed : SUBSET Ids, calm : BOOLEAN]
  BY <1>3, OwedParts
<1>5. walk'.calm => \A x \in DOMAIN fetches : Current(x)
  BY <1>3
<1>6. \A r \in walk'.owed : Placed(r, f, 1)
  BY <1>1, <1>3, AllBehind
<1> QED BY <1>2, <1>4, <1>5, <1>6, Moved

LEMMA MountKeeps == ASSUME ConsoleInv, Mount PROVE ConsoleInv'
<1>1. All \in Filters /\ NoRow \in Ids \cup {NoRow}
  BY DEF Filters
<1>2. /\ Draw(All, 1, NoRow, cache) /\ fetches' = Asking(<<All, 1>>) /\ UNCHANGED table
      /\ open' \in BOOLEAN /\ WalkFrom(All)
  BY DEF Mount, First
<1> QED BY <1>1, <1>2, FirstPage

LEMMA SubmitFilterKeeps == ASSUME ConsoleInv, NEW f \in Filters, SubmitFilter(f) PROVE ConsoleInv'
<1>1. selected \in Ids \cup {NoRow} /\ open \in BOOLEAN
  BY DEF ConsoleInv, ScreenInv, TypeOK
<1>2. /\ Draw(f, 1, selected, cache) /\ fetches' = Asking(<<f, 1>>) /\ UNCHANGED table
      /\ open' = open /\ WalkFrom(f)
  BY DEF SubmitFilter
<1> QED BY <1>1, <1>2, FirstPage

\* A page of answers with rows on it has a count within the bound.
LEMMA Totals ==
  ASSUME TypeOK, Shown.rows # {}
  PROVE  Key \in DOMAIN cache /\ Shown = cache[Key] /\ cache[Key].total \in 0..MaxWrites[list]
<1>1. Key \in DOMAIN cache
  BY DEF Shown, Cached
<1> QED BY <1>1 DEF Shown, Cached, TypeOK, Answers

LEMMA TurnKeeps ==
  ASSUME ConsoleInv, open, NEW p \in 1..(MaxWrites[list] + 1), Turn(p),
         walk.calm /\ Key \notin DOMAIN fetches => Behind(p)
  PROVE  ConsoleInv'
<1>1. TypeOK /\ WalkInv
  BY DEF ConsoleInv, ScreenInv
<1>2. filter \in Filters /\ selected \in Ids \cup {NoRow} /\ open \in BOOLEAN
      /\ walk \in [owed : SUBSET Ids, calm : BOOLEAN]
  BY <1>1 DEF TypeOK
<1>3. /\ Draw(filter, p, selected, cache) /\ fetches' = Asking(<<filter, p>>) /\ UNCHANGED table
      /\ open' = open
      /\ walk' = [owed |-> walk.owed \ Cached(cache, <<filter, p>>).rows,
                  calm |-> walk.calm /\ Key \notin DOMAIN fetches]
  BY DEF Turn
<1>4. walk' \in [owed : SUBSET Ids, calm : BOOLEAN]
  BY <1>2, <1>3
<1>5. walk'.calm => \A x \in DOMAIN fetches : Current(x)
  BY <1>1, <1>3 DEF WalkInv
<1>6. walk'.calm => \A r \in walk'.owed : Placed(r, filter, p)
  BY <1>3 DEF Behind
<1> QED BY <1>2, <1>3, <1>4, <1>5, <1>6, Moved

LEMMA NextPageKeeps == ASSUME ConsoleInv, NextPage PROVE ConsoleInv'
<1>1. TypeOK /\ WalkInv /\ open /\ Turn(page + 1) /\ page * PageSize < cache[Key].total
      /\ Shown.rows # {}
  BY DEF NextPage, ConsoleInv, ScreenInv
<1>2. Key \in DOMAIN cache /\ cache[Key].total \in 0..MaxWrites[list]
  BY <1>1, Totals
<1>3. page \in Nat /\ page > 0 /\ PageSize \in Nat /\ PageSize > 0 /\ MaxWrites[list] \in Nat
  BY <1>1, Limits
<1>4. page <= page * PageSize /\ page * PageSize \in Nat
  BY <1>3, SkipParts
<1>5. page + 1 \in 1..(MaxWrites[list] + 1)
  BY <1>1, <1>2, <1>3, <1>4
<1>6. walk.calm /\ Key \notin DOMAIN fetches => Behind(page + 1)
  BY <1>1, <1>2 DEF WalkInv, Answered
<1> QED BY <1>1, <1>5, <1>6, TurnKeeps

LEMMA PreviousPageKeeps == ASSUME ConsoleInv, PreviousPage PROVE ConsoleInv'
<1>1. TypeOK /\ Ordered /\ WalkInv /\ open /\ Turn(page - 1) /\ page > 1
  BY DEF PreviousPage, ConsoleInv, ScreenInv
<1>2. page \in 1..(MaxWrites[list] + 1) /\ PageSize \in Nat /\ PageSize > 0 /\ MaxWrites[list] \in Nat
  BY <1>1, Limits DEF TypeOK
<1>3. page - 1 \in 1..(MaxWrites[list] + 1) /\ page - 1 \in Nat /\ page - 1 <= page /\ page \in Nat
  BY <1>1, <1>2
<1>4. SkipOf(page - 1) <= SkipOf(page) /\ SkipOf(page - 1) \in Int /\ SkipOf(page) \in Int
  BY <1>2, <1>3, SkipParts
<1>5. walk.calm => Behind(page - 1)
  <2> SUFFICES ASSUME walk.calm, NEW r \in walk.owed
               PROVE  Placed(r, filter, page - 1)
    BY DEF Behind
  <2>1. r \in Matching(filter) /\ (Tied(r, filter) = {} => Rank(r, filter) > SkipOf(page))
    BY <1>1 DEF WalkInv, Behind, Placed
  <2>2. Rank(r, filter) \in Nat
    BY <1>1, <2>1, RankBounded
  <2> QED BY <1>4, <2>1, <2>2 DEF Placed
<1> QED BY <1>1, <1>3, <1>5, TurnKeeps
-----------------------------------------------------------------------------
(* Requests made, read, answered and failed.                                  *)

\* What the walk says of the screen depends on the screen and the answers only.
LEMMA BehindStands ==
  ASSUME NEW p, UNCHANGED <<table, filter>>, walk'.owed \subseteq walk.owed, Behind(p)
  PROVE  Behind(p)'
BY TableStands DEF Behind

LEMMA TypesStand ==
  ASSUME TypeOK, UNCHANGED <<table, screen, cache>>, DOMAIN fetches' \subseteq Keys,
         walk' \in [owed : SUBSET Ids, calm : BOOLEAN]
  PROVE  TypeOK'
<1>1. (\A k \in DOMAIN cache : cache[k] \in Answers /\ Cardinality(cache[k].rows) <= PageSize)'
  BY TableStands DEF TypeOK
<1>2. UNCHANGED <<open, filter, page, selected, Keys, Ids, list>>
  BY TableStands DEF screen
<1>3. (filter \in Filters)' /\ (page \in 1..(MaxWrites[list] + 1))'
      /\ (selected \in Ids \cup {NoRow})' /\ (open \in BOOLEAN)'
      /\ (DOMAIN cache \subseteq Keys)' /\ (DOMAIN fetches \subseteq Keys)'
      /\ (walk \in [owed : SUBSET Ids, calm : BOOLEAN])'
  BY <1>2 DEF TypeOK, Filters
<1> QED BY <1>1, <1>3, TableTypes DEF TypeOK

LEMMA SelectionStands ==
  ASSUME SelectionOK, UNCHANGED <<table, screen, cache>> PROVE SelectionOK'
BY DEF SelectionOK, Shown, Key, screen, table

\* Steps that touch nothing but the requests in flight, and calm the walk no more
\* than it was.
LEMMA FlightStep ==
  ASSUME ConsoleInv, UNCHANGED <<table, screen, cache>>,
         DOMAIN fetches' \subseteq Keys, \A k \in DOMAIN fetches' : Reading(fetches'[k]),
         walk' \in [owed : SUBSET Ids, calm : BOOLEAN], walk'.owed = walk.owed,
         walk'.calm => walk.calm /\ \A k \in DOMAIN fetches' : Current(k)',
         walk'.calm => (Key \in DOMAIN fetches => Key \in DOMAIN fetches')
  PROVE  ConsoleInv'
<1>1. TypeOK'
  BY TypesStand DEF ConsoleInv, ScreenInv
<1>2. Ordered' /\ SelectionOK'
  BY OrderStands, SelectionStands DEF ConsoleInv, ScreenInv
<1>3. AnswersOK'
  BY ReadingStands DEF ConsoleInv, ScreenInv, AnswersOK
<1>4. WalkInv'
  <2>1. Key' = Key /\ UNCHANGED <<open, filter, page, cache>>
    BY DEF Key, screen
  <2>2. walk'.calm => (Answered' => Answered)
    BY <2>1 DEF Answered
  <2>3. \A p : Behind(p) => Behind(p)'
    BY <2>1, BehindStands
  <2>4. walk'.calm /\ open' => Behind(page)'
    BY <2>1, <2>3, BehindStands DEF ConsoleInv, WalkInv
  <2>5. walk'.calm /\ open' /\ Answered' => Behind(page + 1)'
    <3> SUFFICES ASSUME walk'.calm, open', Answered' PROVE Behind(page + 1)'
      OBVIOUS
    <3>1. Behind(page + 1)
      BY <2>1, <2>2 DEF ConsoleInv, WalkInv
    <3> QED BY <2>1, <3>1, TableStands DEF Behind
  <2>6. Owing' => Owing
    BY <2>1, TableStands DEF Owing
  <2>7. walk'.calm /\ open' /\ Answered' => (Owing' => cache'[Key'].total > page' * PageSize)
    BY <2>1, <2>2, <2>6 DEF ConsoleInv, WalkInv
  <2> QED BY <2>1, <2>4, <2>5, <2>7 DEF WalkInv
<1> QED BY <1>1, <1>2, <1>3, <1>4 DEF ConsoleInv, ScreenInv

LEMMA RequestKeeps ==
  ASSUME ConsoleInv, NEW k \in Keys, fetches' = Asking(k),
         UNCHANGED <<table, screen, cache, walk>>
  PROVE  ConsoleInv'
<1>1. TypeOK /\ AnswersOK /\ WalkInv
  BY DEF ConsoleInv, ScreenInv
<1>2. /\ DOMAIN fetches' = DOMAIN fetches \cup {k} /\ DOMAIN fetches' \subseteq Keys
      /\ \A x \in DOMAIN fetches' :
           Reading(fetches'[x]) /\ fetches'[x] = IF x \in DOMAIN fetches THEN fetches[x] ELSE Nothing
  BY <1>1, Asked
<1>3. walk' \in [owed : SUBSET Ids, calm : BOOLEAN]
  BY <1>1 DEF TypeOK
<1>4. walk'.calm => \A x \in DOMAIN fetches' : Current(x)'
  <2> SUFFICES ASSUME walk.calm, NEW x \in DOMAIN fetches' PROVE Current(x)'
    OBVIOUS
  <2>1. CASE x \in DOMAIN fetches
    BY <1>1, <1>2, <2>1, CurrentStands DEF WalkInv
  <2>2. CASE x \notin DOMAIN fetches
    BY <1>2, <2>2 DEF Current, Nothing
  <2> QED BY <2>1, <2>2
<1> QED BY <1>2, <1>3, <1>4, FlightStep

LEMMA FocusKeeps == ASSUME ConsoleInv, Focus PROVE ConsoleInv'
<1>1. Key \in Keys
  BY KeysThere DEF ConsoleInv, ScreenInv
<1> QED BY <1>1, RequestKeeps DEF Focus

LEMMA IntervalKeeps == ASSUME ConsoleInv, Interval PROVE ConsoleInv'
<1>1. First \in Keys
  BY KeysThere DEF ConsoleInv, ScreenInv
<1> QED BY <1>1, RequestKeeps DEF Interval

LEMMA ReadRowsKeeps ==
  ASSUME ConsoleInv, NEW k \in DOMAIN fetches, ReadRows(k) PROVE ConsoleInv'
<1>1. TypeOK /\ Ordered /\ AnswersOK /\ WalkInv /\ k \in Keys
  BY DEF ConsoleInv, ScreenInv, TypeOK
<1>0. PICK s \in Page(k) : \E top \in Heads(s) :
        /\ UNCHANGED <<table, screen, cache, walk>>
        /\ fetches' = [fetches EXCEPT ![k].rows = s, ![k].top = top]
  BY DEF ReadRows
<1>2. PICK top \in Heads(s) :
        /\ UNCHANGED <<table, screen, cache, walk>>
        /\ fetches' = [fetches EXCEPT ![k].rows = s, ![k].top = top]
  BY <1>0
<1>3. s \in SUBSET Ids /\ Cardinality(s) <= PageSize
  BY <1>1, PageBounded
<1>4. s # {} => top \in s
  BY DEF Heads
<1>5. top \in Ids \cup {NoRow}
  BY <1>3 DEF Heads
<1>6. Reading(fetches[k])
  BY <1>1 DEF AnswersOK
<1>7. /\ fetches'[k] = [rows |-> s, top |-> top, total |-> fetches[k].total]
      /\ DOMAIN fetches' = DOMAIN fetches
      /\ \A x \in DOMAIN fetches : x # k => fetches'[x] = fetches[x]
  BY <1>2, <1>6 DEF Reading
<1>8. Reading(fetches'[k])
  BY <1>3, <1>4, <1>5, <1>6, <1>7 DEF Reading
<1>9. \A x \in DOMAIN fetches' : Reading(fetches'[x])
  BY <1>1, <1>7, <1>8 DEF AnswersOK
<1>10. walk'.calm => \A x \in DOMAIN fetches' : Current(x)'
  <2> SUFFICES ASSUME walk.calm, NEW x \in DOMAIN fetches PROVE Current(x)'
    BY <1>2, <1>7
  <2>1. CASE x # k
    BY <1>1, <1>2, <1>7, <2>1, CurrentStands DEF WalkInv
  <2>2. CASE x = k
    <3>1. fetches'[k].rows \in Page(k) /\ fetches'[k].total = fetches[k].total
      BY <1>7
    <3>2. Current(k)
      BY <1>1 DEF WalkInv
    <3>3. Page(k)' = Page(k) /\ Matching(k[1])' = Matching(k[1])
      BY <1>2, TableStands
    <3> QED BY <2>2, <3>1, <3>2, <3>3 DEF Current
  <2> QED BY <2>1, <2>2
<1>11. walk' \in [owed : SUBSET Ids, calm : BOOLEAN] /\ DOMAIN fetches' \subseteq Keys
  BY <1>1, <1>2, <1>7 DEF TypeOK
<1> QED BY <1>2, <1>7, <1>9, <1>10, <1>11, FlightStep

LEMMA ReadCountKeeps ==
  ASSUME ConsoleInv, NEW k \in DOMAIN fetches, ReadCount(k) PROVE ConsoleInv'
<1>1. TypeOK /\ AnswersOK /\ WalkInv
  BY DEF ConsoleInv, ScreenInv
<1>2. /\ UNCHANGED <<table, screen, cache, walk>>
      /\ fetches' = [fetches EXCEPT ![k].total = Cardinality(Matching(k[1]))]
  BY DEF ReadCount
<1>3. Cardinality(Matching(k[1])) \in 0..MaxWrites[list]
  BY <1>1, MatchingFinite
<1>6. Reading(fetches[k])
  BY <1>1 DEF AnswersOK
<1>7. /\ fetches'[k] = [rows |-> fetches[k].rows, top |-> fetches[k].top,
                        total |-> Cardinality(Matching(k[1]))]
      /\ DOMAIN fetches' = DOMAIN fetches
      /\ \A x \in DOMAIN fetches : x # k => fetches'[x] = fetches[x]
  BY <1>2, <1>6 DEF Reading
<1>8. Reading(fetches'[k])
  BY <1>3, <1>6, <1>7 DEF Reading
<1>9. \A x \in DOMAIN fetches' : Reading(fetches'[x])
  BY <1>1, <1>7, <1>8 DEF AnswersOK
<1>10. walk'.calm => \A x \in DOMAIN fetches' : Current(x)'
  <2> SUFFICES ASSUME walk.calm, NEW x \in DOMAIN fetches PROVE Current(x)'
    BY <1>2, <1>7
  <2>1. CASE x # k
    BY <1>1, <1>2, <1>7, <2>1, CurrentStands DEF WalkInv
  <2>2. CASE x = k
    <3>1. fetches'[k].rows = fetches[k].rows /\ fetches'[k].total = Cardinality(Matching(k[1]))
      BY <1>7
    <3>2. Current(k)
      BY <1>1 DEF WalkInv
    <3>3. Page(k)' = Page(k) /\ Matching(k[1])' = Matching(k[1])
      BY <1>2, TableStands
    <3> QED BY <2>2, <3>1, <3>2, <3>3 DEF Current
  <2> QED BY <2>1, <2>2
<1>11. walk' \in [owed : SUBSET Ids, calm : BOOLEAN] /\ DOMAIN fetches' \subseteq Keys
  BY <1>1, <1>2, <1>7 DEF TypeOK
<1> QED BY <1>2, <1>7, <1>9, <1>10, <1>11, FlightStep

LEMMA FailKeeps ==
  ASSUME ConsoleInv, NEW k \in DOMAIN fetches, Fail(k) PROVE ConsoleInv'
<1>1. TypeOK /\ AnswersOK /\ WalkInv
  BY DEF ConsoleInv, ScreenInv
<1>2. UNCHANGED <<table, screen, cache>> /\ fetches' = Without(fetches, k)
      /\ walk' = [walk EXCEPT !.calm = @ /\ k # Key]
  BY DEF Fail
<1>3. DOMAIN fetches' = DOMAIN fetches \ {k}
      /\ \A x \in DOMAIN fetches' : fetches'[x] = fetches[x]
  BY <1>2 DEF Without
<1>4. walk' \in [owed : SUBSET Ids, calm : BOOLEAN] /\ walk'.owed = walk.owed
      /\ (walk'.calm => walk.calm /\ k # Key)
  BY <1>1, <1>2 DEF TypeOK
<1>5. DOMAIN fetches' \subseteq Keys /\ \A x \in DOMAIN fetches' : Reading(fetches'[x])
  BY <1>1, <1>3 DEF TypeOK, AnswersOK
<1>6. walk'.calm => \A x \in DOMAIN fetches' : Current(x)'
  BY <1>1, <1>2, <1>3, <1>4, CurrentStands DEF WalkInv
<1>7. walk'.calm => (Key \in DOMAIN fetches => Key \in DOMAIN fetches')
  BY <1>3, <1>4
<1> QED BY <1>2, <1>4, <1>5, <1>6, <1>7, FlightStep
LEMMA AnswerKeeps ==
  ASSUME ConsoleInv, NEW k \in DOMAIN fetches, Answer(k) PROVE ConsoleInv'
<1> DEFINE a == fetches[k]
<1>1. TypeOK /\ Ordered /\ AnswersOK /\ SelectionOK /\ WalkInv /\ k \in Keys
  BY DEF ConsoleInv, ScreenInv, TypeOK
<1>2. /\ a.rows # Unread /\ a.total # Unread /\ Reading(a)
      /\ fetches' = Without(fetches, k) /\ UNCHANGED <<table, open>> /\ cache' = With(cache, k, a)
  BY <1>1 DEF Answer, Draw, AnswersOK
<1>3. DOMAIN fetches' = DOMAIN fetches \ {k} /\ DOMAIN fetches' \subseteq Keys
      /\ \A x \in DOMAIN fetches' : fetches'[x] = fetches[x]
  BY <1>1, <1>2 DEF Without, TypeOK
<1>4. a \in Answers /\ Cardinality(a.rows) <= PageSize /\ (a.rows # {} => a.top \in a.rows)
  <2>1. a \in [rows : (SUBSET Ids) \cup {Unread}, top : Ids \cup {NoRow},
               total : (0..MaxWrites[list]) \cup {Unread}]
    BY <1>2 DEF Reading
  <2>2. a = [rows |-> a.rows, top |-> a.top, total |-> a.total] /\ a.rows \in SUBSET Ids
        /\ a.top \in Ids \cup {NoRow} /\ a.total \in 0..MaxWrites[list]
    BY <1>2, <2>1
  <2>3. a \in Answers
    BY <2>2 DEF Answers
  <2> QED BY <1>2, <2>3 DEF Reading
<1>5. /\ DOMAIN cache' = DOMAIN cache \cup {k} /\ DOMAIN cache' \subseteq Keys
      /\ \A x \in DOMAIN cache' : cache'[x] = IF x = k THEN a ELSE cache[x]
      /\ \A x \in DOMAIN cache' : cache'[x] \in Answers /\ Cardinality(cache'[x].rows) <= PageSize
  BY <1>1, <1>2, <1>4, Kept
<1> HIDE DEF a
<1>6. AnswersOK'
  <2>1. \A x \in DOMAIN fetches' : Reading(fetches'[x])
    BY <1>1, <1>3 DEF AnswersOK
  <2>2. \A x \in DOMAIN cache' : cache'[x].rows # {} => cache'[x].top \in cache'[x].rows
    BY <1>1, <1>4, <1>5 DEF AnswersOK
  <2> QED BY <1>2, <2>1, <2>2, ReadingStands DEF AnswersOK
<1>7. selected \in Ids \cup {NoRow} /\ walk \in [owed : SUBSET Ids, calm : BOOLEAN]
  BY <1>1 DEF TypeOK
\* The answer arrives at the page on the screen, or at another.
<1>8. /\ UNCHANGED <<filter, page>> /\ selected' \in Ids \cup {NoRow} /\ SelectionOK'
      /\ walk' \in [owed : SUBSET Ids, calm : BOOLEAN] /\ walk'.calm = walk.calm
      /\ walk'.owed = walk.owed \ (IF k = Key /\ open THEN a.rows ELSE {})
  <2>1. CASE k = Key /\ open
    <3>1. Draw(filter, page, selected, With(cache, k, a)) /\ walk' = [walk EXCEPT !.owed = @ \ a.rows]
      BY <2>1 DEF Answer, a
    <3>2. Cached(With(cache, k, a), <<filter, page>>) = a
      BY <1>2, <1>5, <2>1 DEF Cached, Key
    <3>3. a.top \in Ids \cup {NoRow} /\ list' = list
      BY <1>2, <1>4, TableStands DEF Answers
    <3>4. filter' = filter /\ page' = page /\ selected' \in Ids \cup {NoRow} /\ SelectionOK'
      BY <1>4, <1>7, <3>1, <3>2, <3>3, Drawn
    <3>5. walk' \in [owed : SUBSET Ids, calm : BOOLEAN] /\ walk'.calm = walk.calm
          /\ walk'.owed = walk.owed \ a.rows
      BY <1>7, <3>1
    <3> QED BY <2>1, <3>4, <3>5
  <2>2. CASE ~(k = Key /\ open)
    <3>1. UNCHANGED <<filter, page, selected, walk>>
      BY <2>2 DEF Answer
    <3>2. SelectionOK'
      <4>1. UNCHANGED list
        BY <1>2, TableStands
      <4>2. open => Shown' = Shown
        BY <1>5, <2>2, <3>1 DEF Shown, Key, Cached
      <4> QED BY <1>1, <1>2, <3>1, <4>1, <4>2 DEF SelectionOK
    <3> QED BY <1>7, <2>2, <3>1, <3>2
  <2> QED BY <2>1, <2>2
<1>9. TypeOK'
  <2>1. (DOMAIN cache \subseteq Keys)' /\ (DOMAIN fetches \subseteq Keys)'
        /\ (\A x \in DOMAIN cache : cache[x] \in Answers /\ Cardinality(cache[x].rows) <= PageSize)'
    BY <1>2, <1>3, <1>5, TableStands
  <2>2. (filter \in Filters)' /\ (page \in 1..(MaxWrites[list] + 1))'
        /\ (selected \in Ids \cup {NoRow})' /\ (walk \in [owed : SUBSET Ids, calm : BOOLEAN])'
        /\ (open \in BOOLEAN)'
    BY <1>1, <1>2, <1>8, TableStands DEF TypeOK, Filters
  <2> QED BY <1>1, <1>2, <2>1, <2>2, TableTypes DEF TypeOK
<1>10. Ordered'
  BY <1>1, <1>2, OrderStands
<1>11. WalkInv'
  <2>1. walk'.calm => \A x \in DOMAIN fetches' : Current(x)'
    BY <1>1, <1>2, <1>3, <1>8, CurrentStands DEF WalkInv
  <2> SUFFICES ASSUME walk'.calm, open'
               PROVE  /\ Behind(page)'
                      /\ Answered' => Behind(page + 1)' /\
                           (Owing' => cache'[Key'].total > page' * PageSize)
    BY <2>1 DEF WalkInv
  <2>2. walk.calm /\ open /\ Behind(page) /\ Key' = Key /\ UNCHANGED <<filter, page>>
        /\ (Owing' => Owing)
    BY <1>1, <1>2, <1>8, TableStands DEF WalkInv, Key, Owing
  <2>3. Behind(page)'
    BY <1>2, <1>8, <2>2, TableStands DEF Behind
  <2>4. CASE k # Key
    <3>1. Answered' => Answered /\ cache'[Key] = cache[Key]
      BY <1>3, <1>5, <2>2, <2>4 DEF Answered
    <3>2. Answered' => Behind(page + 1)'
      BY <1>1, <1>2, <1>8, <2>2, <3>1, TableStands DEF WalkInv, Behind
    <3>3. Answered' => (Owing' => cache'[Key'].total > page' * PageSize)
      BY <1>1, <1>8, <2>2, <2>4, <3>1 DEF WalkInv
    <3> QED BY <2>3, <3>2, <3>3
  <2>5. CASE k = Key
    <3>1. a.rows \in Page(Key) /\ a.total = Cardinality(Matching(filter)) /\ cache'[Key'] = a
      <4>1. Current(Key)
        BY <1>1, <2>2, <2>5 DEF WalkInv
      <4>2. Key[1] = filter
        BY DEF Key
      <4> QED BY <1>2, <1>5, <2>2, <2>5, <4>1, <4>2 DEF Current, a
    <3>2. page \in Nat /\ page > 0 /\ page <= page /\ PageSize \in Nat /\ PageSize > 0
      BY <1>1, Limits
    <3>3. SkipOf(page) \in Int /\ SkipOf(page + 1) = SkipOf(page) + PageSize
          /\ SkipOf(page + 1) = page * PageSize
      BY <3>2, SkipParts
    <3>4. \A r \in walk'.owed :
            Placed(r, filter, page + 1) /\ (Tied(r, filter) = {} => a.total > page * PageSize)
      <4> SUFFICES ASSUME NEW r \in walk'.owed
                   PROVE  /\ r \in Matching(filter)
                          /\ Tied(r, filter) = {} =>
                               Rank(r, filter) > SkipOf(page + 1) /\ a.total > page * PageSize
        BY DEF Placed
      <4>1. r \in Matching(filter) /\ r \notin a.rows
            /\ (Tied(r, filter) = {} => Rank(r, filter) > SkipOf(page))
        BY <1>8, <2>2, <2>5 DEF Behind, Placed
      <4>2. Rank(r, filter) \in Nat /\ Rank(r, filter) <= Cardinality(Matching(filter))
        BY <1>1, <4>1, RankBounded
      <4>3. Cardinality(Matching(filter)) \in Nat
        BY <1>1, MatchingFinite, Limits
      <4>4. Key[1] = filter /\ Key[2] = page /\ Key \in Keys
        BY <1>1, <2>5 DEF Key
      <4>5. Tied(r, filter) = {} => Rank(r, filter) > SkipOf(page) + PageSize
        BY <1>1, <3>1, <4>1, <4>4, NotListed
      <4> QED BY <3>1, <3>2, <3>3, <4>1, <4>2, <4>3, <4>5
    <3>5. Behind(page + 1)'
      BY <1>2, <2>2, <3>4, TableStands DEF Behind
    <3>6. Owing' => cache'[Key'].total > page' * PageSize
      BY <1>2, <2>2, <3>1, <3>4, TableStands DEF Owing
    <3> QED BY <2>3, <3>5, <3>6
  <2> QED BY <2>4, <2>5
<1> QED BY <1>6, <1>8, <1>9, <1>10, <1>11 DEF ConsoleInv, ScreenInv
LEMMA LeaveKeeps == ASSUME ConsoleInv, Leave PROVE ConsoleInv'
<1>1. TypeOK /\ Ordered /\ AnswersOK /\ WalkInv
  BY DEF ConsoleInv, ScreenInv
<1>2. /\ open' = FALSE /\ filter' = All /\ page' = 1 /\ selected' = NoRow
      /\ UNCHANGED <<table, cache, fetches, walk>>
  BY DEF Leave
<1>3. TypeOK'
  <2>1. (filter \in Filters)' /\ (page \in 1..(MaxWrites[list] + 1))'
        /\ (selected \in Ids \cup {NoRow})' /\ (open \in BOOLEAN)'
    <3>1. All \in Filters /\ 1 \in 1..(MaxWrites[list] + 1)
      BY <1>1, Limits DEF Filters
    <3> QED BY <1>2, <3>1, TableStands DEF Filters
  <2>2. (DOMAIN cache \subseteq Keys)' /\ (DOMAIN fetches \subseteq Keys)'
        /\ (walk \in [owed : SUBSET Ids, calm : BOOLEAN])'
        /\ (\A x \in DOMAIN cache : cache[x] \in Answers /\ Cardinality(cache[x].rows) <= PageSize)'
    BY <1>1, <1>2, TableStands DEF TypeOK
  <2> QED BY <1>1, <1>2, <2>1, <2>2, TableTypes DEF TypeOK
<1>4. Ordered' /\ AnswersOK'
  BY <1>1, <1>2, OrderStands, ReadingStands DEF AnswersOK
<1>5. SelectionOK'
  BY <1>2 DEF SelectionOK
<1>6. WalkInv'
  BY <1>1, <1>2, CurrentStands DEF WalkInv
<1> QED BY <1>3, <1>4, <1>5, <1>6 DEF ConsoleInv, ScreenInv

LEMMA SelectKeeps == ASSUME ConsoleInv, NEW id \in Ids, Select(id) PROVE ConsoleInv'
<1>1. TypeOK /\ Ordered /\ AnswersOK /\ WalkInv
  BY DEF ConsoleInv, ScreenInv
<1>2. /\ open /\ id \in Shown.rows /\ selected' = id
      /\ UNCHANGED <<table, open, filter, page, cache, fetches, walk>>
  BY DEF Select
<1>3. TypeOK'
  <2>1. (filter \in Filters)' /\ (page \in 1..(MaxWrites[list] + 1))'
        /\ (selected \in Ids \cup {NoRow})' /\ (open \in BOOLEAN)'
    BY <1>1, <1>2, TableStands DEF TypeOK, Filters
  <2>2. (DOMAIN cache \subseteq Keys)' /\ (DOMAIN fetches \subseteq Keys)'
        /\ (walk \in [owed : SUBSET Ids, calm : BOOLEAN])'
        /\ (\A x \in DOMAIN cache : cache[x] \in Answers /\ Cardinality(cache[x].rows) <= PageSize)'
    BY <1>1, <1>2, TableStands DEF TypeOK
  <2> QED BY <1>1, <1>2, <2>1, <2>2, TableTypes DEF TypeOK
<1>4. Ordered' /\ AnswersOK'
  BY <1>1, <1>2, OrderStands, ReadingStands DEF AnswersOK
<1>5. SelectionOK'
  <2>1. Shown' = Shown
    BY <1>2 DEF Shown, Key
  <2> QED BY <1>2, <2>1 DEF SelectionOK
<1>6. WalkInv'
  <2>1. walk'.calm => \A x \in DOMAIN fetches' : Current(x)'
    BY <1>1, <1>2, CurrentStands DEF WalkInv
  <2>2. Key' = Key /\ Answered' = Answered
    BY <1>2 DEF Key, Answered
  <2>3. (Behind(page) => Behind(page)') /\ (Behind(page + 1) => Behind(page + 1)')
    BY <1>2, TableStands DEF Behind
  <2>4. Owing' = Owing
    BY <1>2, TableStands DEF Owing
  <2> QED BY <1>1, <1>2, <2>1, <2>2, <2>3, <2>4 DEF WalkInv
<1> QED BY <1>3, <1>4, <1>5, <1>6 DEF ConsoleInv, ScreenInv

-----------------------------------------------------------------------------
(* The pipeline writes, a reset empties the table.                            *)

\* A new row comes in somewhere: no row of the list moves up, and rows with the
\* same stamps keep them.
LEMMA RanksGrow ==
  ASSUME TypeOK, Ordered, Record
  PROVE  /\ Ordered'
         /\ (above \in [Rows -> SUBSET Rows])' /\ (Rows \subseteq 1..written)'
         /\ \A f : \A r \in Matching(f) :
           /\ r \in Matching(f)' /\ Rank(r, f)' \in Nat /\ Rank(r, f)' >= Rank(r, f)
           /\ Tied(r, f)' = {} => Tied(r, f) = {}
<1>1. PICK over \in Tops, tie \in BOOLEAN :
        above' = [r \in Rows \cup {written + 1} |->
                    IF r = written + 1 THEN over
                    ELSE IF r \in over \/ (tie /\ above[r] = over) THEN above[r]
                    ELSE above[r] \cup {written + 1}]
  BY DEF Record
<1> DEFINE new == written + 1
           still == {r \in Rows : r \in over \/ (tie /\ above[r] = over)}
<1>2. Rows \subseteq 1..written /\ written \in Nat /\ written' = new
      /\ above \in [Rows -> SUBSET Rows]
  BY Limits DEF TypeOK, Record
<1>3. new \notin Rows
  BY <1>2
<1> HIDE DEF new
<1>4. over \subseteq Rows /\ \A r \in over : above[r] \subseteq over
  <2>1. over \subseteq Rows /\ \A r \in over, x \in Rows : above[x] \subseteq above[r] => x \in over
    BY DEF Tops
  <2>2. \A r \in Rows : above[r] \subseteq Rows
    BY <1>2
  <2> QED BY <2>1, <2>2 DEF Ordered
<1>5. Rows' = Rows \cup {new}
  BY <1>1 DEF Rows, new
<1>6. above'[new] = over
  BY <1>1 DEF new
<1>7. \A r \in still : above'[r] = above[r]
  BY <1>1, <1>3 DEF new
<1>8. \A r \in Rows \ still : above'[r] = above[r] \cup {new}
  BY <1>1, <1>3 DEF new
<1>9. \A r \in Rows : above[r] \subseteq Rows
  BY <1>2
<1>10. over \subseteq still /\ still \subseteq Rows /\ \A r \in still \ over : above[r] = over
  BY <1>4
<1>11. \A r, x \in Rows : above[r] = above[x] => (r \in still <=> x \in still)
  <2>1. \A r \in over, x \in Rows : above[x] \subseteq above[r] => x \in over
    BY DEF Tops
  <2> QED BY <2>1
<1>12. \A r \in Rows \ over : over \subseteq above[r]
  <2> SUFFICES ASSUME NEW r \in Rows \ over, NEW y \in over PROVE y \in above[r]
    OBVIOUS
  <2>1. y \in Rows /\ r \notin above[y]
    BY <1>4
  <2>2. above[r] # above[y]
    BY DEF Tops
  <2> QED BY <2>1, <2>2 DEF Ordered
<1> HIDE DEF still
<1>13. Ordered'
  <2>1. \A r \in Rows' : r \notin above'[r]
    <3>1. new \notin above'[new]
      BY <1>3, <1>4, <1>6
    <3>2. \A r \in Rows : r \notin above'[r]
      BY <1>3, <1>7, <1>8 DEF Ordered
    <3> QED BY <1>5, <3>1, <3>2
  <2>2. \A r \in Rows' : \A x \in above'[r] : above'[x] \subseteq above'[r]
    <3> SUFFICES ASSUME NEW r \in Rows', NEW x \in above'[r] PROVE above'[x] \subseteq above'[r]
      OBVIOUS
    <3>1. CASE r = new
      BY <1>4, <1>6, <1>7, <1>10, <3>1
    <3>2. CASE r \in over
      <4>1. x \in over /\ x \in above[r] /\ above'[x] = above[x] /\ above'[r] = above[r] /\ r \in Rows
        BY <1>4, <1>7, <1>10, <3>2
      <4> QED BY <4>1 DEF Ordered
    <3>3. CASE r \in still \ over
      <4>1. above'[r] = over /\ x \in over /\ above'[x] = above[x]
        BY <1>7, <1>10, <3>3
      <4> QED BY <1>4, <4>1
    <3>4. CASE r \in Rows \ still
      <4>1. above'[r] = above[r] \cup {new} /\ over \subseteq above[r]
        BY <1>8, <1>10, <1>12, <3>4
      <4>2. CASE x = new
        BY <1>6, <4>1, <4>2
      <4>3. CASE x \in above[r]
        <5>1. x \in Rows /\ r \in Rows /\ above[x] \subseteq above[r]
          BY <1>9, <3>4, <4>3 DEF Ordered
        <5>2. above'[x] \subseteq above[x] \cup {new}
          BY <1>7, <1>8, <5>1
        <5> QED BY <4>1, <5>1, <5>2
      <4> QED BY <4>1, <4>2, <4>3
    <3> QED BY <1>5, <3>1, <3>2, <3>3, <3>4
  <2>3. \A r, x \in Rows' : x \notin above'[r] /\ r \notin above'[x] => above'[r] = above'[x]
    <3>1. ASSUME NEW x \in Rows, x \notin above'[new], new \notin above'[x]
          PROVE  above'[x] = above'[new]
      <4>1. x \in still \ over
        BY <1>6, <1>8, <3>1
      <4> QED BY <1>6, <1>7, <1>10, <4>1
    <3>2. ASSUME NEW r \in Rows, NEW x \in Rows, x \notin above'[r], r \notin above'[x]
          PROVE  above'[r] = above'[x]
      <4>1. x \notin above[r] /\ r \notin above[x]
        BY <1>7, <1>8, <3>2
      <4>2. above[r] = above[x]
        BY <4>1 DEF Ordered
      <4>3. r \in still <=> x \in still
        BY <1>11, <4>2
      <4> QED BY <1>7, <1>8, <4>2, <4>3
    <3> QED BY <1>5, <3>1, <3>2
  <2> QED BY <2>1, <2>2, <2>3 DEF Ordered
<1>14. above' \in [Rows' -> SUBSET Rows']
  <2>1. above' = [r \in Rows' |-> above'[r]]
    BY <1>1, <1>5 DEF new
  <2>2. \A r \in Rows' : above'[r] \subseteq Rows'
    BY <1>4, <1>5, <1>6, <1>7, <1>8, <1>9
  <2> QED BY <2>1, <2>2
<1>15. Rows' \subseteq 1..written'
  BY <1>2, <1>5 DEF new
<1>16. ASSUME NEW f, NEW r \in Matching(f)
       PROVE  /\ r \in Matching(f)' /\ Rank(r, f)' \in Nat /\ Rank(r, f)' >= Rank(r, f)
              /\ Tied(r, f)' = {} => Tied(r, f) = {}
  <2>1. Matching(f) \subseteq Matching(f)' /\ Matching(f)' \subseteq Matching(f) \cup {new}
    BY <1>5 DEF Matching
  <2>2. r \in Rows /\ above[r] \subseteq above'[r] /\ above'[r] \subseteq above[r] \cup {new}
    BY <1>7, <1>8 DEF Matching
  <2> DEFINE A == above[r] \cap Matching(f)
             B == above'[r] \cap Matching(f)'
  <2>3. A \subseteq B /\ B \subseteq Rows \cup {new}
    BY <1>9, <2>1, <2>2
  <2>4. IsFiniteSet(Rows \cup {new})
    BY RowsFinite, FS_AddElement
  <2>5. IsFiniteSet(B)
    BY <2>3, <2>4, FS_Subset
  <2>6. Cardinality(A) <= Cardinality(B) /\ IsFiniteSet(A)
    BY <2>3, <2>5, FS_Subset
  <2>7. Cardinality(A) \in Nat /\ Cardinality(B) \in Nat
    BY <2>5, <2>6, FS_CardinalityType
  <2>8. Rank(r, f) = Cardinality(A) + 1 /\ Rank(r, f)' = Cardinality(B) + 1
    BY DEF Rank
  <2>9. \A x \in Tied(r, f) : x \in Tied(r, f)'
    <3> SUFFICES ASSUME NEW x \in Tied(r, f) PROVE x \in Tied(r, f)'
      OBVIOUS
    <3>1. x \in Matching(f) /\ x # r /\ x \in Rows /\ above[x] = above[r]
      BY DEF Tied, Matching
    <3>2. above'[x] = above'[r]
      BY <1>7, <1>8, <1>11, <2>2, <3>1
    <3> QED BY <2>1, <3>1, <3>2 DEF Tied
  <2> QED BY <2>1, <2>6, <2>7, <2>8, <2>9
<1> QED BY <1>13, <1>14, <1>15, <1>16

\* What a write or a reset leaves of the screen and the answers.
LEMMA ScreenStands ==
  ASSUME TypeOK, AnswersOK, SelectionOK, UNCHANGED <<list, screen, cache, fetches>>,
         walk' \in [owed : SUBSET Ids, calm : BOOLEAN],
         (above \in [Rows -> SUBSET Rows])', (Rows \subseteq 1..written)',
         (written \in 0..MaxWrites[list])', (cleared \in 0..MaxClears[list])'
  PROVE  TypeOK' /\ AnswersOK' /\ SelectionOK'
<1>1. UNCHANGED <<open, filter, page, selected, Ids, Keys, Answers>>
  BY DEF screen, Ids, Keys, Answers
<1>2. (\A k \in DOMAIN cache : cache[k] \in Answers /\ Cardinality(cache[k].rows) <= PageSize)'
      /\ (DOMAIN cache \subseteq Keys)' /\ (DOMAIN fetches \subseteq Keys)'
  BY <1>1 DEF TypeOK
<1>3. (filter \in Filters)' /\ (page \in 1..(MaxWrites[list] + 1))' /\ (list \in Lists)'
      /\ (selected \in Ids \cup {NoRow})' /\ (open \in BOOLEAN)'
      /\ (walk \in [owed : SUBSET Ids, calm : BOOLEAN])'
  BY <1>1 DEF TypeOK, Filters
<1>4. AnswersOK'
  BY <1>1 DEF AnswersOK, Reading
<1>5. SelectionOK'
  BY <1>1 DEF SelectionOK, Shown, Key
<1> QED BY <1>2, <1>3, <1>4, <1>5 DEF TypeOK

LEMMA RecordKeeps == ASSUME ConsoleInv, Record PROVE ConsoleInv'
<1>1. TypeOK /\ Ordered /\ AnswersOK /\ SelectionOK /\ WalkInv
  BY DEF ConsoleInv, ScreenInv
<1>2. /\ written < MaxWrites[list] /\ written' = written + 1 /\ walk' = Disturbed
      /\ UNCHANGED <<list, cleared, screen, cache, fetches>>
  BY DEF Record
<1>3. /\ Ordered' /\ (above \in [Rows -> SUBSET Rows])' /\ (Rows \subseteq 1..written)'
      /\ \A f : \A r \in Matching(f) :
           /\ r \in Matching(f)' /\ Rank(r, f)' \in Nat /\ Rank(r, f)' >= Rank(r, f)
           /\ Tied(r, f)' = {} => Tied(r, f) = {}
  BY <1>1, RanksGrow
<1>4. (written \in 0..MaxWrites[list])' /\ (cleared \in 0..MaxClears[list])'
  BY <1>1, <1>2, Limits DEF TypeOK
<1>5. walk' \in [owed : SUBSET Ids, calm : BOOLEAN] /\ walk'.owed = walk.owed
      /\ (walk'.calm => walk.calm /\ DOMAIN fetches = {})
  BY <1>1, <1>2 DEF Disturbed, TypeOK
<1>6. TypeOK' /\ AnswersOK' /\ SelectionOK'
  BY <1>1, <1>2, <1>3, <1>4, <1>5, ScreenStands
<1>7. WalkInv'
  <2>1. UNCHANGED <<open, filter, page, cache, fetches>>
    BY <1>2 DEF screen
  <2>2. Key' = Key /\ Answered' = Answered
    BY <2>1 DEF Key, Answered
  <2>3. ASSUME NEW p \in Nat, Behind(p) PROVE Behind(p)' /\ (Owing' => Owing)
    <3>1. ASSUME NEW r \in walk.owed
          PROVE  Placed(r, filter, p)' /\ (Tied(r, filter)' = {} => Tied(r, filter) = {})
      <4>1. r \in Matching(filter) /\ (Tied(r, filter) = {} => Rank(r, filter) > SkipOf(p))
        BY <2>3, <3>1 DEF Behind, Placed
      <4>2. /\ r \in Matching(filter)' /\ Rank(r, filter)' \in Nat
            /\ Rank(r, filter)' >= Rank(r, filter)
            /\ Tied(r, filter)' = {} => Tied(r, filter) = {}
        <5>1. PICK f : f = filter
          OBVIOUS
        <5>2. /\ r \in Matching(f)' /\ Rank(r, f)' \in Nat /\ Rank(r, f)' >= Rank(r, f)
              /\ Tied(r, f)' = {} => Tied(r, f) = {}
          BY <1>3, <4>1, <5>1
        <5> QED BY <2>1, <5>1, <5>2 DEF Matching, Rank, Tied
      <4>3. SkipOf(p) \in Int
        BY ConsoleAssumption DEF SkipOf
      <4>4. Rank(r, filter) \in Nat
        BY <1>1, <4>1, RankBounded
      <4> QED BY <4>1, <4>2, <4>3, <4>4 DEF Placed, SkipOf
    <3> QED BY <1>5, <2>1, <3>1 DEF Behind, Owing
  <2>4. page \in Nat /\ page + 1 \in Nat
    BY <1>1, Limits
  <2>5. /\ Behind(page) => Behind(page)' /\ (Owing' => Owing)
        /\ Behind(page + 1) => Behind(page + 1)'
    <3>1. \A p \in Nat : Behind(p) => Behind(p)' /\ (Owing' => Owing)
      BY <2>3
    <3> QED BY <2>1, <2>4, <3>1 DEF Behind
  <2>6. walk'.calm => \A x \in DOMAIN fetches' : Current(x)'
    BY <1>5, <2>1
  <2> QED BY <1>1, <1>5, <2>1, <2>2, <2>5, <2>6 DEF WalkInv
<1> QED BY <1>3, <1>6, <1>7 DEF ConsoleInv, ScreenInv

LEMMA ClearKeeps == ASSUME ConsoleInv, Clear PROVE ConsoleInv'
<1>1. TypeOK /\ Ordered /\ AnswersOK /\ SelectionOK /\ WalkInv
  BY DEF ConsoleInv, ScreenInv
<1>2. /\ above' = << >> /\ cleared < MaxClears[list] /\ cleared' = cleared + 1
      /\ walk' = [Disturbed EXCEPT !.owed = {}]
      /\ UNCHANGED <<list, written, screen, cache, fetches>>
  BY DEF Clear
<1>3. Rows' = {}
  BY <1>2 DEF Rows
<1>4. Ordered' /\ (above \in [Rows -> SUBSET Rows])' /\ (Rows \subseteq 1..written)'
  BY <1>2, <1>3 DEF Ordered
<1>5. MaxClears[list] \in Nat /\ cleared \in 0..MaxClears[list] /\ written \in 0..MaxWrites[list]
  BY <1>1, ConsoleAssumption DEF TypeOK
<1>6. (written \in 0..MaxWrites[list])' /\ (cleared \in 0..MaxClears[list])'
  BY <1>2, <1>5
<1>7. walk' \in [owed : SUBSET Ids, calm : BOOLEAN] /\ walk'.owed = {}
      /\ (walk'.calm => DOMAIN fetches = {})
  BY <1>1, <1>2 DEF Disturbed, TypeOK
<1>8. TypeOK' /\ AnswersOK' /\ SelectionOK'
  BY <1>1, <1>2, <1>4, <1>6, <1>7, ScreenStands
<1>9. WalkInv'
  BY <1>2, <1>7 DEF WalkInv, Behind, Owing
<1> QED BY <1>4, <1>8, <1>9 DEF ConsoleInv, ScreenInv

LEMMA ConsoleStutters == ASSUME ConsoleInv, UNCHANGED vars PROVE ConsoleInv'
<1>1. UNCHANGED <<table, screen, cache, fetches, walk>>
  BY DEF vars
<1>2. /\ DOMAIN fetches' \subseteq Keys /\ \A k \in DOMAIN fetches' : Reading(fetches'[k])
      /\ walk' \in [owed : SUBSET Ids, calm : BOOLEAN]
  BY <1>1 DEF ConsoleInv, ScreenInv, TypeOK, AnswersOK
<1>3. walk'.calm => walk.calm /\ \A k \in DOMAIN fetches' : Current(k)'
  BY <1>1, CurrentStands DEF ConsoleInv, WalkInv
<1> QED BY <1>1, <1>2, <1>3, FlightStep

LEMMA ConsoleStep == ConsoleInv /\ [Next]_vars => ConsoleInv'
<1> SUFFICES ASSUME ConsoleInv, [Next]_vars PROVE ConsoleInv'
  OBVIOUS
<1>1. CASE Mount          BY <1>1, MountKeeps
<1>2. CASE Leave          BY <1>2, LeaveKeeps
<1>3. CASE NextPage       BY <1>3, NextPageKeeps
<1>4. CASE PreviousPage   BY <1>4, PreviousPageKeeps
<1>5. CASE \E f \in Filters : SubmitFilter(f)
  BY <1>5, SubmitFilterKeeps
<1>6. CASE \E id \in Ids : Select(id)
  BY <1>6, SelectKeeps
<1>7. CASE Focus          BY <1>7, FocusKeeps
<1>8. CASE Interval       BY <1>8, IntervalKeeps
<1>9. CASE \E k \in DOMAIN fetches : ReadRows(k)
  BY <1>9, ReadRowsKeeps
<1>10. CASE \E k \in DOMAIN fetches : ReadCount(k)
  BY <1>10, ReadCountKeeps
<1>11. CASE \E k \in DOMAIN fetches : Answer(k)
  BY <1>11, AnswerKeeps
<1>12. CASE \E k \in DOMAIN fetches : Fail(k)
  BY <1>12, FailKeeps
<1>13. CASE Record        BY <1>13, RecordKeeps
<1>14. CASE Clear         BY <1>14, ClearKeeps
<1>15. CASE UNCHANGED vars
  BY <1>15, ConsoleStutters
<1> QED BY <1>1, <1>2, <1>3, <1>4, <1>5, <1>6, <1>7, <1>8, <1>9, <1>10, <1>11, <1>12, <1>13,
           <1>14, <1>15 DEF Next

-----------------------------------------------------------------------------
(* The theorems.                                                              *)

\* The inductive invariant of the console: what is typed, the order of the list,
\* what is kept, in flight and selected, and where a walk has got to.
THEOREM ConsoleInvariant == Spec => []ConsoleInv
BY ConsoleInit, ConsoleStep, PTL DEF Spec

\* Tables, screen and cache keep their kinds, and no answer that is kept holds
\* more rows than its request asked for.
THEOREM ConsoleTypes == Spec => []TypeOK
<1>1. ConsoleInv => TypeOK
  BY DEF ConsoleInv, ScreenInv
<1> QED BY <1>1, ConsoleInvariant, PTL

\* Offset paging misses no row that has its stamps to itself: whatever is written,
\* wherever it comes into the list, between two pages of a walk that no write
\* overlaps, and in whatever order each query lists rows of the same stamps, the
\* last page leaves no such row unseen that was there when the walk began.
THEOREM PagingMissesNothing == Spec => []WalkMissesNothing
<1>1. ConsoleInv => WalkMissesNothing
  <2> SUFFICES ASSUME ConsoleInv, AtEnd, walk.calm, Owing PROVE FALSE
    BY DEF WalkMissesNothing, Owing
  <2>1. TypeOK /\ Answered /\ open
    BY DEF ConsoleInv, ScreenInv, AtEnd, Answered
  <2>2. cache[Key].total > page * PageSize /\ page * PageSize >= cache[Key].total
    BY <2>1 DEF ConsoleInv, WalkInv, AtEnd
  <2>3. cache[Key].total \in Nat /\ page * PageSize \in Nat
    <3>1. cache[Key] \in Answers
      BY <2>1 DEF TypeOK, Answered
    <3>2. MaxWrites[list] \in Nat /\ page \in Nat /\ PageSize \in Nat
      BY <2>1, Limits
    <3> QED BY <3>1, <3>2 DEF Answers
  <2> QED BY <2>2, <2>3
<1> QED BY <1>1, ConsoleInvariant, PTL

\* The details a page shows are of a row it lists, whatever answer has arrived
\* for whichever page or filter.
THEOREM OpenRowIsListed == Spec => []OpenedIsListed
<1>1. ConsoleInv => OpenedIsListed
  <2> SUFFICES ASSUME ConsoleInv, open, list \in Pages
               PROVE  IF Shown.rows = {} THEN Opened = NoRow ELSE Opened \in Shown.rows
    BY DEF OpenedIsListed
  <2>1. CASE list = "conflicts"
    <3>1. Shown.rows # {} => Shown.top \in Shown.rows
      BY DEF ConsoleInv, ScreenInv, AnswersOK, Shown, Cached
    <3> QED BY <2>1, <3>1 DEF Opened, Settled
  <2>2. CASE list \in {"events", "audit"}
    BY <2>2 DEF ConsoleInv, ScreenInv, SelectionOK, Opened
  <2> QED BY <2>1, <2>2 DEF Pages
<1> QED BY <1>1, ConsoleInvariant, PTL

================================================================================
