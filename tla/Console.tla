-------------------------------- MODULE Console --------------------------------
(****************************************************************************)
(* The operator console: the list pages of the frontend, the queries they   *)
(* keep in the React Query cache, and the dashboard endpoints that answer    *)
(* them while the pipeline writes the tables they read.                      *)
(*                                                                          *)
(* Every list endpoint makes two reads in parallel, the rows of a page and   *)
(* the count, with nothing to hold the table still in between.  The client   *)
(* keeps one answer and at most one request in flight per query key; an      *)
(* answer goes to the key it was asked for, whatever is on the screen by     *)
(* then.  A page that is opened, focused or moved to is shown from the cache *)
(* first and asked for again.                                               *)
(*                                                                          *)
(* The events, audit and conflicts pages and the dashboard's preview of the  *)
(* newest events are the same machine over different tables, and no query    *)
(* key belongs to two of them: a behaviour follows one, chosen in the        *)
(* initial state.                                                            *)
(*                                                                          *)
(* Rows are numbered in the order they are written.  A list is ordered by    *)
(* time stamps in milliseconds, taken before the row is written: a row may   *)
(* appear below younger ones, and rows may have the same stamps.  Nothing    *)
(* orders those, so every query may list them differently.  Of the stamps,   *)
(* the rows with later ones are kept for each row; a page is a set of rows   *)
(* and the first of them.                                                    *)
(****************************************************************************)
EXTENDS Integers, FiniteSets

CONSTANTS Lists,      \* the lists followed: of Pages and "preview"
          Ubids,      \* businesses
          About,      \* for each number of a row, the business it is about
          PageSize,   \* PAGE_SIZE, the limit of every request
          Filtering,  \* filters of the audit page that are tried
          MaxWrites,  \* bound, for each list: rows the pipeline writes
          MaxClears,  \* bound, for each list: resets that empty the table
          MaxInFlight,\* bound: requests in flight at a time
          All,        \* the filter of a list that is not filtered
          NoRow,      \* no row is selected
          Unread      \* a read of a request that is not made yet

\* The lists with a page of their own, a pager and a selection.
Pages == {"events", "audit", "conflicts"}

ASSUME ConsoleAssumption ==
  /\ Lists \subseteq Pages \cup {"preview"}
  /\ PageSize \in Nat \ {0}
  /\ MaxWrites \in [Lists -> Nat] /\ MaxClears \in [Lists -> Nat] /\ MaxInFlight \in Nat
  /\ Filtering \subseteq Ubids
  /\ \A l \in Lists : \A r \in 1..MaxWrites[l] : About[r] \in Ubids
  /\ All \notin Ubids

VARIABLES list,      \* the list this behaviour follows
          above,     \* for each row of its table, the rows with later stamps
          written,   \* rows written so far, the source of their numbers
          cleared,   \* resets so far
          open,      \* whether its page is on the screen
          filter,    \* the filter of the list page
          page,      \* its page number
          selected,  \* the row whose details it shows
          cache,     \* query key -> the answer kept for it
          fetches,   \* query key -> the request in flight for it
          walk       \* history: what a reader who pages forward has yet to see

table == <<list, above, written, cleared>>
screen == <<open, filter, page, selected>>
vars == <<table, screen, cache, fetches, walk>>

Ids == 1..MaxWrites[list]
Filters == Filtering \cup {All}
Keys == Filters \X (1..(MaxWrites[list] + 1))
First == <<All, 1>>

\* A request that has read nothing yet.
Nothing == [rows |-> Unread, top |-> NoRow, total |-> Unread]

----------------------------------------------------------------------------
(* The endpoints                                                              *)

Rows == DOMAIN above

\* The rows a query is about: its where clause.
Matching(f) == {r \in Rows : f = All \/ About[r] = f}

\* The rows that a query may list before or after row r: orderBy has no key that
\* tells them apart.
Tied(r, f) == {x \in Matching(f) \ {r} : above[x] = above[r]}

\* What the first n rows of a list may be: rows with later stamps come first.
Beginnings(f, n) ==
  {s \in SUBSET Matching(f) :
     /\ Cardinality(s) = n \/ (s = Matching(f) /\ Cardinality(s) < n)
     /\ \A r \in s : above[r] \cap Matching(f) \subseteq s}

SkipPage(p) == p * PageSize

SkipOf(p) == (p - 1) * PageSize

\* Mutant of Page: nothing is left out behind it.
PageAndAfter(k) == {Matching(k[1]) \ a : a \in Beginnings(k[1], SkipOf(k[2]))}

\* What a page may hold: the query skips the rows of the pages before and takes
\* the next, in an order of its own.
Page(k) ==
  {s \in SUBSET Matching(k[1]) :
     \E a \in Beginnings(k[1], SkipOf(k[2])) :
        a \cap s = {} /\ a \cup s \in Beginnings(k[1], SkipOf(k[2]) + PageSize)}

\* The rows that may come first on a page.
Heads(s) == IF s = {} THEN {NoRow} ELSE {r \in s : above[r] \cap s = {}}

\* The two parallel reads of one request, in either order.
ReadRows(k) ==
  /\ k \in DOMAIN fetches /\ fetches[k].rows = Unread
  /\ \E s \in Page(k) : \E top \in Heads(s) :
       fetches' = [fetches EXCEPT ![k].rows = s, ![k].top = top]
  /\ UNCHANGED <<table, screen, cache, walk>>

ReadCount(k) ==
  /\ k \in DOMAIN fetches /\ fetches[k].total = Unread
  /\ fetches' = [fetches EXCEPT ![k].total = Cardinality(Matching(k[1]))]
  /\ UNCHANGED <<table, screen, cache, walk>>

----------------------------------------------------------------------------
(* The client's cache and the screen                                          *)

Key == <<filter, page>>

With(f, k, v) == [x \in DOMAIN f \cup {k} |-> IF x = k THEN v ELSE f[x]]

Without(f, k) == [x \in DOMAIN f \ {k} |-> f[x]]

\* A request for a key: the one in flight is shared, there is never a second.
Asking(k) == IF k \in DOMAIN fetches THEN fetches ELSE With(fetches, k, Nothing)

Bounded == Cardinality(DOMAIN fetches') <= MaxInFlight

\* What is drawn of a key: nothing, until an answer is kept for it.
Cached(c, k) == IF k \in DOMAIN c THEN c[k] ELSE [rows |-> {}, top |-> NoRow, total |-> 0]

Shown == Cached(cache, Key)

SelectionKept(s, sel) == IF s.rows = {} THEN NoRow ELSE IF sel = NoRow THEN s.top ELSE sel

\* The selection when this answer is on the screen: kept while its row is there,
\* else the first row.
Settled(s, sel) ==
  IF s.rows = {} THEN NoRow ELSE IF sel \in s.rows THEN sel ELSE s.top

\* The events and audit pages move the selection in an effect after each
\* render; the conflicts page only falls back when it draws.
Effect(s, sel) == IF list \in {"events", "audit"} THEN Settled(s, sel) ELSE sel

\* The row whose details are on the screen.
Opened == IF list = "conflicts" THEN Settled(Shown, selected) ELSE selected

\* The list page is drawn with filter f at page p from cache c.
Draw(f, p, sel, c) ==
  /\ filter' = f /\ page' = p /\ cache' = c
  /\ selected' = Effect(Cached(c, <<f, p>>), sel)

\* A reader starts at page 1: every row there is still to be seen.
WalkFrom(f) ==
  walk' = [owed |-> Matching(f) \ Cached(cache, <<f, 1>>).rows,
           calm |-> DOMAIN fetches = {}]

Mount ==
  /\ ~open /\ open' = TRUE
  /\ Draw(All, 1, NoRow, cache)
  /\ fetches' = Asking(First) /\ Bounded
  /\ WalkFrom(All)
  /\ UNCHANGED table

\* Another page of the console is opened: the requests in flight go on.
Leave ==
  /\ open /\ open' = FALSE
  /\ filter' = All /\ page' = 1 /\ selected' = NoRow
  /\ UNCHANGED <<table, cache, fetches, walk>>

\* Moving to page p of the list on the screen.
Turn(p) ==
  /\ Draw(filter, p, selected, cache)
  /\ fetches' = Asking(<<filter, p>>) /\ Bounded
  /\ walk' = [owed |-> walk.owed \ Cached(cache, <<filter, p>>).rows,
              calm |-> walk.calm /\ Key \notin DOMAIN fetches]
  /\ UNCHANGED <<table, open>>

\* The pager is drawn below a list that is not empty.
NextPage ==
  /\ open /\ list \in Pages /\ Shown.rows # {}
  /\ page * PageSize < cache[Key].total
  /\ Turn(page + 1)

PreviousPage ==
  /\ open /\ list \in Pages /\ Shown.rows # {}
  /\ page > 1
  /\ Turn(page - 1)

\* The filter form of the audit page goes back to the first page.
SubmitFilter(f) ==
  /\ open /\ list = "audit" /\ <<f, 1>> # Key
  /\ Draw(f, 1, selected, cache)
  /\ fetches' = Asking(<<f, 1>>) /\ Bounded
  /\ WalkFrom(f)
  /\ UNCHANGED <<table, open>>

Select(id) ==
  /\ open /\ list \in Pages /\ id \in Shown.rows /\ id # selected
  /\ selected' = id
  /\ UNCHANGED <<table, open, filter, page, cache, fetches, walk>>

\* The window is focused or the connection comes back.
Focus ==
  /\ open
  /\ fetches' = Asking(Key) /\ Bounded
  /\ UNCHANGED <<table, screen, cache, walk>>

IntervalOnce ==
  /\ open /\ list = "preview"
  /\ First \notin DOMAIN fetches \cup DOMAIN cache
  /\ fetches' = Asking(First) /\ Bounded
  /\ UNCHANGED <<table, screen, cache, walk>>

\* The dashboard asks for its preview again every 15 seconds.
Interval ==
  /\ open /\ list = "preview"
  /\ First \notin DOMAIN fetches
  /\ fetches' = Asking(First) /\ Bounded
  /\ UNCHANGED <<table, screen, cache, walk>>

Answer(k) ==
  /\ k \in DOMAIN fetches
  /\ Unread \notin {fetches[k].rows, fetches[k].total}
  /\ fetches' = Without(fetches, k)
  /\ IF k = Key /\ open
     THEN /\ Draw(filter, page, selected, With(cache, k, fetches[k]))
          /\ walk' = [walk EXCEPT !.owed = @ \ fetches[k].rows]
     ELSE /\ cache' = With(cache, k, fetches[k])
          /\ UNCHANGED <<filter, page, selected, walk>>
  /\ UNCHANGED <<table, open>>

\* The request and its one retry have failed: what was cached stays.
Fail(k) ==
  /\ k \in DOMAIN fetches
  /\ fetches' = Without(fetches, k)
  /\ walk' = [walk EXCEPT !.calm = @ /\ k # Key]
  /\ UNCHANGED <<table, screen, cache>>

----------------------------------------------------------------------------
(* The pipeline                                                               *)

\* A read that overlaps a write may see a table that never was.
Disturbed == [walk EXCEPT !.calm = @ /\ DOMAIN fetches = {}]

\* The rows down to a stamp: below them a new row comes in, or with the next.
Tops == {s \in SUBSET Rows : \A r \in s, x \in Rows : above[x] \subseteq above[r] => x \in s}

Record ==
  /\ written < MaxWrites[list]
  /\ \E over \in Tops, tie \in BOOLEAN :
       above' = [r \in Rows \cup {written + 1} |->
                   IF r = written + 1 THEN over
                   ELSE IF r \in over \/ (tie /\ above[r] = over) THEN above[r]
                   ELSE above[r] \cup {written + 1}]
  /\ written' = written + 1
  /\ walk' = Disturbed
  /\ UNCHANGED <<list, cleared, screen, cache, fetches>>

\* The demo reset empties the table.
Clear ==
  /\ cleared < MaxClears[list] /\ Rows # {}
  /\ above' = << >>
  /\ cleared' = cleared + 1
  /\ walk' = [Disturbed EXCEPT !.owed = {}]
  /\ UNCHANGED <<list, written, screen, cache, fetches>>

----------------------------------------------------------------------------
Init ==
  /\ list \in Lists /\ above = << >> /\ written = 0 /\ cleared = 0
  /\ open = FALSE /\ filter = All /\ page = 1 /\ selected = NoRow
  /\ cache = << >> /\ fetches = << >>
  /\ walk = [owed |-> {}, calm |-> FALSE]

Next ==
  \/ Mount
  \/ Leave
  \/ NextPage
  \/ PreviousPage
  \/ \E f \in Filters : SubmitFilter(f)
  \/ \E id \in Ids : Select(id)
  \/ Focus
  \/ Interval
  \/ \E k \in DOMAIN fetches : ReadRows(k)
  \/ \E k \in DOMAIN fetches : ReadCount(k)
  \/ \E k \in DOMAIN fetches : Answer(k)
  \/ \E k \in DOMAIN fetches : Fail(k)
  \/ Record
  \/ Clear

Spec == Init /\ [][Next]_vars

\* The interval timer fires, and the service answers: it may fail any number
\* of requests, but not for ever.
Fairness ==
  /\ WF_vars(Interval)
  /\ WF_vars(ReadRows(First)) /\ WF_vars(ReadCount(First)) /\ WF_vars(Answer(First))
  /\ <>[][~Fail(First)]_vars

FairSpec == Spec /\ Fairness

----------------------------------------------------------------------------
(* Properties                                                                 *)

Answers == [rows : SUBSET Ids, top : Ids \cup {NoRow}, total : 0..MaxWrites[list]]

\* Tables, screen and cache hold values of their kind, and a page of an answer
\* never holds more rows than were asked for.
TypeOK ==
  /\ list \in Lists
  /\ above \in [Rows -> SUBSET Rows] /\ Rows \subseteq 1..written
  /\ written \in 0..MaxWrites[list] /\ cleared \in 0..MaxClears[list]
  /\ open \in BOOLEAN /\ filter \in Filters
  /\ page \in 1..(MaxWrites[list] + 1) /\ selected \in Ids \cup {NoRow}
  /\ DOMAIN cache \subseteq Keys /\ DOMAIN fetches \subseteq Keys
  /\ \A k \in DOMAIN cache :
       cache[k] \in Answers /\ Cardinality(cache[k].rows) <= PageSize
  /\ walk \in [owed : SUBSET Ids, calm : BOOLEAN]

\* The reader's list has been answered and its Next button is off.
AtEnd ==
  /\ open
  /\ Key \in DOMAIN cache /\ Key \notin DOMAIN fetches
  /\ page * PageSize >= cache[Key].total

\* Offset paging over a list that grows: a reader who pages forward, waits for
\* every page and is never answered by reads that a write overlaps, has seen at
\* the last page every row that was there when the walk began, wherever rows came
\* in between two pages -- but for rows that have their stamps in common with
\* others of the list, which the queries may have passed from page to page.
WalkMissesNothing ==
  AtEnd /\ walk.calm => \A r \in walk.owed : Tied(r, filter) # {}

\* The row whose details are open is one of the rows on the screen, and there
\* is one whenever there are rows: whatever answer arrives, for whichever page
\* or filter, the selection follows it.
OpenedIsListed ==
  open /\ list \in Pages =>
    IF Shown.rows = {} THEN Opened = NoRow ELSE Opened \in Shown.rows

\* A reader who stays on the dashboard comes to see the newest events of the
\* table, although every answer may be stale when it arrives.
PreviewCatchesUp ==
  list = "preview" /\ <>[]open => <>[](First \in DOMAIN cache /\ Shown.rows \in Page(First))

================================================================================
