----------------------------- MODULE Pagination -----------------------------
(***************************************************************************)
(* The pages of a query (src/pagination), and their use on a table whose   *)
(* rows are inserted and deleted meanwhile.  A listing counts and finds    *)
(* the rows of one page, as Scope does with two statements, or of all      *)
(* pages in turn for as long as the result says that there is a next one   *)
(* (that loop is the caller's).                                            *)
(*                                                                         *)
(* A row has a number, by which listings are sorted, and a name, by which  *)
(* they are filtered; texts are sequences of characters.  The database is  *)
(* external.                                                               *)
(***************************************************************************)
EXTENDS Integers, SequencesExt

CONSTANTS
  MaxInt,     \* the largest int
  DefPerPage, MaxPerPage,
  RowNames,   \* row -> its name; rows are inserted in the order of their numbers
  FirstRows,  \* the rows at the beginning
  Filters,    \* the filters of the queries, the members of groups included
  NoExpr      \* the empty expression

ASSUME PaginationAssumption ==
  /\ MaxInt \in Nat /\ DefPerPage \in Nat \ {0} /\ MaxPerPage \in Nat \ {0}
  /\ FirstRows \subseteq DOMAIN RowNames /\ DOMAIN RowNames \subseteq Nat
  /\ IsFiniteSet(DOMAIN RowNames) /\ Cardinality(DOMAIN RowNames) <= MaxInt

VARIABLES
  table,   \* the rows that exist
  deleted, \* the rows that did: their numbers are not used again
  listing  \* the listing in progress

tableVars == <<table, deleted>>
listingVars == <<tableVars, listing>>

-----------------------------------------------------------------------------
(* Pages. *)

\* Page.Normalize
Normalize(p) ==
  [number |-> IF p.number <= 0 THEN 1 ELSE p.number,
   perPage |-> CASE p.perPage <= 0 -> DefPerPage
                 [] p.perPage > MaxPerPage -> MaxPerPage
                 [] OTHER -> p.perPage]

\* Page.Offset, with the width of int.
Offset(p) == (((p.number - 1) * p.perPage + MaxInt + 1) % (2 * MaxInt + 2)) - (MaxInt + 1)

\* Mutant: the last, shorter page is not counted.
NewResult_Floor(data, total, p) ==
  [data |-> data, page |-> p.number, perPage |-> p.perPage,
   hasNext |-> p.number < total \div p.perPage, hasPrev |-> p.number > 1]
NewResult(data, total, p) ==
  LET totalPages == (total + p.perPage - 1) \div p.perPage IN
  [data |-> data, page |-> p.number, perPage |-> p.perPage,
   hasNext |-> p.number < totalPages, hasPrev |-> p.number > 1]

-----------------------------------------------------------------------------
(* Filters and sorts. *)

\* FilterBuilder.Where and WhereGroup, which drops an empty group.
Where(filters, op, value) ==
  Append(filters, [group |-> FALSE, op |-> op, value |-> value, filters |-> <<>>])
WhereGroup(filters, op, inner) ==
  IF inner = <<>> THEN filters
  ELSE Append(filters, [group |-> TRUE, op |-> op, value |-> <<>>, filters |-> inner])

\* EscapeLike
EscapeLike(text) ==
  FlattenSeq([i \in DOMAIN text |-> IF text[i] \in {"!", "%", "_"} THEN <<"!", text[i]>> ELSE <<text[i]>>])

\* External: LIKE with LikeEscapeClause.  rest[j] are the places from where on the
\* text matches the pattern from j on.
Like(text, pattern) ==
  LET rest[j \in 1..Len(pattern) + 1] ==
        CASE j > Len(pattern) -> {Len(text) + 1}
          [] j <= Len(pattern) /\ pattern[j] = "%" ->
               {i \in 1..Len(text) + 1 : \E k \in rest[j + 1] : i <= k}
          [] j < Len(pattern) /\ pattern[j] = "!" ->
               {i \in 1..Len(text) : text[i] = pattern[j + 1] /\ i + 1 \in rest[j + 2]}
          [] OTHER ->
               {i \in 1..Len(text) : pattern[j] \in {"_", text[i]} /\ i + 1 \in rest[j + 1]}
  IN 1 \in rest[1]

\* filterExpr and groupExpr: the rows that the expression selects.  A group
\* without an expression has none itself, and any operator but OR counts as AND.
FilterExpr ==
  LET Matching(Test(_)) == {r \in DOMAIN RowNames : Test(RowNames[r])}
      expr[f \in Filters] ==
        LET parts == {expr[f.filters[i]] : i \in DOMAIN f.filters} \ {NoExpr} IN
        CASE f.group /\ parts = {} -> NoExpr
          [] f.group /\ parts # {} /\ f.op = "OR" -> UNION parts
          [] f.group /\ parts # {} /\ f.op # "OR" -> {r \in UNION parts : \A part \in parts : r \in part}
          [] f.op = "LIKE" -> Matching(LAMBDA name : Like(name, <<"%">> \o EscapeLike(f.value) \o <<"%">>))
          [] f.op = "=" -> Matching(LAMBDA name : name = f.value)
          [] f.op = "<>" -> Matching(LAMBDA name : name # f.value)
  IN [f \in Filters |-> expr[f]]

\* applyFilters on the rows of the table.
ApplyFilters(filters) ==
  LET exprs == {FilterExpr[filters[i]] : i \in DOMAIN filters} \ {NoExpr}
  IN {r \in table : \A expr \in exprs : r \in expr}

\* ParseSort and applySorts: anything but "desc" sorts upwards.
Descending(dir) == dir \in {"desc", "DESC"}
ApplySorts(rows, dir) ==
  CHOOSE s \in [1..Cardinality(rows) -> rows] :
    \A i, j \in DOMAIN s : i < j => IF Descending(dir) THEN s[i] > s[j] ELSE s[i] < s[j]

\* External: the statement that Scope builds.  The database skips nothing if the
\* offset is negative.
PageRows(q, p) ==
  LET rows == ApplySorts(ApplyFilters(q.filters), q.dir)
      offset == IF Offset(p) > 0 THEN Offset(p) ELSE 0
  IN SubSeq(rows, offset + 1, IF offset + p.perPage < Len(rows) THEN offset + p.perPage ELSE Len(rows))

-----------------------------------------------------------------------------
(* Listings. *)

NoListing == [step |-> "none"]

ListingInit == table = FirstRows /\ deleted = {} /\ listing = NoListing

\* NewQuery.  from, changed and uncounted are history.
NewQuery(q) ==
  /\ listing' = [step |-> "count", query |-> q, page |-> Normalize(q.page), total |-> 0,
                 rows |-> <<>>, result |-> [page |-> 0], from |-> table,
                 changed |-> {}, uncounted |-> FALSE]
  /\ UNCHANGED tableVars

\* Scope counts first; an error of the database leaves 0 and is not returned.
Count ==
  /\ listing.step = "count"
  /\ \/ listing' = [listing EXCEPT !.step = "find",
                                   !.total = Cardinality(ApplyFilters(listing.query.filters))]
     \/ listing' = [listing EXCEPT !.step = "find", !.total = 0, !.uncounted = TRUE]
  /\ UNCHANGED tableVars

\* Mutant: an error ends the reading as the last page does.
Find_Swallows ==
  /\ listing.step = "find"
  /\ \/ \E data \in {PageRows(listing.query, listing.page)} :
          LET result == NewResult(data, listing.total, listing.page)
              more == listing.query.all /\ result.hasNext
          IN listing' = [listing EXCEPT !.rows = @ \o data, !.result = result,
                                        !.step = IF more THEN "count" ELSE "done",
                                        !.page.number = IF more THEN @ + 1 ELSE @]
     \/ listing' = [listing EXCEPT !.step = "done"]
  /\ UNCHANGED tableVars

\* Find with what Scope returns, whose error the caller does see.
Find ==
  /\ listing.step = "find"
  /\ \/ \E data \in {PageRows(listing.query, listing.page)} :
          LET result == NewResult(data, listing.total, listing.page)
              more == listing.query.all /\ result.hasNext
          IN listing' = [listing EXCEPT !.rows = @ \o data, !.result = result,
                                        !.step = IF more THEN "count" ELSE "done",
                                        !.page.number = IF more THEN @ + 1 ELSE @]
     \/ listing' = [listing EXCEPT !.step = "failed"]
  /\ UNCHANGED tableVars

\* External: another client of the database.  What it does between the count and
\* the find of a page is noted.
Noted(how) ==
  listing' = IF listing = NoListing THEN listing
             ELSE [listing EXCEPT !.changed = @ \union {how} \union
                                              (IF listing.step = "find" THEN {"between"} ELSE {})]
Insert(r) ==
  /\ \A s \in table \union deleted : s < r
  /\ table' = table \union {r}
  /\ Noted("inserted")
  /\ UNCHANGED deleted
Delete(r) ==
  /\ r \in table
  /\ table' = table \ {r} /\ deleted' = deleted \union {r}
  /\ Noted("deleted")

-----------------------------------------------------------------------------
(* Properties.  query.wanted are the rows that the caller means to list.  *)

\* On a table that does not change a page holds the rows that belong to it, and
\* there is a next one just if rows are left, for every page whose end an int can
\* count (paginator.go:17-63, gorm_scope.go:22-36).
PageIsItsOwn ==
  listing # NoListing /\ listing.step \in {"count", "done"} /\ listing.result.page # 0
    /\ listing.changed = {} /\ ~listing.uncounted =>
  LET res == listing.result
      all == table \intersect listing.query.wanted
      before(r) == Cardinality({s \in all : IF Descending(listing.query.dir) THEN s > r ELSE s < r})
  IN res.page * res.perPage <= MaxInt =>
       /\ ToSet(res.data) = {r \in all : before(r) \div res.perPage = res.page - 1}
       /\ res.hasNext <=> Cardinality(all) > res.page * res.perPage

\* Reading all pages in turn yields only rows that were asked for; repeats none
\* unless rows were inserted in front of the ones already read; and leaves none out
\* unless rows were deleted meanwhile, or inserted in front between the count and the
\* find of a page: a full last page then loses a row to a page that nobody asks for
\* (gorm_scope.go:22-36).  A count that failed ends the reading early: its error is
\* dropped (gorm_scope.go:28).
AllPagesOnce ==
  listing # NoListing /\ listing.step = "done" /\ listing.query.all =>
    LET front == Descending(listing.query.dir) IN
    /\ ToSet(listing.rows) \subseteq listing.query.wanted
    /\ "deleted" \notin listing.changed /\ ~(front /\ "between" \in listing.changed)
         /\ ~listing.uncounted =>
         listing.from \intersect listing.query.wanted \subseteq ToSet(listing.rows)
    /\ ~(front /\ "inserted" \in listing.changed) => IsInjective(listing.rows)
=============================================================================
