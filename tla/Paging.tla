------------------------------- MODULE Paging -------------------------------
(***************************************************************************)
(* How a page is asked for: bindPage in handler/system.go, normalizePage   *)
(* and the offset in repository/base.go, and what gorm makes of it.  The   *)
(* integers have the width of the machine.                                 *)
(***************************************************************************)
EXTENDS Integers

CONSTANTS
  MaxInt,       \* the largest int: 2^63 - 1 in the code
  DefaultSize,  \* 20 in the code
  MaxSize,      \* 100 in the code
  RowCounts     \* how many rows there may be to show

ASSUME PagingAssumption ==
  /\ MaxInt \in Nat
  /\ MaxSize \in Nat /\ MaxSize <= MaxInt /\ DefaultSize \in 1 .. MaxSize
  /\ RowCounts \subseteq Nat

VARIABLE asked  \* the page and the size that the client asks for

Ints == -(MaxInt + 1) .. MaxInt

\* Two's complement.
Wrap(n) == ((n + MaxInt + 1) % (2 * (MaxInt + 1))) - (MaxInt + 1)

\* A size above the largest becomes the default one.
BindPage(query) ==
  [page |-> IF query.page < 1 THEN 1 ELSE query.page,
   size |-> IF query.size \in 1 .. MaxSize THEN query.size ELSE DefaultSize]

\* A size above the largest becomes the largest one.
NormalizePage(query) ==
  [page |-> IF query.page < 1 THEN 1 ELSE query.page,
   size |-> IF query.size < 1 THEN DefaultSize
            ELSE IF query.size > MaxSize THEN MaxSize ELSE query.size]

\* Deviation: pages counted from zero.
OffsetFromZero(used) == Wrap(used.page * used.size)

\* (page - 1) * pageSize
Offset(used) == Wrap((used.page - 1) * used.size)

\* LIMIT and OFFSET: the places, of so many rows, that are shown.  gorm leaves out an
\* offset that is not positive.
Places(rows, used) ==
  LET skipped == IF Offset(used) > 0 THEN Offset(used) ELSE 0
  IN {n \in 1 .. rows : n > skipped /\ n <= skipped + used.size}

PagingInit == asked \in [page : Ints, size : Ints]

\* A request asks for one page.
PagingSpec == PagingInit /\ [][FALSE]_asked

----------------------------------------------------------------------------
(* Properties *)

\* The page an answer reports, of the size it reports, is what it shows: row i, counted
\* from one, if (i-1) / size + 1 is that page, and on no other; a page past the end is
\* empty.  Pages and sizes are clamped twice and differently (handler/system.go:152-157,
\* base.go:103-111); Audits reports the first clamping and queries by the second.
\* Only where (page-1) * size leaves the width (base.go:45) may other rows show.
PageShowsItsRows ==
  LET told == BindPage(asked) IN
  (told.page - 1) * told.size <= MaxInt =>
    \A rows \in RowCounts :
      Places(rows, NormalizePage(told)) =
        {i \in 1 .. rows : (i - 1) \div told.size + 1 = told.page}
=============================================================================
