----------------------------- MODULE ViewsProofs -----------------------------
(***************************************************************************)
(* Theorems about what users are shown, and act on, while others write:    *)
(* pages and lists, summaries and histories of the audit log, and the      *)
(* workbench of the browser client, for any constants.                     *)
(***************************************************************************)
EXTENDS AuditTrail, Listing, Desk, FiniteSetTheorems, TLAPS

----------------------------------------------------------------------------
(* Paging *)

LEMMA DivBounds ==
  ASSUME NEW a \in Nat, NEW b \in Nat, b > 0
  PROVE  /\ a \div b \in Nat
         /\ (a \div b) * b <= a
         /\ a < (a \div b) * b + b
OBVIOUS

LEMMA DivUnique ==
  ASSUME NEW a \in Nat, NEW b \in Nat, b > 0, NEW q \in Nat, q * b <= a, a < q * b + b
  PROVE  a \div b = q
OBVIOUS

LEMMA ModSmall ==
  ASSUME NEW a \in Nat, NEW b \in Nat, a < b
  PROVE  a % b = a
OBVIOUS

LEMMA Products ==
  ASSUME NEW p \in Nat, NEW b \in Nat
  PROVE  p * b \in Nat /\ (p + 1) * b = p * b + b
OBVIOUS

\* The page of row i, counted from zero.
LEMMA PageOfRow ==
  ASSUME NEW i \in Nat, i >= 1, NEW size \in Nat, size >= 1, NEW q \in Nat
  PROVE  /\ (i > q * size /\ i <= q * size + size) <=> (i - 1) \div size = q
         /\ (i - 1) \div size \in Nat
<1> DEFINE n == i - 1
<1>1. n \in Nat /\ i = n + 1
  OBVIOUS
<1> HIDE DEF n
<1>2. n \div size \in Nat /\ (n \div size) * size <= n /\ n < (n \div size) * size + size
  BY <1>1, DivBounds
<1>3. q * size <= n /\ n < q * size + size => n \div size = q
  BY <1>1, DivUnique
<1>4. q * size \in Nat
  BY Products
<1>5. (i > q * size /\ i <= q * size + size) <=> n \div size = q
  BY <1>1, <1>2, <1>3, <1>4
<1>. QED
  BY <1>2, <1>5 DEF n

LEMMA PagingNumbers ==
  /\ MaxInt \in Nat /\ MaxSize \in Nat /\ MaxSize <= MaxInt
  /\ DefaultSize \in Nat /\ 1 <= DefaultSize /\ DefaultSize <= MaxSize
BY PagingAssumption

\* Numbers of the width stay what they are.
LEMMA WrapKeeps ==
  ASSUME NEW n \in Nat, n <= MaxInt
  PROVE  Wrap(n) = n
<1>1. n + MaxInt + 1 \in Nat /\ 2 * (MaxInt + 1) \in Nat /\ n + MaxInt + 1 < 2 * (MaxInt + 1)
  BY PagingNumbers
<1>2. (n + MaxInt + 1) % (2 * (MaxInt + 1)) = n + MaxInt + 1
  BY <1>1, ModSmall
<1>. QED
  BY <1>2, PagingNumbers DEF Wrap

\* What bindPage lets through, normalizePage leaves alone.
LEMMA PagesAreBound ==
  ASSUME NEW query, query.page \in Int, query.size \in Int
  PROVE  LET told == BindPage(query) IN
         /\ told.page \in Nat /\ told.page >= 1
         /\ told.size \in Nat /\ told.size >= 1 /\ told.size <= MaxSize
         /\ query.page >= 1 => told.page = query.page
         /\ NormalizePage(told) = told
BY PagingNumbers DEF BindPage, NormalizePage

\* As long as the offset has the width of an int, the places follow it.
LEMMA PlacesOfPage ==
  ASSUME NEW used, used.page \in Nat, used.page >= 1, used.size \in Nat, NEW rows,
         (used.page - 1) * used.size <= MaxInt
  PROVE  LET offset == (used.page - 1) * used.size IN
         /\ offset \in Nat
         /\ Places(rows, used) = {n \in 1 .. rows : n > offset /\ n <= offset + used.size}
<1> DEFINE offset == (used.page - 1) * used.size
<1>1. offset \in Nat
  BY Products
<1>2. Offset(used) = offset
  BY <1>1, WrapKeeps DEF Offset
<1>3. Offset(used) > 0 \/ offset = 0
  BY <1>1, <1>2
<1> HIDE DEF offset
<1>4. (IF Offset(used) > 0 THEN Offset(used) ELSE 0) = offset
  BY <1>1, <1>2, <1>3
<1>5. Places(rows, used) = {n \in 1 .. rows : n > offset /\ n <= offset + used.size}
  BY <1>4 DEF Places
<1>. QED
  BY <1>1, <1>5 DEF offset

LEMMA PageIsShown ==
  ASSUME asked.page \in Int, asked.size \in Int
  PROVE  PageShowsItsRows
<1> DEFINE told == BindPage(asked)
           q    == told.page - 1
<1>1. /\ told.page \in Nat /\ told.page >= 1 /\ told.size \in Nat /\ told.size >= 1
      /\ NormalizePage(told) = told
  BY PagesAreBound
<1> HIDE DEF told
<1> SUFFICES ASSUME q * told.size <= MaxInt, NEW rows \in RowCounts
             PROVE  Places(rows, NormalizePage(told)) =
                      {i \in 1 .. rows : (i - 1) \div told.size + 1 = told.page}
  BY DEF PageShowsItsRows, told
<1>2. q \in Nat /\ rows \in Nat
  BY <1>1, PagingAssumption
<1>3. /\ q * told.size \in Nat
      /\ Places(rows, told) =
           {n \in 1 .. rows : n > q * told.size /\ n <= q * told.size + told.size}
  BY <1>1, PlacesOfPage
<1>4. ASSUME NEW i \in 1 .. rows
      PROVE  (i > q * told.size /\ i <= q * told.size + told.size)
             <=> (i - 1) \div told.size + 1 = told.page
  <2>1. i \in Nat /\ i >= 1
    BY <1>2
  <2>2. (i > q * told.size /\ i <= q * told.size + told.size) <=> (i - 1) \div told.size = q
    BY <1>1, <1>2, <2>1, PageOfRow
  <2>3. (i - 1) \div told.size \in Nat
    BY <1>1, <1>2, <2>1, PageOfRow
  <2>. QED
    BY <1>1, <2>2, <2>3
<1>. QED
  BY <1>1, <1>3, <1>4

\* For every width, page size and number of rows, and whatever page and size are asked
\* for: as long as the offset has the width of an int, the page that is told is shown
\* (base.go:44-45 and 102-113, handler/system.go:149-159).
THEOREM PagesShowTheirRows == PagingSpec => []PageShowsItsRows
<1> DEFINE Inv == asked.page \in Int /\ asked.size \in Int
<1>1. PagingInit => Inv
  BY PagingNumbers DEF PagingInit, Ints
<1>2. Inv /\ [FALSE]_asked => Inv'
  OBVIOUS
<1>3. Inv => PageShowsItsRows
  BY PageIsShown
<1>. QED
  BY <1>1, <1>2, <1>3, PTL DEF PagingSpec

----------------------------------------------------------------------------
(* Listing: types, and how far the reader is *)

ListingTypeInv ==
  /\ moment \in Nat /\ moment >= 2
  /\ stamp \in [Ids -> Nat]
  /\ \E n \in 0 .. MaxRows : Stored = 1 .. n
  /\ stage \in {"idle", "count", "find", "done"}
  /\ asked.page \in Nat /\ asked.page >= 1 /\ asked.size \in Int
  /\ DOMAIN asked = {"page", "size"}
  /\ total \in Nat

Size == BindPage(asked).size
Skip == (asked.page - 1) * Size

\* The places before the page that is read next were all taken when the last was found.
ReachedInv ==
  /\ stage = "idle" => asked.page = 1
  /\ stage \in {"count", "find"} => Skip <= MaxRows

LEMMA ListingNumbers ==
  /\ MaxRows \in Nat /\ MaxRows <= MaxInt /\ MaxInt \in Nat
  /\ \A i \in Ids : i \in Nat /\ i >= 1 /\ i <= MaxRows
  /\ \A n \in 0 .. MaxRows : Cardinality(1 .. n) = n
  /\ \A t \in Times : moment \in Nat /\ moment >= 2 => t \in Nat /\ t >= 1
<1>1. \A n \in 0 .. MaxRows : Cardinality(1 .. n) = n
  BY ListingAssumption, PagingAssumption, FS_Interval
<1>. QED
  BY <1>1, ListingAssumption, PagingAssumption DEF Ids, Times

LEMMA RowsAreFinite ==
  ASSUME NEW S \in SUBSET Ids
  PROVE  IsFiniteSet(S) /\ Cardinality(S) \in Nat
<1>1. IsFiniteSet(Ids)
  BY FS_Interval, ListingNumbers DEF Ids
<1>. QED
  BY <1>1, FS_Subset, FS_CardinalityType

LEMMA PresentIsFinite ==
  /\ IsFiniteSet(Present) /\ Cardinality(Present) \in Nat /\ Cardinality(Present) <= MaxRows
  /\ \A S \in SUBSET Present : IsFiniteSet(S) /\ Cardinality(S) \in Nat
                               /\ Cardinality(S) <= Cardinality(Present)
<1>1. IsFiniteSet(Ids) /\ Cardinality(Ids) = MaxRows
  BY FS_Interval, ListingNumbers DEF Ids
<1>2. Present \in SUBSET Ids
  BY DEF Present, Stored
<1>3. IsFiniteSet(Present) /\ Cardinality(Present) <= MaxRows
  BY <1>1, <1>2, FS_Subset
<1>4. ASSUME NEW S \in SUBSET Present
      PROVE  IsFiniteSet(S) /\ Cardinality(S) \in Nat /\ Cardinality(S) <= Cardinality(Present)
  BY <1>3, FS_Subset, FS_CardinalityType
<1>. QED
  BY <1>3, <1>4, FS_CardinalityType

\* The page that the queries use.
LEMMA UsedPageIsAsked ==
  ASSUME ListingTypeInv
  PROVE  /\ UsedPage.page = asked.page /\ UsedPage.size = Size
         /\ Size \in Nat /\ Size >= 1 /\ Skip \in Nat
<1>1. asked.page \in Nat /\ asked.page >= 1 /\ asked.size \in Int
  BY DEF ListingTypeInv
<1>2. UsedPage = BindPage(asked) /\ BindPage(asked).page = asked.page /\ Size \in Nat /\ Size >= 1
  BY <1>1, PagesAreBound DEF UsedPage, Size
<1>3. asked.page - 1 \in Nat
  BY <1>1
<1>4. Skip \in Nat
  BY <1>2, <1>3, Products DEF Skip
<1>. QED
  BY <1>2, <1>4 DEF Size

LEMMA MaxIsGreatest ==
  ASSUME NEW S \in SUBSET Int, NEW m \in S, \A n \in S : m >= n
  PROVE  Max(S) = m
<1>1. Max(S) \in S /\ \A n \in S : Max(S) >= n
  BY DEF Max
<1>2. Max(S) \in Int /\ m \in Int /\ Max(S) >= m /\ m >= Max(S)
  BY <1>1
<1>. QED
  BY <1>2

\* How many rows a page shows, and where they end.
LEMMA PlacesFound ==
  ASSUME ListingTypeInv, Skip <= MaxRows
  PROVE  LET places == Places(Cardinality(Present), UsedPage)
             count  == Cardinality(places)
             upTo   == Max(places \union {0}) IN
         /\ count \in Nat /\ count <= Size
         /\ count = 0 => Cardinality(Present) <= Skip /\ upTo = 0
         /\ count > 0 => /\ upTo = Skip + count
                         /\ Skip + count <= Cardinality(Present)
         /\ count < Size => Cardinality(Present) <= Skip + count
         /\ Cardinality(Present) - Skip >= Size => count = Size
<1> DEFINE P      == Cardinality(Present)
           places == Places(P, UsedPage)
<1>1. P \in Nat
  BY PresentIsFinite
<1>2. /\ UsedPage.page \in Nat /\ UsedPage.page >= 1 /\ UsedPage.size \in Nat
      /\ (UsedPage.page - 1) * UsedPage.size = Skip /\ UsedPage.size = Size
      /\ Size \in Nat /\ Size >= 1 /\ Skip \in Nat /\ Skip <= MaxInt
  <2>1. asked.page \in Nat /\ asked.page >= 1
    BY DEF ListingTypeInv
  <2>2. /\ UsedPage.page = asked.page /\ UsedPage.size = Size
        /\ Size \in Nat /\ Size >= 1 /\ Skip \in Nat
    BY UsedPageIsAsked
  <2>3. (UsedPage.page - 1) * UsedPage.size = Skip
    BY <2>2 DEF Skip
  <2>. QED
    BY <2>1, <2>2, <2>3, ListingNumbers
<1>3. places = {n \in 1 .. P : n > Skip /\ n <= Skip + Size}
  BY <1>1, <1>2, PlacesOfPage
<1> HIDE DEF P
<1> DEFINE last == IF P < Skip + Size THEN P ELSE Skip + Size
<1>4. last \in Nat /\ places = (Skip + 1) .. last
  BY <1>1, <1>2, <1>3
<1>5. Cardinality(places) = IF Skip + 1 > last THEN 0 ELSE last - Skip
  <2>1. Skip + 1 \in Int /\ last \in Int /\ Skip \in Int
    BY <1>2, <1>4
  <2> HIDE DEF last
  <2>2. Cardinality((Skip + 1) .. last) = IF Skip + 1 > last THEN 0 ELSE last - (Skip + 1) + 1
    BY <2>1, FS_Interval
  <2>. QED
    BY <1>4, <2>1, <2>2
<1> HIDE DEF places
<1>6. CASE P <= Skip
  <2>1. Skip + 1 > last
    BY <1>1, <1>2, <1>6
  <2>2. places \union {0} = {0}
    BY <1>1, <1>2, <1>4, <2>1
  <2>3. Max(places \union {0}) = 0
    BY <2>2, MaxIsGreatest
  <2>. QED
    BY <1>1, <1>2, <1>5, <1>6, <2>1, <2>3 DEF P, places
<1>7. CASE P > Skip
  <2>1. Skip + 1 <= last /\ last <= P /\ last <= Skip + Size
        /\ (last < Skip + Size => last = P)
    BY <1>1, <1>2, <1>7
  <2>2. places \union {0} \in SUBSET Int /\ last \in places \union {0}
        /\ \A n \in places \union {0} : last >= n
    BY <1>2, <1>4, <2>1
  <2>3. Max(places \union {0}) = last
    BY <2>2, MaxIsGreatest
  <2>4. Cardinality(places) = last - Skip
    BY <1>2, <1>4, <1>5, <2>1
  <2> HIDE DEF last
  <2>. QED
    BY <1>1, <1>2, <1>4, <2>1, <2>3, <2>4 DEF P, places
<1>. QED
  BY <1>1, <1>2, <1>6, <1>7

\* What Find does with the page it reads.
LEMMA FindStep ==
  ASSUME ListingTypeInv, ReachedInv, Find
  PROVE  \E count \in Nat, front \in SUBSET Present, skipped \in SUBSET Present :
           /\ count <= Size /\ Skip \in Nat /\ Skip <= MaxRows
           /\ skipped \subseteq front
           /\ seen' = seen \union (front \ skipped)
           /\ count = 0 => Cardinality(Present) <= Skip
           /\ count > 0 => /\ Cardinality(front) = Skip + count
                           /\ Cardinality(skipped) = Skip
           /\ Skip + count <= Cardinality(Present) \/ count = 0
           /\ count < Size => Cardinality(Present) <= Skip + count
           /\ Cardinality(Present) - Skip >= Size => count = Size
           /\ \A i \in front, j \in Present \ front : ~Before(j, i)
           /\ \A i \in skipped, j \in Present \ skipped : ~Before(j, i)
           /\ full' = (count >= Promised)
           /\ IF count < Size THEN stage' = "done" /\ asked' = asked
              ELSE stage' = "count" /\ asked' = [asked EXCEPT !.page = @ + 1]
<1> DEFINE places == Places(Cardinality(Present), UsedPage)
           count  == Cardinality(places)
           upTo   == Max(places \union {0})
<1>1. Skip <= MaxRows /\ Skip \in Nat /\ UsedPage.size = Size
  BY UsedPageIsAsked DEF ReachedInv, Find
<1>2. /\ count \in Nat /\ count <= Size
      /\ count = 0 => Cardinality(Present) <= Skip /\ upTo = 0
      /\ count > 0 => upTo = Skip + count /\ Skip + count <= Cardinality(Present)
      /\ count < Size => Cardinality(Present) <= Skip + count
      /\ Cardinality(Present) - Skip >= Size => count = Size
  BY <1>1, PlacesFound
<1>3. PICK front \in Firsts(upTo), skipped \in Firsts(upTo - count) :
        skipped \subseteq front /\ seen' = seen \union (front \ skipped)
  BY DEF Find
<1>4. /\ full' = (count >= Promised)
      /\ IF count < UsedPage.size THEN stage' = "done" /\ asked' = asked
         ELSE stage' = "count" /\ asked' = [asked EXCEPT !.page = @ + 1]
  BY DEF Find
<1> HIDE DEF places, count, upTo
<1>5. /\ front \in SUBSET Present /\ Cardinality(front) = upTo
      /\ skipped \in SUBSET Present /\ Cardinality(skipped) = upTo - count
      /\ \A i \in front, j \in Present \ front : ~Before(j, i)
      /\ \A i \in skipped, j \in Present \ skipped : ~Before(j, i)
  BY <1>3 DEF Firsts, kSubset
<1>6. count > 0 => Cardinality(front) = Skip + count /\ Cardinality(skipped) = Skip
  BY <1>1, <1>2, <1>5
<1>7. Skip + count <= Cardinality(Present) \/ count = 0
  BY <1>1, <1>2
<1> count \in Nat /\ front \in SUBSET Present /\ skipped \in SUBSET Present
  BY <1>2, <1>5
<1> WITNESS count \in Nat, front \in SUBSET Present, skipped \in SUBSET Present
<1>. QED
  BY <1>1, <1>2, <1>3, <1>4, <1>5, <1>6, <1>7

ListingInv == ListingTypeInv /\ ReachedInv

LEMMA ListingInvInit == ListingInit => ListingInv
<1> SUFFICES ASSUME ListingInit PROVE ListingInv
  OBVIOUS
<1>1. PICK atFirst \in 0 .. MaxAtFirst : \E old \in [1 .. atFirst -> {1, 2}] :
        stamp = [i \in Ids |-> IF i <= atFirst THEN old[i] ELSE 0]
  BY DEF ListingInit
<1>2. PICK old \in [1 .. atFirst -> {1, 2}] :
        stamp = [i \in Ids |-> IF i <= atFirst THEN old[i] ELSE 0]
  BY <1>1
<1>3. atFirst \in 0 .. MaxRows
  BY <1>1, ListingAssumption, ListingNumbers
<1>4. \A i \in Ids : i <= atFirst => old[i] \in {1, 2}
  BY <1>2, <1>3, ListingNumbers DEF Ids
<1>5. stamp \in [Ids -> Nat]
  BY <1>2, <1>4
<1>6. Stored = 1 .. atFirst
  BY <1>2, <1>3, <1>4, ListingNumbers DEF Stored, Ids
<1>7. /\ asked.page = 1 /\ asked.size \in Int /\ DOMAIN asked = {"page", "size"}
      /\ moment = 2 /\ stage = "idle" /\ total = 0
  BY ListingNumbers DEF ListingInit, Ints
<1>. QED
  BY <1>3, <1>5, <1>6, <1>7 DEF ListingInv, ListingTypeInv, ReachedInv

\* The steps that leave the reader alone change what is stored by one row at most.
LEMMA WritersKeepListing ==
  ASSUME ListingInv, Create \/ Touch \/ Delete \/ MomentPasses
  PROVE  ListingInv'
<1>1. /\ stage' = stage /\ asked' = asked /\ total' = total
      /\ Size' = Size /\ Skip' = Skip
  BY DEF Create, Touch, Delete, MomentPasses, reader, Size, Skip, BindPage
<1>2. ReachedInv'
  BY <1>1 DEF ListingInv, ReachedInv
<1>3. PICK n \in 0 .. MaxRows : Stored = 1 .. n
  BY DEF ListingInv, ListingTypeInv
<1>4. stamp \in [Ids -> Nat] /\ moment \in Nat /\ moment >= 2
  BY DEF ListingInv, ListingTypeInv
<1>5. CASE Create
  <2>1. PICK i \in Ids, t \in Times :
          i = Cardinality(Stored) + 1 /\ stamp' = [stamp EXCEPT ![i] = t]
    BY <1>5 DEF Create
  <2>2. Cardinality(Stored) = n
    BY <1>3, ListingNumbers
  <2>3. t \in Nat /\ t >= 1 /\ i = n + 1 /\ i \in 1 .. MaxRows
    BY <1>4, <2>1, <2>2, ListingNumbers DEF Ids
  <2>4. stamp' \in [Ids -> Nat]
    BY <1>4, <2>1, <2>3
  <2>5. Stored' = Stored \union {i}
    BY <1>4, <2>1, <2>3 DEF Stored
  <2>6. Stored' = 1 .. (n + 1) /\ n + 1 \in 0 .. MaxRows
    BY <1>3, <2>3, <2>5, ListingNumbers
  <2>. QED
    BY <1>1, <1>2, <1>5, <2>4, <2>6 DEF ListingInv, ListingTypeInv, Create
<1>6. CASE Touch
  <2>1. PICK i \in Present, t \in Times : t >= stamp[i] /\ stamp' = [stamp EXCEPT ![i] = t]
    BY <1>6 DEF Touch
  <2>2. t \in Nat /\ t >= 1 /\ i \in Ids /\ i \in Stored
    BY <1>4, <2>1, ListingNumbers DEF Present, Stored
  <2>3. stamp' \in [Ids -> Nat]
    BY <1>4, <2>1, <2>2
  <2>4. Stored' = Stored
    BY <1>4, <2>1, <2>2 DEF Stored
  <2>. QED
    BY <1>1, <1>2, <1>3, <1>6, <2>3, <2>4 DEF ListingInv, ListingTypeInv, Touch
<1>7. CASE Delete
  <2>1. Stored' = Stored
    BY <1>7 DEF Delete, Stored
  <2>. QED
    BY <1>1, <1>2, <1>3, <1>7, <2>1 DEF ListingInv, ListingTypeInv, Delete
<1>8. CASE MomentPasses
  <2>1. Stored' = Stored
    BY <1>8 DEF MomentPasses, Stored
  <2>. QED
    BY <1>1, <1>2, <1>3, <1>8, <2>1 DEF ListingInv, ListingTypeInv, MomentPasses
<1>. QED
  BY <1>5, <1>6, <1>7, <1>8

LEMMA ReaderKeepsListing ==
  ASSUME ListingInv, Start \/ Count \/ Find
  PROVE  ListingInv'
<1>1. ListingTypeInv /\ ReachedInv
  BY DEF ListingInv
<1>2. /\ moment' = moment /\ stamp' = stamp /\ gone' = gone
      /\ Stored' = Stored /\ Present' = Present
  BY DEF Start, Count, Find, Stored, Present
<1>3. CASE Start
  <2>1. stage' = "count" /\ asked' = asked /\ total' = total /\ asked.page = 1
    BY <1>1, <1>3 DEF Start, ReachedInv
  <2>2. Skip' = Skip /\ Skip = 0
    <3>1. Size \in Nat
      BY <1>1, UsedPageIsAsked
    <3>2. Skip = 0
      BY <2>1, <3>1 DEF Skip
    <3>. QED
      BY <2>1, <3>2 DEF Skip, Size, BindPage
  <2>. QED
    BY <1>1, <1>2, <2>1, <2>2, ListingNumbers DEF ListingInv, ListingTypeInv, ReachedInv
<1>4. CASE Count
  <2>1. stage = "count" /\ stage' = "find" /\ asked' = asked /\ total' = Cardinality(Present)
    BY <1>4 DEF Count
  <2>2. Skip' = Skip
    BY <2>1 DEF Skip, Size, BindPage
  <2>. QED
    BY <1>1, <1>2, <2>1, <2>2, PresentIsFinite DEF ListingInv, ListingTypeInv, ReachedInv
<1>5. CASE Find
  <2>1. PICK count \in Nat :
          /\ count <= Size /\ Skip \in Nat
          /\ Skip + count <= Cardinality(Present) \/ count = 0
          /\ IF count < Size THEN stage' = "done" /\ asked' = asked
             ELSE stage' = "count" /\ asked' = [asked EXCEPT !.page = @ + 1]
    BY <1>1, <1>5, FindStep
  <2>2. Size \in Nat /\ Size >= 1 /\ total' = 0
    BY <1>1, <1>5, UsedPageIsAsked DEF Find
  <2>3. CASE count < Size
    <3>1. stage' = "done" /\ asked' = asked
      BY <2>1, <2>3
    <3>. QED
      BY <1>1, <1>2, <2>2, <3>1 DEF ListingInv, ListingTypeInv, ReachedInv
  <2>4. CASE count = Size
    <3>1. stage' = "count" /\ asked' = [asked EXCEPT !.page = @ + 1]
      BY <2>1, <2>2, <2>4
    <3>2. /\ asked.page \in Nat /\ asked.page >= 1 /\ asked.size \in Int
          /\ DOMAIN asked = {"page", "size"}
      BY <1>1 DEF ListingTypeInv
    <3>3. asked'.page = asked.page + 1 /\ asked'.size = asked.size /\ DOMAIN asked' = DOMAIN asked
      BY <3>1, <3>2
    <3>4. Size' = Size
      BY <3>3 DEF Size, BindPage
    <3>5. (asked.page - 1 + 1) * Size = (asked.page - 1) * Size + Size
      BY <2>2, <3>2, Products
    <3>6. Skip' = Skip + Size
      BY <2>2, <3>2, <3>3, <3>4, <3>5 DEF Skip
    <3>7. Skip + Size <= MaxRows
      BY <2>1, <2>2, <2>4, PresentIsFinite, ListingNumbers
    <3>. QED
      BY <1>1, <1>2, <2>2, <3>1, <3>2, <3>3, <3>6, <3>7
         DEF ListingInv, ListingTypeInv, ReachedInv
  <2>. QED
    BY <2>1, <2>2, <2>3, <2>4
<1>. QED
  BY <1>3, <1>4, <1>5

LEMMA ListingInvStep == ListingInv /\ [ListingNext]_listingVars => ListingInv'
<1> SUFFICES ASSUME ListingInv, [ListingNext]_listingVars PROVE ListingInv'
  OBVIOUS
<1>1. CASE UNCHANGED listingVars
  BY <1>1 DEF listingVars, reader, ListingInv, ListingTypeInv, ReachedInv, Skip, Size, BindPage,
              Stored
<1>. QED
  BY <1>1, WritersKeepListing, ReaderKeepsListing DEF ListingNext

----------------------------------------------------------------------------
(* Listing: what a page promises *)

\* What was counted is still there, unless something was deleted since; and a page that is
\* not as full as promised is the last one.
FullInv ==
  /\ stage = "find" /\ ~removedSinceCount => total <= Cardinality(Present)
  /\ ~full => stage = "done" /\ removedSinceCount

LEMMA FullStep ==
  ASSUME ListingInv, FullInv, [ListingNext]_listingVars
  PROVE  FullInv'
<1>1. ListingTypeInv /\ ReachedInv
  BY DEF ListingInv
<1>2. CASE Create \/ Touch \/ MomentPasses
  <2>1. /\ stage' = stage /\ full' = full /\ total' = total
        /\ removedSinceCount' = removedSinceCount /\ gone' = gone
    BY <1>2 DEF Create, Touch, MomentPasses, reader
  <2>2. Present \subseteq Present'
    <3>1. stamp \in [Ids -> Nat] /\ moment \in Nat /\ moment >= 2
      BY <1>1 DEF ListingTypeInv
    <3>2. \A i \in Ids : stamp[i] > 0 => stamp'[i] > 0
      <4>1. CASE Create
        BY <3>1, <4>1, ListingNumbers DEF Create
      <4>2. CASE Touch
        BY <3>1, <4>2, ListingNumbers DEF Touch
      <4>3. CASE MomentPasses
        BY <4>3 DEF MomentPasses
      <4>. QED
        BY <1>2, <4>1, <4>2, <4>3
    <3>. QED
      BY <2>1, <3>2 DEF Present, Stored
  <2>3. Cardinality(Present) <= Cardinality(Present')
    <3>1. IsFiniteSet(Present')
      BY RowsAreFinite DEF Present, Stored
    <3>. QED
      BY <2>2, <3>1, FS_Subset
  <2>4. total \in Nat /\ Cardinality(Present) \in Nat /\ Cardinality(Present') \in Nat
    <3>1. Cardinality(Present') \in Nat
      BY RowsAreFinite DEF Present, Stored
    <3>. QED
      BY <1>1, <3>1, PresentIsFinite DEF ListingTypeInv
  <2>. QED
    BY <2>1, <2>3, <2>4 DEF FullInv
<1>3. CASE Delete
  BY <1>3 DEF Delete, reader, FullInv
<1>4. CASE Start
  BY <1>4 DEF Start, FullInv
<1>5. CASE Count
  <2>1. Present' = Present
    BY <1>5 DEF Count, Present, Stored
  <2>2. Cardinality(Present) \in Nat
    BY PresentIsFinite
  <2>. QED
    BY <1>5, <2>1, <2>2 DEF Count, FullInv
<1>6. CASE Find
  <2>1. PICK count \in Nat :
          /\ count <= Size /\ Skip \in Nat
          /\ count < Size => Cardinality(Present) <= Skip + count
          /\ full' = (count >= Promised)
          /\ IF count < Size THEN stage' = "done" /\ asked' = asked
             ELSE stage' = "count" /\ asked' = [asked EXCEPT !.page = @ + 1]
    BY <1>1, <1>6, FindStep
  <2>2. /\ Size \in Nat /\ Size >= 1 /\ total \in Nat /\ Cardinality(Present) \in Nat
        /\ removedSinceCount' = removedSinceCount
    BY <1>1, <1>6, UsedPageIsAsked, PresentIsFinite DEF Find, ListingTypeInv
  <2>3. Promised = IF total - Skip < 0 THEN 0
                   ELSE IF total - Skip < Size THEN total - Skip ELSE Size
    BY <1>1, UsedPageIsAsked DEF Promised, Skip
  <2>4. stage = "find"
    BY <1>6 DEF Find
  <2>5. ASSUME ~removedSinceCount PROVE count >= Promised
    <3>1. total <= Cardinality(Present)
      BY <2>4, <2>5 DEF FullInv
    <3>. QED
      BY <2>1, <2>2, <2>3, <3>1
  <2>6. ASSUME ~(count >= Promised) PROVE count < Size
    BY <2>1, <2>2, <2>3, <2>6
  <2>. QED
    BY <2>1, <2>2, <2>5, <2>6 DEF FullInv
<1>7. CASE UNCHANGED listingVars
  BY <1>7 DEF listingVars, reader, FullInv, Present, Stored
<1>. QED
  BY <1>2, <1>3, <1>4, <1>5, <1>6, <1>7 DEF ListingNext

\* Whatever is created and changed between the two queries, for every size of a page and
\* number of rows: only a deletion makes a page less full than the total sent with it
\* promises (base.go:40-46, security.go:54-59).
THEOREM PagesKeepTheirPromise == ListingSpec => []PagesAreFull
<1>1. ListingInit => FullInv
  BY DEF ListingInit, FullInv
<1>2. ListingInv /\ FullInv /\ [ListingNext]_listingVars => (ListingInv /\ FullInv)'
  BY ListingInvStep, FullStep
<1>3. FullInv => PagesAreFull
  BY DEF FullInv, PagesAreFull
<1>. QED
  BY <1>1, <1>2, <1>3, ListingInvInit, PTL DEF ListingSpec

----------------------------------------------------------------------------
(* Listing: what a reader misses *)

\* Whether the order of row i among the others is settled.
Ordered(i) == listed = "records" \/ Alone(i)

\* The rows that come before row i.
Ahead(i) == {j \in Present : Before(j, i)}

\* As long as nothing is deleted, a row that was left alone and not shown has all places
\* before it that the reader has passed.
SkipInv ==
  ~removed /\ stage \in {"count", "find", "done"} =>
    /\ untouched \subseteq Present
    /\ \A i \in untouched : Ordered(i) /\ i \notin seen =>
         stage # "done" /\ Skip <= Cardinality(Ahead(i))

LEMMA AheadIsFinite ==
  ASSUME NEW i
  PROVE  Cardinality(Ahead(i)) \in Nat /\ IsFiniteSet(Ahead(i))
BY PresentIsFinite DEF Ahead

\* Where the order is settled, of two rows one comes first, and not both.
LEMMA OneComesFirst ==
  ASSUME ListingTypeInv, NEW i \in Present, Ordered(i), NEW j \in Present, j # i
  PROVE  (Before(i, j) \/ Before(j, i)) /\ ~(Before(i, j) /\ Before(j, i))
<1>1. i \in Nat /\ j \in Nat /\ stamp[i] \in Nat /\ stamp[j] \in Nat
  BY ListingNumbers DEF Present, Stored, ListingTypeInv
<1>. QED
  BY <1>1 DEF Before, Ordered, Alone

LEMMA NoneBeforeItself ==
  ASSUME ListingTypeInv, NEW i \in Present
  PROVE  i \notin Ahead(i)
<1>1. i \in Nat /\ stamp[i] \in Nat
  BY ListingNumbers DEF Present, Stored, ListingTypeInv
<1>. QED
  BY <1>1 DEF Ahead, Before

\* A row that moves or arrives only comes before more of the others.
LEMMA WritersOnlyMoveAhead ==
  ASSUME ListingInv, SkipInv, Create \/ Touch \/ MomentPasses
  PROVE  SkipInv'
<1>1. /\ stage' = stage /\ seen' = seen /\ removed' = removed /\ gone' = gone
      /\ listed' = listed /\ untouched' \subseteq untouched /\ Skip' = Skip
  BY DEF Create, Touch, MomentPasses, reader, Skip, Size, BindPage
<1>2. stamp \in [Ids -> Nat] /\ moment \in Nat /\ moment >= 2
  BY DEF ListingInv, ListingTypeInv
<1>3. /\ \A i \in Ids : stamp'[i] \in Nat /\ stamp'[i] >= stamp[i]
      /\ \A i \in untouched' : i \in Present => stamp'[i] = stamp[i]
  <2>1. CASE Create
    <3>1. PICK k \in Ids, t \in Times :
            k = Cardinality(Stored) + 1 /\ stamp' = [stamp EXCEPT ![k] = t]
      BY <2>1 DEF Create
    <3>2. PICK n \in 0 .. MaxRows : Stored = 1 .. n
      BY DEF ListingInv, ListingTypeInv
    <3>3. k \notin Stored /\ stamp[k] = 0
      <4>1. k = n + 1
        BY <3>1, <3>2, ListingNumbers
      <4>2. k \notin Stored
        BY <3>2, <4>1, ListingNumbers
      <4>. QED
        BY <1>2, <3>1, <4>2 DEF Stored
    <3>4. t \in Nat
      BY <1>2, <3>1, ListingNumbers
    <3>. QED
      BY <1>2, <3>1, <3>3, <3>4 DEF Present
  <2>2. CASE Touch
    <3>1. PICK k \in Present, t \in Times :
            /\ t >= stamp[k] /\ stamp' = [stamp EXCEPT ![k] = t]
            /\ untouched' = untouched \ {k}
      BY <2>2 DEF Touch
    <3>2. t \in Nat /\ k \in Ids
      BY <1>2, <3>1, ListingNumbers DEF Present, Stored
    <3>. QED
      BY <1>2, <3>1, <3>2 DEF Present, Stored
  <2>3. CASE MomentPasses
    BY <1>2, <2>3 DEF MomentPasses
  <2>. QED
    BY <2>1, <2>2, <2>3
<1>4. Present \subseteq Present'
  BY <1>1, <1>2, <1>3 DEF Present, Stored
<1> SUFFICES ASSUME ~removed, stage \in {"count", "find", "done"}
             PROVE  /\ untouched' \subseteq Present'
                    /\ \A i \in untouched' : Ordered(i)' /\ i \notin seen =>
                         stage # "done" /\ Skip <= Cardinality(Ahead(i)')
  BY <1>1 DEF SkipInv
<1>5. untouched \subseteq Present
  BY DEF SkipInv
<1>6. ASSUME NEW i \in untouched', Ordered(i)', i \notin seen
      PROVE  stage # "done" /\ Skip <= Cardinality(Ahead(i)')
  <2>1. i \in Present /\ i \in untouched /\ stamp'[i] = stamp[i]
    BY <1>1, <1>3, <1>5
  <2>2. Ordered(i)
    <3>1. CASE listed = "records"
      BY <3>1 DEF Ordered
    <3>2. CASE listed # "records"
      <4>1. ~Touch
        BY <3>2 DEF Touch
      <4>2. \A j \in Present : stamp'[j] = stamp[j]
        <5>1. CASE MomentPasses
          BY <5>1 DEF MomentPasses
        <5>2. CASE Create
          <6>1. PICK k \in Ids, t \in Times :
                  k = Cardinality(Stored) + 1 /\ stamp' = [stamp EXCEPT ![k] = t]
            BY <5>2 DEF Create
          <6>2. PICK n \in 0 .. MaxRows : Stored = 1 .. n
            BY DEF ListingInv, ListingTypeInv
          <6>3. k = n + 1
            BY <6>1, <6>2, ListingNumbers
          <6>4. k \notin Present
            BY <6>2, <6>3, ListingNumbers DEF Present
          <6>. QED
            BY <1>2, <6>1, <6>4
        <5>. QED
          BY <4>1, <5>1, <5>2
      <4>3. Alone(i)'
        BY <1>1, <1>6, <3>2 DEF Ordered
      <4>. QED
        BY <1>4, <2>1, <4>2, <4>3 DEF Ordered, Alone
    <3>. QED
      BY <3>1, <3>2
  <2>3. stage # "done" /\ Skip <= Cardinality(Ahead(i))
    BY <1>6, <2>1, <2>2 DEF SkipInv
  <2>4. Ahead(i) \subseteq Ahead(i)'
    <3>1. ASSUME NEW j \in Present, Before(j, i)
          PROVE  j \in Present' /\ Before(j, i)'
      <4>1. j \in Ids /\ i \in Ids
        BY <2>1 DEF Present, Stored
      <4>2. /\ stamp[j] \in Nat /\ stamp[i] \in Nat /\ stamp'[j] \in Nat
            /\ stamp'[j] >= stamp[j] /\ i \in Nat /\ j \in Nat
        BY <1>2, <1>3, <4>1, ListingNumbers
      <4>. QED
        BY <1>1, <1>4, <2>1, <3>1, <4>2 DEF Before
    <3>. QED
      BY <3>1 DEF Ahead
  <2>5. Cardinality(Ahead(i)) <= Cardinality(Ahead(i)')
    <3>1. IsFiniteSet(Present')
      BY RowsAreFinite DEF Present, Stored
    <3>2. IsFiniteSet(Ahead(i)')
      BY <3>1, FS_Subset DEF Ahead
    <3>. QED
      BY <2>4, <3>2, FS_Subset
  <2>6. /\ Skip \in Nat /\ Cardinality(Ahead(i)) \in Nat /\ Cardinality(Ahead(i)') \in Nat
    <3>1. IsFiniteSet(Present')
      BY RowsAreFinite DEF Present, Stored
    <3>2. Cardinality(Ahead(i)') \in Nat
      BY <3>1, FS_Subset, FS_CardinalityType DEF Ahead
    <3>. QED
      BY <3>2, AheadIsFinite, UsedPageIsAsked DEF ListingInv
  <2>. QED
    BY <2>3, <2>5, <2>6
<1>. QED
  BY <1>1, <1>4, <1>5, <1>6

LEMMA FindMissesNothing ==
  ASSUME ListingInv, SkipInv, Find
  PROVE  SkipInv'
<1>1. ListingTypeInv /\ ReachedInv
  BY DEF ListingInv
<1>2. PICK count \in Nat, front \in SUBSET Present, skipped \in SUBSET Present :
        /\ count <= Size /\ Skip \in Nat
        /\ skipped \subseteq front
        /\ seen' = seen \union (front \ skipped)
        /\ count = 0 => Cardinality(Present) <= Skip
        /\ count > 0 => Cardinality(front) = Skip + count /\ Cardinality(skipped) = Skip
        /\ count < Size => Cardinality(Present) <= Skip + count
        /\ \A i \in front, j \in Present \ front : ~Before(j, i)
        /\ \A i \in skipped, j \in Present \ skipped : ~Before(j, i)
        /\ IF count < Size THEN stage' = "done" /\ asked' = asked
           ELSE stage' = "count" /\ asked' = [asked EXCEPT !.page = @ + 1]
  BY <1>1, FindStep
<1>3. /\ stage = "find" /\ stamp' = stamp /\ gone' = gone /\ listed' = listed
      /\ untouched' = untouched /\ removed' = removed
  BY DEF Find
<1>4. /\ Present' = Present
      /\ \A i \in Present : Ordered(i)' = Ordered(i) /\ Ahead(i)' = Ahead(i)
  BY <1>3 DEF Present, Stored, Ordered, Alone, Ahead, Before
<1>5. Size \in Nat /\ Size >= 1 /\ Cardinality(Present) \in Nat /\ IsFiniteSet(Present)
  BY <1>1, UsedPageIsAsked, PresentIsFinite
<1> SUFFICES ASSUME ~removed
             PROVE  /\ untouched \subseteq Present
                    /\ \A i \in untouched : Ordered(i)' /\ i \notin seen' =>
                         stage' # "done" /\ Skip' <= Cardinality(Ahead(i)')
  BY <1>3, <1>4 DEF SkipInv
<1>6. untouched \subseteq Present
  BY <1>3 DEF SkipInv
<1>7. ASSUME NEW i \in untouched, Ordered(i), i \notin seen'
      PROVE  count = Size /\ Skip + Size <= Cardinality(Ahead(i))
  <2>1. i \in Present /\ i \notin seen /\ i \notin front \ skipped
    BY <1>2, <1>6, <1>7
  <2>2. Skip <= Cardinality(Ahead(i))
    BY <1>3, <1>7, <2>1 DEF SkipInv
  <2>3. Cardinality(Ahead(i)) \in Nat /\ IsFiniteSet(Ahead(i)) /\ i \notin Ahead(i)
    BY <1>1, <2>1, AheadIsFinite, NoneBeforeItself
  <2>4. count > 0
    <3>1. SUFFICES ASSUME count = 0 PROVE FALSE
      BY <1>2
    <3>2. Ahead(i) \subseteq Present \ {i}
      BY <2>3 DEF Ahead
    <3>3. IsFiniteSet(Present \ {i}) /\ Cardinality(Present \ {i}) = Cardinality(Present) - 1
      BY <1>5, <2>1, FS_RemoveElement
    <3>4. Cardinality(Ahead(i)) <= Cardinality(Present) - 1
      BY <3>2, <3>3, FS_Subset
    <3>. QED
      BY <1>2, <1>5, <2>2, <2>3, <3>1, <3>4
  <2>5. i \notin skipped
    <3>1. SUFFICES ASSUME i \in skipped PROVE FALSE
      OBVIOUS
    <3>2. Ahead(i) \subseteq skipped \ {i}
      BY <1>2, <2>3, <3>1 DEF Ahead
    <3>3. IsFiniteSet(skipped) /\ Cardinality(skipped) = Skip
      BY <1>2, <1>5, <2>4, FS_Subset
    <3>4. IsFiniteSet(skipped \ {i}) /\ Cardinality(skipped \ {i}) = Skip - 1
      BY <3>1, <3>3, FS_RemoveElement
    <3>5. Cardinality(Ahead(i)) <= Skip - 1
      BY <3>2, <3>4, FS_Subset
    <3>. QED
      BY <1>2, <2>2, <2>3, <3>5
  <2>6. i \notin front
    BY <2>1, <2>5
  <2>7. front \subseteq Ahead(i)
    <3>1. ASSUME NEW j \in front
          PROVE  Before(j, i)
      BY <1>1, <1>2, <1>7, <2>1, <2>6, <3>1, OneComesFirst
    <3>. QED
      BY <3>1 DEF Ahead
  <2>8. Cardinality(front) = Skip + count /\ Skip + count <= Cardinality(Ahead(i))
    BY <1>2, <2>3, <2>4, <2>7, FS_Subset
  <2>9. count = Size
    <3>1. SUFFICES ASSUME count < Size PROVE FALSE
      BY <1>2, <1>5
    <3>2. Ahead(i) \subseteq Present \ {i}
      BY <2>3 DEF Ahead
    <3>3. IsFiniteSet(Present \ {i}) /\ Cardinality(Present \ {i}) = Cardinality(Present) - 1
      BY <1>5, <2>1, FS_RemoveElement
    <3>4. Cardinality(Ahead(i)) <= Cardinality(Present) - 1
      BY <3>2, <3>3, FS_Subset
    <3>. QED
      BY <1>2, <1>5, <2>3, <2>8, <3>1, <3>4
  <2>. QED
    BY <2>8, <2>9
<1>8. ASSUME count = Size
      PROVE  stage' # "done" /\ Skip' = Skip + Size
  <2>1. stage' = "count" /\ asked' = [asked EXCEPT !.page = @ + 1]
    BY <1>2, <1>5, <1>8
  <2>2. asked.page \in Nat /\ asked.page >= 1 /\ DOMAIN asked = {"page", "size"}
    BY <1>1 DEF ListingTypeInv
  <2>3. asked'.page = asked.page + 1 /\ asked'.size = asked.size
    BY <2>1, <2>2
  <2>4. Size' = Size
    BY <2>3 DEF Size, BindPage
  <2>5. (asked.page - 1 + 1) * Size = (asked.page - 1) * Size + Size
    BY <1>5, <2>2, Products
  <2>. QED
    BY <1>5, <2>1, <2>2, <2>3, <2>4, <2>5 DEF Skip
<1>. QED
  BY <1>4, <1>6, <1>7, <1>8

LEMMA SkipStep ==
  ASSUME ListingInv, SkipInv, [ListingNext]_listingVars
  PROVE  SkipInv'
<1>1. CASE Start
  <2>1. /\ stage' = "count" /\ asked' = asked /\ untouched' = Present /\ Present' = Present
        /\ asked.page = 1 /\ Size \in Nat
    BY <1>1, UsedPageIsAsked DEF Start, Present, Stored, ListingInv, ReachedInv
  <2>2. Skip' = 0
    <3>1. Size' = Size /\ (1 - 1) * Size = 0
      BY <2>1 DEF Size, BindPage
    <3>. QED
      BY <2>1, <3>1 DEF Skip
  <2>3. \A i \in Present' : Cardinality(Ahead(i)') \in Nat
    <3>1. \A i \in Present' : Ahead(i)' \in SUBSET Ids
      BY DEF Ahead, Present, Stored
    <3>. QED
      BY <3>1, RowsAreFinite
  <2>. QED
    BY <2>1, <2>2, <2>3 DEF SkipInv
<1>2. CASE Count
  <2>1. /\ stage = "count" /\ stage' = "find" /\ Skip' = Skip /\ untouched' = untouched
        /\ removed' = removed /\ seen' = seen /\ Present' = Present
    BY <1>2 DEF Count, Skip, Size, BindPage, Present, Stored
  <2>2. \A i : Ordered(i)' = Ordered(i) /\ Ahead(i)' = Ahead(i)
    BY <1>2, <2>1 DEF Count, Ordered, Alone, Ahead, Before
  <2>. QED
    BY <2>1, <2>2 DEF SkipInv
<1>3. CASE Delete
  BY <1>3 DEF Delete, SkipInv
<1>4. CASE UNCHANGED listingVars
  BY <1>4 DEF listingVars, reader, SkipInv, Ordered, Alone, Ahead, Before, Present, Stored,
              Skip, Size, BindPage
<1>. QED
  BY <1>1, <1>2, <1>3, <1>4, WritersOnlyMoveAhead, FindMissesNothing DEF ListingNext

\* However many rows arrive and move while a list is read, for every size of a page: at
\* the end every row that was there at the start and left alone has been shown, unless
\* something was deleted, or its place among the entries of its moment is open
\* (base.go:44, security.go:58).
THEOREM ReadersMissNothing == ListingSpec => []NothingIsSkipped
<1>1. ListingInit => SkipInv
  BY DEF ListingInit, SkipInv
<1>2. ListingInv /\ SkipInv /\ [ListingNext]_listingVars => (ListingInv /\ SkipInv)'
  BY ListingInvStep, SkipStep
<1>3. SkipInv => NothingIsSkipped
  BY DEF SkipInv, NothingIsSkipped, Ordered
<1>. QED
  BY <1>1, <1>2, <1>3, ListingInvInit, PTL DEF ListingSpec

----------------------------------------------------------------------------
(* The audit log: its entries *)

IsWrite(v) ==
  /\ DOMAIN v = {"phase", "actor", "type", "action", "began", "stamp", "done"}
  /\ v.type \in Types /\ v.action \in Actions
  /\ v.began \in Nat /\ v.stamp \in Nat /\ v.done \in Nat /\ v.began <= instant
  /\ v.phase \in {"stamped", "visible"} => v.began <= v.stamp /\ v.stamp <= instant
  /\ v.phase = "visible" => v.stamp <= v.done

\* An entry is stamped after its request began and before it was answered; and at any
\* time only finitely many requests have begun.
WritesInv ==
  /\ instant \in Nat
  /\ DOMAIN write = Writers /\ \A w \in Writers : IsWrite(write[w])
  /\ IsFiniteSet({w \in Writers : write[w].phase # "idle"})

LEMMA WritesInvInit == TrailInit => WritesInv
<1> SUFFICES ASSUME TrailInit PROVE WritesInv
  OBVIOUS
<1>1. PICK a \in Actors, t \in Types :
        write = [w \in Writers |-> [phase |-> "idle", actor |-> a, type |-> t,
                   action |-> "update", began |-> 0, stamp |-> 0, done |-> 0]]
  BY DEF TrailInit
<1>2. instant = 0
  BY DEF TrailInit
<1>3. \A w \in Writers : write[w].phase = "idle" /\ IsWrite(write[w])
  BY <1>1, <1>2 DEF IsWrite, Actions
<1>4. {w \in Writers : write[w].phase # "idle"} = {}
  BY <1>3
<1>. QED
  BY <1>1, <1>2, <1>3, <1>4, FS_EmptySet DEF WritesInv

\* A request takes a step of its own; what is visible is left as it is.
LEMMA OneWrites ==
  ASSUME WritesInv, NEW w \in Writers, NEW new, write' = [write EXCEPT ![w] = new],
         instant' = instant, IsWrite(new), write[w].phase # "visible"
  PROVE  WritesInv' /\ Entries \subseteq Entries' /\ \A e \in Entries : write'[e] = write[e]
<1>1. DOMAIN write' = Writers /\ \A v \in Writers : write'[v] = IF v = w THEN new ELSE write[v]
  BY DEF WritesInv
<1>2. \A v \in Writers : IsWrite(write'[v])
  BY <1>1 DEF WritesInv
<1>4. IsFiniteSet({v \in Writers : write'[v].phase # "idle"})
  <2> DEFINE old == {v \in Writers : write[v].phase # "idle"}
             now == {v \in Writers : write'[v].phase # "idle"}
  <2>1. IsFiniteSet(old \union {w})
    BY FS_AddElement DEF WritesInv
  <2>2. now \subseteq old \union {w}
    BY <1>1
  <2>. QED
    BY <2>1, <2>2, FS_Subset
<1>5. Entries \subseteq Entries' /\ \A e \in Entries : write'[e] = write[e]
  BY <1>1 DEF Entries
<1>6. \A v \in Writers : IsWrite(write[v])'
  BY <1>2 DEF IsWrite
<1>. QED
  BY <1>1, <1>4, <1>5, <1>6 DEF WritesInv

\* Entries are never changed or removed.
LEMMA EntriesStay ==
  ASSUME WritesInv, Writing \/ UNCHANGED <<instant, write>>
  PROVE  WritesInv' /\ Entries \subseteq Entries' /\ \A e \in Entries : write'[e] = write[e]
<1>1. ASSUME NEW w \in Writers, Begin(w)
      PROVE  WritesInv' /\ Entries \subseteq Entries' /\ \A e \in Entries : write'[e] = write[e]
  <2>1. PICK a \in Actors, t \in Types, action \in Actions :
          write' = [write EXCEPT ![w] = [phase |-> "storing", actor |-> a, type |-> t,
                      action |-> action, began |-> instant, stamp |-> 0, done |-> 0]]
    BY <1>1 DEF Begin
  <2> DEFINE new == [phase |-> "storing", actor |-> a, type |-> t,
                     action |-> action, began |-> instant, stamp |-> 0, done |-> 0]
  <2>2. IsWrite(new)
    BY DEF WritesInv, IsWrite
  <2>3. write[w].phase # "visible" /\ instant' = instant
    BY <1>1 DEF Begin
  <2> HIDE DEF new
  <2>. QED
    BY <2>1, <2>2, <2>3, OneWrites DEF new
<1>2. ASSUME NEW w \in Writers, Stamp(w)
      PROVE  WritesInv' /\ Entries \subseteq Entries' /\ \A e \in Entries : write'[e] = write[e]
  <2> DEFINE new == [write[w] EXCEPT !.phase = "stamped", !.stamp = instant]
  <2>1. IsWrite(write[w]) /\ instant \in Nat
    BY DEF WritesInv
  <2>2. IsWrite(new)
    BY <2>1 DEF IsWrite
  <2>3. write[w].phase # "visible" /\ instant' = instant /\ write' = [write EXCEPT ![w] = new]
    BY <1>2 DEF Stamp
  <2> HIDE DEF new
  <2>. QED
    BY <2>2, <2>3, OneWrites
<1>3. ASSUME NEW w \in Writers, AppendEntry(w)
      PROVE  WritesInv' /\ Entries \subseteq Entries' /\ \A e \in Entries : write'[e] = write[e]
  <2> DEFINE new == [write[w] EXCEPT !.phase = "visible", !.done = instant]
  <2>1. IsWrite(write[w]) /\ instant \in Nat /\ write[w].phase = "stamped"
    BY <1>3 DEF WritesInv, AppendEntry
  <2>2. IsWrite(new)
    BY <2>1 DEF IsWrite
  <2>3. write[w].phase # "visible" /\ instant' = instant /\ write' = [write EXCEPT ![w] = new]
    BY <1>3 DEF AppendEntry
  <2> HIDE DEF new
  <2>. QED
    BY <2>2, <2>3, OneWrites
<1>4. ASSUME NEW w \in Writers, NoEntry(w)
      PROVE  WritesInv' /\ Entries \subseteq Entries' /\ \A e \in Entries : write'[e] = write[e]
  <2> DEFINE new == [write[w] EXCEPT !.phase = "unaudited"]
  <2>1. IsWrite(write[w])
    BY DEF WritesInv
  <2>2. IsWrite(new)
    BY <2>1 DEF IsWrite
  <2>3. write[w].phase # "visible" /\ instant' = instant /\ write' = [write EXCEPT ![w] = new]
    BY <1>4 DEF NoEntry
  <2> HIDE DEF new
  <2>. QED
    BY <2>2, <2>3, OneWrites
<1>5. CASE InstantPasses
  <2>1. instant' = instant + 1 /\ write' = write /\ instant \in Nat
    BY <1>5 DEF InstantPasses, WritesInv
  <2>2. \A w \in Writers : IsWrite(write[w]) => IsWrite(write[w])'
    BY <2>1 DEF IsWrite
  <2>. QED
    BY <2>1, <2>2 DEF WritesInv, Entries
<1>6. CASE UNCHANGED <<instant, write>>
  BY <1>6 DEF WritesInv, Entries, IsWrite
<1>. QED
  BY <1>1, <1>2, <1>3, <1>4, <1>5, <1>6 DEF Writing

LEMMA EntriesAreFew ==
  ASSUME WritesInv
  PROVE  IsFiniteSet(Entries)
<1>1. Entries \subseteq {w \in Writers : write[w].phase # "idle"}
  BY DEF Entries
<1>. QED
  BY <1>1, FS_Subset DEF WritesInv

----------------------------------------------------------------------------
(* The audit log: histories *)

\* Nothing newer than a listed entry is missing before it.
HistoryInv ==
  /\ history.found \subseteq Entries
  /\ \A i \in DOMAIN history.list : history.list[i] \in history.found
  /\ \A i \in DOMAIN history.list : \A v \in history.found :
       write[v].stamp > write[history.list[i]].stamp => \E j \in 1 .. i - 1 : history.list[j] = v

\* SetToSeqs: as many places as elements, each element once, so every element somewhere.
LEMMA SeqsCover ==
  ASSUME NEW S, IsFiniteSet(S), NEW s \in SetToSeqs(S)
  PROVE  /\ s \in Seq(S) /\ DOMAIN s = 1 .. Len(s) /\ Len(s) \in Nat
         /\ \A v \in S : \E i \in 1 .. Len(s) : s[i] = v
<1> DEFINE n == Cardinality(S)
<1>1. n \in Nat
  BY FS_CardinalityType
<1>2. s \in [1 .. n -> S] /\ \A i, j \in 1 .. n : i # j => s[i] # s[j]
  BY DEF SetToSeqs
<1>3. IsFiniteSet(1 .. n) /\ Cardinality(1 .. n) = n
  BY <1>1, FS_Interval
<1>4. s \in Injection(1 .. n, S)
  BY <1>2 DEF Injection, IsInjective
<1>5. s \in Surjection(1 .. n, S)
  BY <1>3, <1>4, FS_Injection
<1> HIDE DEF n
<1>6. s \in Seq(S) /\ Len(s) = n
  BY <1>1, <1>2
<1>. QED
  BY <1>1, <1>2, <1>5, <1>6 DEF Surjection

LEMMA MinOfTwo ==
  ASSUME NEW a \in Nat, NEW b \in Nat
  PROVE  Min({a, b}) \in Nat /\ Min({a, b}) <= b
<1>1. \E x \in {a, b} : \A y \in {a, b} : x =< y
  OBVIOUS
<1>2. Min({a, b}) \in {a, b} /\ \A y \in {a, b} : Min({a, b}) <= y
  BY <1>1 DEF Min
<1>. QED
  BY <1>2

LEMMA LimitIsNatural ==
  ASSUME NEW wanted \in Nat
  PROVE  NormalizedLimit(wanted) \in Nat
BY TrailAssumption DEF NormalizedLimit

LEMMA HistoryStep ==
  WritesInv /\ HistoryInv /\ [HistoryNext]_trailVars => WritesInv' /\ HistoryInv'
<1> SUFFICES ASSUME WritesInv, HistoryInv, [HistoryNext]_trailVars PROVE WritesInv' /\ HistoryInv'
  OBVIOUS
<1>1. WritesInv' /\ Entries \subseteq Entries' /\ \A e \in Entries : write'[e] = write[e]
  BY EntriesStay DEF HistoryNext, ReadHistory, trailVars
<1>2. CASE history' = history
  BY <1>1, <1>2 DEF HistoryInv
<1>3. CASE ReadHistory
  <2>. PICK t \in Types, wanted \in 0 .. MaxLimit + 1 :
         \E order \in SetToSeqs({w \in Entries : write[w].type = t}) :
           /\ NewestFirst(order)
           /\ history' = [found |-> {w \in Entries : write[w].type = t},
                list |-> SubSeq(order, 1, Min({NormalizedLimit(wanted), Len(order)}))]
    BY <1>3 DEF ReadHistory
  <2>1. PICK order \in SetToSeqs({w \in Entries : write[w].type = t}) :
          /\ NewestFirst(order)
          /\ history' = [found |-> {w \in Entries : write[w].type = t},
               list |-> SubSeq(order, 1, Min({NormalizedLimit(wanted), Len(order)}))]
    BY <1>3 DEF ReadHistory
  <2> DEFINE found == {w \in Entries : write[w].type = t}
             n == Min({NormalizedLimit(wanted), Len(order)})
             shown == SubSeq(order, 1, n)
  <2>2. IsFiniteSet(found)
    BY EntriesAreFew, FS_Subset
  <2>3. /\ order \in Seq(found) /\ DOMAIN order = 1 .. Len(order) /\ Len(order) \in Nat
        /\ \A v \in found : \E i \in 1 .. Len(order) : order[i] = v
    BY <2>1, <2>2, SeqsCover
  <2>4. wanted \in Nat
    BY TrailAssumption
  <2>5. n \in Nat /\ n <= Len(order)
    BY <2>3, <2>4, LimitIsNatural, MinOfTwo
  <2> HIDE DEF n
  <2>6. DOMAIN shown = 1 .. n /\ \A i \in 1 .. n : shown[i] = order[i] /\ i \in 1 .. Len(order)
    BY <2>3, <2>5
  <2>7. history'.found = found /\ history'.list = shown /\ found \subseteq Entries
    BY <2>1 DEF n
  <2>8. write' = write /\ \A w \in found : write[w].stamp \in Nat
    BY <1>3 DEF ReadHistory, Entries, WritesInv, IsWrite
  <2>9. \A i \in 1 .. n : order[i] \in found
    BY <2>3, <2>6
  <2>10. ASSUME NEW i \in 1 .. n, NEW v \in found, write[v].stamp > write[order[i]].stamp
         PROVE  \E j \in 1 .. i - 1 : shown[j] = v
    <3>1. PICK j \in 1 .. Len(order) : order[j] = v
      BY <2>3
    <3>2. i \in 1 .. Len(order) /\ order[i] \in found
      BY <2>6, <2>9
    <3>3. write[v].stamp \in Nat /\ write[order[i]].stamp \in Nat
      BY <2>8, <3>2
    <3>4. ~(i < j)
      <4>1. i < j => write[order[i]].stamp >= write[order[j]].stamp
        BY <2>1, <2>3, <3>1, <3>2 DEF NewestFirst
      <4>. QED
        BY <2>10, <3>1, <3>3, <4>1
    <3>5. i # j
      BY <2>10, <3>1, <3>3
    <3>6. j \in 1 .. i - 1 /\ j \in 1 .. n
      BY <2>5, <3>2, <3>4, <3>5
    <3>. QED
      BY <2>6, <3>1, <3>6
  <2> HIDE DEF found, shown
  <2>11. Entries' = Entries
    BY <2>8 DEF Entries
  <2>12. HistoryInv'
    <3>1. history'.found \subseteq Entries'
      BY <2>7, <2>11
    <3>2. \A i \in DOMAIN history'.list : history'.list[i] \in history'.found
      BY <2>6, <2>7, <2>9
    <3>3. ASSUME NEW i \in DOMAIN history'.list, NEW v \in history'.found,
                 write'[v].stamp > write'[history'.list[i]].stamp
          PROVE  \E j \in 1 .. i - 1 : history'.list[j] = v
      <4>1. i \in 1 .. n /\ v \in found /\ history'.list[i] = order[i]
        BY <2>6, <2>7, <3>3
      <4>2. write[v].stamp > write[order[i]].stamp
        BY <2>8, <3>3, <4>1
      <4>. QED
        BY <2>7, <2>10, <4>1, <4>2
    <3>. QED
      BY <3>1, <3>2, <3>3 DEF HistoryInv
  <2>. QED
    BY <1>1, <2>12
<1>. QED
  BY <1>2, <1>3
     DEF HistoryNext, Writing, Begin, Stamp, AppendEntry, NoEntry, InstantPasses, trailVars

\* Two requests that followed each other are listed in their order, the later one first,
\* and the later one is never cut off before the earlier (service/security.go:68-72):
\* an entry is stamped between its request's beginning and its answer, and a history is
\* the beginning of a sequence of all that was found, newest first.
THEOREM HistoriesKeepTheOrder == HistorySpec => []HistoryRespectsRealTime
<1>1. TrailInit => WritesInv /\ HistoryInv
  BY WritesInvInit DEF TrailInit, NoHistory, HistoryInv
<1>2. WritesInv /\ HistoryInv => HistoryRespectsRealTime
  <2> SUFFICES ASSUME WritesInv, HistoryInv,
                      NEW u \in history.found, NEW v \in history.found,
                      write[u].done < write[v].began,
                      NEW i \in DOMAIN history.list, history.list[i] = u
               PROVE  \E j \in 1 .. i - 1 : history.list[j] = v
    BY DEF HistoryRespectsRealTime
  <2>1. u \in Entries /\ v \in Entries
    BY DEF HistoryInv
  <2>2. /\ IsWrite(write[u]) /\ write[u].phase = "visible"
        /\ IsWrite(write[v]) /\ write[v].phase = "visible"
    BY <2>1 DEF Entries, WritesInv
  <2>3. write[v].stamp > write[u].stamp
    BY <2>2 DEF IsWrite
  <2>. QED
    BY <2>3 DEF HistoryInv
<1>. QED
  BY <1>1, <1>2, HistoryStep, PTL DEF HistorySpec

----------------------------------------------------------------------------
(* The audit log: what the counts of groups add up to *)

LEMMA GroupsAreNumbered ==
  ASSUME NEW S, IsFiniteSet(S)
  PROVE  Cardinality(S) \in Nat /\ \E f : f \in Bijection(S, 1 .. Cardinality(S))
<1>1. Cardinality(S) \in Nat
  BY FS_CardinalityType
<1>2. IsFiniteSet(1 .. Cardinality(S)) /\ Cardinality(1 .. Cardinality(S)) = Cardinality(S)
  BY <1>1, FS_Interval
<1>3. ExistsBijection(S, 1 .. Cardinality(S))
  BY <1>2, FS_SameCardinalityBij
<1>. QED
  BY <1>1, <1>3 DEF ExistsBijection

LEMMA BijectionFacts ==
  ASSUME NEW S, NEW T, NEW f \in Bijection(S, T)
  PROVE  /\ \A x \in S : f[x] \in T
         /\ \A x, y \in S : f[x] = f[y] => x = y
         /\ \A t \in T : \E x \in S : f[x] = t
BY DEF Bijection, Injection, IsInjective, Surjection

\* However a finite set is grouped, the groups together count as much as the set: the
\* elements of each group are numbered, and an element is its group and its number.
LEMMA TotalOfGroups ==
  ASSUME NEW found, IsFiniteSet(found), NEW values, NEW of \in [found -> values], NEW counts,
         counts = [v \in values |-> Cardinality({w \in found : of[w] = v})]
  PROVE  Total(counts) = Cardinality(found)
<1> DEFINE Group(v)  == {w \in found : of[w] = v}
           Numbering(v) == CHOOSE f : f \in Bijection(Group(v), 1 .. counts[v])
           pairs == UNION {{v} \X (1 .. counts[v]) : v \in DOMAIN counts}
           tag == [w \in found |-> <<of[w], Numbering(of[w])[w]>>]
<1>1. ASSUME NEW v \in values
      PROVE  counts[v] \in Nat /\ Numbering(v) \in Bijection(Group(v), 1 .. counts[v])
  <2>1. IsFiniteSet(Group(v))
    BY FS_Subset
  <2>2. counts[v] = Cardinality(Group(v))
    OBVIOUS
  <2> HIDE DEF Group
  <2>. QED
    BY <2>1, <2>2, GroupsAreNumbered
<1>2. \A w \in found : of[w] \in values /\ w \in Group(of[w])
  OBVIOUS
<1>3. \A v, w : w \in Group(v) <=> w \in found /\ of[w] = v
  OBVIOUS
<1>4. DOMAIN counts = values
  OBVIOUS
<1>5. \A v \in values : \A n \in 1 .. counts[v] : <<v, n>> \in pairs
  BY <1>4
<1>6. \A p \in pairs : \E v \in values : \E n \in 1 .. counts[v] : p = <<v, n>>
  <2> SUFFICES ASSUME NEW p \in pairs
               PROVE  \E v \in values : \E n \in 1 .. counts[v] : p = <<v, n>>
    OBVIOUS
  <2>1. PICK v \in values : p \in {v} \X (1 .. counts[v])
    BY <1>4
  <2>. QED
    BY <2>1
<1>7. DOMAIN tag = found /\ \A w \in found : tag[w] = <<of[w], Numbering(of[w])[w]>>
  OBVIOUS
<1>8. tag \in [found -> {tag[w] : w \in found}]
  OBVIOUS
<1> HIDE DEF Group, Numbering, pairs, tag
<1>9. \A w \in found : Numbering(of[w])[w] \in 1 .. counts[of[w]]
  BY <1>1, <1>2, BijectionFacts
<1>10. \A w \in found : tag[w] \in pairs
  BY <1>2, <1>5, <1>7, <1>9
<1>11. ASSUME NEW u \in found, NEW w \in found, tag[u] = tag[w]
       PROVE  u = w
  <2>1. of[u] = of[w] /\ Numbering(of[w])[u] = Numbering(of[w])[w]
    BY <1>7, <1>11
  <2>2. u \in Group(of[w]) /\ w \in Group(of[w]) /\ of[w] \in values
    BY <1>2, <2>1
  <2>3. Numbering(of[w]) \in Bijection(Group(of[w]), 1 .. counts[of[w]])
    BY <1>1, <2>2
  <2>4. \A x, y \in Group(of[w]) : Numbering(of[w])[x] = Numbering(of[w])[y] => x = y
    BY <2>3, BijectionFacts
  <2>. QED
    BY <2>1, <2>2, <2>4
<1>12. ASSUME NEW p \in pairs
       PROVE  \E w \in found : tag[w] = p
  <2>1. PICK v \in values, n \in Nat : n \in 1 .. counts[v] /\ p = <<v, n>>
    BY <1>6, <1>12
  <2>2. PICK w \in Group(v) : Numbering(v)[w] = n
    <3>1. Numbering(v) \in Bijection(Group(v), 1 .. counts[v])
      BY <1>1, <2>1
    <3>2. \A k \in 1 .. counts[v] : \E w \in Group(v) : Numbering(v)[w] = k
      BY <3>1 DEF Bijection, Surjection
    <3>. QED
      BY <2>1, <3>2
  <2>. QED
    BY <1>3, <1>7, <2>1, <2>2
<1>13. tag \in [found -> pairs]
  BY <1>8, <1>10
<1>14. tag \in Bijection(found, pairs)
  BY <1>11, <1>12, <1>13 DEF Bijection, Injection, IsInjective, Surjection
<1>15. Cardinality(pairs) = Cardinality(found)
  BY <1>14, FS_Bijection DEF ExistsBijection
<1>. QED
  BY <1>15 DEF Total, pairs

\* The answers of the five queries to the same entries.
LEMMA ResultsOf ==
  ASSUME WritesInv, NEW found \in SUBSET Entries
  PROVE  /\ IsFiniteSet(found) /\ Cardinality(found) \in Nat
         /\ Result("total", found) = Cardinality(found)
         /\ Result("transitions", found)
              = Cardinality({w \in found : write[w].action = "transition"})
         /\ Result("transitions", found) \in Nat
         /\ Result("actors", found) \in Nat /\ Result("actors", found) <= Cardinality(found)
         /\ Result("actions", found)["transition"] = Result("transitions", found)
         /\ Total(Result("actions", found)) = Cardinality(found)
         /\ Total(Result("types", found)) = Cardinality(found)
<1>1. IsFiniteSet(found) /\ Cardinality(found) \in Nat
  BY EntriesAreFew, FS_Subset, FS_CardinalityType
<1>2. Result("total", found) = Cardinality(found)
  BY DEF Result
<1>3. Result("transitions", found) = Cardinality({w \in found : write[w].action = "transition"})
  BY DEF Result
<1>4. Result("transitions", found) \in Nat
  <2>1. IsFiniteSet({w \in found : write[w].action = "transition"})
    BY <1>1, FS_Subset
  <2>. QED
    BY <1>3, <2>1, FS_CardinalityType
<1>5. Result("actors", found) \in Nat /\ Result("actors", found) <= Cardinality(found)
  <2>1. Result("actors", found) = Cardinality({write[w].actor : w \in found})
    BY DEF Result
  <2> DEFINE of == [w \in found |-> write[w].actor]
             actors == {write[w].actor : w \in found}
  <2>2. of \in Surjection(found, actors)
    BY DEF Surjection
  <2>3. IsFiniteSet(actors) /\ Cardinality(actors) <= Cardinality(found)
    BY <1>1, <2>2, FS_Surjection
  <2>. QED
    BY <2>1, <2>3, FS_CardinalityType
<1>6. Result("actions", found)
        = [v \in Actions |-> Cardinality({w \in found : write[w].action = v})]
  BY DEF Result
<1>7. Result("types", found) = [v \in Types |-> Cardinality({w \in found : write[w].type = v})]
  BY DEF Result
<1>8. Result("actions", found)["transition"] = Result("transitions", found)
  BY <1>3, <1>6 DEF Actions
<1>9. \A w \in found : write[w].action \in Actions /\ write[w].type \in Types
  BY DEF WritesInv, IsWrite, Entries
<1>10. Total(Result("actions", found)) = Cardinality(found)
  <2> DEFINE of == [w \in found |-> write[w].action]
  <2>1. of \in [found -> Actions]
    BY <1>9
  <2>2. Result("actions", found) = [v \in Actions |-> Cardinality({w \in found : of[w] = v})]
    <3>1. ASSUME NEW v
          PROVE  {w \in found : of[w] = v} = {w \in found : write[w].action = v}
      OBVIOUS
    <3>. QED
      BY <1>6, <3>1
  <2> HIDE DEF of
  <2>. QED
    BY <1>1, <2>1, <2>2, TotalOfGroups
<1>11. Total(Result("types", found)) = Cardinality(found)
  <2> DEFINE of == [w \in found |-> write[w].type]
  <2>1. of \in [found -> Types]
    BY <1>9
  <2>2. Result("types", found) = [v \in Types |-> Cardinality({w \in found : of[w] = v})]
    <3>1. ASSUME NEW v
          PROVE  {w \in found : of[w] = v} = {w \in found : write[w].type = v}
      OBVIOUS
    <3>. QED
      BY <1>7, <3>1
  <2> HIDE DEF of
  <2>. QED
    BY <1>1, <2>1, <2>2, TotalOfGroups
<1>. QED
  BY <1>1, <1>2, <1>3, <1>4, <1>5, <1>8, <1>10, <1>11

----------------------------------------------------------------------------
(* The audit log: summaries *)

Query == {"total", "transitions", "actors", "actions", "types"}

\* Each query answers no less to more entries, and so does each of its groups.
LEMMA ResultsGrow ==
  ASSUME WritesInv, NEW found \in SUBSET Entries, NEW before \in SUBSET found
  PROVE  /\ \A query \in {"total", "transitions", "actors"} :
              /\ Result(query, before) \in Nat /\ Result(query, found) \in Nat
              /\ Result(query, before) <= Result(query, found)
         /\ \A v \in Actions : Result("actions", before)[v] <= Result("actions", found)[v]
         /\ \A v \in Types : Result("types", before)[v] <= Result("types", found)[v]
<1>1. IsFiniteSet(found)
  BY EntriesAreFew, FS_Subset
<1>2. ASSUME NEW more \in SUBSET found, NEW fewer \in SUBSET more
      PROVE  /\ Cardinality(fewer) \in Nat /\ Cardinality(more) \in Nat
             /\ Cardinality(fewer) <= Cardinality(more)
  <2>1. IsFiniteSet(more)
    BY <1>1, FS_Subset
  <2>. QED
    BY <2>1, FS_Subset, FS_CardinalityType
<1>3. /\ Result("total", before) \in Nat /\ Result("total", found) \in Nat
      /\ Result("total", before) <= Result("total", found)
  BY <1>2 DEF Result
<1>4. /\ Result("transitions", before) \in Nat /\ Result("transitions", found) \in Nat
      /\ Result("transitions", before) <= Result("transitions", found)
  <2> DEFINE T(s) == {w \in s : write[w].action = "transition"}
  <2>1. T(before) \subseteq T(found) /\ T(found) \subseteq found
    OBVIOUS
  <2>2. /\ Result("transitions", before) = Cardinality(T(before))
        /\ Result("transitions", found) = Cardinality(T(found))
    BY DEF Result
  <2> HIDE DEF T
  <2>. QED
    BY <1>2, <2>1, <2>2
<1>5. /\ Result("actors", before) \in Nat /\ Result("actors", found) \in Nat
      /\ Result("actors", before) <= Result("actors", found)
  <2> DEFINE A(s) == {write[w].actor : w \in s}
  <2>1. A(before) \subseteq A(found)
    OBVIOUS
  <2>2. /\ Result("actors", before) = Cardinality(A(before))
        /\ Result("actors", found) = Cardinality(A(found))
    BY DEF Result
  <2> DEFINE of == [w \in found |-> write[w].actor]
  <2>3. IsFiniteSet(A(found))
    <3>1. of \in Surjection(found, A(found))
      BY DEF Surjection
    <3>. QED
      BY <1>1, <3>1, FS_Surjection
  <2> HIDE DEF A
  <2>4. IsFiniteSet(A(before)) /\ Cardinality(A(before)) <= Cardinality(A(found))
    BY <2>1, <2>3, FS_Subset
  <2>. QED
    BY <2>2, <2>3, <2>4, FS_CardinalityType
<1>6. ASSUME NEW v \in Actions
      PROVE  Result("actions", before)[v] <= Result("actions", found)[v]
  <2> DEFINE T(s) == {w \in s : write[w].action = v}
  <2>1. T(before) \subseteq T(found) /\ T(found) \subseteq found
    OBVIOUS
  <2>2. /\ Result("actions", before)[v] = Cardinality(T(before))
        /\ Result("actions", found)[v] = Cardinality(T(found))
    BY DEF Result
  <2> HIDE DEF T
  <2>. QED
    BY <1>2, <2>1, <2>2
<1>7. ASSUME NEW v \in Types
      PROVE  Result("types", before)[v] <= Result("types", found)[v]
  <2> DEFINE T(s) == {w \in s : write[w].type = v}
  <2>1. T(before) \subseteq T(found) /\ T(found) \subseteq found
    OBVIOUS
  <2>2. /\ Result("types", before)[v] = Cardinality(T(before))
        /\ Result("types", found)[v] = Cardinality(T(found))
    BY DEF Result
  <2> HIDE DEF T
  <2>. QED
    BY <1>2, <2>1, <2>2
<1>. QED
  BY <1>3, <1>4, <1>5, <1>6, <1>7

\* What a query answers to entries that were there stays what it was.
LEMMA ResultsStay ==
  ASSUME NEW found, \A w \in found : write'[w] = write[w], NEW query \in Query
  PROVE  Result(query, found)' = Result(query, found)
<1>1. /\ {w \in found : write'[w].action = "transition"}
           = {w \in found : write[w].action = "transition"}
      /\ {write'[w].actor : w \in found} = {write[w].actor : w \in found}
      /\ \A v : {w \in found : write'[w].action = v} = {w \in found : write[w].action = v}
      /\ \A v : {w \in found : write'[w].type = v} = {w \in found : write[w].type = v}
  OBVIOUS
<1>2. [v \in Actions |-> Cardinality({w \in found : write'[w].action = v})]
        = [v \in Actions |-> Cardinality({w \in found : write[w].action = v})]
  BY <1>1
<1>3. [v \in Types |-> Cardinality({w \in found : write'[w].type = v})]
        = [v \in Types |-> Cardinality({w \in found : write[w].type = v})]
  BY <1>1
<1>4. CASE query \in {"total", "transitions", "actors"}
  BY <1>1, <1>4 DEF Result
<1>5. CASE query = "actions"
  BY <1>2, <1>5 DEF Result
<1>6. CASE query = "types"
  BY <1>3, <1>6 DEF Result
<1>. QED
  BY <1>4, <1>5, <1>6 DEF Query

LEMMA QueriesAre ==
  /\ Queries[1] = "total" /\ Queries[2] = "transitions" /\ Queries[3] = "actors"
  /\ Queries[4] = "actions" /\ Queries[5] = "types" /\ DOMAIN Queries = 1 .. 5
  /\ Len(Queries) = 5 /\ \A i \in 1 .. 5 : Queries[i] \in Query
BY DEF Queries, Query

\* The entries that the queries saw: those of the beginning, and ever more.
Seen(seenBy, k, n, low, high) ==
  /\ low \subseteq high
  /\ \A i \in 1 .. 5 : i < k =>
       /\ n[i] = Result(Queries[i], seenBy[i])
       /\ low \subseteq seenBy[i] /\ seenBy[i] \subseteq high
       /\ \A j \in 1 .. 5 : j < i => seenBy[j] \subseteq seenBy[i]

SummaryInv ==
  /\ DOMAIN summary = {"next", "since", "atStart", "atEnd", "numbers"}
  /\ summary.next \in 0 .. 6
  /\ summary.next > 0 => /\ Len(summary.numbers) = summary.next - 1
                         /\ \E S : summary.numbers \in Seq(S)
  /\ summary.atStart \subseteq Recent(summary.since)
  /\ summary.atEnd \subseteq Recent(summary.since)
  /\ summary.next > 1 =>
       \E seenBy \in [1 .. 5 -> SUBSET Entries] :
         Seen(seenBy, summary.next, summary.numbers, summary.atStart, summary.atEnd)

LEMMA AppendFacts ==
  ASSUME NEW S, NEW s \in Seq(S), NEW x
  PROVE  /\ Append(s, x) \in Seq(S \union {x}) /\ Len(Append(s, x)) = Len(s) + 1
         /\ \A i \in 1 .. Len(s) : Append(s, x)[i] = s[i]
         /\ Append(s, x)[Len(s) + 1] = x /\ Len(s) \in Nat
<1>1. s \in Seq(S \union {x}) /\ x \in S \union {x}
  OBVIOUS
<1>. QED
  BY <1>1

LEMMA SummaryInvInit == TrailInit => SummaryInv
<1> SUFFICES ASSUME TrailInit PROVE SummaryInv
  OBVIOUS
<1>1. summary = [next |-> 0, since |-> 0, atStart |-> {}, atEnd |-> {}, numbers |-> <<>>]
  BY DEF TrailInit, NoSummary
<1>2. /\ DOMAIN summary = {"next", "since", "atStart", "atEnd", "numbers"}
      /\ summary.next = 0 /\ summary.atStart = {} /\ summary.atEnd = {}
  BY <1>1
<1>. QED
  BY <1>2 DEF SummaryInv

\* A writer's step adds to what is recent; what was seen stays as it was.
LEMMA WritingKeeps ==
  ASSUME WritesInv, SummaryInv, summary' = summary, Writing \/ UNCHANGED <<instant, write>>
  PROVE  SummaryInv'
<1>1. Entries \subseteq Entries' /\ \A e \in Entries : write'[e] = write[e]
  BY EntriesStay
<1>2. \A since : Recent(since) \subseteq Recent(since)'
  BY <1>1 DEF Recent
<1>3. ASSUME summary.next > 1
      PROVE  \E seenBy \in [1 .. 5 -> SUBSET Entries'] :
               Seen(seenBy, summary.next, summary.numbers, summary.atStart, summary.atEnd)'
  <2>1. PICK seenBy \in [1 .. 5 -> SUBSET Entries] :
          Seen(seenBy, summary.next, summary.numbers, summary.atStart, summary.atEnd)
    BY <1>3 DEF SummaryInv
  <2>2. seenBy \in [1 .. 5 -> SUBSET Entries']
    BY <1>1
  <2>3. \A i \in 1 .. 5 : Result(Queries[i], seenBy[i])' = Result(Queries[i], seenBy[i])
    <3> SUFFICES ASSUME NEW i \in 1 .. 5
                 PROVE  Result(Queries[i], seenBy[i])' = Result(Queries[i], seenBy[i])
      OBVIOUS
    <3>1. Queries[i] \in Query /\ \A w \in seenBy[i] : write'[w] = write[w]
      BY <1>1, QueriesAre
    <3>2. Result(Queries[i], seenBy[i])' = Result(Queries[i], seenBy[i])
      BY <3>1, ResultsStay
    <3>. QED
      BY <3>2
  <2>4. Seen(seenBy, summary.next, summary.numbers, summary.atStart, summary.atEnd)'
    BY <2>1, <2>3 DEF Seen
  <2>. QED
    BY <2>2, <2>4
<1>4. /\ summary.atStart \subseteq Recent(summary.since)'
      /\ summary.atEnd \subseteq Recent(summary.since)'
  BY <1>2 DEF SummaryInv
<1>. QED
  BY <1>3, <1>4 DEF SummaryInv

LEMMA QueryKeeps ==
  ASSUME WritesInv, SummaryInv, RunQuery
  PROVE  SummaryInv'
<1> DEFINE k == summary.next
           found == Recent(summary.since)
           r == Result(Queries[k], found)
           numbers == Append(summary.numbers, r)
<1>1. k \in 1 .. 5
  BY DEF RunQuery, Queries
<1>2. /\ summary' = [summary EXCEPT !.next = k + 1, !.numbers = numbers, !.atEnd = found]
      /\ write' = write
  BY DEF RunQuery
<1>3. PICK S : summary.numbers \in Seq(S)
  BY <1>1 DEF SummaryInv
<1>4. Len(summary.numbers) = k - 1
  BY <1>1 DEF SummaryInv
<1> HIDE DEF found, r
<1>5. /\ numbers \in Seq(S \union {r}) /\ Len(numbers) = k
      /\ \A i \in 1 .. k - 1 : numbers[i] = summary.numbers[i]
      /\ numbers[k] = r
  BY <1>1, <1>3, <1>4, AppendFacts
<1>6. /\ DOMAIN summary' = {"next", "since", "atStart", "atEnd", "numbers"}
      /\ summary'.next = k + 1 /\ summary'.numbers = numbers /\ summary'.atEnd = found
      /\ summary'.since = summary.since /\ summary'.atStart = summary.atStart
  BY <1>2 DEF SummaryInv
<1> HIDE DEF numbers
<1>7. /\ summary.atStart \subseteq found /\ summary.atEnd \subseteq found
      /\ found \subseteq Entries
  BY DEF SummaryInv, found, Recent
<1>8. Recent(summary.since)' = found /\ Entries' = Entries
  BY <1>2, <1>6 DEF Recent, Entries, found
<1>9. PICK before \in [1 .. 5 -> SUBSET Entries] :
        k > 1 => Seen(before, k, summary.numbers, summary.atStart, summary.atEnd)
  <2>1. CASE k > 1
    BY <2>1 DEF SummaryInv
  <2>2. CASE ~(k > 1)
    <3>1. [i \in 1 .. 5 |-> {}] \in [1 .. 5 -> SUBSET Entries]
      OBVIOUS
    <3>. QED
      BY <2>2, <3>1
  <2>. QED
    BY <2>1, <2>2
<1>9a. PICK after : after = [before EXCEPT ![k] = found]
  OBVIOUS
<1>10. /\ after \in [1 .. 5 -> SUBSET Entries] /\ after[k] = found
       /\ \A i \in 1 .. 5 : i # k => after[i] = before[i]
  BY <1>1, <1>7, <1>9a
<1> HIDE DEF k
<1>11. \A i \in 1 .. 5 : Result(Queries[i], after[i])' = Result(Queries[i], after[i])
  <2> SUFFICES ASSUME NEW i \in 1 .. 5
               PROVE  Result(Queries[i], after[i])' = Result(Queries[i], after[i])
    OBVIOUS
  <2>1. Queries[i] \in Query /\ \A w \in after[i] : write'[w] = write[w]
    BY <1>2, QueriesAre
  <2>. QED
    BY <2>1, ResultsStay
<1>12. Seen(after, k + 1, numbers, summary.atStart, found)
  <2> SUFFICES ASSUME NEW i \in 1 .. 5, i < k + 1
               PROVE  /\ numbers[i] = Result(Queries[i], after[i])
                      /\ summary.atStart \subseteq after[i] /\ after[i] \subseteq found
                      /\ \A j \in 1 .. 5 : j < i => after[j] \subseteq after[i]
    BY <1>7 DEF Seen
  <2>1. \A j \in 1 .. 5 : j < k => before[j] \subseteq found
    BY <1>1, <1>7, <1>9 DEF Seen
  <2>2. CASE i = k
    BY <1>1, <1>5, <1>7, <1>10, <2>1, <2>2 DEF r
  <2>3. CASE i < k
    <3>1. k > 1 /\ i # k /\ \A j \in 1 .. 5 : j < i => j # k
      BY <1>1, <2>3
    <3>2. numbers[i] = summary.numbers[i]
      BY <1>1, <1>5, <2>3
    <3>3. /\ summary.numbers[i] = Result(Queries[i], before[i])
          /\ summary.atStart \subseteq before[i]
          /\ \A j \in 1 .. 5 : j < i => before[j] \subseteq before[i]
      BY <1>9, <2>3, <3>1 DEF Seen
    <3>. QED
      BY <1>10, <2>1, <2>3, <3>1, <3>2, <3>3
  <2>. QED
    BY <1>1, <2>2, <2>3
<1>13. Seen(after, summary'.next, summary'.numbers, summary'.atStart, summary'.atEnd)
  BY <1>6, <1>12
<1>14. /\ summary'.atStart \subseteq summary'.atEnd
       /\ \A i \in 1 .. 5 : i < summary'.next =>
            /\ summary'.numbers[i] = Result(Queries[i], after[i])'
            /\ summary'.atStart \subseteq after[i] /\ after[i] \subseteq summary'.atEnd
            /\ \A j \in 1 .. 5 : j < i => after[j] \subseteq after[i]
  BY <1>11, <1>13 DEF Seen
<1>15. \E seenBy \in [1 .. 5 -> SUBSET Entries'] :
         Seen(seenBy, summary.next, summary.numbers, summary.atStart, summary.atEnd)'
  <2>1. after \in [1 .. 5 -> SUBSET Entries']
    BY <1>8, <1>10
  <2>. QED
    BY <1>14, <2>1 DEF Seen
<1>. QED
  BY <1>1, <1>5, <1>6, <1>7, <1>8, <1>15 DEF SummaryInv

LEMMA SummaryStep ==
  WritesInv /\ SummaryInv /\ [SummaryNext]_trailVars => WritesInv' /\ SummaryInv'
<1> SUFFICES ASSUME WritesInv, SummaryInv, [SummaryNext]_trailVars PROVE WritesInv' /\ SummaryInv'
  OBVIOUS
<1>1. WritesInv'
  BY EntriesStay DEF SummaryNext, StartSummary, RunQuery, QueryFails, trailVars
<1>2. CASE summary' = summary /\ (Writing \/ UNCHANGED <<instant, write>>)
  BY <1>1, <1>2, WritingKeeps
<1>3. CASE StartSummary
  <2>1. PICK wanted \in 0 .. MaxWindow + 1 :
          summary' = [next |-> 1, since |-> Since(wanted), atStart |-> Recent(Since(wanted)),
                      atEnd |-> {}, numbers |-> <<>>]
    BY <1>3 DEF StartSummary
  <2>2. /\ DOMAIN summary' = {"next", "since", "atStart", "atEnd", "numbers"}
        /\ summary'.next = 1 /\ summary'.atStart = Recent(summary'.since) /\ summary'.atEnd = {}
        /\ summary'.numbers = <<>>
    BY <2>1
  <2>3. Recent(summary.since)' = Recent(summary'.since)
    BY <1>3 DEF StartSummary, Recent, Entries
  <2>4. <<>> \in Seq({}) /\ Len(<<>>) = 0
    OBVIOUS
  <2>. QED
    BY <1>1, <2>2, <2>3, <2>4 DEF SummaryInv
<1>4. CASE RunQuery
  BY <1>1, <1>4, QueryKeeps
<1>5. CASE QueryFails
  <2>1. summary' = [next |-> 0, since |-> 0, atStart |-> {}, atEnd |-> {}, numbers |-> <<>>]
    BY <1>5 DEF QueryFails, NoSummary
  <2>2. /\ DOMAIN summary' = {"next", "since", "atStart", "atEnd", "numbers"}
        /\ summary'.next = 0 /\ summary'.atStart = {} /\ summary'.atEnd = {}
    BY <2>1
  <2>. QED
    BY <1>1, <2>2 DEF SummaryInv
<1>6. Writing => summary' = summary
  BY DEF Writing, Begin, Stamp, AppendEntry, NoEntry, InstantPasses
<1>. QED
  BY <1>1, <1>2, <1>3, <1>4, <1>5, <1>6 DEF SummaryNext, trailVars

LEMMA NumberOf ==
  /\ Number("total") = summary.numbers[1] /\ Number("transitions") = summary.numbers[2]
  /\ Number("actors") = summary.numbers[3] /\ Number("actions") = summary.numbers[4]
  /\ Number("types") = summary.numbers[5]
<1>1. /\ Queries[1] = "total" /\ Queries[2] = "transitions" /\ Queries[3] = "actors"
      /\ Queries[4] = "actions" /\ Queries[5] = "types" /\ DOMAIN Queries = 1 .. 5
  BY QueriesAre
<1>2. \A i \in DOMAIN Queries : i = 1 \/ i = 2 \/ i = 3 \/ i = 4 \/ i = 5
  BY <1>1
<1>3. 1 \in DOMAIN Queries /\ 2 \in DOMAIN Queries /\ 3 \in DOMAIN Queries
      /\ 4 \in DOMAIN Queries /\ 5 \in DOMAIN Queries
  BY <1>1
<1>4. (CHOOSE i \in DOMAIN Queries : Queries[i] = "total") = 1
  BY <1>1, <1>2, <1>3
<1>5. (CHOOSE i \in DOMAIN Queries : Queries[i] = "transitions") = 2
  BY <1>1, <1>2, <1>3
<1>6. (CHOOSE i \in DOMAIN Queries : Queries[i] = "actors") = 3
  BY <1>1, <1>2, <1>3
<1>7. (CHOOSE i \in DOMAIN Queries : Queries[i] = "actions") = 4
  BY <1>1, <1>2, <1>3
<1>8. (CHOOSE i \in DOMAIN Queries : Queries[i] = "types") = 5
  BY <1>1, <1>2, <1>3
<1>. QED
  BY <1>4, <1>5, <1>6, <1>7, <1>8 DEF Number

\* Whatever is written while the five queries run, each number of the summary, and of
\* each group in it, lies between what its query would have answered at the beginning
\* and at the end, and the later queries count no less (repository/security.go:68-88):
\* entries stay, each query sees those of its moment, and however they are grouped the
\* groups count each of them once.
THEOREM SummariesAreBracketed == SummarySpec => []SummaryIsBracketed
<1>1. TrailInit => WritesInv /\ SummaryInv
  BY WritesInvInit, SummaryInvInit
<1>2. WritesInv /\ SummaryInv => SummaryIsBracketed
  <2> SUFFICES ASSUME WritesInv, SummaryInv, summary.next > 5
               PROVE  SummaryIsBracketed
    BY QueriesAre DEF SummaryIsBracketed
  <2>1. summary.next = 6
    BY DEF SummaryInv
  <2>2. PICK seenBy \in [1 .. 5 -> SUBSET Entries] :
          Seen(seenBy, 6, summary.numbers, summary.atStart, summary.atEnd)
    BY <2>1 DEF SummaryInv
  <2>3. summary.atEnd \in SUBSET Entries
    BY DEF SummaryInv, Recent
  <2>4. /\ \A i \in 1 .. 5 : /\ seenBy[i] \in SUBSET summary.atEnd
                             /\ seenBy[i] \in SUBSET Entries
                             /\ summary.atStart \in SUBSET seenBy[i]
        /\ seenBy[1] \in SUBSET seenBy[4] /\ seenBy[2] \in SUBSET seenBy[4]
        /\ seenBy[3] \in SUBSET seenBy[4] /\ seenBy[4] \in SUBSET seenBy[5]
    BY <2>2 DEF Seen
  <2>5. /\ Number("total") = Result("total", seenBy[1])
        /\ Number("transitions") = Result("transitions", seenBy[2])
        /\ Number("actors") = Result("actors", seenBy[3])
        /\ Number("actions") = Result("actions", seenBy[4])
        /\ Number("types") = Result("types", seenBy[5])
    BY <2>2, NumberOf, QueriesAre DEF Seen
  <2>6. ASSUME NEW query \in {"total", "transitions", "actors"}
        PROVE  Between(Result(query, summary.atStart), Number(query), Result(query, summary.atEnd))
    <3>1. CASE query = "total"
      BY <2>3, <2>4, <2>5, <3>1, ResultsGrow DEF Between
    <3>2. CASE query = "transitions"
      BY <2>3, <2>4, <2>5, <3>2, ResultsGrow DEF Between
    <3>3. CASE query = "actors"
      BY <2>3, <2>4, <2>5, <3>3, ResultsGrow DEF Between
    <3>. QED
      BY <3>1, <3>2, <3>3
  <2>7. ASSUME NEW v \in Actions
        PROVE  Between(Result("actions", summary.atStart)[v], Number("actions")[v],
                       Result("actions", summary.atEnd)[v])
    BY <2>3, <2>4, <2>5, ResultsGrow DEF Between
  <2>8. ASSUME NEW v \in Types
        PROVE  Between(Result("types", summary.atStart)[v], Number("types")[v],
                       Result("types", summary.atEnd)[v])
    BY <2>3, <2>4, <2>5, ResultsGrow DEF Between
  <2>9. /\ Result("total", seenBy[1]) <= Result("total", seenBy[4])
        /\ Result("total", seenBy[4]) <= Result("total", seenBy[5])
        /\ Result("total", seenBy[3]) <= Result("total", seenBy[4])
        /\ Result("transitions", seenBy[2]) <= Result("transitions", seenBy[4])
    BY <2>4, ResultsGrow
  <2>9a. ASSUME NEW i \in 1 .. 5
         PROVE  /\ Result("total", seenBy[i]) = Cardinality(seenBy[i])
                /\ Cardinality(seenBy[i]) \in Nat
                /\ Result("actors", seenBy[i]) \in Nat
                /\ Result("actors", seenBy[i]) <= Cardinality(seenBy[i])
                /\ Result("actions", seenBy[i])["transition"] = Result("transitions", seenBy[i])
                /\ Total(Result("actions", seenBy[i])) = Cardinality(seenBy[i])
                /\ Total(Result("types", seenBy[i])) = Cardinality(seenBy[i])
    <3>1. seenBy[i] \in SUBSET Entries
      BY <2>4
    <3>. QED
      BY <3>1, ResultsOf
  <2>10. /\ Total(Number("actions")) = Result("total", seenBy[4])
         /\ Total(Number("types")) = Result("total", seenBy[5])
         /\ Number("actions")["transition"] = Result("transitions", seenBy[4])
         /\ Result("actors", seenBy[3]) <= Result("total", seenBy[3])
    BY <2>5, <2>9a
  <2>11. /\ Result("actors", seenBy[3]) \in Nat /\ Result("total", seenBy[3]) \in Nat
         /\ Result("total", seenBy[4]) \in Nat
    BY <2>9a
  <2>12. /\ Number("total") <= Total(Number("actions"))
         /\ Total(Number("actions")) <= Total(Number("types"))
         /\ Number("transitions") <= Number("actions")["transition"]
         /\ Number("actors") <= Total(Number("actions"))
    BY <2>5, <2>9, <2>10, <2>11
  <2>. QED
    BY <2>6, <2>7, <2>8, <2>12 DEF SummaryIsBracketed
<1>. QED
  BY <1>1, <1>2, SummaryStep, PTL DEF SummarySpec

----------------------------------------------------------------------------
(* The workbench: what is known of the record *)

IsItem(item) ==
  DOMAIN item = {"status", "version", "fields", "deleted"} /\ item.version \in Nat

DeskTypeInv ==
  /\ kind \in DOMAIN Kinds /\ role \in Roles
  /\ IsItem(row) /\ row.version >= 1 /\ row.status \in DOMAIN Graph
  /\ IsItem(list) /\ IsItem(dialog.item)
  /\ DOMAIN load = Loads \union Calls /\ DOMAIN call = Calls
  /\ \A x \in Loads \union Calls : DOMAIN load[x] = {"phase", "found"} /\ IsItem(load[x].found)
  /\ \A c \in Calls : /\ DOMAIN call[c] = {"phase", "item", "status", "version"}
                      /\ IsItem(call[c].item) /\ call[c].version \in Nat

\* What the page once read of the record is older, or it has the status of now.
Known(item) ==
  item.version <= row.version /\ (item.version = row.version => item.status = row.status)

KnownInv ==
  /\ Known(list) /\ Known(dialog.item)
  /\ \A x \in Loads \union Calls : Known(load[x].found)
  /\ \A c \in Calls : Known(call[c].item)

\* Each accepted move made the version after the one that was shown, and no two the same.
MovesInv ==
  /\ \A m \in accepted :
       /\ m.shown.version \in Nat /\ m.shown.version < row.version
       /\ m.from = m.shown.status
  /\ \A m, n \in accepted : m.shown.version = n.shown.version => m = n

\* The load at the end of a call finds what the call made, or something later.
ReloadInv ==
  \A c \in Calls : call[c].phase \in {"accepted", "reloading"} =>
    /\ call[c].version > 0 /\ call[c].version <= row.version
    /\ call[c].phase = "reloading" /\ load[c].phase = "read" /\ load[c].found.version > 0 =>
         load[c].found.version >= call[c].version

DeskInv == DeskTypeInv /\ KnownInv /\ MovesInv /\ ReloadInv

\* No graph leads out of its statuses.
LEMMA GraphsAreClosed ==
  ASSUME NEW k \in DOMAIN Kinds, NEW from \in DOMAIN Kinds[k].graph,
         NEW to \in Kinds[k].graph[from]
  PROVE  to \in DOMAIN Kinds[k].graph
<1>1. CASE k = "artifact"
  <2>1. Kinds[k].graph = ArtifactTransitions
    BY <1>1 DEF Kinds, Kind
  <2>. QED
    BY <2>1 DEF ArtifactTransitions
<1>2. CASE k = "plan"
  <2>1. Kinds[k].graph = TreatmentPlanTransitions
    BY <1>2 DEF Kinds, Kind
  <2>. QED
    BY <2>1 DEF TreatmentPlanTransitions
<1>3. CASE k = "test"
  <2>1. Kinds[k].graph = MaterialTestTransitions
    BY <1>3 DEF Kinds, Kind
  <2>. QED
    BY <2>1 DEF MaterialTestTransitions
<1>4. CASE k = "approval"
  <2>1. Kinds[k].graph = StageApprovalTransitions
    BY <1>4 DEF Kinds, Kind
  <2>. QED
    BY <2>1 DEF StageApprovalTransitions
<1>. QED
  BY <1>1, <1>2, <1>3, <1>4 DEF Kinds

LEMMA NoRowIsItem == IsItem(NoRow) /\ NoRow.version = 0
BY DEF IsItem, NoRow, LiveRow

LEMMA DeskInvInit == DeskInit => DeskInv
<1> SUFFICES ASSUME DeskInit PROVE DeskInv
  OBVIOUS
<1>1. PICK s \in DOMAIN Graph : row = LiveRow(s, 1, "seed")
  BY DEF DeskInit
<1>2. IsItem(row) /\ row.version = 1 /\ row.status = s
  BY <1>1 DEF IsItem, LiveRow
<1>3. /\ list = NoRow /\ dialog.item = NoRow /\ accepted = {}
      /\ DOMAIN load = Loads \union Calls /\ DOMAIN call = Calls
      /\ \A x \in Loads \union Calls : load[x] = NoLoad
      /\ \A c \in Calls : call[c] = NoCall
  BY DEF DeskInit, NoDialog
<1>4. /\ DOMAIN NoLoad = {"phase", "found"} /\ NoLoad.found = NoRow
      /\ DOMAIN NoCall = {"phase", "item", "status", "version"} /\ NoCall.item = NoRow
      /\ NoCall.version = 0 /\ NoCall.phase = "idle"
  BY DEF NoLoad, NoCall
<1>5. DeskTypeInv
  BY <1>1, <1>2, <1>3, <1>4, NoRowIsItem DEF DeskInit, DeskTypeInv
<1>6. KnownInv
  BY <1>2, <1>3, <1>4, NoRowIsItem DEF KnownInv, Known
<1>7. MovesInv /\ ReloadInv
  BY <1>3, <1>4 DEF MovesInv, ReloadInv
<1>. QED
  BY <1>5, <1>6, <1>7 DEF DeskInv

\* A step that leaves the row alone, and takes what it holds from what was held.
LEMMA RowStays ==
  ASSUME DeskInv, row' = row, kind' = kind, role' = role, accepted' = accepted,
         DeskTypeInv', KnownInv', ReloadInv'
  PROVE  DeskInv'
BY DEF DeskInv, MovesInv

LEMMA RowMovesOn ==
  ASSUME DeskInv, kind' = kind, role' = role, list' = list, dialog' = dialog,
         \/ row'.version = row.version + 1
         \/ row'.version = row.version /\ row'.status = row.status
  PROVE  /\ Known(list)' /\ Known(dialog.item)'
         /\ \A item : IsItem(item) /\ item.version < row'.version =>
              item.version <= row'.version /\ item.version # row'.version
         /\ \A item : IsItem(item) /\ Known(item) =>
              item.version <= row'.version /\ (item.version = row'.version => item.status = row'.status)
<1>1. row.version \in Nat
  BY DEF DeskInv, DeskTypeInv, IsItem
<1>2. ASSUME NEW item, IsItem(item), Known(item)
      PROVE  item.version <= row'.version /\ (item.version = row'.version => item.status = row'.status)
  BY <1>1, <1>2 DEF IsItem, Known
<1>3. ASSUME NEW item, IsItem(item), item.version < row'.version
      PROVE  item.version <= row'.version /\ item.version # row'.version
  BY <1>1, <1>3 DEF IsItem
<1>4. Known(list)' /\ Known(dialog.item)'
  BY <1>2 DEF DeskInv, DeskTypeInv, KnownInv, Known
<1>. QED
  BY <1>2, <1>3, <1>4

\* The server makes the move: the confirmed item had the version, hence the status, of now.
LEMMA AcceptKeeps ==
  ASSUME DeskInv, NEW c \in Calls, call[c].phase = "posted",
         Accepts(call[c].item, call[c].status),
         row' = LiveRow(call[c].status, row.version + 1, "seed"),
         accepted' = accepted \union
           {[shown |-> call[c].item, from |-> row.status, to |-> call[c].status,
             version |-> row.version + 1]},
         NEW answer \in {"accepted", "refused"},
         call' = [call EXCEPT ![c].phase = answer, ![c].version = row.version + 1],
         UNCHANGED <<kind, role, list, load, loading, dialog>>
  PROVE  DeskInv'
<1> DEFINE item == call[c].item
<1>1. /\ IsItem(item) /\ Known(item) /\ item.version = row.version
      /\ row.version \in Nat /\ row.version >= 1
  BY DEF DeskInv, DeskTypeInv, KnownInv, Accepts, VersionMatches, IsItem
<1>2. call[c].status \in DOMAIN Graph
  BY GraphsAreClosed DEF DeskInv, DeskTypeInv, Accepts, CanTransition, Graph
<1>3. /\ IsItem(row') /\ row'.version = row.version + 1 /\ row'.status = call[c].status
  BY <1>1 DEF LiveRow, IsItem
<1>4. /\ Graph' = Graph
  BY DEF Graph
<1>5. \A d \in Calls : /\ DOMAIN call'[d] = {"phase", "item", "status", "version"}
                       /\ call'[d].item = call[d].item
                       /\ d # c => call'[d] = call[d]
  BY DEF DeskInv, DeskTypeInv
<1>6. call'[c].version = row.version + 1 /\ call'[c].phase = answer
  BY DEF DeskInv, DeskTypeInv
<1>7. DeskTypeInv'
  <2>1. \A d \in Calls : call'[d].version \in Nat
    BY <1>1, <1>5, <1>6 DEF DeskInv, DeskTypeInv
  <2>2. DOMAIN call' = Calls
    BY DEF DeskInv, DeskTypeInv
  <2>. QED
    BY <1>1, <1>2, <1>3, <1>4, <1>5, <2>1, <2>2 DEF DeskInv, DeskTypeInv
<1>8. KnownInv'
  <2>1. \A x \in Loads \union Calls : Known(load[x].found)'
    BY <1>3, RowMovesOn DEF DeskInv, DeskTypeInv, KnownInv, Known
  <2>2. \A d \in Calls : Known(call[d].item)'
    BY <1>3, <1>5, RowMovesOn DEF DeskInv, DeskTypeInv, KnownInv, Known
  <2>. QED
    BY <1>3, <2>1, <2>2, RowMovesOn DEF KnownInv
<1>9. MovesInv'
  <2> DEFINE new == [shown |-> item, from |-> row.status, to |-> call[c].status,
                     version |-> row.version + 1]
  <2>1. new.shown.version = row.version /\ new.from = item.status /\ new.shown = item
    BY <1>1 DEF Known
  <2>2. accepted' = accepted \union {new}
    OBVIOUS
  <2> HIDE DEF new, item
  <2>3. ASSUME NEW m \in accepted'
        PROVE  /\ m.shown.version \in Nat /\ m.shown.version < row'.version
               /\ m.from = m.shown.status
    BY <1>1, <1>3, <2>1, <2>2 DEF DeskInv, MovesInv
  <2>4. ASSUME NEW m \in accepted', NEW n \in accepted', m.shown.version = n.shown.version
        PROVE  m = n
    <3>1. \A k \in accepted : k.shown.version < row.version /\ k.shown.version \in Nat
      BY DEF DeskInv, MovesInv
    <3>. QED
      BY <1>1, <2>1, <2>2, <2>4, <3>1 DEF DeskInv, MovesInv
  <2>. QED
    BY <2>3, <2>4 DEF MovesInv
<1>10. ReloadInv'
  <2> SUFFICES ASSUME NEW d \in Calls, call'[d].phase \in {"accepted", "reloading"}
               PROVE  /\ call'[d].version > 0 /\ call'[d].version <= row'.version
                      /\ call'[d].phase = "reloading" /\ load'[d].phase = "read"
                           /\ load'[d].found.version > 0 =>
                           load'[d].found.version >= call'[d].version
    BY DEF ReloadInv
  <2>1. CASE d = c
    BY <1>1, <1>3, <1>6, <2>1
  <2>2. CASE d # c
    BY <1>1, <1>3, <1>5, <2>2 DEF DeskInv, DeskTypeInv, ReloadInv
  <2>. QED
    BY <2>1, <2>2
<1>. QED
  BY <1>7, <1>8, <1>9, <1>10 DEF DeskInv

\* Others move the record on, or delete it: what was read before is as old or older.
LEMMA OthersWriteKeeps ==
  ASSUME DeskInv, OthersWrite
  PROVE  DeskInv'
<1>1. /\ row.version \in Nat /\ row.version >= 1 /\ IsItem(row) /\ row.status \in DOMAIN Graph
      /\ Graph' = Graph
  BY DEF DeskInv, DeskTypeInv, IsItem, OthersWrite, Graph
<1>2. /\ IsItem(row') /\ row'.status \in DOMAIN Graph
      /\ \/ row'.version = row.version + 1
         \/ row'.version = row.version /\ row'.status = row.status
  <2>1. CASE \E s \in Graph[row.status] \union {row.status} :
               row' = LiveRow(s, row.version + 1, "seed")
    <3>1. PICK s \in Graph[row.status] \union {row.status} :
            row' = LiveRow(s, row.version + 1, "seed")
      BY <2>1
    <3>2. s \in DOMAIN Graph
      BY <1>1, GraphsAreClosed DEF Graph, DeskInv, DeskTypeInv
    <3>. QED
      BY <1>1, <3>1, <3>2 DEF LiveRow, IsItem
  <2>2. CASE row' = [row EXCEPT !.deleted = TRUE]
    BY <1>1, <2>2 DEF IsItem
  <2>. QED
    BY <2>1, <2>2 DEF OthersWrite
<1>3. UNCHANGED <<kind, role, list, load, call, loading, dialog, accepted>>
  BY DEF OthersWrite
<1>4. row'.version \in Nat /\ row'.version >= row.version
  BY <1>1, <1>2
<1>5. DeskTypeInv'
  BY <1>1, <1>2, <1>3, <1>4 DEF DeskInv, DeskTypeInv
<1>6. KnownInv'
  BY <1>2, <1>3, RowMovesOn DEF DeskInv, DeskTypeInv, KnownInv, Known
<1>7. MovesInv'
  <2>1. ASSUME NEW m \in accepted
        PROVE  m.shown.version \in Nat /\ m.shown.version < row'.version
    BY <1>1, <1>4 DEF DeskInv, MovesInv
  <2>. QED
    BY <1>3, <2>1 DEF DeskInv, MovesInv
<1>8. ReloadInv'
  <2>1. ASSUME NEW c \in Calls, call[c].version <= row.version
        PROVE  call[c].version <= row'.version
    BY <1>1, <1>4, <2>1 DEF DeskInv, DeskTypeInv
  <2>. QED
    BY <1>3, <2>1 DEF DeskInv, ReloadInv
<1>. QED
  BY <1>5, <1>6, <1>7, <1>8 DEF DeskInv

\* A load ends: its call, if it was the load of one, is over.
LEMMA LoadEnds ==
  ASSUME DeskInv, NEW x \in Loads \union Calls,
         load' = [load EXCEPT ![x] = NoLoad], EndCall(x),
         list' \in {list, load[x].found},
         UNCHANGED <<kind, role, row, accepted>>
  PROVE  DeskInv'
<1>1. /\ DOMAIN NoLoad = {"phase", "found"} /\ NoLoad.found = NoRow /\ NoLoad.phase = "idle"
      /\ DOMAIN NoCall = {"phase", "item", "status", "version"} /\ NoCall.item = NoRow
      /\ NoCall.version = 0 /\ NoCall.phase = "idle" /\ NoDialog.item = NoRow
  BY DEF NoLoad, NoCall, NoDialog
<1>2. /\ DOMAIN load' = Loads \union Calls
      /\ \A y \in Loads \union Calls : load'[y] = IF y = x THEN NoLoad ELSE load[y]
  BY DEF DeskInv, DeskTypeInv
<1>3. /\ DOMAIN call' = Calls
      /\ \A c \in Calls : call'[c] = IF c = x THEN NoCall ELSE call[c]
      /\ dialog'.item \in {NoRow, dialog.item}
  BY <1>1 DEF EndCall, CloseDialog, DeskInv, DeskTypeInv
<1>4. row.version \in Nat /\ Graph' = Graph
  BY DEF DeskInv, DeskTypeInv, IsItem, Graph
<1>5. Known(NoRow) \/ row.version = 0
  BY <1>4, NoRowIsItem DEF Known
<1>6. row.version >= 1
  BY DEF DeskInv, DeskTypeInv
<1>7. Known(NoRow)
  BY <1>4, <1>5, <1>6
<1>8. DeskTypeInv'
  BY <1>1, <1>2, <1>3, <1>4, NoRowIsItem DEF DeskInv, DeskTypeInv
<1>9. KnownInv'
  <2>1. Known(list)' /\ Known(dialog.item)'
    BY <1>3, <1>7 DEF DeskInv, KnownInv, Known
  <2>2. \A y \in Loads \union Calls : Known(load[y].found)'
    BY <1>1, <1>2, <1>7 DEF DeskInv, KnownInv, Known
  <2>3. \A c \in Calls : Known(call[c].item)'
    BY <1>1, <1>3, <1>7 DEF DeskInv, KnownInv, Known
  <2>. QED
    BY <2>1, <2>2, <2>3 DEF KnownInv
<1>10. ReloadInv'
  <2> SUFFICES ASSUME NEW d \in Calls, call'[d].phase \in {"accepted", "reloading"}
               PROVE  /\ call'[d].version > 0 /\ call'[d].version <= row'.version
                      /\ call'[d].phase = "reloading" /\ load'[d].phase = "read"
                           /\ load'[d].found.version > 0 =>
                           load'[d].found.version >= call'[d].version
    BY DEF ReloadInv
  <2>1. d # x
    BY <1>1, <1>3
  <2>. QED
    BY <1>2, <1>3, <2>1 DEF DeskInv, ReloadInv
<1>. QED
  BY <1>8, <1>9, <1>10, RowStays

\* The server answers a load: with the row of now, or without it.
LEMMA ServeLoadKeeps ==
  ASSUME DeskInv, NEW x \in Loads \union Calls, ServeLoad(x)
  PROVE  DeskInv'
<1>1. PICK found \in {NoRow} \union {r \in {row} : Live(r)} :
        load' = [load EXCEPT ![x] = [phase |-> "read", found |-> found]]
  BY DEF ServeLoad
<1>2. UNCHANGED <<kind, role, row, list, call, loading, dialog, accepted>>
  BY DEF ServeLoad
<1>3. row.version \in Nat /\ row.version >= 1 /\ Graph' = Graph
  BY <1>2 DEF DeskInv, DeskTypeInv, IsItem, Graph
<1>4. IsItem(found) /\ Known(found) /\ (found.version > 0 => found = row)
  BY <1>1, <1>3, NoRowIsItem DEF DeskInv, DeskTypeInv, Known
<1>5. /\ DOMAIN load' = Loads \union Calls
      /\ \A y \in Loads \union Calls :
           load'[y] = IF y = x THEN [phase |-> "read", found |-> found] ELSE load[y]
  BY <1>1 DEF DeskInv, DeskTypeInv
<1>6. DeskTypeInv'
  <2>1. \A y \in Loads \union Calls : DOMAIN load'[y] = {"phase", "found"} /\ IsItem(load'[y].found)
    BY <1>4, <1>5 DEF DeskInv, DeskTypeInv
  <2>. QED
    BY <1>2, <1>3, <1>5, <2>1 DEF DeskInv, DeskTypeInv
<1>7. KnownInv'
  <2>1. \A y \in Loads \union Calls : Known(load[y].found)'
    BY <1>2, <1>4, <1>5 DEF DeskInv, KnownInv, Known
  <2>. QED
    BY <1>2, <2>1 DEF DeskInv, KnownInv, Known
<1>8. ReloadInv'
  <2> SUFFICES ASSUME NEW d \in Calls, call[d].phase \in {"accepted", "reloading"}
               PROVE  /\ call[d].version > 0 /\ call[d].version <= row.version
                      /\ call[d].phase = "reloading" /\ load'[d].phase = "read"
                           /\ load'[d].found.version > 0 =>
                           load'[d].found.version >= call[d].version
    BY <1>2 DEF ReloadInv
  <2>1. call[d].version > 0 /\ call[d].version <= row.version /\ call[d].version \in Nat
    BY DEF DeskInv, DeskTypeInv, ReloadInv
  <2>2. CASE d = x
    BY <1>3, <1>4, <1>5, <2>1, <2>2
  <2>3. CASE d # x
    BY <1>5, <2>1, <2>3 DEF DeskInv, ReloadInv
  <2>. QED
    BY <2>2, <2>3
<1>. QED
  BY <1>2, <1>6, <1>7, <1>8, RowStays

\* A load is asked for, and perhaps a call moves on with it.
LEMMA AskingKeeps ==
  ASSUME DeskInv, NEW x \in Loads \union Calls, load' = [load EXCEPT ![x].phase = "asked"],
         UNCHANGED <<kind, role, row, list, dialog, accepted>>,
         \/ call' = call
         \/ x \in Calls /\ call[x].phase = "accepted"
              /\ call' = [call EXCEPT ![x].phase = "reloading"]
  PROVE  DeskInv'
<1>1. /\ DOMAIN load' = Loads \union Calls
      /\ \A y \in Loads \union Calls :
           /\ DOMAIN load'[y] = DOMAIN load[y] /\ load'[y].found = load[y].found
           /\ load'[y].phase = IF y = x THEN "asked" ELSE load[y].phase
  BY DEF DeskInv, DeskTypeInv
<1>2. /\ DOMAIN call' = Calls
      /\ \A c \in Calls :
           /\ DOMAIN call'[c] = DOMAIN call[c] /\ call'[c].item = call[c].item
           /\ call'[c].version = call[c].version
           /\ \/ call'[c].phase = call[c].phase
              \/ c = x /\ call[c].phase = "accepted" /\ call'[c].phase = "reloading"
  BY DEF DeskInv, DeskTypeInv
<1>3. Graph' = Graph
  BY DEF Graph
<1>4. DeskTypeInv'
  BY <1>1, <1>2, <1>3 DEF DeskInv, DeskTypeInv
<1>5. KnownInv'
  BY <1>1, <1>2 DEF DeskInv, KnownInv, Known
<1>6. ReloadInv'
  <2> SUFFICES ASSUME NEW d \in Calls, call'[d].phase \in {"accepted", "reloading"}
               PROVE  /\ call'[d].version > 0 /\ call'[d].version <= row'.version
                      /\ call'[d].phase = "reloading" /\ load'[d].phase = "read"
                           /\ load'[d].found.version > 0 =>
                           load'[d].found.version >= call'[d].version
    BY DEF ReloadInv
  <2>1. call[d].phase \in {"accepted", "reloading"}
    BY <1>2
  <2>2. CASE d = x
    BY <1>1, <1>2, <2>1, <2>2 DEF DeskInv, ReloadInv
  <2>3. CASE d # x
    BY <1>1, <1>2, <2>1, <2>3 DEF DeskInv, ReloadInv
  <2>. QED
    BY <2>2, <2>3
<1>. QED
  BY <1>4, <1>5, <1>6, RowStays

\* A call of the page begins or is given up: what it holds is what the dialog holds.
LEMMA CallChanges ==
  ASSUME DeskInv, NEW c \in Calls, NEW new, call' = [call EXCEPT ![c] = new],
         DOMAIN new = {"phase", "item", "status", "version"},
         new.item \in {NoRow, dialog.item, call[c].item}, new.version \in Nat,
         new.phase \notin {"accepted", "reloading"},
         UNCHANGED <<kind, role, row, list, load, dialog, accepted>>
  PROVE  DeskInv'
<1>1. /\ DOMAIN call' = Calls
      /\ \A d \in Calls : call'[d] = IF d = c THEN new ELSE call[d]
  BY DEF DeskInv, DeskTypeInv
<1>2. Graph' = Graph /\ row.version \in Nat /\ row.version >= 1
  BY DEF Graph, DeskInv, DeskTypeInv, IsItem
<1>3. IsItem(new.item) /\ Known(new.item)
  <2>1. Known(NoRow)
    BY <1>2, NoRowIsItem DEF Known
  <2>. QED
    BY <2>1, NoRowIsItem DEF DeskInv, DeskTypeInv, KnownInv
<1>4. DeskTypeInv'
  BY <1>1, <1>2, <1>3 DEF DeskInv, DeskTypeInv
<1>5. KnownInv'
  BY <1>1, <1>3 DEF DeskInv, KnownInv, Known
<1>6. ReloadInv'
  BY <1>1 DEF DeskInv, ReloadInv
<1>. QED
  BY <1>4, <1>5, <1>6, RowStays

LEMMA DeskInvStep == DeskInv /\ [DeskNext]_deskVars => DeskInv'
<1> SUFFICES ASSUME DeskInv, [DeskNext]_deskVars PROVE DeskInv'
  OBVIOUS
<1>1. CASE OthersWrite
  BY <1>1, OthersWriteKeeps
<1>2. ASSUME NEW x \in Loads, AskLoad(x) PROVE DeskInv'
  BY <1>2, AskingKeeps DEF AskLoad
<1>3. ASSUME NEW x \in Loads \union Calls, ServeLoad(x) PROVE DeskInv'
  BY <1>3, ServeLoadKeeps
<1>4. ASSUME NEW x \in Loads \union Calls, LoadArrives(x) \/ LoadFails(x) PROVE DeskInv'
  BY <1>4, LoadEnds DEF LoadArrives, LoadFails
<1>5. CASE OpenDialog \/ Cancel
  <2>1. dialog'.item \in {NoRow, list}
    <3>1. \/ dialog' = [item |-> list, status |-> NextStatus(list.status)]
          \/ dialog' = [item |-> NoRow, status |-> ""]
      BY <1>5 DEF OpenDialog, Cancel, NoDialog
    <3>2. CASE dialog' = [item |-> list, status |-> NextStatus(list.status)]
      <4>1. dialog'.item = list
        BY <3>2
      <4>. QED
        BY <4>1
    <3>3. CASE dialog' = [item |-> NoRow, status |-> ""]
      <4>1. dialog'.item = NoRow
        BY <3>3
      <4>. QED
        BY <4>1
    <3>. QED
      BY <3>1, <3>2, <3>3
  <2>2. UNCHANGED <<kind, role, row, list, load, call, accepted>> /\ Graph' = Graph
    BY <1>5 DEF OpenDialog, Cancel, Graph
  <2>3. row.version \in Nat /\ row.version >= 1
    BY DEF DeskInv, DeskTypeInv, IsItem
  <2>4. IsItem(dialog'.item) /\ Known(dialog'.item)
    BY <2>1, <2>3, NoRowIsItem DEF DeskInv, DeskTypeInv, KnownInv, Known
  <2>5. DeskTypeInv'
    BY <2>2, <2>4 DEF DeskInv, DeskTypeInv
  <2>6. KnownInv' /\ ReloadInv'
    BY <2>2, <2>4 DEF DeskInv, KnownInv, Known, ReloadInv
  <2>. QED
    BY <2>2, <2>5, <2>6, RowStays
<1>6. ASSUME NEW c \in Calls, Confirm(c) PROVE DeskInv'
  <2> DEFINE new == [phase |-> "posted", item |-> dialog.item,
                     status |-> dialog.status, version |-> 0]
  <2>1. /\ DOMAIN new = {"phase", "item", "status", "version"}
        /\ new.item = dialog.item /\ new.version \in Nat /\ new.phase = "posted"
    OBVIOUS
  <2>2. /\ call' = [call EXCEPT ![c] = new]
        /\ UNCHANGED <<kind, role, row, list, load, dialog, accepted>>
    BY <1>6 DEF Confirm
  <2> HIDE DEF new
  <2>. QED
    BY <2>1, <2>2, CallChanges
<1>7. ASSUME NEW c \in Calls, ServeMove(c) PROVE DeskInv'
  <2>1. CASE \E answer \in {"accepted", "refused"} :
               /\ Accepts(call[c].item, call[c].status)
               /\ row' = LiveRow(call[c].status, row.version + 1, "seed")
               /\ accepted' = accepted \union
                    {[shown |-> call[c].item, from |-> row.status, to |-> call[c].status,
                      version |-> row.version + 1]}
               /\ call' = [call EXCEPT ![c].phase = answer, ![c].version = row.version + 1]
    BY <1>7, <2>1, AcceptKeeps DEF ServeMove
  <2>2. CASE call' = [call EXCEPT ![c].phase = "refused"] /\ UNCHANGED <<row, accepted>>
    <3> DEFINE new == [call[c] EXCEPT !.phase = "refused"]
    <3>1. DOMAIN call[c] = {"phase", "item", "status", "version"} /\ call[c].version \in Nat
      BY DEF DeskInv, DeskTypeInv
    <3>2. /\ DOMAIN new = {"phase", "item", "status", "version"}
          /\ new.item = call[c].item /\ new.version \in Nat /\ new.phase = "refused"
      BY <3>1
    <3>3. call' = [call EXCEPT ![c] = new]
      BY <2>2
    <3>4. UNCHANGED <<kind, role, row, list, load, dialog, accepted>>
      BY <1>7, <2>2 DEF ServeMove
    <3> HIDE DEF new
    <3>. QED
      BY <3>2, <3>3, <3>4, CallChanges
  <2>. QED
    BY <1>7, <2>1, <2>2 DEF ServeMove
<1>8. ASSUME NEW c \in Calls, Reload(c) PROVE DeskInv'
  BY <1>8, AskingKeeps DEF Reload
<1>9. ASSUME NEW c \in Calls, GiveUp(c) PROVE DeskInv'
  <2>1. /\ DOMAIN NoCall = {"phase", "item", "status", "version"} /\ NoCall.item = NoRow
        /\ NoCall.version \in Nat /\ NoCall.phase = "idle"
    BY DEF NoCall
  <2>2. /\ call' = [call EXCEPT ![c] = NoCall]
        /\ UNCHANGED <<kind, role, row, list, load, dialog, accepted>>
    BY <1>9 DEF GiveUp
  <2>. QED
    BY <2>1, <2>2, CallChanges
<1>10. CASE UNCHANGED deskVars
  BY <1>10 DEF deskVars, DeskInv, DeskTypeInv, KnownInv, Known, MovesInv, ReloadInv, Graph
<1>. QED
  BY <1>1, <1>2, <1>3, <1>4, <1>5, <1>6, <1>7, <1>8, <1>9, <1>10 DEF DeskNext, Answer, Settle

LEMMA DeskInvariance == DeskSpec => []DeskInv
BY DeskInvInit, DeskInvStep, PTL DEF DeskSpec

----------------------------------------------------------------------------
(* The workbench: calls and the dialog *)

\* A call reloads the list only once its move is made; and as long as its dialog has
\* not been closed, the dialog asks for what the call has confirmed.
CallInv(c) ==
  /\ load[c].phase # "idle" => call[c].phase = "reloading"
  /\ call[c].phase \in {"accepted", "reloading"} => Made(c)
  /\ call[c].phase # "idle" /\ c \notin left =>
       dialog # NoDialog /\ dialog.item = call[c].item /\ dialog.status = call[c].status

DialogInv == \A c \in Calls : CallInv(c)

LEMMA DialogInvInit == DeskInit => DialogInv
<1> SUFFICES ASSUME DeskInit, NEW c \in Calls PROVE CallInv(c)
  BY DEF DialogInv
<1>1. load[c] = NoLoad /\ call[c] = NoCall
  BY DEF DeskInit
<1>2. NoLoad.phase = "idle" /\ NoCall.phase = "idle"
  BY DEF NoLoad, NoCall
<1>. QED
  BY <1>1, <1>2 DEF CallInv

\* What a step does not touch of a call stays so, as long as no dialog is opened under it.
LEMMA CallStays ==
  ASSUME NEW c \in Calls, CallInv(c), call'[c] = call[c],
         load'[c].phase = load[c].phase \/ load'[c].phase = "idle",
         accepted \subseteq accepted',
         \/ dialog' = dialog /\ (c \in left => c \in left')
         \/ dialog = NoDialog /\ (c \in left => c \in left')
         \/ call[c].phase # "idle" => c \in left'
  PROVE  CallInv(c)'
BY DEF CallInv, Made

LEMMA DialogInvStep == DeskInv /\ DialogInv /\ [DeskNext]_deskVars => DialogInv'
<1> SUFFICES ASSUME DeskInv, DialogInv, [DeskNext]_deskVars, NEW c \in Calls
             PROVE  CallInv(c)'
  BY DEF DialogInv
<1>1. CallInv(c) /\ DOMAIN call = Calls /\ DOMAIN load = Loads \union Calls
  BY DEF DialogInv, DeskInv, DeskTypeInv
<1>2. DOMAIN call[c] = {"phase", "item", "status", "version"} /\ DOMAIN load[c] = {"phase", "found"}
  BY DEF DeskInv, DeskTypeInv
<1>3. CASE OthersWrite \/ UNCHANGED deskVars
  BY <1>1, <1>3, CallStays DEF OthersWrite, deskVars
<1>4. ASSUME NEW x \in Loads, AskLoad(x) PROVE CallInv(c)'
  <2>1. load'[c] = load[c]
    BY <1>1, <1>4, DeskAssumption DEF AskLoad
  <2>. QED
    BY <1>1, <1>4, <2>1, CallStays DEF AskLoad
<1>5. ASSUME NEW x \in Loads \union Calls, ServeLoad(x) PROVE CallInv(c)'
  <2>1. PICK found : load' = [load EXCEPT ![x] = [phase |-> "read", found |-> found]]
    BY <1>5 DEF ServeLoad
  <2>2. UNCHANGED <<call, dialog, accepted, left>> /\ load[x].phase = "asked"
    BY <1>5 DEF ServeLoad
  <2>3. CASE c = x
    BY <1>1, <2>1, <2>2, <2>3 DEF CallInv, Made
  <2>4. CASE c # x
    BY <1>1, <2>1, <2>2, <2>4, CallStays
  <2>. QED
    BY <2>3, <2>4
<1>6. ASSUME NEW x \in Loads \union Calls, LoadArrives(x) \/ LoadFails(x) PROVE CallInv(c)'
  <2>1. load' = [load EXCEPT ![x] = NoLoad] /\ EndCall(x) /\ accepted' = accepted
    BY <1>6 DEF LoadArrives, LoadFails
  <2>2. NoLoad.phase = "idle" /\ NoCall.phase = "idle"
    BY DEF NoLoad, NoCall
  <2>3. load'[c].phase = load[c].phase \/ load'[c].phase = "idle"
    BY <1>1, <2>1, <2>2
  <2>4. CASE x \notin Calls
    BY <1>1, <2>1, <2>3, <2>4, CallStays DEF EndCall
  <2>5. CASE x \in Calls /\ c = x
    <3>1. load'[c].phase = "idle" /\ call'[c].phase = "idle"
      BY <1>1, <2>1, <2>2, <2>5 DEF EndCall
    <3>. QED
      BY <3>1 DEF CallInv
  <2>6. CASE x \in Calls /\ c # x
    <3>1. call'[c] = call[c] /\ (call[c].phase # "idle" => c \in left')
      BY <1>1, <2>1, <2>6 DEF EndCall, CloseDialog
    <3>. QED
      BY <1>1, <2>1, <2>3, <3>1, CallStays
  <2>. QED
    BY <2>4, <2>5, <2>6
<1>7. CASE OpenDialog \/ Cancel
  BY <1>1, <1>7, CallStays DEF OpenDialog, Cancel
<1>8. ASSUME NEW d \in Calls, Confirm(d) PROVE CallInv(c)'
  <2>1. /\ call' = [call EXCEPT ![d] = [phase |-> "posted", item |-> dialog.item,
                                        status |-> dialog.status, version |-> 0]]
        /\ UNCHANGED <<load, dialog, accepted, left>>
        /\ call[d].phase = "idle" /\ dialog # NoDialog
    BY <1>8 DEF Confirm, Confirmed
  <2>2. CASE c = d
    BY <1>1, <2>1, <2>2 DEF CallInv
  <2>3. CASE c # d
    BY <1>1, <2>1, <2>3, CallStays
  <2>. QED
    BY <2>2, <2>3
<1>9. ASSUME NEW d \in Calls, ServeMove(d) PROVE CallInv(c)'
  <2>1. UNCHANGED <<load, dialog, left>> /\ call[d].phase = "posted"
    BY <1>9 DEF ServeMove
  <2>2. CASE /\ accepted' = accepted \union
                  {[shown |-> call[d].item, from |-> row.status, to |-> call[d].status,
                    version |-> row.version + 1]}
             /\ \E answer \in {"accepted", "refused"} :
                  call' = [call EXCEPT ![d].phase = answer, ![d].version = row.version + 1]
    <3>1. CASE c = d
      <4>1. /\ call'[c].item = call[c].item /\ call'[c].status = call[c].status
            /\ call'[c].version = row.version + 1
        BY <1>1, <1>2, <2>2, <3>1
      <4>2. Made(c)'
        <5> DEFINE m == [shown |-> call[d].item, from |-> row.status, to |-> call[d].status,
                         version |-> row.version + 1]
        <5>1. /\ m.shown = call[d].item /\ m.to = call[d].status
              /\ m.version = row.version + 1 /\ m \in accepted'
          BY <2>2
        <5> HIDE DEF m
        <5>. QED
          BY <3>1, <4>1, <5>1 DEF Made
      <4>. QED
        BY <1>1, <2>1, <3>1, <4>1, <4>2 DEF CallInv
    <3>2. CASE c # d
      BY <1>1, <2>1, <2>2, <3>2, CallStays
    <3>. QED
      BY <3>1, <3>2
  <2>3. CASE call' = [call EXCEPT ![d].phase = "refused"] /\ accepted' = accepted
    <3>1. CASE c = d
      BY <1>1, <1>2, <2>1, <2>3, <3>1 DEF CallInv
    <3>2. CASE c # d
      BY <1>1, <2>1, <2>3, <3>2, CallStays
    <3>. QED
      BY <3>1, <3>2
  <2>. QED
    BY <1>9, <2>2, <2>3 DEF ServeMove
<1>10. ASSUME NEW d \in Calls, Reload(d) PROVE CallInv(c)'
  <2>1. /\ call' = [call EXCEPT ![d].phase = "reloading"]
        /\ load' = [load EXCEPT ![d].phase = "asked"]
        /\ UNCHANGED <<dialog, accepted, left>> /\ call[d].phase = "accepted"
    BY <1>10 DEF Reload
  <2>2. CASE c = d
    BY <1>1, <1>2, <2>1, <2>2 DEF CallInv, Made
  <2>3. CASE c # d
    BY <1>1, <2>1, <2>3, CallStays
  <2>. QED
    BY <2>2, <2>3
<1>11. ASSUME NEW d \in Calls, GiveUp(d) PROVE CallInv(c)'
  <2>1. /\ call' = [call EXCEPT ![d] = NoCall] /\ left' = left \ {d}
        /\ UNCHANGED <<load, dialog, accepted>> /\ call[d].phase = "refused"
    BY <1>11 DEF GiveUp
  <2>2. CASE c = d
    BY <1>1, <2>1, <2>2 DEF CallInv, NoCall
  <2>3. CASE c # d
    BY <1>1, <2>1, <2>3, CallStays
  <2>. QED
    BY <2>2, <2>3
<1>. QED
  BY <1>3, <1>4, <1>5, <1>6, <1>7, <1>8, <1>9, <1>10, <1>11 DEF DeskNext, Answer, Settle

LEMMA DialogInvariance == DeskSpec => [](DeskInv /\ DialogInv)
BY DeskInvInit, DeskInvStep, DialogInvInit, DialogInvStep, PTL DEF DeskSpec

\* The server makes exactly the move that was shown and confirmed, once
\* (factory.ts:11, base.go:61): the version that was sent is the version of the row, a
\* version read from the row has the status of the row, and each move uses its version up.
THEOREM AcceptedMovesAreConfirmed == DeskSpec => []AcceptedAsConfirmed
<1>1. DeskInv => AcceptedAsConfirmed
  BY DEF DeskInv, MovesInv, AcceptedAsConfirmed
<1>. QED
  BY <1>1, DeskInvariance, PTL

\* A dialog that is not cancelled closes only at the end of a call whose move the server
\* has made; unless that call's own dialog was closed before, the move is the one the
\* dialog asks for; and the list left behind is of that move or later
\* (EntityPage.vue:45-49): only the end of a call closes a dialog, after a load that is
\* asked for once the move is made.
THEOREM DialogsCloseWhenDone == DeskSpec => ClosedDialogIsDone
<1>1. DeskInv /\ DialogInv /\ [DeskNext]_deskVars => ClosesWhenDone
  <2> SUFFICES ASSUME DeskInv, DialogInv, [DeskNext]_deskVars,
                      dialog # NoDialog, dialog' = NoDialog, call' # call
               PROVE  \E c \in Calls :
                        /\ call[c].phase = "reloading" /\ call'[c].phase = "idle"
                        /\ Made(c)
                        /\ c \notin left =>
                             dialog.item = call[c].item /\ dialog.status = call[c].status
                        /\ load[c].phase = "read" /\ list' = load[c].found /\ list'.version > 0 =>
                             list'.version >= call[c].version
    BY DEF ClosesWhenDone
  <2>1. PICK x \in Loads \union Calls : LoadArrives(x) \/ LoadFails(x)
    BY DEF DeskNext, Answer, Settle, OthersWrite, AskLoad, ServeLoad, OpenDialog, Cancel,
           Confirm, ServeMove, Reload, GiveUp, deskVars
  <2>2. load[x].phase # "idle" /\ EndCall(x)
    BY <2>1 DEF LoadArrives, LoadFails
  <2>3. x \in Calls /\ call' = [call EXCEPT ![x] = NoCall]
    BY <2>2 DEF EndCall
  <2>4. CallInv(x)
    BY <2>3 DEF DialogInv
  <2>5. call[x].phase = "reloading" /\ Made(x)
    BY <2>2, <2>4 DEF CallInv
  <2>6. call'[x].phase = "idle"
    BY <2>3 DEF NoCall, DeskInv, DeskTypeInv
  <2>7. x \notin left => dialog.item = call[x].item /\ dialog.status = call[x].status
    BY <2>4, <2>5 DEF CallInv
  <2>8. load[x].phase = "read" /\ list' = load[x].found /\ list'.version > 0 =>
          list'.version >= call[x].version
    BY <2>3, <2>5 DEF DeskInv, ReloadInv
  <2>. QED
    BY <2>3, <2>5, <2>6, <2>7, <2>8
<1>2. DeskInv /\ DialogInv /\ [DeskNext]_deskVars => [ClosesWhenDone]_deskVars
  BY <1>1
<1>. QED
  BY <1>2, DialogInvariance, PTL DEF ClosedDialogIsDone, DeskSpec

----------------------------------------------------------------------------
(* The workbench: what it offers *)

\* The statuses of a table are those of its graph, each listed once, and each leads to
\* the one listed after it; but no approval leads from approved to rejected.
PageOrder(k) ==
  /\ Len(Kinds[k].statuses) = 4 /\ DOMAIN Kinds[k].statuses = 1 .. 4
  /\ \A s \in DOMAIN Kinds[k].graph : \E i \in 1 .. 4 : Kinds[k].statuses[i] = s
  /\ \A i, j \in 1 .. 4 : Kinds[k].statuses[i] = Kinds[k].statuses[j] => i = j
  /\ \A i \in 1 .. 3 :
       \/ Kinds[k].statuses[i + 1] \in Kinds[k].graph[Kinds[k].statuses[i]]
       \/ k = "approval" /\ Kinds[k].statuses[i] = "approved"

LEMMA OrderOf ==
  ASSUME NEW k, NEW s, NEW g, Kinds[k].statuses = s, Kinds[k].graph = g,
         Len(s) = 4, DOMAIN s = 1 .. 4, DOMAIN g = {s[1], s[2], s[3], s[4]},
         s[1] # s[2], s[1] # s[3], s[1] # s[4], s[2] # s[3], s[2] # s[4], s[3] # s[4],
         s[2] \in g[s[1]], s[3] \in g[s[2]],
         s[4] \in g[s[3]] \/ (k = "approval" /\ s[3] = "approved")
  PROVE  PageOrder(k)
<1>1. \A i \in 1 .. 4 : i = 1 \/ i = 2 \/ i = 3 \/ i = 4
  OBVIOUS
<1>2. 1 \in 1 .. 4 /\ 2 \in 1 .. 4 /\ 3 \in 1 .. 4 /\ 4 \in 1 .. 4
  OBVIOUS
<1>3. \A x \in DOMAIN g : \E i \in 1 .. 4 : s[i] = x
  BY <1>2
<1>4. \A i, j \in 1 .. 4 : s[i] = s[j] => i = j
  BY <1>1
<1>5. \A i \in 1 .. 3 : s[i + 1] \in g[s[i]] \/ (k = "approval" /\ s[i] = "approved")
  <2>1. \A i \in 1 .. 3 : (i = 1 /\ i + 1 = 2) \/ (i = 2 /\ i + 1 = 3) \/ (i = 3 /\ i + 1 = 4)
    OBVIOUS
  <2>. QED
    BY <2>1
<1>. QED
  BY <1>3, <1>4, <1>5 DEF PageOrder

LEMMA PagesFollowTheGraphs ==
  ASSUME NEW k \in DOMAIN Kinds
  PROVE  PageOrder(k)
<1>1. CASE k = "artifact"
  <2> DEFINE s == <<"registered", "stable", "treatment", "closed">>
  <2>1. Kinds[k].graph = ArtifactTransitions /\ Kinds[k].statuses = s
    BY <1>1 DEF Kinds, Kind
  <2>2. /\ s[1] = "registered" /\ s[2] = "stable" /\ s[3] = "treatment" /\ s[4] = "closed"
        /\ Len(s) = 4 /\ DOMAIN s = 1 .. 4
    OBVIOUS
  <2> HIDE DEF s
  <2>3. /\ DOMAIN ArtifactTransitions = {"registered", "stable", "treatment", "closed"}
        /\ "stable" \in ArtifactTransitions["registered"]
        /\ "treatment" \in ArtifactTransitions["stable"]
        /\ "closed" \in ArtifactTransitions["treatment"]
    BY DEF ArtifactTransitions
  <2>. QED
    BY <2>1, <2>2, <2>3, OrderOf
<1>2. CASE k = "plan"
  <2> DEFINE s == <<"draft", "review", "approved", "completed">>
  <2>1. Kinds[k].graph = TreatmentPlanTransitions /\ Kinds[k].statuses = s
    BY <1>2 DEF Kinds, Kind
  <2>2. /\ s[1] = "draft" /\ s[2] = "review" /\ s[3] = "approved" /\ s[4] = "completed"
        /\ Len(s) = 4 /\ DOMAIN s = 1 .. 4
    OBVIOUS
  <2> HIDE DEF s
  <2>3. /\ DOMAIN TreatmentPlanTransitions = {"draft", "review", "approved", "completed"}
        /\ "review" \in TreatmentPlanTransitions["draft"]
        /\ "approved" \in TreatmentPlanTransitions["review"]
        /\ "completed" \in TreatmentPlanTransitions["approved"]
    BY DEF TreatmentPlanTransitions
  <2>. QED
    BY <2>1, <2>2, <2>3, OrderOf
<1>3. CASE k = "test"
  <2> DEFINE s == <<"planned", "running", "verified", "invalid">>
  <2>1. Kinds[k].graph = MaterialTestTransitions /\ Kinds[k].statuses = s
    BY <1>3 DEF Kinds, Kind
  <2>2. /\ s[1] = "planned" /\ s[2] = "running" /\ s[3] = "verified" /\ s[4] = "invalid"
        /\ Len(s) = 4 /\ DOMAIN s = 1 .. 4
    OBVIOUS
  <2> HIDE DEF s
  <2>3. /\ DOMAIN MaterialTestTransitions = {"planned", "running", "verified", "invalid"}
        /\ "running" \in MaterialTestTransitions["planned"]
        /\ "verified" \in MaterialTestTransitions["running"]
        /\ "invalid" \in MaterialTestTransitions["verified"]
    BY DEF MaterialTestTransitions
  <2>. QED
    BY <2>1, <2>2, <2>3, OrderOf
<1>4. CASE k = "approval"
  <2> DEFINE s == <<"draft", "review", "approved", "rejected">>
  <2>1. Kinds[k].graph = StageApprovalTransitions /\ Kinds[k].statuses = s
    BY <1>4 DEF Kinds, Kind
  <2>2. /\ s[1] = "draft" /\ s[2] = "review" /\ s[3] = "approved" /\ s[4] = "rejected"
        /\ Len(s) = 4 /\ DOMAIN s = 1 .. 4
    OBVIOUS
  <2> HIDE DEF s
  <2>3. /\ DOMAIN StageApprovalTransitions = {"draft", "review", "approved", "rejected"}
        /\ "review" \in StageApprovalTransitions["draft"]
        /\ "approved" \in StageApprovalTransitions["review"]
    BY DEF StageApprovalTransitions
  <2>. QED
    BY <1>4, <2>1, <2>2, <2>3, OrderOf
<1>. QED
  BY <1>1, <1>2, <1>3, <1>4 DEF Kinds

\* The page offers only what the server accepts of an up-to-date list: for every table,
\* role and status (EntityPage.vue:16-29, status.go, auth.go, stage_approval.go:104).
THEOREM OffersAreAccepted == DeskSpec => []FreshOffersAreAccepted
<1>1. ASSUME DeskInv, Live(row), list = row, Offered(list)
      PROVE  Accepts(list, NextStatus(list.status))
  <2> DEFINE s == row.status
             i == CHOOSE n \in DOMAIN Statuses : Statuses[n] = s
  <2>1. kind \in DOMAIN Kinds /\ role \in Roles /\ s \in DOMAIN Graph
    BY <1>1 DEF DeskInv, DeskTypeInv
  <2>2. PageOrder(kind)
    BY <2>1, PagesFollowTheGraphs
  <2>3. Len(Statuses) = 4 /\ DOMAIN Statuses = 1 .. 4
    BY <2>2 DEF PageOrder, Statuses
  <2>4. i \in 1 .. 4 /\ Statuses[i] = s
    <3>1. \E n \in DOMAIN Statuses : Statuses[n] = s
      BY <2>1, <2>2, <2>3 DEF PageOrder, Statuses, Graph
    <3>. QED
      BY <2>3, <3>1
  <2>5. NextStatus(s) = IF i < 4 THEN Statuses[i + 1] ELSE ""
    BY <2>3 DEF NextStatus
  <2> HIDE DEF i
  <2>6. i \in 1 .. 3 /\ NextStatus(s) = Statuses[i + 1]
    <3>1. NextStatus(s) # ""
      BY <1>1 DEF Offered
    <3>2. i < 4
      BY <2>4, <2>5, <3>1
    <3>3. i \in 1 .. 3
      BY <2>4, <3>2
    <3>. QED
      BY <2>5, <3>2, <3>3
  <2>7. NextStatus(s) \in Graph[s]
    <3>1. ~(kind = "approval" /\ s = "approved")
      BY <1>1 DEF Offered
    <3>. QED
      BY <2>2, <2>4, <2>6, <3>1 DEF PageOrder, Statuses, Graph
  <2>8. Admits(role, "transition")
    BY <1>1 DEF Offered, Admits
  <2>9. HasMinimumRole(role, "reviewer") => role \in {"reviewer", "admin"}
    <3>1. /\ RoleRank["viewer"] = 1 /\ RoleRank["operator"] = 2 /\ RoleRank["reviewer"] = 3
      BY DEF RoleRank
    <3>. QED
      BY <2>1, <3>1 DEF HasMinimumRole, Roles
  <2>. QED
    BY <1>1, <2>1, <2>7, <2>8, <2>9 DEF Accepts, CanTransition, VersionMatches, Offered
<1>2. DeskInv => FreshOffersAreAccepted
  BY <1>1 DEF FreshOffersAreAccepted
<1>. QED
  BY <1>2, DeskInvariance, PTL
=============================================================================
