------------------------------ MODULE Listing ------------------------------
(***************************************************************************)
(* The list operations of the services: cursor pagination and sorting      *)
(* (internal/dbtypes), the filters of images (ListImages.go and            *)
(* ListDeviceImages.go) and which images belong to a device.               *)
(*                                                                         *)
(* Ids are numbers in the order of UUIDs.  An optional field of a request  *)
(* is a set of at most one value.  The texts a search looks at are a set   *)
(* of words, tags in normal form among them.  The total of a page, counted *)
(* by a statement of its own, is left out.                                 *)
(***************************************************************************)
EXTENDS Integers, FiniteSets

DefaultLimit == 20
MaximumLimit == 100

GetLimitOrDefault(limit) ==
  LET l == CHOOSE n \in limit : TRUE
  IN  IF limit = {} \/ l <= 0 THEN DefaultLimit
      ELSE IF l > MaximumLimit THEN MaximumLimit ELSE l

GetOffset(offset) == IF \E n \in offset : n > 0 THEN CHOOSE n \in offset : TRUE ELSE 0

\* The key rows are ordered by before their id.  A sort that names a column is
\* rendered as a string literal (sqlite.String), the same for every row; without
\* a sort the listing has an order of its own.
BuildOrderByClause(sorts, rows, default) == IF sorts = {} THEN default ELSE [i \in rows |-> 0]

\* A listing goes backwards when only prev is given.
IsPrev(q) == q.next = {} /\ q.prev # {}

\* Fault: the row of the cursor itself is selected again.
Selected_WithCursor(rows, q) ==
  {i \in rows : /\ \A n \in q.next : i >= n
                /\ IsPrev(q) => \A p \in q.prev : i < p}

\* next has precedence over prev.
Selected(rows, q) ==
  {i \in rows : /\ \A n \in q.next : i > n
                /\ IsPrev(q) => \A p \in q.prev : i < p}

\* Fault: a page before a cursor is read from the start of the list.
Precedes_SameWay(key, back, i, j) == key[i] < key[j] \/ (key[i] = key[j] /\ i < j)

\* ORDER BY key, id; going backwards turns the id round, and the key not.
Precedes(key, back, i, j) ==
  \/ key[i] < key[j]
  \/ key[i] = key[j] /\ IF back THEN i > j ELSE i < j

\* The rows in the places from..to of that order, which starts with place 0.
Places(rows, key, back, from, to) ==
  {i \in rows : Cardinality({j \in rows : Precedes(key, back, j, i)}) \in from..to}

\* One row more than the limit is fetched to see whether there are more.
Returned(rows, key, q, limit) ==
  Places(rows, key, IsPrev(q), GetOffset(q.offset), GetOffset(q.offset) + limit - 1)

\* A page that was read backwards is reversed before it is returned.
FirstOf(items, key, back) ==
  {i \in items : \A j \in items \ {i} : ~back = Precedes(key, back, i, j)}

LastOf(items, key, back) ==
  {i \in items : \A j \in items \ {i} : ~back = Precedes(key, back, j, i)}

\* One page: its rows and the cursors.  There is a next cursor when more rows
\* were fetched, in whichever direction, and a previous one when next was given.
Page(rows, default, q) ==
  LET selected == Selected(rows, q)
      key      == BuildOrderByClause(q.sorts, selected, default)
      back     == IsPrev(q)
      limit    == GetLimitOrDefault(q.limit)
      items    == Returned(selected, key, q, limit)
      more     == Cardinality(selected) > GetOffset(q.offset) + limit
  IN  [items |-> items,
       next  |-> IF more THEN LastOf(items, key, back) ELSE {},
       prev  |-> IF q.next # {} THEN FirstOf(items, key, back) ELSE {}]

-----------------------------------------------------------------------------
(* Images and what a request asks of them. *)

\* A maximum of 0 or less is none.
Within(v, low, high) == (\A m \in low : v >= m) /\ (\A m \in high : m > 0 => v <= m)

Searched(row, words) == words # {} => words \cap row.words # {}

\* The filters of ListImages.
Filtered(images, f) ==
  {i \in DOMAIN images :
     /\ \A a \in f.adult : images[i].adult = a
     /\ \A v \in f.favorite : images[i].favorite = v
     /\ Within(images[i].width, f.minWidth, f.maxWidth)
     /\ Within(images[i].height, f.minHeight, f.maxHeight)
     /\ Within(images[i].size, f.minSize, f.maxSize)
     /\ f.sources # {} => images[i].source \cap f.sources # {}
     /\ Searched(images[i], f.words)}

\* The stricter of a request's bound and the device's own.
Raised(low, own)   == {IF own > 0 /\ own > m THEN own ELSE m : m \in low}
Lowered(high, own) == {IF own > 0 /\ own < m THEN own ELSE m : m \in {n \in high : n > 0}}

\* The filters of ListDeviceImages, on top of what belongs to the device; the
\* adult filter counts only where adult images are allowed.
DeviceFiltered(images, device, f) ==
  {i \in DOMAIN images :
     /\ device.adult => \A a \in f.adult : images[i].adult = a
     /\ \A v \in f.favorite : images[i].favorite = v
     /\ Within(images[i].width, Raised(f.minWidth, device.minWidth),
               Lowered(f.maxWidth, device.maxWidth))
     /\ Within(images[i].height, Raised(f.minHeight, device.minHeight),
               Lowered(f.maxHeight, device.maxHeight))
     /\ Within(images[i].size, Raised(f.minSize, device.minSize),
               Lowered(f.maxSize, device.maxSize))
     /\ Searched(images[i], f.words)}

\* An own bound of 0 is none.
Own(bound) == IF bound > 0 THEN {bound} ELSE {}

\* Aspect ratios and their tolerance are in hundredths.
AspectFits(device, image) ==
  LET aspect == (100 * device.width) \div device.height
  IN  device.tolerance > 0 =>
        /\ image.aspect >= aspect - device.tolerance
        /\ image.aspect <= aspect + device.tolerance

\* The constraints of a device on an image.
Fits(device, image) ==
  /\ image.adult => device.adult
  /\ AspectFits(device, image)
  /\ image.width >= device.width /\ image.height >= device.height
  /\ Within(image.width, Own(device.minWidth), Own(device.maxWidth))
  /\ Within(image.height, Own(device.minHeight), Own(device.maxHeight))
  /\ Within(image.size, Own(device.minSize), Own(device.maxSize))

\* validateDeviceInput; the slug is a member of a set of valid ones.
ValidDevice(device) ==
  /\ device.width > 0 /\ device.height > 0
  /\ device.maxWidth > 0 => device.minWidth <= device.maxWidth
  /\ device.maxHeight > 0 => device.minHeight <= device.maxHeight
  /\ device.maxSize > 0 => device.minSize <= device.maxSize
  /\ device.tolerance \in 0..100
=============================================================================
