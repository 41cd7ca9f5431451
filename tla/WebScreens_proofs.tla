-------------------------- MODULE WebScreens_proofs -------------------------
(***************************************************************************)
(* The tables and the forms of the web client, for any records, page size  *)
(* and values, and for any catalogue that keeps TableCatalogueAssumption   *)
(* and FormCatalogueAssumption.                                            *)
(***************************************************************************)
EXTENDS TableSafety, FormSafety, FiniteSetTheorems, SequenceTheorems,
        WellFoundedInduction, TLAPS

(* Induction over the naturals, as the least element of a set of them. *)
LEMMA LeastNatural ==
  ASSUME NEW T, T \subseteq Nat, T # {}
  PROVE  \E x \in T : \A y \in T : x <= y
<1> DEFINE R == OpToRel(<, Nat)
<1>1. \E x \in T : \A y \in T : ~(<<y, x>> \in R)
  <2>1. IsWellFoundedOn(R, Nat)
      BY NatLessThanWellFounded
  <2> HIDE DEF R
  <2> QED BY <2>1, WFMin
<1>2. PICK x \in T : \A y \in T : ~(<<y, x>> \in R)
    BY <1>1
<1>3. \A y \in T : ~(y < x)
    BY <1>2 DEF OpToRel
<1> HIDE DEF R
<1> QED BY <1>3

(* Whole pages. *)
LEMMA DivRange ==
  ASSUME NEW x \in Nat, NEW d \in Nat \ {0}
  PROVE  x \div d \in Nat /\ d * (x \div d) <= x /\ x < d * (x \div d) + d
  OBVIOUS

LEMMA DivExact ==
  ASSUME NEW q \in Nat, NEW d \in Nat \ {0}
  PROVE  d * q \in Nat /\ (d * q) \div d = q
  OBVIOUS

(* The first place of a page that there is. *)
LEMMA PageStart ==
  ASSUME NEW n \in Nat, NEW d \in Nat \ {0}, NEW p \in Nat \ {0},
         p <= (n + d - 1) \div d
  PROVE  d * (p - 1) + 1 <= n
<1>1. n + d - 1 \in Nat
    OBVIOUS
<1>2. PICK q \in Nat : q = (n + d - 1) \div d /\ d * q <= n + d - 1
    BY <1>1, DivRange
<1>3. PICK r \in Nat : q = p + r
    BY <1>2
<1>4. /\ d * q = d * p + d * r /\ d * r \in Nat /\ d * p \in Nat
      /\ d * (p - 1) = d * p - d
    BY <1>3
<1> QED BY <1>2, <1>3, <1>4

(* A finite set of places has a k-th element. *)
LEMMA KthPlace ==
  ASSUME NEW n \in Nat, NEW S \in SUBSET (1..n), NEW k \in 1..Cardinality(S)
  PROVE  \E i \in S : Cardinality({j \in S : j <= i}) = k
<1> DEFINE Below(m) == {j \in S : j <= m}
           T == {m \in Nat : m <= n /\ Cardinality(Below(m)) >= k}
<1>0. \A j \in S : j \in Nat /\ 1 <= j /\ j <= n
    OBVIOUS
<1>1. IsFiniteSet(S) /\ Cardinality(S) \in Nat
  <2>1. IsFiniteSet(1..n)
      BY FS_Interval
  <2>2. IsFiniteSet(S)
      BY <2>1, FS_Subset
  <2> QED BY <2>2, FS_CardinalityType
<1>2. ASSUME NEW m \in Nat
      PROVE  IsFiniteSet(Below(m)) /\ Cardinality(Below(m)) \in Nat
  <2>1. Below(m) \in SUBSET S
      OBVIOUS
  <2> HIDE DEF Below
  <2>2. IsFiniteSet(Below(m))
      BY <1>1, <2>1, FS_Subset
  <2> QED BY <2>2, FS_CardinalityType
<1>k. k \in Nat /\ 1 <= k /\ k <= Cardinality(S)
    BY <1>1
<1>3. n \in T
  <2>1. Below(n) = S
      BY <1>0
  <2> HIDE DEF Below
  <2> QED BY <1>1, <1>k, <2>1
<1>4. PICK m \in T : \A x \in T : m <= x
  <2>1. T \subseteq Nat
      OBVIOUS
  <2> HIDE DEF T
  <2> QED BY <1>3, <2>1, LeastNatural
<1>5. m \in Nat /\ m <= n /\ Cardinality(Below(m)) >= k
    BY <1>4
<1>6. m # 0
  <2>0. \A j \in S : ~(j <= 0)
      BY <1>0
  <2>1. Below(0) = {}
      BY <2>0
  <2> HIDE DEF Below
  <2>2. Cardinality(Below(0)) = 0
      BY <2>1, FS_EmptySet
  <2> QED BY <1>k, <1>5, <2>2
<1>7. m - 1 \in Nat /\ m - 1 <= n /\ ~(m <= m - 1)
    BY <1>5, <1>6
<1>8. Cardinality(Below(m - 1)) < k
  <2>1. m - 1 \notin T
      BY <1>4, <1>7
  <2>2. Cardinality(Below(m - 1)) \in Nat
      BY <1>2, <1>7
  <2> HIDE DEF Below
  <2> QED BY <1>k, <1>7, <2>1, <2>2
<1>s. \A j \in S : j <= m <=> (j <= m - 1 \/ j = m)
    BY <1>0, <1>5
<1>9. m \in S
  <2>1. m \notin S => Below(m) = Below(m - 1)
      BY <1>s
  <2>2. Cardinality(Below(m - 1)) \in Nat
      BY <1>2, <1>7
  <2> HIDE DEF Below, T
  <2> QED BY <1>k, <1>5, <1>8, <2>1, <2>2
<1>10. Cardinality(Below(m)) = Cardinality(Below(m - 1)) + 1
  <2>1. Below(m) = Below(m - 1) \cup {m} /\ m \notin Below(m - 1)
      BY <1>s, <1>7, <1>9
  <2>2. IsFiniteSet(Below(m - 1))
      BY <1>2, <1>7
  <2> HIDE DEF Below
  <2> QED BY <2>1, <2>2, FS_AddElement
<1>11. Cardinality(Below(m - 1)) \in Nat
    BY <1>2, <1>7
<1>12. Cardinality(Below(m)) = k
  <2> HIDE DEF Below, T
  <2> QED BY <1>k, <1>5, <1>8, <1>10, <1>11
<1> QED BY <1>9, <1>12

-----------------------------------------------------------------------------
(* What a fetch can bring: different records, at most all of them. *)
LEMMA ListFields ==
  ASSUME NEW rows \in Lists
  PROVE  \E n \in Nat :
           /\ n <= Cardinality(Records) /\ DOMAIN rows = 1..n
           /\ rows \in [1..n -> Records]
           /\ \A i, j \in DOMAIN rows : rows[i] = rows[j] => i = j
<1>1. Cardinality(Records) \in Nat
    BY TablesAssumption, FS_CardinalityType
<1>2. PICK n \in 0..Cardinality(Records) : rows \in [1..n -> Records]
    BY DEF Lists
<1>3. \A i, j \in DOMAIN rows : rows[i] = rows[j] => i = j
    BY DEF Lists
<1> QED BY <1>1, <1>2, <1>3

LEMMA FilteredFields ==
  ASSUME NEW rows \in Lists, NEW on \in BOOLEAN
  PROVE  \E n \in Nat :
           /\ n <= Cardinality(Records) /\ DOMAIN rows = 1..n
           /\ Filtered(rows, on) \in SUBSET (1..n)
           /\ IsFiniteSet(Filtered(rows, on)) /\ Cardinality(Filtered(rows, on)) \in Nat
           /\ PageCount(rows, on) \in Nat
           /\ Filtered(rows, on) # {} => PageCount(rows, on) >= 1
<1>1. PICK n \in Nat : n <= Cardinality(Records) /\ DOMAIN rows = 1..n
    BY ListFields
<1>2. Filtered(rows, on) \in SUBSET (1..n)
    BY <1>1 DEF Filtered
<1>3. IsFiniteSet(Filtered(rows, on)) /\ Cardinality(Filtered(rows, on)) \in Nat
  <2>1. IsFiniteSet(1..n)
      BY FS_Interval
  <2>2. IsFiniteSet(Filtered(rows, on))
      BY <1>2, <2>1, FS_Subset
  <2> QED BY <2>2, FS_CardinalityType
<1>4. Filtered(rows, on) # {} => Cardinality(Filtered(rows, on)) >= 1
    BY <1>3, FS_EmptySet
<1> DEFINE c == Cardinality(Filtered(rows, on))
<1>5. c + PageSize - 1 \in Nat /\ PageSize \in Nat \ {0}
    BY <1>3, TablesAssumption
<1>6. PageCount(rows, on) \in Nat /\ c + PageSize - 1 < PageSize * PageCount(rows, on) + PageSize
    BY <1>5, DivRange DEF PageCount
<1>7. PageCount(rows, on) = 0 => c < 1
    BY <1>3, <1>5, <1>6
<1> QED BY <1>1, <1>2, <1>3, <1>4, <1>6, <1>7

(* A page up to the last one has a row. *)
LEMMA PageIsShown ==
  ASSUME NEW rows \in Lists, NEW on \in BOOLEAN, NEW p \in Nat \ {0},
         p <= PageCount(rows, on)
  PROVE  \E i \in DOMAIN rows : i \in Visible(rows, on, p)
<1> DEFINE S == Filtered(rows, on)
           k == PageSize * (p - 1) + 1
<1>1. PICK n \in Nat : DOMAIN rows = 1..n /\ S \in SUBSET (1..n) /\ Cardinality(S) \in Nat
    BY FilteredFields
<1>2. PageSize \in Nat \ {0}
    BY TablesAssumption
<1>3. k \in Nat /\ k >= 1
    BY <1>2, DivExact
<1>4. k <= Cardinality(S)
    BY <1>1, <1>2, PageStart DEF PageCount
<1>5. PICK i \in S : Cardinality({j \in S : j <= i}) = k
  <2> HIDE DEF S, k
  <2>1. k \in 1..Cardinality(S)
      BY <1>1, <1>3, <1>4
  <2> QED BY <1>1, <2>1, KthPlace
<1>6. Rank(rows, on, i) = k
    BY <1>5 DEF Rank
<1>7. PageOf(rows, on, i) = p
  <2>1. k - 1 = PageSize * (p - 1) /\ p - 1 \in Nat
      BY <1>2, <1>3, DivExact
  <2>2. (k - 1) \div PageSize = p - 1
      BY <1>2, <2>1, DivExact
  <2> HIDE DEF k
  <2> QED BY <1>6, <2>2 DEF PageOf
<1> QED BY <1>1, <1>5, <1>7 DEF Visible

-----------------------------------------------------------------------------
(* The pages in the history are pages of the table, and the one on display,  *)
(* when it is not the server's business, is at most the last one.            *)
PagesInRange ==
  /\ \A i \in 1..Len(history) : history[i].page \in 1..Cardinality(Records)
  /\ table.paging \in {"local", "url"} /\ Filtered(data, filter) # {} =>
       page <= PageCount(data, filter)

(* A tick is on a chosen record while the rows keep their places, filtered   *)
(* or not.                                                                   *)
TicksAreChosen ==
  \/ \A i \in ticks \cap DOMAIN data : data[i] \in chosen
  \/ moved
  \/ table.name = "ppp-secrets"

TableSafe == TypeOK /\ PagesInRange /\ TicksAreChosen

(* The table and its lists, for the provers. *)
LEMMA TableTyped ==
  ASSUME TableSafe
  PROVE  /\ Cardinality(Records) \in Nat /\ Cardinality(Records) >= 1
         /\ PageSize \in Nat \ {0} /\ MaxHistory \in Nat \ {0}
         /\ table.paging \in {"one", "local", "url", "server"}
         /\ page \in Nat \ {0} /\ DOMAIN data \subseteq 1..Cardinality(Records)
         /\ \A i \in DOMAIN data : data[i] \in Records
         /\ \A i, j \in DOMAIN data : data[i] = data[j] => i = j
         /\ Filtered(data, filter) \subseteq DOMAIN data
<1>1. Cardinality(Records) \in Nat /\ Cardinality(Records) >= 1
    BY TablesAssumption, FS_CardinalityType, FS_EmptySet
<1>2. PageSize \in Nat \ {0} /\ MaxHistory \in Nat \ {0}
    BY TablesAssumption
<1>3. table.paging \in {"one", "local", "url", "server"}
    BY TableCatalogueAssumption DEF TableSafe, TypeOK
<1>4. page \in Nat \ {0}
    BY <1>1 DEF TableSafe, TypeOK
<1>5. /\ DOMAIN data \subseteq 1..Cardinality(Records)
      /\ \A i \in DOMAIN data : data[i] \in Records
      /\ \A i, j \in DOMAIN data : data[i] = data[j] => i = j
  <2>1. data \in Lists
      BY DEF TableSafe, TypeOK
  <2>2. PICK n \in Nat :
          /\ n <= Cardinality(Records) /\ DOMAIN data = 1..n
          /\ data \in [1..n -> Records]
          /\ \A i, j \in DOMAIN data : data[i] = data[j] => i = j
      BY <2>1, ListFields
  <2> QED BY <1>1, <2>2
<1>6. Filtered(data, filter) \subseteq DOMAIN data
    BY DEF Filtered
<1> QED BY <1>1, <1>2, <1>3, <1>4, <1>5, <1>6

LEMMA TableInit == Init => TableSafe
<1> SUFFICES ASSUME Init PROVE TableSafe
    OBVIOUS
<1>1. Cardinality(Records) \in Nat /\ Cardinality(Records) >= 1
    BY TablesAssumption, FS_CardinalityType, FS_EmptySet
<1>2. /\ data \in Lists /\ filter = FALSE /\ page = 1 /\ history = <<Home>> /\ at = 1
      /\ ticks = {} /\ table \in AllTables
      /\ chosen = {} /\ moved = FALSE /\ calls = 0
    BY DEF Init
<1>3. Home \in Address /\ Home.page = 1
    BY DEF Home, Address
<1>4. /\ history \in Seq(Address) /\ Len(history) = 1 /\ Len(history) <= MaxHistory
      /\ \A i \in 1..Len(history) : history[i] = Home
    BY <1>2, <1>3, TablesAssumption
<1>6. TypeOK
  <2>1. page \in 1..Cardinality(Records) /\ calls \in Nat /\ at \in 1..Len(history)
      BY <1>1, <1>2, <1>4
  <2>2. ticks \subseteq 1..Cardinality(Records) /\ chosen \subseteq Records
      BY <1>2
  <2>3. moved \in BOOLEAN /\ filter \in BOOLEAN
      BY <1>2
  <2> QED BY <1>2, <1>4, <2>1, <2>2, <2>3 DEF TypeOK
<1>7. Filtered(data, filter) # {} => page <= PageCount(data, filter)
    BY <1>2, FilteredFields
<1>8. PagesInRange
    BY <1>1, <1>3, <1>4, <1>7 DEF PagesInRange
<1>9. TicksAreChosen
    BY <1>2 DEF TicksAreChosen
<1> QED BY <1>6, <1>8, <1>9 DEF TableSafe

(* An address that is one, and a history of them. *)
Places ==
  /\ history \in Seq(Address) /\ Len(history) <= MaxHistory
  /\ at \in 1..Len(history)
  /\ \A i \in 1..Len(history) : history[i].page \in 1..Cardinality(Records)

LEMMA TablePlaces ==
  ASSUME TableSafe
  PROVE  /\ Places /\ Len(history) \in Nat
         /\ \A i \in 1..Len(history) : history[i] \in Address
<1>1. history \in Seq(Address)
    BY DEF TableSafe, TypeOK
<1> QED BY <1>1, LenProperties, ElementOfSeq DEF TableSafe, TypeOK, PagesInRange, Places

(* Going somewhere keeps the history in range. *)
LEMMA NavigateKeeps ==
  ASSUME TableSafe, at < MaxHistory, NEW to \in Address, to.page \in 1..Cardinality(Records),
         Navigate(to)
  PROVE  Places'
<1>1. /\ history \in Seq(Address) /\ Len(history) \in Nat /\ at \in 1..Len(history)
      /\ \A i \in 1..Len(history) : history[i].page \in 1..Cardinality(Records)
      /\ \A i \in 1..Len(history) : history[i] \in Address
    BY TablePlaces DEF Places
<1>2. CASE UNCHANGED address
    BY <1>2, TablePlaces DEF Places, address
<1>3. CASE history' = Append(SubSeq(history, 1, at), to) /\ at' = at + 1
  <2> DEFINE h == SubSeq(history, 1, at)
  <2>0. at \in Nat /\ 1 <= at /\ \A i \in 1..at : history[i] \in Address
      BY <1>1
  <2>1. /\ h \in Seq(Address)
        /\ Len(h) = IF 1 <= at THEN at - 1 + 1 ELSE 0
        /\ \A i \in 1..at - 1 + 1 : h[i] = history[1 + i - 1]
      BY <2>0, SubSeqProperties
  <2>2. Len(h) = at /\ \A i \in 1..at : h[i] = history[i]
      BY <2>0, <2>1
  <2> HIDE DEF h
  <2>3. /\ Append(h, to) \in Seq(Address) /\ Len(Append(h, to)) = Len(h) + 1
        /\ \A i \in 1..Len(h) : Append(h, to)[i] = h[i]
        /\ Append(h, to)[Len(h) + 1] = to
      BY <2>1, AppendProperties
  <2>4. history' = Append(h, to)
      BY <1>3 DEF h
  <2>5. /\ history' \in Seq(Address) /\ Len(history') = at + 1
        /\ \A i \in 1..at : history'[i] = history[i]
        /\ history'[at + 1] = to
      BY <2>2, <2>3, <2>4
  <2>6. \A i \in 1..Len(history') : i \in 1..at \/ i = at + 1
      BY <2>0, <2>5
  <2>7. \A i \in 1..at : i \in 1..Len(history)
      BY <1>1
  <2>8. \A i \in 1..Len(history') : history'[i].page \in 1..Cardinality(Records)
      BY <1>1, <2>5, <2>6, <2>7
  <2>9. Len(history') <= MaxHistory /\ at' \in 1..Len(history')
      BY <1>3, <2>0, <2>5, TableTyped
  <2> QED BY <2>5, <2>8, <2>9 DEF Places
<1> QED BY <1>2, <1>3 DEF Navigate

(* GoTo, to an address with a page of the table. *)
LEMMA GoToKeeps ==
  ASSUME TableSafe, CanNavigate, NEW p, NEW on, NEW to,
         table.paging = "url" => to \in Address /\ to.page \in 1..Cardinality(Records),
         GoTo(p, on, to)
  PROVE  page' = p /\ filter' = on /\ Places'
<1>1. page' = p /\ filter' = on
    BY DEF GoTo
<1>2. CASE table.paging = "url"
    BY <1>1, <1>2, NavigateKeeps DEF GoTo, CanNavigate
<1>3. CASE table.paging # "url"
    BY <1>1, <1>3, TablePlaces DEF GoTo, Places, address
<1> QED BY <1>2, <1>3

(* The address on display, with another page. *)
LEMMA OtherPage ==
  ASSUME TableSafe, NEW p \in 1..Cardinality(Records)
  PROVE  /\ [history[at] EXCEPT !.page = p] \in Address
         /\ [history[at] EXCEPT !.page = p].page = p
<1>1. history[at] \in Address
    BY TablePlaces DEF Places
<1> QED BY <1>1, TableTyped DEF Address

LEMMA InRangeIs ==
  ASSUME TableSafe, NEW p \in 1..Cardinality(Records), NEW on \in BOOLEAN
  PROVE  /\ InRange(p, on) \in 1..Cardinality(Records)
         /\ table.paging = "url" /\ Filtered(data, on) # {} => InRange(p, on) <= PageCount(data, on)
<1>1. PageCount(data, on) \in Nat /\ (Filtered(data, on) # {} => PageCount(data, on) >= 1)
    BY FilteredFields DEF TableSafe, TypeOK
<1>2. table.paging = "url" => table.inRange
    BY TableCatalogueAssumption DEF TableSafe, TypeOK
<1> QED BY <1>1, <1>2, TableTyped DEF InRange

LEMMA ArriveKeeps ==
  ASSUME TableSafe, NEW k \in 1..Len(history), NEW on \in BOOLEAN, Arrive(k, on)
  PROVE  /\ Places' /\ page' \in 1..Cardinality(Records)
         /\ table.paging = "url" /\ Filtered(data, on) # {} => page' <= PageCount(data, on)
<1> DEFINE p == InRange(history[k].page, on)
           to == [history[k] EXCEPT !.page = p]
<1>0. at' = k /\ page' = p /\ history' = [history EXCEPT ![k] = to]
    BY DEF Arrive
<1>1. /\ history \in Seq(Address) /\ Len(history) \in Nat /\ Len(history) <= MaxHistory
      /\ \A i \in 1..Len(history) : history[i].page \in 1..Cardinality(Records)
      /\ history[k] \in Address
    BY TablePlaces DEF Places
<1>2. /\ p \in 1..Cardinality(Records)
      /\ table.paging = "url" /\ Filtered(data, on) # {} => p <= PageCount(data, on)
    BY <1>1, InRangeIs
<1> HIDE DEF p
<1>3. to \in Address /\ to.page = p
    BY <1>1, <1>2, TableTyped DEF Address
<1> HIDE DEF to
<1>4. /\ history' \in Seq(Address) /\ Len(history') = Len(history)
      /\ \A i \in 1..Len(history) : history'[i] = IF i = k THEN to ELSE history[i]
    BY <1>0, <1>1, <1>3, ExceptSeq
<1>5. \A i \in 1..Len(history') : history'[i].page \in 1..Cardinality(Records)
    BY <1>1, <1>2, <1>3, <1>4
<1> QED BY <1>0, <1>1, <1>2, <1>4, <1>5 DEF Places

-----------------------------------------------------------------------------
(* A step that changes the selection. *)
LEMMA SelectionStep ==
  ASSUME TableSafe, UNCHANGED <<table, data, filter, page, address>>,
         ticks' \subseteq 1..Cardinality(Records), chosen' \subseteq Records,
         moved' \in BOOLEAN, calls' \in Nat, TicksAreChosen'
  PROVE  TableSafe'
<1>0. UNCHANGED <<table, data, filter, page, history, at>>
    BY DEF address
<1>1. TypeOK'
    BY <1>0 DEF TableSafe, TypeOK
<1>2. PagesInRange'
    BY <1>0 DEF TableSafe, PagesInRange, Filtered, PageCount
<1> QED BY <1>1, <1>2 DEF TableSafe

(* A step that turns the pages of the rows. *)
LEMMA PageStep ==
  ASSUME TableSafe, UNCHANGED <<table, data>>, Places',
         ticks' \subseteq 1..Cardinality(Records), chosen' \subseteq Records,
         moved' \in BOOLEAN, calls' \in Nat, TicksAreChosen',
         filter' \in BOOLEAN, page' \in 1..Cardinality(Records),
         table.paging \in {"local", "url"} /\ Filtered(data, filter') # {} =>
           page' <= PageCount(data, filter')
  PROVE  TableSafe'
<1>1. TypeOK'
    BY DEF TableSafe, TypeOK, Places
<1>2. PagesInRange'
    BY DEF PagesInRange, Places, Filtered, PageCount
<1> QED BY <1>1, <1>2 DEF TableSafe

LEMMA SameSelection ==
  ASSUME TableSafe, UNCHANGED <<table, data, selection, calls>>
  PROVE  /\ ticks' \subseteq 1..Cardinality(Records) /\ chosen' \subseteq Records
         /\ moved' \in BOOLEAN /\ calls' \in Nat /\ TicksAreChosen'
<1>1. UNCHANGED <<table, data, ticks, chosen, moved, calls>>
    BY DEF selection
<1> QED BY <1>1 DEF TableSafe, TypeOK, TicksAreChosen

LEMMA RefetchKeeps ==
  ASSUME TableSafe, NEW rows \in Lists, Refetch(rows)
  PROVE  TableSafe'
<1>0. /\ CanNavigate /\ data' = rows
      /\ moved' = (moved \/ \E i \in ticks \cap DOMAIN rows :
                                i \notin DOMAIN data \/ rows[i] # data[i])
      /\ GoTo(ResetPage, filter, [history[at] EXCEPT !.page = 1])
      /\ UNCHANGED <<table, ticks, chosen, calls>>
    BY DEF Refetch
<1>1. 1 \in 1..Cardinality(Records)
    BY TableTyped
<1>2. page' = ResetPage /\ filter' = filter /\ Places'
    BY <1>0, <1>1, OtherPage, GoToKeeps
<1>3. page' \in 1..Cardinality(Records) /\ (table.paging \in {"local", "url"} => page' = 1)
    BY <1>1, <1>2 DEF ResetPage, TableSafe, TypeOK
<1>4. moved' \in BOOLEAN
    BY <1>0 DEF TableSafe, TypeOK
<1>5. TypeOK'
    BY <1>0, <1>2, <1>3, <1>4 DEF TableSafe, TypeOK, Places
<1>6. PagesInRange'
  <2>1. Filtered(rows, filter) # {} => 1 <= PageCount(rows, filter)
      BY FilteredFields DEF TableSafe, TypeOK
  <2> QED BY <1>0, <1>2, <1>3, <2>1 DEF PagesInRange, Places, Filtered, PageCount
<1>7. TicksAreChosen'
    BY <1>0 DEF TableSafe, TicksAreChosen
<1> QED BY <1>5, <1>6, <1>7 DEF TableSafe

LEMMA SetFilterKeeps ==
  ASSUME TableSafe, NEW on \in BOOLEAN, SetFilter(on)
  PROVE  TableSafe'
<1> DEFINE to == [page |-> 1, filter |-> on]
<1>0. CanNavigate /\ GoTo(1, on, to) /\ UNCHANGED <<table, data, selection, calls>>
    BY DEF SetFilter
<1>1. 1 \in 1..Cardinality(Records) /\ to \in Address /\ to.page = 1
    BY TableTyped DEF Address
<1> HIDE DEF to
<1>2. Filtered(data, on) # {} => 1 <= PageCount(data, on)
    BY FilteredFields DEF TableSafe, TypeOK
<1>3. page' = 1 /\ filter' = on /\ Places'
    BY <1>0, <1>1, GoToKeeps
<1> QED BY <1>0, <1>1, <1>2, <1>3, SameSelection, PageStep

LEMMA TurnPageKeeps ==
  ASSUME TableSafe, NEW p \in 1..Cardinality(Records), TurnPage(p)
  PROVE  TableSafe'
<1>0. /\ p \in 1..PageCount(data, filter) /\ CanNavigate
      /\ GoTo(p, filter, [history[at] EXCEPT !.page = p])
      /\ UNCHANGED <<table, data, selection, calls>>
    BY DEF TurnPage
<1>1. filter \in BOOLEAN
    BY DEF TableSafe, TypeOK
<1>2. p <= PageCount(data, filter)
    BY <1>0, <1>1, FilteredFields DEF TableSafe, TypeOK
<1>3. page' = p /\ filter' = filter /\ Places'
    BY <1>0, OtherPage, GoToKeeps
<1> QED BY <1>0, <1>1, <1>2, <1>3, SameSelection, PageStep

LEMMA SameLinkKeeps ==
  ASSUME TableSafe, SameLink
  PROVE  TableSafe'
<1>0. CanNavigate /\ GoTo(1, filter, Home) /\ UNCHANGED <<table, data, selection, calls>>
    BY DEF SameLink
<1>1. 1 \in 1..Cardinality(Records) /\ Home \in Address /\ Home.page = 1 /\ filter \in BOOLEAN
    BY TableTyped DEF Home, Address, TableSafe, TypeOK
<1>2. Filtered(data, filter) # {} => 1 <= PageCount(data, filter)
    BY <1>1, FilteredFields DEF TableSafe, TypeOK
<1>3. page' = 1 /\ filter' = filter /\ Places'
    BY <1>0, <1>1, GoToKeeps
<1> QED BY <1>0, <1>1, <1>2, <1>3, SameSelection, PageStep

LEMMA BackKeeps ==
  ASSUME TableSafe, Back \/ Forward
  PROVE  TableSafe'
<1>1. /\ table.paging = "url" /\ UNCHANGED <<table, data, selection, filter, calls>>
      /\ \E k \in 1..Len(history) : Arrive(k, filter)
  <2>1. at \in 1..Len(history) /\ Len(history) \in Nat
      BY TablePlaces DEF Places
  <2>2. CASE Back
    <3>1. at - 1 \in 1..Len(history)
        BY <2>1, <2>2 DEF Back
    <3> QED BY <2>2, <3>1 DEF Back
  <2>3. CASE Forward
    <3>1. at + 1 \in 1..Len(history)
        BY <2>1, <2>3 DEF Forward
    <3> QED BY <2>3, <3>1 DEF Forward
  <2> QED BY <2>2, <2>3
<1>2. filter \in BOOLEAN
    BY DEF TableSafe, TypeOK
<1>3. /\ Places' /\ page' \in 1..Cardinality(Records)
      /\ Filtered(data, filter) # {} => page' <= PageCount(data, filter)
    BY <1>1, <1>2, ArriveKeeps
<1> QED BY <1>1, <1>2, <1>3, SameSelection, PageStep

LEMMA RemountKeeps ==
  ASSUME TableSafe, Remount
  PROVE  TableSafe'
<1>0. /\ filter' = (table.paging = "url" /\ history[at].filter)
      /\ IF table.paging = "url" THEN Arrive(at, history[at].filter)
                                 ELSE page' = 1 /\ UNCHANGED address
      /\ ClearTicks /\ calls' = 0 /\ UNCHANGED <<table, data>>
    BY DEF Remount
<1>1. at \in 1..Len(history) /\ history[at].filter \in BOOLEAN
    BY TablePlaces DEF Places, Address
<1>2. /\ ticks' \subseteq 1..Cardinality(Records) /\ chosen' \subseteq Records
      /\ moved' \in BOOLEAN /\ calls' \in Nat /\ TicksAreChosen'
    BY <1>0 DEF ClearTicks, TicksAreChosen
<1>3. CASE table.paging = "url"
  <2>1. filter' = history[at].filter
      BY <1>0, <1>1, <1>3
  <2>2. /\ Places' /\ page' \in 1..Cardinality(Records)
        /\ Filtered(data, filter') # {} => page' <= PageCount(data, filter')
      BY <1>0, <1>1, <1>3, <2>1, ArriveKeeps
  <2> QED BY <1>0, <1>1, <1>2, <2>1, <2>2, PageStep
<1>4. CASE table.paging # "url"
  <2>1. filter' = FALSE /\ page' = 1 /\ UNCHANGED address
      BY <1>0, <1>4
  <2>2. Places' /\ page' \in 1..Cardinality(Records)
      BY <2>1, TablePlaces, TableTyped DEF Places, address
  <2>3. Filtered(data, filter') # {} => 1 <= PageCount(data, filter')
      BY <2>1, FilteredFields DEF TableSafe, TypeOK
  <2> QED BY <1>0, <1>2, <2>1, <2>2, <2>3, PageStep
<1> QED BY <1>3, <1>4

LEMMA TickKeeps ==
  ASSUME TableSafe, NEW i \in 1..Cardinality(Records), Tick(i)
  PROVE  TableSafe'
<1>0. /\ i \in Visible(data, filter, page) /\ ticks' = ticks \cup {i}
      /\ chosen' = chosen \cup {data[i]}
      /\ UNCHANGED <<table, data, moved, filter, page, address, calls>>
    BY DEF Tick, OnPage
<1>1. i \in DOMAIN data
    BY <1>0 DEF Visible, Filtered
<1>2. /\ ticks' \subseteq 1..Cardinality(Records) /\ chosen' \subseteq Records
      /\ moved' \in BOOLEAN /\ calls' \in Nat
    BY <1>0, <1>1, TableTyped DEF TableSafe, TypeOK
<1>3. TicksAreChosen'
    BY <1>0 DEF TableSafe, TicksAreChosen
<1> QED BY <1>0, <1>2, <1>3, SelectionStep

LEMMA UntickKeeps ==
  ASSUME TableSafe, NEW i \in 1..Cardinality(Records), Untick(i)
  PROVE  TableSafe'
<1>0. /\ i \in Visible(data, filter, page) /\ ticks' = ticks \ {i}
      /\ chosen' = chosen \ {data[i]}
      /\ UNCHANGED <<table, data, moved, filter, page, address, calls>>
    BY DEF Untick, OnPage
<1>1. i \in DOMAIN data
    BY <1>0 DEF Visible, Filtered
<1>2. /\ ticks' \subseteq 1..Cardinality(Records) /\ chosen' \subseteq Records
      /\ moved' \in BOOLEAN /\ calls' \in Nat
    BY <1>0 DEF TableSafe, TypeOK
<1>3. \A j \in ticks' \cap DOMAIN data : data[j] # data[i]
    BY <1>0, <1>1, TableTyped
<1>4. TicksAreChosen'
    BY <1>0, <1>3 DEF TableSafe, TicksAreChosen
<1> QED BY <1>0, <1>2, <1>4, SelectionStep

(* The ticks are cleared, by hand, by a bulk action or by its answer; or     *)
(* they stay, and only the PPP secrets forget who chose them.                *)
LEMMA BulkKeeps ==
  ASSUME TableSafe, ClearSelection \/ BulkClick \/ BulkConfirm \/ \E ok \in BOOLEAN : BulkAnswer(ok)
  PROVE  TableSafe'
<1>0. UNCHANGED <<table, data, filter, page, address>>
    BY DEF ClearSelection, BulkClick, BulkConfirm, BulkAnswer
<1>1. calls' \in Nat
  <2>1. calls \in Nat
      BY DEF TableSafe, TypeOK
  <2> QED BY <2>1 DEF ClearSelection, BulkClick, BulkConfirm, BulkAnswer
<1>2. \/ ClearTicks
      \/ table.bulk = "click" /\ ~table.clears /\ chosen' = {} /\ UNCHANGED <<ticks, moved>>
      \/ UNCHANGED selection
    BY DEF ClearSelection, BulkClick, BulkConfirm, BulkAnswer
<1>3. CASE ClearTicks
  <2>1. /\ ticks' \subseteq 1..Cardinality(Records) /\ chosen' \subseteq Records
        /\ moved' \in BOOLEAN /\ TicksAreChosen'
      BY <1>3 DEF ClearTicks, TicksAreChosen
  <2> QED BY <1>0, <1>1, <2>1, SelectionStep
<1>4. CASE table.bulk = "click" /\ ~table.clears /\ chosen' = {} /\ UNCHANGED <<ticks, moved>>
  <2>1. table.name = "ppp-secrets"
      BY <1>4, TableCatalogueAssumption DEF TableSafe, TypeOK
  <2>2. TicksAreChosen'
      BY <1>0, <2>1 DEF TicksAreChosen
  <2>3. /\ ticks' \subseteq 1..Cardinality(Records) /\ chosen' \subseteq Records
        /\ moved' \in BOOLEAN
      BY <1>4 DEF TableSafe, TypeOK
  <2> QED BY <1>0, <1>1, <2>2, <2>3, SelectionStep
<1>5. CASE UNCHANGED selection
  <2>1. /\ ticks' \subseteq 1..Cardinality(Records) /\ chosen' \subseteq Records
        /\ moved' \in BOOLEAN /\ TicksAreChosen'
      BY <1>0, <1>5 DEF TableSafe, TypeOK, TicksAreChosen, selection
  <2> QED BY <1>0, <1>1, <2>1, SelectionStep
<1> QED BY <1>2, <1>3, <1>4, <1>5

LEMMA TableStep == TableSafe /\ [Next]_vars => TableSafe'
<1> SUFFICES ASSUME TableSafe, [Next]_vars PROVE TableSafe'
    OBVIOUS
<1>1. CASE UNCHANGED vars
  <2>1. UNCHANGED <<table, data, filter, page, address>> /\ UNCHANGED <<table, data, selection, calls>>
      BY <1>1 DEF vars, address, selection
  <2> QED BY <2>1, SameSelection, SelectionStep
<1> QED BY <1>1, RefetchKeeps, SetFilterKeeps, TurnPageKeeps, BackKeeps, SameLinkKeeps,
           RemountKeeps, TickKeeps, UntickKeeps, BulkKeeps DEF Next

LEMMA TableIsSafe == Spec => []TableSafe
  BY TableInit, TableStep, PTL DEF Spec

-----------------------------------------------------------------------------
(* The types of a table's state: in particular no refetch, filter or Back    *)
(* ever leads to a page that is not one.                                     *)
THEOREM TablesTypeOK == Spec => []TypeOK
<1>1. TableSafe => TypeOK
    BY DEF TableSafe
<1> QED BY <1>1, TableIsSafe, PTL

(* A bulk action is offered for records the user ticked, while the rows keep *)
(* their places.                                                             *)
THEOREM BulkIsChosen == Spec => []SelectedIsChosen
<1>1. TableSafe => SelectedIsChosen
    BY DEF TableSafe, TicksAreChosen, SelectedIsChosen, Selected, Filtered
<1> QED BY <1>1, TableIsSafe, PTL

(* The page on display has rows, for any page size: the counting of places   *)
(* and of whole pages is right, and every way to a page ends on one that is. *)
THEOREM PagesHaveRows == Spec => []PageHasRows
<1>1. TableSafe => PageHasRows
  <2> SUFFICES ASSUME TableSafe, Filtered(data, filter) # {}, table.name # "sales"
               PROVE  \E i \in DOMAIN data : OnPage(i)
      BY DEF PageHasRows
  <2>1. CASE table.paging = "one"
      BY <2>1 DEF OnPage, Visible, Filtered
  <2>2. CASE table.paging \in {"local", "url"}
    <3>1. page <= PageCount(data, filter)
        BY <2>2 DEF TableSafe, PagesInRange
    <3> QED BY <3>1, TableTyped, PageIsShown DEF TableSafe, TypeOK, OnPage
  <2>3. table.paging # "server"
      BY TableCatalogueAssumption DEF TableSafe, TypeOK
  <2> QED BY <2>1, <2>2, <2>3, TableTyped
<1> QED BY <1>1, TableIsSafe, PTL

-----------------------------------------------------------------------------
(* The forms.  A field that is sent as a number always is one, and no junk   *)
(* is stored where a preset replaces it.                                     *)
Number == Filled \cup {Zero}

Proper(f, x) ==
  {v \in Value : /\ Under(f.payload, "number", x) => v \in Number
                 /\ Under(f.payload, "preset", x) => v # Junk}

ProperStays ==
  /\ record \in Proper(form, field) /\ cached \in Proper(form, field)
  /\ opened => base \in Proper(form, field)
  /\ mine.at = "read" => mine.row \in Proper(form, field)
  /\ mine.at \in {"sent", "read"} => mine.base \in Proper(form, field)

(* What the input of an open form shows: what the user typed, or what the    *)
(* form makes of the row it compares with.                                   *)
InputShows ==
  opened /\ target =>
    /\ typed => shown \in Typable(form, field)
    /\ ~typed => shown \in Starts(form, field, base) \/ <<form.name, field>> \in Overwritten

(* What a request on its way carries. *)
RequestIs ==
  mine.at \in {"sent", "read", "applied"} =>
    /\ mine.sends = Payload(form, field, mine.want, mine.base)
    /\ mine.typed => /\ mine.want \in Typable(form, field)
                     /\ Under(form.inputs, "required", field) => mine.want # Blank
    /\ ~mine.typed => \/ mine.want \in Starts(form, field, mine.base)
                      \/ <<form.name, field>> \in Overwritten

(* What a request leaves, or a save that sends none for the field. *)
OutcomeIs == mine.typed /\ mine.at \in {"idle", "applied", "ok"} => StoredAsTyped

ToldIs ==
  /\ form.saves = "once" => rest = "idle"
  /\ told => mine.at \in {"idle", "ok"} /\ rest \in {"idle", "ok"}

FormSafe == FormTypeOK /\ ProperStays /\ InputShows /\ RequestIs /\ OutcomeIs /\ ToldIs

Work == [at : {"idle", "sent", "read", "applied", "ok", "failed"}, sends : SUBSET Value,
         want : Value, typed : BOOLEAN, base : Value, row : Value, left : Value,
         closed : BOOLEAN]

-----------------------------------------------------------------------------
(* The rule of a field decides what its input shows and what is sent. *)
LEMMA RuleIs ==
  ASSUME NEW part, NEW rules, NEW x, OneRule(part, rules, x)
  PROVE  \E r \in rules : \A s \in rules : Under(part, s, x) <=> s = r
<1>1. PICK r \in rules : Under(part, r, x) /\ \A s \in rules \ {r} : ~Under(part, s, x)
    BY DEF OneRule
<1> HIDE DEF Under
<1>2. \A s \in rules : Under(part, s, x) <=> s = r
    BY <1>1
<1> QED BY <1>2

LEMMA FieldKnown ==
  ASSUME NEW f \in AllForms, NEW x \in Fields(f)
  PROVE  /\ OneRule(f.payload, Sending, x) /\ OneRule(f.defaults, Starting, x)
         /\ OneRule(f.inputs, Taking, x)
         /\ Under(f.payload, "number", x) => Under(f.inputs, "number", x)
         /\ f.after = "resets" /\ Under(f.defaults, "row", x) =>
              Under(f.payload, "edited", x) /\ <<f.name, x>> \in Overwritten
         /\ f.after \in {"resets", "clears"} \/ f.follows = "rows" =>
              Under(f.defaults, "row", x) \/ Under(f.defaults, "blank", x)
         /\ Under(f.inputs, "derived", x) => <<f.name, x>> \in Overwritten
         /\ SafeUntouched(f, x) /\ SafeTyped(f, x)
  BY FormCatalogueAssumption

LEMMA PayloadIs ==
  ASSUME NEW f \in AllForms, NEW x \in Fields(f), NEW v, NEW b
  PROVE  /\ \E r \in Sending : Under(f.payload, r, x)
         /\ Under(f.payload, "always", x) => Payload(f, x, v, b) = {v}
         /\ Under(f.payload, "filled", x) => Payload(f, x, v, b) = {v} \ {Blank}
         /\ Under(f.payload, "number", x) =>
              Payload(f, x, v, b) = {IF v \in {Blank, Junk} THEN Zero ELSE v}
         /\ Under(f.payload, "preset", x) =>
              Payload(f, x, v, b) = {IF v \in {Blank, Junk, Zero} THEN Preset ELSE v}
         /\ Under(f.payload, "changed", x) => Payload(f, x, v, b) = {v} \ {b}
         /\ Under(f.payload, "edited", x) => Payload(f, x, v, b) = {v} \ {b, Blank}
         /\ Under(f.payload, "wiped", x) => Payload(f, x, v, b) = {Blank}
         /\ Under(f.payload, "fixed", x) => Payload(f, x, v, b) = {}
<1>0. OneRule(f.payload, Sending, x)
    BY FieldKnown
<1>1. PICK r \in Sending : \A s \in Sending : Under(f.payload, s, x) <=> s = r
    BY <1>0, RuleIs
<1>2. CASE r = "always"
    BY <1>1, <1>2 DEF Payload, Sending
<1>3. CASE r = "filled"
    BY <1>1, <1>3 DEF Payload, Sending
<1>4. CASE r = "number"
    BY <1>1, <1>4 DEF Payload, Sending
<1>5. CASE r = "preset"
    BY <1>1, <1>5 DEF Payload, Sending
<1>6. CASE r = "changed"
    BY <1>1, <1>6 DEF Payload, Sending
<1>7. CASE r = "edited"
    BY <1>1, <1>7 DEF Payload, Sending
<1>8. CASE r = "wiped"
    BY <1>1, <1>8 DEF Payload, Sending
<1>9. CASE r = "fixed"
    BY <1>1, <1>9 DEF Payload, Sending
<1> QED BY <1>1, <1>2, <1>3, <1>4, <1>5, <1>6, <1>7, <1>8, <1>9 DEF Sending

(* At most one value goes out. *)
LEMMA PayloadType ==
  ASSUME NEW f \in AllForms, NEW x \in Fields(f), NEW v \in Value, NEW b \in Value
  PROVE  /\ Payload(f, x, v, b) \in SUBSET Value
         /\ \A y, z \in Payload(f, x, v, b) : y = z
<1>1. {Blank, Zero, Preset, v} \subseteq Value
    BY FormsAssumption DEF Value
<1>2. \A s \in {{v} \ {Blank}, {v} \ {b}, {v} \ {b, Blank}} : s = {} \/ s = {v}
    OBVIOUS
<1>3. Payload(f, x, v, b) \in {{}, {v}, {Blank}, {Zero}, {Preset}}
    BY <1>2, PayloadIs DEF Sending
<1> QED BY <1>1, <1>3

LEMMA StartsIs ==
  ASSUME NEW f \in AllForms, NEW x \in Fields(f), NEW c
  PROVE  /\ Under(f.defaults, "row", x) => Starts(f, x, c) = {c}
         /\ Under(f.defaults, "blank", x) => Starts(f, x, c) = {Blank}
         /\ Under(f.defaults, "orPreset", x) =>
              Starts(f, x, c) = {IF c \in {Blank, Zero} THEN Preset ELSE c}
         /\ Under(f.defaults, "orZero", x) => Starts(f, x, c) = {IF c = Blank THEN Zero ELSE c}
         /\ Under(f.defaults, "noZero", x) => Starts(f, x, c) = {IF c = Zero THEN Blank ELSE c}
         /\ c \in Value => Starts(f, x, c) \subseteq Value
<1>0. OneRule(f.defaults, Starting, x)
    BY FieldKnown
<1>1. PICK r \in Starting : \A s \in Starting : Under(f.defaults, s, x) <=> s = r
    BY <1>0, RuleIs
<1>2. {Blank, Zero, Preset} \subseteq Value /\ Filled \subseteq Value
    BY FormsAssumption DEF Value
<1>3. CASE r \in {"row", "blank"}
    BY <1>1, <1>2, <1>3 DEF Starts, Starting
<1>4. CASE r \in {"constant", "off"}
    BY <1>1, <1>2, <1>4 DEF Starts, Starting
<1>5. CASE r = "orPreset"
    BY <1>1, <1>2, <1>5 DEF Starts, Starting
<1>6. CASE r = "orZero"
    BY <1>1, <1>2, <1>6 DEF Starts, Starting
<1>7. CASE r = "noZero"
    BY <1>1, <1>2, <1>7 DEF Starts, Starting
<1>8. CASE r = "copied"
    BY <1>1, <1>2, <1>8 DEF Starts, Starting
<1> QED BY <1>1, <1>3, <1>4, <1>5, <1>6, <1>7, <1>8 DEF Starting

(* What the endpoint stores is sent, or there, or read. *)
LEMMA StoredFrom ==
  ASSUME NEW f, NEW x, NEW sends, NEW row, NEW now, NEW w \in Stored(f, x, sends, row, now)
  PROVE  w \in sends \/ w = now \/ (f.writes = "row" /\ w = row)
  BY DEF Stored

(* The save of a field the user did not touch. *)
LEMMA UntouchedStored ==
  ASSUME NEW f \in AllForms, NEW x \in Fields(f), f.bound, <<f.name, x>> \notin Overwritten,
         NEW b \in Proper(f, x), NEW v \in Starts(f, x, b), NEW row, NEW now,
         NEW w \in Stored(f, x, Payload(f, x, v, b), row, now), w # now
  PROVE  \/ <<f.name, x>> \in Completed /\ b \in {Blank, Zero}
         \/ f.writes = "row" /\ w = row
         \/ f.name \notin PartialForms /\ w = b
<1> DEFINE sends == Payload(f, x, v, b)
<1>1. w \in sends \/ (f.writes = "row" /\ w = row)
    BY StoredFrom
<1>2. CASE Under(f.stores, "dropped", x)
    BY <1>2 DEF Stored
<1>3. CASE Under(f.payload, "fixed", x)
    BY <1>1, <1>3, PayloadIs
<1>4. CASE /\ Under(f.payload, "changed", x) \/ Under(f.payload, "edited", x)
           /\ Under(f.defaults, "row", x)
  <2>1. v = b
      BY <1>4, StartsIs
  <2>2. sends = {}
      BY <1>4, <2>1, PayloadIs
  <2> QED BY <1>1, <2>2
<1>5. CASE Under(f.payload, "filled", x) /\ Under(f.defaults, "blank", x)
  <2>1. v = Blank
      BY <1>5, StartsIs
  <2>2. sends = {}
      BY <1>5, <2>1, PayloadIs
  <2> QED BY <1>1, <2>2
<1>6. CASE /\ f.name \notin PartialForms /\ Under(f.defaults, "row", x)
           /\ \/ Under(f.payload, "always", x) \/ Under(f.payload, "filled", x)
              \/ Under(f.payload, "number", x)
  <2>1. v = b
      BY <1>6, StartsIs
  <2>2. Under(f.payload, "number", x) => b \notin {Blank, Junk}
      BY FormsAssumption DEF Proper, Number
  <2>3. sends \subseteq {b}
      BY <1>6, <2>1, <2>2, PayloadIs
  <2> QED BY <1>1, <1>6, <2>3
<1>7. CASE /\ f.name \notin PartialForms /\ Under(f.defaults, "noZero", x)
           /\ Under(f.payload, "number", x)
  <2>1. v = IF b = Zero THEN Blank ELSE b
      BY <1>7, StartsIs
  <2>2. b \notin {Blank, Junk}
      BY <1>7, FormsAssumption DEF Proper, Number
  <2>3. sends = {b}
      BY <1>7, <2>1, <2>2, PayloadIs, FormsAssumption
  <2> QED BY <1>1, <1>7, <2>3
<1>8. CASE /\ f.name \notin PartialForms /\ <<f.name, x>> \in Completed
           /\ \/ Under(f.defaults, "row", x) \/ Under(f.defaults, "orPreset", x)
              \/ Under(f.defaults, "orZero", x)
           /\ \/ Under(f.payload, "always", x) \/ Under(f.payload, "filled", x)
              \/ Under(f.payload, "preset", x)
  <2>1. SUFFICES ASSUME b \notin {Blank, Zero} PROVE sends \subseteq {b}
      BY <1>1, <1>8
  <2>2. v = b
      BY <1>8, <2>1, StartsIs
  <2>3. Under(f.payload, "preset", x) => b # Junk
      BY DEF Proper
  <2> QED BY <1>8, <2>1, <2>2, <2>3, PayloadIs
<1> QED BY <1>2, <1>3, <1>4, <1>5, <1>6, <1>7, <1>8, FieldKnown DEF SafeUntouched

LEMMA TypableIs ==
  ASSUME NEW f \in AllForms, NEW x \in Fields(f), NEW v \in Typable(f, x)
  PROVE  /\ v \in Value
         /\ Under(f.inputs, "choice", x) => v \in Filled
         /\ Under(f.inputs, "switch", x) => v \in Filled \cup {Zero}
         /\ Under(f.inputs, "free", x) \/ Under(f.inputs, "required", x) => v \in Filled \cup {Blank}
         /\ ~Under(f.inputs, "locked", x) /\ ~Under(f.inputs, "hidden", x)
         /\ ~Under(f.inputs, "derived", x)
<1>0. OneRule(f.inputs, Taking, x)
    BY FieldKnown
<1>1. PICK r \in Taking : \A s \in Taking : Under(f.inputs, s, x) <=> s = r
    BY <1>0, RuleIs
<1>2. CASE r \in {"choice", "switch", "number"}
    BY <1>1, <1>2 DEF Typable, Taking, Value
<1>3. CASE r \in {"free", "required"}
    BY <1>1, <1>3 DEF Typable, Taking, Value
<1>4. CASE r \in {"locked", "hidden", "derived"}
    BY <1>1, <1>4 DEF Typable, Taking
<1> QED BY <1>1, <1>2, <1>3, <1>4 DEF Taking

(* What becomes of v, typed over b, when the endpoint leaves l. *)
AsTyped(f, x, v, b, l) ==
  \/ l = v
  \/ v = Blank /\ x \in Secrets
  \/ v \in {Blank, Zero} /\ <<f.name, x>> \in Unclearable
  \/ v \in {Blank, Junk} /\ l = Zero /\ <<f.name, x>> \in Zeroed
  \/ v \in {Blank, Junk, Zero} /\ l = Preset /\ <<f.name, x>> \in Refilled
  \/ v = b
  \/ <<f.name, x>> \in Dropped

(* The save of a field the user typed, whether or not it is sent. *)
LEMMA TypedStored ==
  ASSUME NEW f \in AllForms, NEW x \in Fields(f), f.bound, NEW v \in Typable(f, x),
         Under(f.inputs, "required", x) => v # Blank, NEW b, NEW l,
         Payload(f, x, v, b) = {}
         \/ \E row, now : l \in Stored(f, x, Payload(f, x, v, b), row, now)
  PROVE  AsTyped(f, x, v, b, l)
<1> DEFINE sends == Payload(f, x, v, b)
           skips == Under(f.stores, "nonempty", x) \/ Under(f.stores, "nonzero", x)
           leaves == Under(f.payload, "filled", x) \/ Under(f.payload, "edited", x)
<1>1. CASE <<f.name, x>> \in Dropped
    BY <1>1 DEF AsTyped
<1>2. ~(\/ Under(f.inputs, "locked", x) \/ Under(f.inputs, "hidden", x)
        \/ Under(f.inputs, "derived", x))
    BY TypableIs
<1>3. CASE /\ ~Under(f.stores, "dropped", x)
           /\ \/ Under(f.payload, "always", x) \/ Under(f.payload, "changed", x) \/ leaves
           /\ leaves \/ skips =>
                \/ Under(f.inputs, "required", x) \/ Under(f.inputs, "choice", x)
                \/ x \in Secrets /\ Under(f.inputs, "free", x)
                \/ <<f.name, x>> \in Unclearable
                \/ Under(f.inputs, "switch", x) /\ ~Under(f.stores, "nonzero", x)
  <2>1. \/ sends = {v}
        \/ sends = {} /\ (v = b \/ (leaves /\ v = Blank))
      BY <1>3, PayloadIs
  <2>2. leaves \/ skips =>
          /\ v = Blank => x \in Secrets \/ <<f.name, x>> \in Unclearable
          /\ Under(f.stores, "nonzero", x) /\ v = Zero => <<f.name, x>> \in Unclearable
      BY <1>3, TypableIs, FormsAssumption
  <2>3. CASE sends = {}
      BY <2>1, <2>2, <2>3 DEF AsTyped
  <2>4. CASE sends = {v}
    <3>1. PICK row, now : l \in Stored(f, x, sends, row, now)
        BY <2>4
    <3>2. CASE Under(f.stores, "nonempty", x) /\ v = Blank
        BY <2>2, <3>2 DEF AsTyped
    <3>3. CASE Under(f.stores, "nonzero", x) /\ v \in {Blank, Zero}
        BY <2>2, <3>3 DEF AsTyped
    <3>4. CASE /\ ~(Under(f.stores, "nonempty", x) /\ v = Blank)
               /\ ~(Under(f.stores, "nonzero", x) /\ v \in {Blank, Zero})
      <4>1. l = v
          BY <1>3, <2>4, <3>1, <3>4 DEF Stored
      <4> QED BY <4>1 DEF AsTyped
    <3> QED BY <3>2, <3>3, <3>4
  <2> QED BY <2>1, <2>3, <2>4
<1>4. CASE /\ ~Under(f.stores, "dropped", x) /\ ~skips
           /\ Under(f.payload, "number", x) /\ <<f.name, x>> \in Zeroed
  <2>1. sends = {IF v \in {Blank, Junk} THEN Zero ELSE v}
      BY <1>4, PayloadIs
  <2>2. l \in sends
      BY <1>4, <2>1 DEF Stored
  <2> QED BY <1>4, <2>1, <2>2 DEF AsTyped
<1>5. CASE /\ ~Under(f.stores, "dropped", x) /\ ~skips
           /\ Under(f.payload, "preset", x) /\ <<f.name, x>> \in Refilled
  <2>1. sends = {IF v \in {Blank, Junk, Zero} THEN Preset ELSE v}
      BY <1>5, PayloadIs
  <2>2. l \in sends
      BY <1>5, <2>1 DEF Stored
  <2> QED BY <1>5, <2>1, <2>2 DEF AsTyped
<1>6. SafeTyped(f, x)
    BY FieldKnown
<1> QED BY <1>1, <1>2, <1>3, <1>4, <1>5, <1>6 DEF SafeTyped

(* Whatever is sent, or written by others, is proper. *)
LEMMA ProperValues ==
  ASSUME NEW f \in AllForms, NEW x \in Fields(f)
  PROVE  /\ Storable(f, x) \subseteq Proper(f, x)
         /\ Proper(f, x) \subseteq Value
         /\ \A v, b \in Value : Under(f.payload, "number", x) \/ Under(f.payload, "preset", x) =>
              Payload(f, x, v, b) \subseteq Proper(f, x)
<1>0. OneRule(f.inputs, Taking, x) /\ OneRule(f.payload, Sending, x)
    BY FieldKnown
<1>1. PICK r \in Taking : \A s \in Taking : Under(f.inputs, s, x) <=> s = r
    BY <1>0, RuleIs
<1>2. PICK q \in Sending : \A s \in Sending : Under(f.payload, s, x) <=> s = q
    BY <1>0, RuleIs
<1>3. Storable(f, x) \subseteq Filled \cup {Blank, Zero}
    BY DEF Storable
<1>4. Under(f.inputs, "number", x) => Storable(f, x) = Filled \cup {Zero}
    BY <1>1 DEF Storable, Taking
<1>5. Storable(f, x) \subseteq Proper(f, x)
    BY <1>3, <1>4, FieldKnown, FormsAssumption DEF Proper, Number, Value
<1>6. ASSUME NEW v \in Value, NEW b \in Value, Under(f.payload, "number", x)
      PROVE  Payload(f, x, v, b) \subseteq Proper(f, x)
  <2>1. Payload(f, x, v, b) = {IF v \in {Blank, Junk} THEN Zero ELSE v}
      BY <1>6, PayloadIs
  <2>2. ~Under(f.payload, "preset", x)
      BY <1>2, <1>6 DEF Sending
  <2> QED BY <1>6, <2>1, <2>2 DEF Proper, Number, Value
<1>7. ASSUME NEW v \in Value, NEW b \in Value, Under(f.payload, "preset", x)
      PROVE  Payload(f, x, v, b) \subseteq Proper(f, x)
  <2>1. Payload(f, x, v, b) = {IF v \in {Blank, Junk, Zero} THEN Preset ELSE v}
      BY <1>7, PayloadIs
  <2>2. ~Under(f.payload, "number", x)
      BY <1>2, <1>7 DEF Sending
  <2> QED BY <1>7, <2>1, <2>2, FormsAssumption DEF Proper, Value
<1>8. Proper(f, x) \subseteq Value
    BY DEF Proper
<1> QED BY <1>5, <1>6, <1>7, <1>8

-----------------------------------------------------------------------------
LEMMA FormKnown ==
  ASSUME NEW f \in AllForms
  PROVE  /\ f.saves \in {"once", "each", "all"}
         /\ f.follows \in {"data", "rows", "untouched", "never"}
         /\ f.after \in {"closes", "resets", "clears", "forgets", "stays"}
         /\ f.after = "forgets" <=> f.saves = "all"
         /\ f.after = "stays" <=> f.saves = "each"
         /\ f.saves # "once" => f.bound
         /\ f.bound \in BOOLEAN /\ f.timed \in BOOLEAN
  BY FormCatalogueAssumption

LEMMA FormInitSafe == FormInit => FormSafe
<1> SUFFICES ASSUME FormInit PROVE FormSafe
    OBVIOUS
<1>1. form \in AllForms /\ field \in Fields(form)
    BY DEF FormInit
<1>2. record \in Proper(form, field) /\ record \in Value /\ Blank \in Value
    BY <1>1, ProperValues DEF FormInit, Value
<1>3. mine \in Work /\ mine.sends = {}
    BY <1>2 DEF FormInit, Idle, Work
<1>4. last \in BOOLEAN
    BY DEF FormInit
<1>5. FormTypeOK
    BY <1>1, <1>2, <1>3, <1>4 DEF FormInit, FormTypeOK, Work
<1>6. ProperStays /\ InputShows /\ RequestIs /\ OutcomeIs /\ ToldIs
    BY <1>2 DEF FormInit, Idle, ProperStays, InputShows, RequestIs, OutcomeIs, ToldIs
<1> QED BY <1>5, <1>6 DEF FormSafe

LEMMA OpenSafe == FormSafe /\ Open => FormSafe'
<1> SUFFICES ASSUME FormSafe, Open PROVE FormSafe'
    OBVIOUS
<1> USE DEF subject
<1>1. shown' \in Value
    BY StartsIs DEF Open, FormSafe, FormTypeOK
<1>2. FormTypeOK'
    BY <1>1 DEF Open, FormSafe, FormTypeOK
<1>3. ProperStays' /\ InputShows'
    BY DEF Open, FormSafe, ProperStays, InputShows
<1>4. RequestIs' /\ OutcomeIs' /\ ToldIs'
    BY DEF Open, FormSafe, RequestIs, OutcomeIs, StoredAsTyped, ToldIs
<1> QED BY <1>2, <1>3, <1>4 DEF FormSafe

(* A step that at most lets go of the component that sent the request. *)
LEMMA LetGo ==
  ASSUME FormTypeOK, mine' = [mine EXCEPT !.closed = TRUE] \/ mine' = mine
  PROVE  /\ mine' \in Work
         /\ mine'.at = mine.at /\ mine'.sends = mine.sends /\ mine'.want = mine.want
         /\ mine'.typed = mine.typed /\ mine'.base = mine.base /\ mine'.row = mine.row
         /\ mine'.left = mine.left
  BY DEF FormTypeOK, Work

LEMMA CloseSafe == FormSafe /\ (Close \/ ClearRow) => FormSafe'
<1> SUFFICES ASSUME FormSafe, Close \/ ClearRow PROVE FormSafe'
    OBVIOUS
<1> USE DEF subject
<1>0. /\ mine' \in Work
      /\ mine'.at = mine.at /\ mine'.sends = mine.sends /\ mine'.want = mine.want
      /\ mine'.typed = mine.typed /\ mine'.base = mine.base /\ mine'.row = mine.row
      /\ mine'.left = mine.left
    BY LetGo DEF FormSafe, Close, ClearRow
<1>1. /\ UNCHANGED <<form, field, last, record, cached, rest, told>>
      /\ opened' \in BOOLEAN /\ target' \in BOOLEAN /\ typed' \in BOOLEAN
      /\ base' \in {base, Blank} /\ shown' \in {shown, Blank}
      /\ opened' => opened /\ base' = base
      /\ opened' /\ target' => UNCHANGED <<base, shown, typed>> /\ target
  <2>1. CASE Close
      BY <2>1 DEF Close
  <2>2. CASE ClearRow /\ opened
      BY <2>2 DEF ClearRow, FormSafe, FormTypeOK
  <2>3. CASE ClearRow /\ ~opened
      BY <2>3 DEF ClearRow, FormSafe, FormTypeOK
  <2> QED BY <2>1, <2>2, <2>3
<1>2. due' \in BOOLEAN
    BY DEF Close, ClearRow
<1>3. FormTypeOK'
    BY <1>0, <1>1, <1>2 DEF FormSafe, FormTypeOK, Work, Value
<1>4. ProperStays' /\ InputShows'
    BY <1>0, <1>1 DEF FormSafe, ProperStays, InputShows
<1>5. RequestIs' /\ OutcomeIs' /\ ToldIs'
    BY <1>0, <1>1 DEF FormSafe, RequestIs, OutcomeIs, StoredAsTyped, ToldIs
<1> QED BY <1>3, <1>4, <1>5 DEF FormSafe

LEMMA TypeSafe ==
  ASSUME FormSafe, NEW v \in Value, Type(v) \/ Derive(v) PROVE FormSafe'
<1> USE DEF subject
<1>1. /\ UNCHANGED <<form, field, last, record, cached, opened, target, due, base, mine, rest, told>>
      /\ shown' = v /\ typed' \in BOOLEAN
    BY DEF Type, Derive, FormSafe, FormTypeOK
<1>2. FormTypeOK'
    BY <1>1 DEF FormSafe, FormTypeOK
<1>3. ProperStays' /\ RequestIs' /\ OutcomeIs' /\ ToldIs'
    BY <1>1 DEF FormSafe, ProperStays, RequestIs, OutcomeIs, StoredAsTyped, ToldIs
<1>4. CASE Type(v)
    BY <1>2, <1>3, <1>4 DEF Type, FormSafe, InputShows
<1>5. CASE Derive(v)
  <2>1. <<form.name, field>> \in Overwritten
      BY <1>5, FieldKnown DEF Derive, FormSafe, FormTypeOK
  <2>2. ~(\E w \in Typable(form, field) : TRUE)
      BY <1>5, TypableIs DEF Derive, FormSafe, FormTypeOK
  <2>3. opened /\ target => ~typed
      BY <2>2 DEF FormSafe, InputShows
  <2>4. InputShows'
      BY <1>1, <1>5, <2>1, <2>3 DEF Derive, InputShows
  <2> QED BY <1>2, <1>3, <2>4 DEF FormSafe
<1> QED BY <1>4, <1>5

LEMMA OthersWriteSafe ==
  ASSUME FormSafe, NEW v \in Value, OthersWrite(v) PROVE FormSafe'
<1> USE DEF subject, input
<1>1. record' \in Proper(form, field) /\ record' \in Value
    BY ProperValues DEF OthersWrite, FormSafe, FormTypeOK
<1>2. FormTypeOK'
    BY <1>1 DEF OthersWrite, FormSafe, FormTypeOK
<1>3. ProperStays' /\ InputShows'
    BY <1>1 DEF OthersWrite, FormSafe, ProperStays, InputShows
<1>4. RequestIs' /\ OutcomeIs' /\ ToldIs'
    BY DEF OthersWrite, FormSafe, RequestIs, OutcomeIs, StoredAsTyped, ToldIs
<1> QED BY <1>2, <1>3, <1>4 DEF FormSafe

LEMMA RefetchedSafe == FormSafe /\ Refetched => FormSafe'
<1> SUFFICES ASSUME FormSafe, Refetched PROVE FormSafe'
    OBVIOUS
<1> USE DEF subject
<1> DEFINE resets == \/ form.follows = "data"
                     \/ form.follows = "rows" /\ Row /\ record # base
                     \/ form.follows = "untouched" /\ ~typed
<1>0. /\ cached' = record /\ base' = IF opened /\ form.follows # "never" THEN record ELSE base
      /\ IF opened /\ resets
           THEN shown' \in Starts(form, field, record) /\ typed' = FALSE
           ELSE UNCHANGED <<shown, typed>>
      /\ UNCHANGED <<form, field, last, record, opened, target, due, mine, rest, told>>
    BY DEF Refetched
<1> HIDE DEF resets
<1>1. form \in AllForms /\ field \in Fields(form) /\ record \in Value
    BY DEF FormSafe, FormTypeOK
<1>2. shown' \in Value /\ typed' \in BOOLEAN /\ base' \in Value
    BY <1>0, <1>1, StartsIs DEF FormSafe, FormTypeOK
<1>3. FormTypeOK'
    BY <1>0, <1>1, <1>2 DEF FormSafe, FormTypeOK
<1>4. ProperStays'
    BY <1>0 DEF FormSafe, ProperStays
<1>5. RequestIs' /\ OutcomeIs' /\ ToldIs'
    BY <1>0 DEF FormSafe, RequestIs, OutcomeIs, StoredAsTyped, ToldIs
<1>6. InputShows'
  <2>1. CASE ~opened
      BY <1>0, <2>1 DEF InputShows
  <2>2. CASE opened /\ resets
    <3>1. base' = record
        BY <1>0, <2>2 DEF resets
    <3> QED BY <1>0, <2>2, <3>1 DEF InputShows
  <2>3. CASE opened /\ ~resets /\ (typed \/ form.follows = "never" \/ record = base)
      BY <1>0, <2>3 DEF FormSafe, InputShows
  <2>4. CASE opened /\ ~resets /\ ~typed /\ form.follows = "rows" /\ ~Row
    <3>1. Under(form.defaults, "blank", field)
        BY <1>1, <2>4, FieldKnown DEF Row
    <3>2. Starts(form, field, base) = Starts(form, field, record)
        BY <1>1, <3>1, StartsIs
    <3>3. base' = record
        BY <1>0, <2>4
    <3> QED BY <1>0, <2>4, <3>2, <3>3 DEF FormSafe, InputShows
  <2> QED BY <1>1, <2>1, <2>2, <2>3, <2>4, FormKnown DEF resets
<1> QED BY <1>3, <1>4, <1>5, <1>6 DEF FormSafe

LEMMA SubmitSafe == FormSafe /\ Submit => FormSafe'
<1> SUFFICES ASSUME FormSafe, Submit PROVE FormSafe'
    OBVIOUS
<1> USE DEF subject, input
<1> DEFINE sends == Payload(form, field, shown, base)
           silent == form.saves # "once" /\ sends = {}
           now == IF silent THEN "idle" ELSE "sent"
<1>0. /\ opened /\ target /\ told' = FALSE
      /\ Under(form.inputs, "required", field) => shown # Blank
      /\ mine' = [at |-> now, sends |-> sends, want |-> shown, typed |-> typed, base |-> base,
                  row |-> Blank, left |-> record, closed |-> FALSE]
      /\ UNCHANGED <<form, field, last, record, cached, opened, target, due, base, shown, typed>>
    BY DEF Submit
<1>1. /\ rest' \in {"idle", "sent"}
      /\ form.saves = "once" => rest' = "idle"
    BY FormKnown DEF Submit, FormSafe, FormTypeOK
<1> HIDE DEF sends, now
<1>2. form \in AllForms /\ field \in Fields(form) /\ {record, cached, base, shown} \subseteq Value
    BY DEF FormSafe, FormTypeOK
<1>3. sends \in SUBSET Value /\ \A v, w \in sends : v = w
    BY <1>2, PayloadType DEF sends
<1>4. now \in {"idle", "sent"} /\ (now = "idle" => silent)
    BY DEF now
<1>5. mine' \in Work
    BY <1>0, <1>2, <1>3, <1>4 DEF Work, Value, FormSafe, FormTypeOK
<1>6. /\ mine'.at = now /\ mine'.sends = sends /\ mine'.want = shown /\ mine'.typed = typed
      /\ mine'.base = base /\ mine'.left = record
    BY <1>0
<1>7. FormTypeOK'
    BY <1>0, <1>1, <1>3, <1>5, <1>6 DEF FormSafe, FormTypeOK, Work
<1>8. ProperStays' /\ InputShows' /\ ToldIs'
    BY <1>0, <1>1, <1>4, <1>6 DEF FormSafe, ProperStays, InputShows, ToldIs
<1>9. RequestIs'
    BY <1>0, <1>6 DEF FormSafe, InputShows, RequestIs, sends
<1>10. OutcomeIs'
  <2>1. SUFFICES ASSUME typed, now = "idle"
                 PROVE  AsTyped(form, field, shown, base, record)
      BY <1>0, <1>4, <1>6 DEF OutcomeIs, StoredAsTyped, AsTyped
  <2>2. form.bound /\ sends = {}
      BY <1>2, <1>4, <2>1, FormKnown
  <2>3. shown \in Typable(form, field)
      BY <1>0, <2>1 DEF FormSafe, InputShows
  <2> QED BY <1>0, <1>2, <2>2, <2>3, TypedStored DEF sends
<1> QED BY <1>7, <1>8, <1>9, <1>10 DEF FormSafe

LEMMA ReadSafe == FormSafe /\ Read => FormSafe'
<1> SUFFICES ASSUME FormSafe, Read PROVE FormSafe'
    OBVIOUS
<1> USE DEF subject, input
<1>1. mine \in Work /\ mine.at = "sent" /\ record \in Value
    BY DEF FormSafe, FormTypeOK, Read, Work
<1>2. /\ mine' = [mine EXCEPT !.at = "read", !.row = record]
      /\ UNCHANGED <<form, field, last, record, cached, opened, target, due, base, shown, typed,
                     rest, told>>
    BY DEF Read
<1>3. /\ mine' \in Work /\ mine'.at = "read" /\ mine'.row = record
      /\ mine'.sends = mine.sends /\ mine'.want = mine.want /\ mine'.typed = mine.typed
      /\ mine'.base = mine.base
    BY <1>1, <1>2 DEF Work
<1>4. FormTypeOK'
    BY <1>2, <1>3 DEF FormSafe, FormTypeOK, Work
<1>5. ProperStays' /\ InputShows'
    BY <1>1, <1>2, <1>3 DEF FormSafe, ProperStays, InputShows
<1>6. RequestIs' /\ OutcomeIs' /\ ToldIs'
    BY <1>1, <1>2, <1>3 DEF FormSafe, RequestIs, OutcomeIs, ToldIs
<1> QED BY <1>4, <1>5, <1>6 DEF FormSafe

LEMMA ApplySafe == FormSafe /\ Apply => FormSafe'
<1> SUFFICES ASSUME FormSafe, Apply PROVE FormSafe'
    OBVIOUS
<1> USE DEF subject, input
<1>0. form \in AllForms /\ field \in Fields(form) /\ {record, base, shown} \subseteq Value
    BY DEF FormSafe, FormTypeOK
<1>1. mine \in Work /\ mine.at \in {"sent", "read"} /\ form.bound
    BY <1>0, FormKnown DEF FormSafe, FormTypeOK, Apply, Work, Refused
<1>2. /\ mine.at = IF form.writes = "row" THEN "read" ELSE "sent"
      /\ record' \in Stored(form, field, mine.sends, mine.row, record)
      /\ mine' = [mine EXCEPT !.at = "applied", !.row = Blank, !.left = record']
      /\ UNCHANGED <<form, field, last, cached, opened, target, due, base, shown, typed,
                     rest, told>>
    BY DEF Apply
<1>3. mine.sends = Payload(form, field, mine.want, mine.base)
    BY <1>1 DEF FormSafe, RequestIs
<1>4. record' \in Proper(form, field)
  <2>1. \/ record' \in mine.sends \/ record' = record
        \/ form.writes = "row" /\ record' = mine.row
      BY <1>2, StoredFrom
  <2>2. CASE record' \in mine.sends
    <3>1. mine.sends \subseteq Value /\ mine.want \in Value /\ mine.base \in Value
        BY <1>1 DEF Work
    <3>2. CASE Under(form.payload, "number", field) \/ Under(form.payload, "preset", field)
        BY <1>0, <1>3, <2>2, <3>1, <3>2, ProperValues
    <3>3. CASE ~(Under(form.payload, "number", field) \/ Under(form.payload, "preset", field))
        BY <2>2, <3>1, <3>3 DEF Proper
    <3> QED BY <3>2, <3>3
  <2>3. CASE record' = record
      BY <2>3 DEF FormSafe, ProperStays
  <2>4. CASE form.writes = "row" /\ record' = mine.row
      BY <1>2, <2>4 DEF FormSafe, ProperStays
  <2> QED BY <2>1, <2>2, <2>3, <2>4
<1>5. record' \in Value
    BY <1>0, <1>4, ProperValues
<1>6. /\ mine' \in Work /\ mine'.at = "applied" /\ mine'.left = record'
      /\ mine'.sends = mine.sends /\ mine'.want = mine.want /\ mine'.typed = mine.typed
      /\ mine'.base = mine.base
    BY <1>1, <1>2, <1>5 DEF Work, Value
<1>7. FormTypeOK'
    BY <1>2, <1>5, <1>6 DEF FormSafe, FormTypeOK, Work
<1>8. ProperStays' /\ InputShows'
    BY <1>2, <1>4, <1>6 DEF FormSafe, ProperStays, InputShows
<1>9. RequestIs' /\ ToldIs'
    BY <1>1, <1>2, <1>6 DEF FormSafe, RequestIs, ToldIs
<1>10. OutcomeIs'
  <2>1. SUFFICES ASSUME mine.typed
                 PROVE  AsTyped(form, field, mine.want, mine.base, record')
      BY <1>2, <1>6 DEF OutcomeIs, StoredAsTyped, AsTyped
  <2>2. /\ mine.want \in Typable(form, field)
        /\ Under(form.inputs, "required", field) => mine.want # Blank
      BY <1>1, <2>1 DEF FormSafe, RequestIs
  <2> QED BY <1>0, <1>1, <1>2, <1>3, <2>2, TypedStored
<1> QED BY <1>7, <1>8, <1>9, <1>10 DEF FormSafe

(* The success handler.  Only a form of one request resets its inputs. *)
LEMMA FinishSafe ==
  ASSUME FormSafe, NEW m, NEW r, Finish(m, r), UNCHANGED <<form, field, last, record, cached>>,
         form.saves = "once" => mine.at = "applied"
  PROVE  /\ told' = Tells(m, r) /\ told' \in BOOLEAN
         /\ opened' \in BOOLEAN /\ target' \in BOOLEAN /\ due' \in BOOLEAN /\ typed' \in BOOLEAN
         /\ base' \in Value /\ shown' \in Value
         /\ opened' => opened /\ base' = base
         /\ InputShows'
<1> DEFINE done == Heard /\ Tells(m, r)
           clears == form.after \in {"resets", "clears"} /\ ~Row
<1>0. /\ told' = Tells(m, r) /\ due' = (due \/ (done /\ form.timed))
      /\ IF done /\ form.after = "closes"
           THEN opened' = FALSE /\ target' = FALSE /\ base' = Blank
           ELSE UNCHANGED <<opened, target, base>>
      /\ CASE done /\ form.after = "resets" /\ Row ->
                /\ shown' \in (IF mine.sends = {} THEN {mine.base} ELSE mine.sends)
                /\ typed' = (mine.typed /\ mine.sends # {})
           [] done /\ (clears \/ form.after = "closes") -> shown' = Blank /\ typed' = FALSE
           [] done /\ form.after = "forgets" ->
                shown' \in Starts(form, field, base) /\ typed' = FALSE
           [] OTHER -> UNCHANGED <<shown, typed>>
    BY DEF Finish
<1>1. form \in AllForms /\ field \in Fields(form) /\ {base, shown} \subseteq Value
    BY DEF FormSafe, FormTypeOK
<1>2. Tells(m, r) \in BOOLEAN
    BY <1>1, FormKnown DEF Tells, Heard
<1>3. due' \in BOOLEAN
    BY <1>0
<1> HIDE DEF done
<1>4. /\ opened' \in BOOLEAN /\ target' \in BOOLEAN /\ base' \in Value
      /\ opened' => UNCHANGED <<opened, target, base>>
    BY <1>0, <1>1 DEF FormSafe, FormTypeOK, Value
<1>5. CASE done /\ form.after = "resets" /\ Row
  <2>1. form.saves = "once" /\ <<form.name, field>> \in Overwritten
        /\ Under(form.payload, "edited", field)
      BY <1>1, <1>5, FormKnown, FieldKnown DEF Row
  <2>2. mine.sends = Payload(form, field, mine.want, mine.base)
        /\ (mine.typed => mine.want \in Typable(form, field))
      BY <2>1 DEF FormSafe, RequestIs
  <2>3. mine.sends \subseteq {mine.want}
      BY <1>1, <2>1, <2>2, PayloadIs
  <2>4. mine.sends \subseteq Value /\ mine.base \in Value /\ mine.typed \in BOOLEAN
      BY DEF FormSafe, FormTypeOK
  <2>5. shown' \in Value /\ typed' \in BOOLEAN
      BY <1>0, <1>5, <2>4
  <2>6. typed' => shown' \in Typable(form, field)
      BY <1>0, <1>5, <2>2, <2>3
  <2>7. InputShows'
      BY <2>1, <2>6 DEF InputShows
  <2> QED BY <1>0, <1>2, <1>3, <1>4, <2>5, <2>7
<1>6. CASE done /\ (clears \/ form.after = "closes")
  <2>1. shown' = Blank /\ typed' = FALSE
      BY <1>0, <1>6
  <2>2. CASE form.after = "closes"
    <3>1. InputShows'
        BY <1>0, <1>6, <2>2 DEF InputShows
    <3> QED BY <1>0, <1>2, <1>3, <1>4, <2>1, <3>1 DEF Value
  <2>3. CASE clears
    <3>1. Under(form.defaults, "blank", field)
        BY <1>1, <2>3, FieldKnown DEF Row
    <3>2. Starts(form, field, base) = {Blank}
        BY <1>1, <3>1, StartsIs
    <3>3. UNCHANGED <<opened, target, base>>
        BY <1>0, <2>3
    <3>4. InputShows'
        BY <2>1, <3>2, <3>3 DEF InputShows
    <3> QED BY <1>0, <1>2, <1>3, <1>4, <2>1, <3>4 DEF Value
  <2> QED BY <1>6, <2>2, <2>3
<1>7. CASE done /\ form.after = "forgets"
  <2>1. shown' \in Starts(form, field, base) /\ typed' = FALSE /\ UNCHANGED <<opened, target, base>>
      BY <1>0, <1>7
  <2>2. shown' \in Value
      BY <1>1, <2>1, StartsIs
  <2>3. InputShows'
      BY <2>1 DEF InputShows
  <2> QED BY <1>0, <1>2, <1>3, <1>4, <2>1, <2>2, <2>3
<1>8. CASE ~(done /\ (form.after \in {"closes", "forgets"} \/ clears
                      \/ (form.after = "resets" /\ Row)))
  <2>1. UNCHANGED <<opened, target, base, shown, typed>>
      BY <1>0, <1>8
  <2>2. InputShows'
      BY <2>1 DEF FormSafe, InputShows
  <2> QED BY <1>0, <1>1, <1>2, <1>3, <1>4, <2>1, <2>2 DEF FormSafe, FormTypeOK
<1> QED BY <1>5, <1>6, <1>7, <1>8

(* What the success message takes of the requests. *)
LEMMA TellsIs ==
  ASSUME NEW m, NEW r, form \in AllForms, Tells(m, r)
  PROVE  \/ form.saves = "once" /\ m = "ok"
         \/ form.saves = "all" /\ {m, r} \subseteq {"idle", "ok"}
<1>1. CASE form.saves = "each"
  <2>1. (IF Heard /\ (IF last /\ m # "idle" THEN m ELSE r) = "ok" THEN 1 ELSE 0) # 2
      OBVIOUS
  <2> QED BY <1>1, <2>1 DEF Tells
<1> QED BY <1>1, FormKnown DEF Tells

LEMMA AnswerSafe == FormSafe /\ Answer => FormSafe'
<1> SUFFICES ASSUME FormSafe, Answer PROVE FormSafe'
    OBVIOUS
<1> USE DEF subject
<1>1. /\ mine \in Work /\ mine.at = "applied" /\ Finish("ok", rest)
      /\ mine' = [mine EXCEPT !.at = "ok", !.sends = {}]
      /\ UNCHANGED <<form, field, last, record, cached, rest>>
    BY DEF Answer, FormSafe, FormTypeOK, Work
<1>2. /\ mine' \in Work /\ mine'.at = "ok" /\ mine'.sends = {} /\ mine'.want = mine.want
      /\ mine'.typed = mine.typed /\ mine'.base = mine.base /\ mine'.left = mine.left
    BY <1>1 DEF Work
<1>3. /\ told' = Tells("ok", rest) /\ told' \in BOOLEAN
      /\ opened' \in BOOLEAN /\ target' \in BOOLEAN /\ due' \in BOOLEAN /\ typed' \in BOOLEAN
      /\ base' \in Value /\ shown' \in Value
      /\ opened' => opened /\ base' = base
      /\ InputShows'
    BY <1>1, FinishSafe
<1>4. FormTypeOK'
    BY <1>1, <1>2, <1>3 DEF FormSafe, FormTypeOK, Work
<1>5. ProperStays'
    BY <1>1, <1>2, <1>3 DEF FormSafe, ProperStays
<1>6. RequestIs' /\ OutcomeIs'
    BY <1>1, <1>2 DEF FormSafe, RequestIs, OutcomeIs, StoredAsTyped
<1>7. ToldIs'
    BY <1>1, <1>2, <1>3, TellsIs DEF FormSafe, FormTypeOK, ToldIs
<1> QED BY <1>3, <1>4, <1>5, <1>6, <1>7 DEF FormSafe

LEMMA FailSafe == FormSafe /\ Fail => FormSafe'
<1> SUFFICES ASSUME FormSafe, Fail PROVE FormSafe'
    OBVIOUS
<1> USE DEF subject, input
<1>1. /\ mine \in Work /\ mine.at \in {"sent", "read", "applied"}
      /\ mine' = [Idle EXCEPT !.at = "failed", !.closed = mine.closed]
      /\ UNCHANGED <<form, field, last, record, cached, opened, target, due, base, shown, typed,
                     rest, told>>
    BY DEF Fail, FormSafe, FormTypeOK, Work
<1>2. mine' \in Work /\ mine'.at = "failed" /\ mine'.sends = {}
    BY <1>1 DEF Work, Idle, Value
<1>3. FormTypeOK'
    BY <1>1, <1>2 DEF FormSafe, FormTypeOK, Work
<1>4. ProperStays' /\ InputShows' /\ RequestIs' /\ OutcomeIs' /\ ToldIs'
    BY <1>1, <1>2 DEF FormSafe, ProperStays, InputShows, RequestIs, OutcomeIs, ToldIs
<1> QED BY <1>3, <1>4 DEF FormSafe

LEMMA RestAnswerSafe ==
  ASSUME FormSafe, NEW outcome \in {"ok", "failed"}, RestAnswer(outcome) PROVE FormSafe'
<1> USE DEF subject
<1>1. /\ rest = "sent" /\ rest' = outcome /\ Finish(mine.at, outcome)
      /\ UNCHANGED <<form, field, last, record, cached, mine>>
    BY DEF RestAnswer
<1>2. form.saves # "once" /\ form \in AllForms
    BY <1>1 DEF FormSafe, ToldIs, FormTypeOK
<1>3. /\ told' = Tells(mine.at, outcome) /\ told' \in BOOLEAN
      /\ opened' \in BOOLEAN /\ target' \in BOOLEAN /\ due' \in BOOLEAN /\ typed' \in BOOLEAN
      /\ base' \in Value /\ shown' \in Value
      /\ opened' => opened /\ base' = base
      /\ InputShows'
    BY <1>1, <1>2, FinishSafe
<1>4. FormTypeOK'
    BY <1>1, <1>3 DEF FormSafe, FormTypeOK
<1>5. ProperStays'
    BY <1>1, <1>3 DEF FormSafe, ProperStays
<1>6. RequestIs' /\ OutcomeIs'
    BY <1>1 DEF FormSafe, RequestIs, OutcomeIs, StoredAsTyped
<1>7. ToldIs'
    BY <1>1, <1>2, <1>3, TellsIs DEF ToldIs
<1> QED BY <1>3, <1>4, <1>5, <1>6, <1>7 DEF FormSafe

LEMMA FormStep == FormSafe /\ [FormNext]_formVars => FormSafe'
<1> SUFFICES ASSUME FormSafe, [FormNext]_formVars PROVE FormSafe'
    OBVIOUS
<1>1. CASE Open
    BY <1>1, OpenSafe
<1>2. CASE Close \/ ClearRow
    BY <1>2, CloseSafe
<1>3. CASE Refetched
    BY <1>3, RefetchedSafe
<1>4. CASE Submit
    BY <1>4, SubmitSafe
<1>5. CASE Read
    BY <1>5, ReadSafe
<1>6. CASE Apply
    BY <1>6, ApplySafe
<1>7. CASE Answer
    BY <1>7, AnswerSafe
<1>8. CASE Fail
    BY <1>8, FailSafe
<1>9. ASSUME NEW v \in Value, Type(v) \/ Derive(v) PROVE FormSafe'
    BY <1>9, TypeSafe
<1>10. ASSUME NEW v \in Value, OthersWrite(v) PROVE FormSafe'
    BY <1>10, OthersWriteSafe
<1>11. ASSUME NEW outcome \in {"ok", "failed"}, RestAnswer(outcome) PROVE FormSafe'
    BY <1>11, RestAnswerSafe
<1>12. CASE UNCHANGED formVars
    BY <1>12 DEF formVars, FormSafe, FormTypeOK, ProperStays, InputShows, RequestIs, OutcomeIs,
                 StoredAsTyped, ToldIs
<1> QED BY <1>1, <1>2, <1>3, <1>4, <1>5, <1>6, <1>7, <1>8, <1>9, <1>10, <1>11, <1>12 DEF FormNext

LEMMA FormIsSafe == FormSpec => []FormSafe
  BY FormInitSafe, FormStep, PTL DEF FormSpec

(* The types, and a request never has two values for a field (Forms.Payload, *)
(* the submit handlers).                                                     *)
THEOREM FormsTypeOK == FormSpec => []FormTypeOK
<1>1. FormSafe => FormTypeOK
    BY DEF FormSafe
<1> QED BY <1>1, FormIsSafe, PTL

(* A success message of a form is true: all requests of the save have been   *)
(* answered and the record was left with what the user typed, but for the    *)
(* fields StoredAsTyped names (the onSuccess callbacks of the forms against  *)
(* the handlers of internal/api).                                            *)
THEOREM ToldSavesAreStored == FormSpec => []ToldIsStored
<1>1. FormSafe => ToldIsStored
    BY DEF FormSafe, ToldIs, OutcomeIs, ToldIsStored
<1> QED BY <1>1, FormIsSafe, PTL

(* A save leaves alone what the user did not touch, but for the forms that   *)
(* send every field, the endpoints that write the whole row, and the fields  *)
(* of Completed and Overwritten.                                             *)
THEOREM UntouchedFieldStays == FormSpec => UntouchedStays
<1> DEFINE stays ==
      Saved /\ ~mine.typed /\ record' # record =>
        \/ <<form.name, field>> \in Overwritten
        \/ <<form.name, field>> \in Completed /\ mine.base \in {Blank, Zero}
        \/ form.writes = "row" /\ record' = mine.row
        \/ form.name \notin PartialForms /\ record' = mine.base
<1>1. FormSafe /\ [FormNext]_formVars => [stays]_formVars
  <2> SUFFICES ASSUME FormSafe, FormNext, Saved, ~mine.typed, record' # record,
                      <<form.name, field>> \notin Overwritten
               PROVE  \/ <<form.name, field>> \in Completed /\ mine.base \in {Blank, Zero}
                      \/ form.writes = "row" /\ record' = mine.row
                      \/ form.name \notin PartialForms /\ record' = mine.base
      BY DEF formVars, Saved
  <2>1. Apply
    <3>1. CASE \E v \in Value : OthersWrite(v)
        BY <3>1 DEF OthersWrite, Saved
    <3>2. CASE Open \/ Close \/ ClearRow \/ Refetched \/ Submit \/ Read \/ Answer \/ Fail
        BY <3>2 DEF Open, Close, ClearRow, Refetched, Submit, Read, Answer, Fail
    <3>3. CASE \E v \in Value : Type(v) \/ Derive(v)
        BY <3>3 DEF Type, Derive
    <3>4. CASE \E outcome \in {"ok", "failed"} : RestAnswer(outcome)
        BY <3>4 DEF RestAnswer
    <3> QED BY <3>1, <3>2, <3>3, <3>4 DEF FormNext
  <2>2. form \in AllForms /\ field \in Fields(form)
      BY DEF FormSafe, FormTypeOK
  <2>3. mine.at \in {"sent", "read"} /\ form.bound
      BY <2>1, <2>2, FormKnown DEF Apply, Refused
  <2>4. /\ mine.sends = Payload(form, field, mine.want, mine.base)
        /\ mine.want \in Starts(form, field, mine.base)
        /\ mine.base \in Proper(form, field)
      BY <2>3 DEF FormSafe, RequestIs, ProperStays
  <2>5. record' \in Stored(form, field, Payload(form, field, mine.want, mine.base), mine.row,
                           record)
      BY <2>1, <2>4 DEF Apply
  <2> QED BY <2>2, <2>3, <2>4, <2>5, UntouchedStored
<1> QED BY <1>1, FormIsSafe, PTL DEF FormSpec, UntouchedStays
=============================================================================
