------------------------- MODULE ItemStoreLogProofs -------------------------
(***************************************************************************)
(* Proofs that the pages of an item store are a log (ItemStoreLog), over   *)
(* the ring of pages of ItemStoreProofs: the positions of a ring that hold *)
(* an item are the first ones, without a gap; a write appends an item or   *)
(* leaves the log as it is; and a page is only erased at the head of a     *)
(* ring without any space, or with the whole store.  On these pages an     *)
(* enumeration delivers what was requested (ItemStoreReader): search and   *)
(* enumerator stand at a position of the log, and the log stays.           *)
(***************************************************************************)
EXTENDS ItemStoreReader, ItemStoreProofs, SequenceTheorems

-----------------------------------------------------------------------------
(* Arithmetic of pages and slots.                                          *)

LEMMA Product ==
  ASSUME NEW a \in Int, NEW b \in Int, a < b
  PROVE  a * ItemsPerPage + ItemsPerPage <= b * ItemsPerPage
<1>1. ItemsPerPage \in Nat
  BY Numbers
<1>2. PICK c \in Nat : b = a + 1 + c
  <2>1. b - a - 1 \in Nat /\ b = a + 1 + (b - a - 1)
    OBVIOUS
  <2> QED
    BY <2>1
<1>3. c * ItemsPerPage >= 0
  BY <1>1
<1>4. (a + 1 + c) * ItemsPerPage = a * ItemsPerPage + ItemsPerPage + c * ItemsPerPage
  BY <1>1
<1>5. a * ItemsPerPage \in Int /\ c * ItemsPerPage \in Int
  BY <1>1
<1> QED
  BY <1>1, <1>2, <1>3, <1>4, <1>5

LEMMA Division ==
  ASSUME NEW n \in Nat
  PROVE  /\ n \div ItemsPerPage \in Nat
         /\ n % ItemsPerPage \in 0 .. ItemsPerPage - 1
         /\ n = (n \div ItemsPerPage) * ItemsPerPage + (n % ItemsPerPage)
<1>1. ItemsPerPage \in Nat /\ ItemsPerPage > 0
  BY Numbers
<1>2. /\ n \div ItemsPerPage \in Nat
         /\ n % ItemsPerPage \in 0 .. ItemsPerPage - 1
  BY <1>1
<1>3. n = (n \div ItemsPerPage) * ItemsPerPage + (n % ItemsPerPage)
  BY <1>1
<1> QED
  BY <1>2, <1>3

LEMMA Quotient ==
  ASSUME NEW d \in Nat, NEW s \in 0 .. ItemsPerPage - 1
  PROVE  /\ (d * ItemsPerPage + s) \div ItemsPerPage = d
         /\ (d * ItemsPerPage + s) % ItemsPerPage = s
<1> DEFINE n == d * ItemsPerPage + s
           q == n \div ItemsPerPage
<1>1. ItemsPerPage \in Nat /\ ItemsPerPage > 0 /\ d * ItemsPerPage \in Nat
  BY Numbers
<1>2. n \in Nat
  BY <1>1
<1>3. /\ q \in Nat /\ n % ItemsPerPage \in 0 .. ItemsPerPage - 1
      /\ n = q * ItemsPerPage + (n % ItemsPerPage)
  BY <1>2, Division
<1>4. n = d * ItemsPerPage + s /\ q * ItemsPerPage \in Nat
  BY <1>1, <1>3
<1> HIDE DEF n, q
<1>5. ~(q < d)
  BY <1>1, <1>3, <1>4, Product
<1>6. ~(d < q)
  BY <1>1, <1>3, <1>4, Product
<1>7. q = d
  BY <1>3, <1>5, <1>6
<1>8. n % ItemsPerPage = s
  BY <1>1, <1>3, <1>4, <1>7
<1> QED
  BY <1>7, <1>8 DEF n, q

-----------------------------------------------------------------------------
(* Positions of a log.                                                     *)

LEMMA PageAtDistance ==
  ASSUME NEW head \in Pages, NEW d \in 0 .. NrOfPages - 1
  PROVE  /\ PageAt(head, d) \in Pages
         /\ Distance(head, PageAt(head, d)) = d
BY Numbers, RingNumbers DEF PageAt, Distance, Pages

LEMMA PageAtNext ==
  ASSUME NEW head \in Pages, NEW d \in 0 .. NrOfPages - 1
  PROVE  /\ d + 1 < NrOfPages =>
              PageAt(NextPageNr(head), d) = PageAt(head, d + 1)
         /\ d + 1 = NrOfPages => PageAt(NextPageNr(head), d) = head
BY Numbers, RingNumbers DEF PageAt, NextPageNr, Pages

\* Pages without a begin tag are erased, closed ones are full.
PagesFilled(f) ==
  \A p \in Pages :
    /\ ~IsUsed(f[p]) => f[p] = ErasedPage
    /\ Len(f[p].items) <= ItemsPerPage
    /\ IsComplete(f[p]) => Len(f[p].items) = ItemsPerPage

\* A ring that ends with an open page, an erased or a closed one.
IsLog(f, head, tag) ==
  /\ IsRing(f, head, tag)
  /\ IsComplete(f[tag.pageId]) =>
       /\ IsUsed(f[tag.pageId])
       /\ f[tag.pageId].complete.nextPage = NextPageNr(tag.pageId)

ItemAt(f, head, n) == f[PageOf(head, n)].items[SlotOf(n)]

\* The number of its items.
Size(f, head, tag) ==
  Distance(head, tag.pageId) * ItemsPerPage + Len(f[tag.pageId].items)

LEMMA ItemsType ==
  ASSUME NEW f \in [Pages -> Page], NEW p \in Pages
  PROVE  /\ f[p].items \in Seq(Item) /\ Len(f[p].items) \in Nat
         /\ DOMAIN f[p].items = 1 .. Len(f[p].items)
<1>1. f[p].items \in Seq(Item)
  BY DEF Page
<1> QED
  BY <1>1

LEMMA SizeType ==
  ASSUME NEW f \in [Pages -> Page], NEW head \in Pages, NEW tag \in PageTag,
         PagesFilled(f)
  PROVE  /\ Size(f, head, tag) \in Nat
         /\ Size(f, head, tag) <= ItemsPerPage * NrOfPages
<1> DEFINE r == Distance(head, tag.pageId)
           len == Len(f[tag.pageId].items)
<1>1. tag.pageId \in Pages
  BY DEF PageTag
<1>2. r \in 0 .. NrOfPages - 1 /\ len \in Nat /\ len <= ItemsPerPage
  BY <1>1, DistanceType, ItemsType DEF PagesFilled
<1>3. Size(f, head, tag) = r * ItemsPerPage + len
  BY DEF Size
<1> HIDE DEF r, len
<1>4. r * ItemsPerPage + ItemsPerPage <= NrOfPages * ItemsPerPage
  BY <1>2, Product, Numbers
<1>5. /\ r * ItemsPerPage \in Nat
      /\ NrOfPages * ItemsPerPage = ItemsPerPage * NrOfPages
  BY <1>2, Numbers
<1>6. NrOfPages * ItemsPerPage \in Nat /\ ItemsPerPage \in Nat
  BY Numbers
<1> QED
  BY <1>2, <1>3, <1>4, <1>5, <1>6

\* Which page a position is on.
LEMMA PositionPage ==
  ASSUME NEW head \in Pages, NEW n \in Positions
  PROVE  /\ n \in Nat
         /\ n \div ItemsPerPage \in 0 .. NrOfPages - 1
         /\ PageOf(head, n) \in Pages
         /\ Distance(head, PageOf(head, n)) = n \div ItemsPerPage
<1> DEFINE d == n \div ItemsPerPage
<1>1. /\ n \in Nat /\ n < ItemsPerPage * NrOfPages
      /\ NrOfPages * ItemsPerPage = ItemsPerPage * NrOfPages
      /\ NrOfPages * ItemsPerPage \in Nat
  BY Numbers DEF Positions
<1>2. /\ d \in Nat /\ n >= d * ItemsPerPage /\ d * ItemsPerPage \in Nat
  BY <1>1, Division, Numbers
<1> HIDE DEF d
<1>3. d < NrOfPages
  <2>1. CASE NrOfPages < d
    BY <1>1, <1>2, <2>1, Product, Numbers
  <2>2. CASE NrOfPages = d
    BY <1>1, <1>2, <2>2
  <2> QED
    BY <1>2, <2>1, <2>2, Numbers
<1>4. d \in 0 .. NrOfPages - 1
  BY <1>2, <1>3, Numbers
<1> QED
  BY <1>1, <1>4, PageAtDistance DEF PageOf, d

\* The first positions are occupied, without a gap.
LEMMA OccupiedIs ==
  ASSUME NEW f \in [Pages -> Page], NEW head \in Pages, NEW tag \in PageTag,
         IsLog(f, head, tag), PagesFilled(f)
  PROVE  Occupied(f, head) = 0 .. Size(f, head, tag) - 1
<1> DEFINE r == Distance(head, tag.pageId)
           len == Len(f[tag.pageId].items)
<1>1. /\ tag.pageId \in Pages /\ r \in 0 .. NrOfPages - 1
      /\ len \in Nat /\ len <= ItemsPerPage
      /\ Size(f, head, tag) = r * ItemsPerPage + len
      /\ r * ItemsPerPage \in Nat
      /\ ItemsPerPage \in Nat
  BY DistanceType, ItemsType, Numbers DEF PageTag, PagesFilled, Size
<1>2. /\ Size(f, head, tag) \in Nat
      /\ Size(f, head, tag) <= ItemsPerPage * NrOfPages
  BY SizeType
<1>3. ASSUME NEW n \in Positions
      PROVE  SlotOf(n) \in DOMAIN f[PageOf(head, n)].items <=>
               n < Size(f, head, tag)
  <2> DEFINE d == n \div ItemsPerPage
             s == n % ItemsPerPage
             p == PageOf(head, n)
  <2>1. /\ n \in Nat /\ d \in 0 .. NrOfPages - 1
        /\ p \in Pages /\ Distance(head, p) = d
    BY PositionPage
  <2>2. s \in 0 .. ItemsPerPage - 1 /\ n = d * ItemsPerPage + s
    BY <2>1, Division
  <2>3. Len(f[p].items) \in Nat /\ Len(f[p].items) <= ItemsPerPage
    BY <2>1, ItemsType DEF PagesFilled
  <2>4. SlotOf(n) \in DOMAIN f[p].items <=> s < Len(f[p].items)
    <3>1. DOMAIN f[p].items = 1 .. Len(f[p].items) /\ SlotOf(n) = s + 1
      BY <2>1, ItemsType DEF SlotOf
    <3> HIDE DEF p, s
    <3> QED
      BY <3>1, <2>2, <2>3, Numbers
  <2>5. d * ItemsPerPage \in Nat
    BY <2>1, Numbers
  <2>6. IsRing(f, head, tag)
    BY DEF IsLog
  <2>7. CASE d < r
    <3>1. IsComplete(f[p])
      BY <2>1, <2>6, <2>7, RingFacts
    <3>2. Len(f[p].items) = ItemsPerPage
      BY <2>1, <3>1 DEF PagesFilled
    <3> HIDE DEF d, s, r, len
    <3>3. d * ItemsPerPage + ItemsPerPage <= r * ItemsPerPage
      BY <1>1, <2>1, <2>7, Product
    <3> QED
      BY <1>1, <2>2, <2>4, <2>5, <3>2, <3>3
  <2>8. CASE d = r
    <3>1. p = tag.pageId
      BY <1>1, <2>1, <2>8, DistanceSame
    <3>2. Len(f[p].items) = len
      BY <3>1
    <3> HIDE DEF d, s, r, len
    <3> QED
      BY <1>1, <2>2, <2>4, <2>5, <2>8, <3>2
  <2>9. CASE d > r
    <3>1. f[p] = ErasedPage
      BY <2>1, <2>6, <2>9, RingFacts
    <3>2. Len(f[p].items) = 0
      BY <3>1 DEF ErasedPage
    <3> HIDE DEF d, s, r, len
    <3>3. r * ItemsPerPage + ItemsPerPage <= d * ItemsPerPage
      BY <1>1, <2>1, <2>9, Product
    <3> QED
      BY <1>1, <2>2, <2>4, <2>5, <3>2, <3>3
  <2> HIDE DEF d, s, p, r, len
  <2> QED
    BY <1>1, <2>1, <2>7, <2>8, <2>9
<1>4. ItemsPerPage * NrOfPages \in Nat
  BY Numbers
<1> HIDE DEF r, len
<1>5. \A n \in 0 .. Size(f, head, tag) - 1 : n \in Positions
  BY <1>2, <1>4 DEF Positions
<1>6. \A n \in Positions : n \in Nat
  BY <1>4 DEF Positions
<1> QED
  BY <1>2, <1>3, <1>5, <1>6 DEF Occupied

\* The log of a ring, item by item.
LEMMA LogIs ==
  ASSUME NEW f \in [Pages -> Page], NEW head \in Pages, NEW tag \in PageTag,
         IsLog(f, head, tag), PagesFilled(f)
  PROVE  /\ PersistentItems(f) \in Seq(Item)
         /\ Len(PersistentItems(f)) = Size(f, head, tag)
         /\ \A i \in 1 .. Size(f, head, tag) :
              PersistentItems(f)[i] = ItemAt(f, head, i - 1)
<1> DEFINE size == Size(f, head, tag)
           log == [i \in 1 .. size |-> ItemAt(f, head, i - 1)]
<1>1. size \in Nat /\ size <= ItemsPerPage * NrOfPages
  BY SizeType
<1>2. Occupied(f, head) = 0 .. size - 1
  BY OccupiedIs
<1>3. Cardinality(Occupied(f, head)) = size
  BY <1>1, <1>2, FS_Interval
<1>4. ItemsFrom(f, head) = log
  BY <1>3 DEF ItemsFrom, ItemAt
<1>5. \A n \in 0 .. size - 1 : ItemAt(f, head, n) \in Item
  <2> SUFFICES ASSUME NEW n \in 0 .. size - 1
               PROVE  ItemAt(f, head, n) \in Item
    OBVIOUS
  <2>1. n \in Positions /\ SlotOf(n) \in DOMAIN f[PageOf(head, n)].items
    BY <1>2 DEF Occupied
  <2>2. PageOf(head, n) \in Pages
    BY <2>1, PositionPage
  <2>3. f[PageOf(head, n)].items \in Seq(Item)
    BY <2>2, ItemsType
  <2> QED
    BY <2>1, <2>3 DEF ItemAt
<1>6. PersistentItems(f) = log
  <2>1. CASE InUse(f) # {}
    <3>1. Heads(f) = {head}
      BY <2>1, RingHeads DEF IsLog
    <3> QED
      BY <3>1, <1>4 DEF PersistentItems
  <2>2. CASE InUse(f) = {}
    <3>1. Heads(f) = {}
      BY <2>2 DEF Heads
    <3>2. \A p \in Pages : ~IsUsed(f[p])
      BY <2>2 DEF InUse
    <3>3. tag.pageId \in Pages /\ f[tag.pageId] = ErasedPage
      BY <3>2 DEF PageTag, PagesFilled
    <3>4. Len(f[tag.pageId].items) = 0
      BY <3>3 DEF ErasedPage
    <3>5. Distance(head, head) = 0 /\ Distance(head, tag.pageId) \in Nat
      BY <3>3, DistanceType
    <3>6. ~(Distance(head, head) < Distance(head, tag.pageId))
      BY <3>2, RingFacts DEF IsLog
    <3>7. Distance(head, tag.pageId) = 0
      BY <3>5, <3>6
    <3>8. size = 0
      BY <3>4, <3>7, Numbers DEF Size
    <3> HIDE DEF size
    <3>9. log = <<>>
      BY <3>8
    <3> QED
      BY <3>1, <3>9 DEF PersistentItems
  <2> QED
    BY <2>1, <2>2
<1> HIDE DEF size
<1>7. /\ log \in Seq(Item) /\ Len(log) = size
      /\ \A i \in 1 .. size : log[i] = ItemAt(f, head, i - 1)
  <2>1. \A i \in 1 .. size : i - 1 \in 0 .. size - 1
    BY <1>1
  <2> QED
    BY <1>1, <1>5, <2>1
<1> QED
  BY <1>6, <1>7 DEF size

-----------------------------------------------------------------------------
(* How the log changes with its pages.                                     *)

LEMMA ErasedLog ==
  ASSUME NEW f \in [Pages -> Page], AllErased(f)
  PROVE  /\ PagesFilled(f)
         /\ IsLog(f, FirstPage, FirstTag)
         /\ FirstPage \in Pages /\ FirstTag \in PageTag
         /\ PersistentItems(f) = <<>>
<1>1. /\ FirstPage \in Pages /\ FirstTag \in PageTag
      /\ FirstTag.pageId = FirstPage /\ FirstTag.blockId = 0
  BY FirstTagType, Numbers DEF FirstTag, PageTag
<1>2. \A p \in Pages : /\ f[p] = ErasedPage /\ ~IsUsed(f[p]) /\ ~IsComplete(f[p])
                       /\ f[p].begin = ErasedByte
                       /\ Len(f[p].items) = 0
  BY DEF AllErased, ErasedPage, IsUsed, IsComplete
<1>3. PagesFilled(f)
  BY <1>2, Numbers DEF PagesFilled
<1>4. \A p \in Pages : Distance(FirstPage, p) >= 0 /\ Distance(FirstPage, p) \in Int
  BY <1>1, DistanceType, Numbers
<1>5. Distance(FirstPage, FirstPage) = 0
  BY <1>1, DistanceType
<1>6. IsRing(f, FirstPage, FirstTag)
  <2>1. f[FirstTag.pageId].begin \in {FirstTag.blockId, ErasedByte}
    BY <1>1, <1>2
  <2>2. \A p \in Pages :
          /\ Distance(FirstPage, p) < Distance(FirstPage, FirstTag.pageId) =>
               IsUsed(f[p]) /\ f[p].complete.nextPage = NextPageNr(p)
          /\ Distance(FirstPage, p) > Distance(FirstPage, FirstTag.pageId) =>
               f[p] = ErasedPage
    BY <1>1, <1>2, <1>4, <1>5
  <2>3. \A p, q \in Pages :
          ~(/\ Distance(FirstPage, p) < Distance(FirstPage, q)
            /\ Distance(FirstPage, q) <= Distance(FirstPage, FirstTag.pageId))
    BY <1>1, <1>4, <1>5
  <2> QED
    BY <1>1, <2>1, <2>2, <2>3, RingIntro
<1>7. IsLog(f, FirstPage, FirstTag)
  BY <1>1, <1>2, <1>6 DEF IsLog
<1>8. Heads(f) = {}
  BY <1>2 DEF Heads, InUse
<1> QED
  BY <1>1, <1>3, <1>7, <1>8 DEF PersistentItems

\* The page of `tag' is written; with its complete tag it must be full.
IsWrite(f, g, tag) ==
  LET page == g[tag.pageId]
  IN  /\ \A p \in Pages : p # tag.pageId => g[p] = f[p]
      /\ page.begin = tag.blockId
      /\ Len(page.items) <= ItemsPerPage
      /\ IsComplete(page) => /\ page.complete.nextPage = NextPageNr(tag.pageId)
                             /\ Len(page.items) = ItemsPerPage

\* Its items stay, or one is appended.
LEMMA LogWritten ==
  ASSUME NEW f \in [Pages -> Page], NEW head \in Pages, NEW tag \in PageTag,
         IsLog(f, head, tag), PagesFilled(f), ~IsComplete(f[tag.pageId]),
         NEW g \in [Pages -> Page], IsWrite(f, g, tag)
  PROVE  /\ PagesFilled(g) /\ IsLog(g, head, tag)
         /\ g[tag.pageId].items = f[tag.pageId].items =>
              PersistentItems(g) = PersistentItems(f)
         /\ \A item \in Item :
              g[tag.pageId].items = Append(f[tag.pageId].items, item) =>
                /\ PersistentItems(g) = Append(PersistentItems(f), item)
                /\ Len(PersistentItems(f)) < ItemsPerPage * NrOfPages
<1> DEFINE last == tag.pageId
           page == g[last]
           r == Distance(head, last)
           size == Size(f, head, tag)
<1>1. last \in Pages /\ tag.blockId \in BlockIds
  BY DEF PageTag
<1>2. /\ \A p \in Pages : p # last => g[p] = f[p]
      /\ page \in Page /\ page.begin = tag.blockId
      /\ Len(page.items) <= ItemsPerPage
      /\ IsComplete(page) => /\ page.complete.nextPage = NextPageNr(tag.pageId)
                             /\ Len(page.items) = ItemsPerPage
  BY <1>1 DEF IsWrite
<1>3. IsUsed(page)
  BY <1>1, <1>2, RingNumbers, Numbers DEF IsUsed, BlockIds, ErasedByte
<1>4. PagesFilled(g)
  BY <1>2, <1>3 DEF PagesFilled
<1>5. IsRing(g, head, tag)
  <2>1. g = [f EXCEPT ![last] = page]
    BY <1>1, <1>2
  <2>2. IsRing(f, head, tag) /\ page.begin \in {tag.blockId, ErasedByte}
    BY <1>2 DEF IsLog
  <2> HIDE DEF page
  <2>3. IsRing([f EXCEPT ![last] = page], head, tag)
    BY <1>2, <2>2, RingWritten
  <2> QED
    BY <2>1, <2>3
<1>6. IsLog(g, head, tag)
  BY <1>2, <1>3, <1>5 DEF IsLog
<1>7. /\ size \in Nat /\ size <= ItemsPerPage * NrOfPages
      /\ size = r * ItemsPerPage + Len(f[last].items)
      /\ Size(g, head, tag) = r * ItemsPerPage + Len(page.items)
      /\ Size(g, head, tag) \in Nat
      /\ Size(g, head, tag) <= ItemsPerPage * NrOfPages
      /\ r \in 0 .. NrOfPages - 1 /\ r * ItemsPerPage \in Nat
      /\ Len(f[last].items) \in Nat /\ Len(f[last].items) <= ItemsPerPage
  <2>1. size \in Nat /\ size <= ItemsPerPage * NrOfPages
    BY SizeType
  <2>2. /\ Size(g, head, tag) \in Nat
        /\ Size(g, head, tag) <= ItemsPerPage * NrOfPages
    BY <1>2, <1>4, SizeType
  <2>3. r \in 0 .. NrOfPages - 1
    BY <1>1, DistanceType
  <2>4. r * ItemsPerPage \in Nat
    BY <2>3, Numbers
  <2>5. Len(f[last].items) \in Nat /\ Len(f[last].items) <= ItemsPerPage
    BY <1>1, ItemsType DEF PagesFilled
  <2> QED
    BY <1>2, <2>1, <2>2, <2>3, <2>4, <2>5 DEF Size
<1>8. /\ PersistentItems(f) \in Seq(Item) /\ Len(PersistentItems(f)) = size
      /\ \A i \in 1 .. size : PersistentItems(f)[i] = ItemAt(f, head, i - 1)
  BY LogIs
<1>9. /\ PersistentItems(g) \in Seq(Item)
      /\ Len(PersistentItems(g)) = Size(g, head, tag)
      /\ \A i \in 1 .. Size(g, head, tag) :
           PersistentItems(g)[i] = ItemAt(g, head, i - 1)
  BY <1>4, <1>6, LogIs
<1>0. \A i \in 1 .. size : i - 1 \in Positions /\ i - 1 \in 0 .. size - 1
  <2> DEFINE capacity == ItemsPerPage * NrOfPages
  <2>1. capacity \in Nat
    BY Numbers
  <2>2. size \in Nat /\ size <= capacity
    BY <1>7
  <2>3. Positions = 0 .. capacity - 1
    BY DEF Positions
  <2> HIDE DEF size, capacity
  <2> QED
    BY <2>1, <2>2, <2>3
<1>10. ASSUME page.items = f[last].items
       PROVE  PersistentItems(g) = PersistentItems(f)
  <2>1. Size(g, head, tag) = size
    BY <1>7, <1>10
  <2>2. \A i \in 1 .. size : ItemAt(g, head, i - 1) = ItemAt(f, head, i - 1)
    <3> SUFFICES ASSUME NEW i \in 1 .. size
                 PROVE  ItemAt(g, head, i - 1) = ItemAt(f, head, i - 1)
      OBVIOUS
    <3>1. i - 1 \in Positions
      BY <1>0
    <3>2. PageOf(head, i - 1) \in Pages
      BY <3>1, PositionPage
    <3>3. g[PageOf(head, i - 1)].items = f[PageOf(head, i - 1)].items
      BY <1>2, <1>10, <3>2
    <3> QED
      BY <3>3 DEF ItemAt
  <2> HIDE DEF size
  <2>3. \A i \in 1 .. size : PersistentItems(g)[i] = PersistentItems(f)[i]
    BY <1>8, <1>9, <2>1, <2>2
  <2> QED
    BY <1>8, <1>9, <2>1, <2>3, SeqEqual
<1>11. ASSUME NEW item \in Item, page.items = Append(f[last].items, item)
       PROVE  /\ PersistentItems(g) = Append(PersistentItems(f), item)
              /\ size < ItemsPerPage * NrOfPages
  <2>1. /\ f[last].items \in Seq(Item)
        /\ Len(page.items) = Len(f[last].items) + 1
        /\ \A i \in 1 .. Len(f[last].items) : page.items[i] = f[last].items[i]
        /\ page.items[Len(f[last].items) + 1] = item
    BY <1>1, <1>11, ItemsType, AppendProperties
  <2>2. Size(g, head, tag) = size + 1 /\ size < ItemsPerPage * NrOfPages
    <3> DEFINE base == r * ItemsPerPage
               len == Len(f[last].items)
               new == Size(g, head, tag)
               capacity == ItemsPerPage * NrOfPages
    <3>1. capacity \in Nat
      BY Numbers
    <3>2. /\ size \in Nat /\ size = base + len
          /\ new \in Nat /\ new <= capacity
          /\ base \in Nat /\ len \in Nat
      BY <1>7
    <3>3. new = base + (len + 1)
      BY <1>7, <2>1
    <3> HIDE DEF size, base, len, new, capacity
    <3>4. new = size + 1 /\ size < capacity
      BY <3>1, <3>2, <3>3
    <3> QED
      BY <3>4 DEF new, capacity
  <2>3. \A i \in 1 .. size : ItemAt(g, head, i - 1) = ItemAt(f, head, i - 1)
    <3> SUFFICES ASSUME NEW i \in 1 .. size
                 PROVE  ItemAt(g, head, i - 1) = ItemAt(f, head, i - 1)
      OBVIOUS
    <3>1. i - 1 \in Positions /\ i - 1 \in 0 .. size - 1
      BY <1>0
    <3>2. PageOf(head, i - 1) \in Pages
      BY <3>1, PositionPage
    <3>3. i - 1 \in Occupied(f, head)
      BY <3>1, OccupiedIs
    <3>4. SlotOf(i - 1) \in DOMAIN f[PageOf(head, i - 1)].items
      BY <3>3 DEF Occupied
    <3>5. CASE PageOf(head, i - 1) # last
      BY <1>2, <3>2, <3>5 DEF ItemAt
    <3>6. CASE PageOf(head, i - 1) = last
      <4>1. SlotOf(i - 1) \in 1 .. Len(f[last].items)
        BY <1>1, <3>4, <3>6, ItemsType
      <4> QED
        BY <1>2, <2>1, <3>6, <4>1 DEF ItemAt
    <3> QED
      BY <3>5, <3>6
  <2>4. ItemAt(g, head, size) = item
    <3> DEFINE s == Len(f[last].items)
    <3>1. s \in 0 .. ItemsPerPage - 1 /\ r \in Nat
      <4>1. /\ s \in Nat /\ Len(page.items) = s + 1
            /\ Len(page.items) <= ItemsPerPage
        BY <1>2, <1>7, <2>1
      <4> HIDE DEF s
      <4>2. s \in 0 .. ItemsPerPage - 1
        BY <4>1, Numbers
      <4> QED
        BY <1>7, <4>2
    <3>2. size = r * ItemsPerPage + s
      BY <1>7
    <3>3. size \div ItemsPerPage = r /\ size % ItemsPerPage = s
      BY <3>1, <3>2, Quotient
    <3>4. size \in Positions
      BY <1>7, <2>2, Numbers DEF Positions
    <3>5. PageOf(head, size) \in Pages /\ Distance(head, PageOf(head, size)) = r
      BY <3>3, <3>4, PositionPage
    <3>6. PageOf(head, size) = last
      BY <1>1, <3>5, DistanceSame
    <3> QED
      BY <1>2, <2>1, <3>3, <3>6 DEF ItemAt, SlotOf
  <2> HIDE DEF size
  <2>5. /\ Append(PersistentItems(f), item) \in Seq(Item)
        /\ Len(Append(PersistentItems(f), item)) = size + 1
        /\ \A i \in 1 .. size :
             Append(PersistentItems(f), item)[i] = PersistentItems(f)[i]
        /\ Append(PersistentItems(f), item)[size + 1] = item
    BY <1>8, AppendProperties
  <2>6. \A i \in 1 .. size + 1 :
          PersistentItems(g)[i] = Append(PersistentItems(f), item)[i]
    <3> SUFFICES ASSUME NEW i \in 1 .. size + 1
                 PROVE  PersistentItems(g)[i] = Append(PersistentItems(f), item)[i]
      OBVIOUS
    <3>1. PersistentItems(g)[i] = ItemAt(g, head, i - 1)
      BY <1>9, <2>2
    <3>2. CASE i \in 1 .. size
      BY <1>8, <2>3, <2>5, <3>1, <3>2
    <3>3. CASE i = size + 1
      <4>1. i - 1 = size
        BY <1>7, <3>3
      <4> QED
        BY <2>4, <2>5, <3>1, <3>3, <4>1
    <3>4. size \in Nat
      BY <1>7
    <3>5. i \in 1 .. size \/ i = size + 1
      BY <3>4
    <3> QED
      BY <3>2, <3>3, <3>5, Zenon
  <2> QED
    BY <1>9, <2>2, <2>5, <2>6, SeqEqual
<1> QED
  BY <1>4, <1>6, <1>8, <1>10, <1>11

\* The oldest page of a store without any space is erased.
LEMMA LogRecycled ==
  ASSUME NEW f \in [Pages -> Page], NEW head \in Pages, NEW tag \in PageTag,
         IsLog(f, head, tag), PagesFilled(f), IsComplete(f[tag.pageId]),
         NextPageNr(tag.pageId) = head,
         NEW g, g = [f EXCEPT ![head] = ErasedPage]
  PROVE  /\ g \in [Pages -> Page] /\ PagesFilled(g)
         /\ NextPageNr(head) \in Pages /\ NextTag(tag) \in PageTag
         /\ IsLog(g, NextPageNr(head), NextTag(tag))
         /\ Len(PersistentItems(f)) = ItemsPerPage * NrOfPages
         /\ PersistentItems(g) =
              SubSeq(PersistentItems(f), ItemsPerPage + 1, ItemsPerPage * NrOfPages)
<1> DEFINE last == tag.pageId
           next == NextPageNr(head)
           nextTag == NextTag(tag)
           capacity == ItemsPerPage * NrOfPages
           m == (NrOfPages - 1) * ItemsPerPage
<1>1. /\ last \in Pages /\ next \in Pages /\ nextTag \in PageTag
      /\ nextTag.pageId = head
  BY DistanceNext, NextTagType DEF PageTag, NextTag
<1>2. /\ g \in [Pages -> Page] /\ g[head] = ErasedPage
      /\ \A p \in Pages : p # head => g[p] = f[p]
  BY ErasedPageType
<1>3. ~IsUsed(ErasedPage) /\ ~IsComplete(ErasedPage) /\ Len(ErasedPage.items) = 0
  BY DEF ErasedPage, IsUsed, IsComplete
<1>4. PagesFilled(g)
  BY <1>2, <1>3, Numbers DEF PagesFilled
<1>5. IsLog(g, next, nextTag)
  <2>1. IsRing(f, head, tag) /\ f[last].complete.nextPage = NextPageNr(last)
    BY DEF IsLog
  <2>2. f[last].begin = tag.blockId
    BY <2>1, RingFacts DEF IsLog, IsUsed
  <2>3. IsRing(g, next, nextTag)
    BY <2>1, <2>2, RingRecycled
  <2> QED
    BY <1>1, <1>2, <1>3, <2>3 DEF IsLog
<1>6. /\ ItemsPerPage \in Nat /\ NrOfPages \in Nat /\ NrOfPages > 0
      /\ m \in Nat /\ capacity \in Nat /\ capacity = m + ItemsPerPage
  <2>1. ItemsPerPage \in Nat /\ NrOfPages \in Nat /\ NrOfPages > 0
    BY Numbers
  <2>2. NrOfPages - 1 \in Nat
    BY <2>1
  <2>3. m \in Nat /\ capacity \in Nat
    BY <2>1, <2>2
  <2>4. (NrOfPages - 1) * ItemsPerPage = ItemsPerPage * NrOfPages - ItemsPerPage
    BY <2>1
  <2> HIDE DEF m, capacity
  <2>5. m = capacity - ItemsPerPage
    BY <2>4 DEF m, capacity
  <2> QED
    BY <2>1, <2>3, <2>5
<1>7. Size(f, head, tag) = capacity
  <2>1. Distance(head, last) = NrOfPages - 1
    BY <1>1, DistanceNext
  <2>2. Len(f[last].items) = ItemsPerPage
    BY <1>1 DEF PagesFilled
  <2>3. Size(f, head, tag) = m + ItemsPerPage
    BY <2>1, <2>2 DEF Size
  <2> HIDE DEF m, capacity
  <2> QED
    BY <1>6, <2>3
<1>8. Size(g, next, nextTag) = m
  <2>1. Distance(next, head) = NrOfPages - 1
    BY DistanceFromNext
  <2>2. Size(g, next, nextTag) = m + 0
    BY <1>1, <1>2, <1>3, <2>1 DEF Size
  <2> HIDE DEF m
  <2> QED
    BY <1>6, <2>2
<1>9. ASSUME NEW n \in 0 .. m - 1
      PROVE  ItemAt(g, next, n) = ItemAt(f, head, n + ItemsPerPage)
  <2> DEFINE d == n \div ItemsPerPage
             s == n % ItemsPerPage
             base == d * ItemsPerPage
  <2>1. n \in Nat /\ n < m
    <3> HIDE DEF m
    <3> QED
      BY <1>6
  <2>2. /\ d \in Nat /\ s \in 0 .. ItemsPerPage - 1 /\ n = base + s
        /\ base \in Nat
    BY <2>1, <1>6, Division
  <2>3. d < NrOfPages - 1
    <3>1. NrOfPages - 1 < d => m + ItemsPerPage <= base
      BY <1>6, <2>2, Product
    <3>2. NrOfPages - 1 = d => m = base
      OBVIOUS
    <3> HIDE DEF m, base, d, s
    <3>3. n >= base
      BY <1>6, <2>1, <2>2
    <3> QED
      BY <1>6, <2>1, <2>2, <3>1, <3>2, <3>3
  <2>4. (d + 1) * ItemsPerPage = base + ItemsPerPage
    <3> HIDE DEF d
    <3> QED
      BY <1>6, <2>2 DEF base
  <2>5. n + ItemsPerPage = (d + 1) * ItemsPerPage + s
    <3> HIDE DEF base, d, s
    <3>1. n + ItemsPerPage = (base + ItemsPerPage) + s
      BY <1>6, <2>1, <2>2
    <3> QED
      BY <2>4, <3>1
  <2>6. /\ (n + ItemsPerPage) \div ItemsPerPage = d + 1
        /\ (n + ItemsPerPage) % ItemsPerPage = s
    <3>1. d + 1 \in Nat
      BY <2>2
    <3> QED
      BY <2>2, <2>5, <3>1, Quotient
  <2>7. d \in 0 .. NrOfPages - 1 /\ d + 1 < NrOfPages
        /\ d + 1 \in 0 .. NrOfPages - 1 /\ d + 1 # 0
    <3> HIDE DEF d
    <3> QED
      BY <1>6, <2>2, <2>3
  <2>8. PageOf(next, n) = PageOf(head, n + ItemsPerPage)
    BY <2>6, <2>7, PageAtNext DEF PageOf
  <2>9. PageOf(next, n) \in Pages /\ PageOf(next, n) # head
    <3>1. /\ PageAt(head, d + 1) \in Pages
          /\ Distance(head, PageAt(head, d + 1)) = d + 1
      BY <2>7, PageAtDistance
    <3>2. Distance(head, head) = 0
      BY DistanceType
    <3>3. PageOf(next, n) = PageAt(head, d + 1)
      BY <2>6, <2>8 DEF PageOf
    <3> QED
      BY <2>7, <3>1, <3>2, <3>3
  <2>10. SlotOf(n) = SlotOf(n + ItemsPerPage)
    BY <2>6 DEF SlotOf
  <2> QED
    BY <1>2, <2>8, <2>9, <2>10 DEF ItemAt
<1> HIDE DEF m, capacity, next, nextTag
<1>10. /\ PersistentItems(f) \in Seq(Item) /\ Len(PersistentItems(f)) = capacity
       /\ \A i \in 1 .. capacity : PersistentItems(f)[i] = ItemAt(f, head, i - 1)
  BY <1>7, LogIs
<1>11. /\ PersistentItems(g) \in Seq(Item) /\ Len(PersistentItems(g)) = m
       /\ \A i \in 1 .. m : PersistentItems(g)[i] = ItemAt(g, next, i - 1)
  <2>1. g \in [Pages -> Page] /\ next \in Pages /\ nextTag \in PageTag
    BY <1>1, <1>2
  <2>2. /\ PersistentItems(g) \in Seq(Item)
        /\ Len(PersistentItems(g)) = Size(g, next, nextTag)
        /\ \A i \in 1 .. Size(g, next, nextTag) :
             PersistentItems(g)[i] = ItemAt(g, next, i - 1)
    BY <2>1, <1>4, <1>5, LogIs, ZenonT(30)
  <2> QED
    BY <2>2, <1>8
<1> DEFINE rest == SubSeq(PersistentItems(f), ItemsPerPage + 1, capacity)
<1>12. /\ rest \in Seq(Item) /\ Len(rest) = m
       /\ \A i \in 1 .. m : rest[i] = PersistentItems(f)[ItemsPerPage + i]
  <2>1. \A i \in ItemsPerPage + 1 .. capacity : PersistentItems(f)[i] \in Item
    <3>1. \A i \in ItemsPerPage + 1 .. capacity : i \in 1 .. Len(PersistentItems(f))
      BY <1>6, <1>10
    <3> QED
      BY <1>10, <3>1, ElementOfSeq
  <2>2. ItemsPerPage + 1 \in Int /\ capacity \in Int
    BY <1>6
  <2>3. /\ rest \in Seq(Item)
        /\ Len(rest) = IF ItemsPerPage + 1 <= capacity
                          THEN capacity - (ItemsPerPage + 1) + 1 ELSE 0
        /\ \A i \in 1 .. capacity - (ItemsPerPage + 1) + 1 :
             rest[i] = PersistentItems(f)[ItemsPerPage + 1 + i - 1]
    BY <2>1, <2>2, SubSeqProperties
  <2>4. /\ capacity - (ItemsPerPage + 1) + 1 = m
        /\ (IF ItemsPerPage + 1 <= capacity
              THEN capacity - (ItemsPerPage + 1) + 1 ELSE 0) = m
        /\ \A i \in 1 .. m : ItemsPerPage + 1 + i - 1 = ItemsPerPage + i
    BY <1>6
  <2> HIDE DEF rest
  <2> QED
    BY <2>3, <2>4
<1> HIDE DEF rest
<1>13. \A i \in 1 .. m : PersistentItems(g)[i] = rest[i]
  <2> SUFFICES ASSUME NEW i \in 1 .. m
               PROVE  PersistentItems(g)[i] = rest[i]
    OBVIOUS
  <2>1. /\ i - 1 \in 0 .. m - 1 /\ ItemsPerPage + i \in 1 .. capacity
        /\ (i - 1) + ItemsPerPage = (ItemsPerPage + i) - 1
    BY <1>6
  <2>2. PersistentItems(g)[i] = ItemAt(f, head, (i - 1) + ItemsPerPage)
    BY <1>9, <1>11, <2>1
  <2>3. rest[i] = ItemAt(f, head, (ItemsPerPage + i) - 1)
    BY <1>10, <1>12, <2>1
  <2> QED
    BY <2>1, <2>2, <2>3
<1>14. PersistentItems(g) = rest
  BY <1>11, <1>12, <1>13, SeqEqual
<1> QED
  BY <1>1, <1>2, <1>4, <1>5, <1>10, <1>14 DEF next, nextTag, capacity, rest

-----------------------------------------------------------------------------
(* The inductive invariant.                                                *)

\* A page wrap erases the head of a ring without any space.
Wrapping == listener = "Erasing" /\ ~reinit /\ erasing.left > 0

WrapsAt(head, tag) ==
  /\ head = erasing.page
  /\ IsComplete(flash[tag.pageId])
  /\ NextPageNr(tag.pageId) = head

LogInv ==
  /\ soundBoot /\ ~eraseFailed
  /\ PagesFilled(flash)
  /\ ~Emptied =>
       \E head \in Pages, tag \in PageTag :
         IsLog(flash, head, tag) /\ (Wrapping => WrapsAt(head, tag))

LogStep == Log!Next \/ LogItems' = LogItems

\* Nothing but the state of the listener changes.
LEMMA LogSame ==
  ASSUME LogInv, UNCHANGED flash, soundBoot', ~eraseFailed',
         ~Emptied' => ~Emptied, Emptied' => Deleting,
         Wrapping' => Wrapping /\ UNCHANGED erasing
  PROVE  LogInv' /\ LogStep
<1>1. PagesFilled(flash)'
  BY DEF LogInv
<1>2. ASSUME ~Emptied'
      PROVE  \E head \in Pages, tag \in PageTag :
               IsLog(flash, head, tag)' /\ (Wrapping' => WrapsAt(head, tag)')
  <2>1. PICK head \in Pages, tag \in PageTag :
               IsLog(flash, head, tag) /\ (Wrapping => WrapsAt(head, tag))
    BY <1>2 DEF LogInv
  <2>2. IsLog(flash, head, tag)'
    BY <2>1
  <2>3. Wrapping' => WrapsAt(head, tag)'
    BY <2>1 DEF WrapsAt
  <2> QED
    BY <2>2, <2>3
<1>3. LogInv'
  BY <1>1, <1>2 DEF LogInv
<1>4. PersistentItems(flash)' = PersistentItems(flash)
  OBVIOUS
<1>5. CASE Emptied'
  <2>1. LogItems' = <<>>
    BY <1>5 DEF LogItems
  <2> QED
    BY <1>3, <1>5, <2>1 DEF LogStep, Log!Next, Log!RemoveAll
<1>6. CASE ~Emptied'
  <2>1. LogItems' = LogItems
    BY <1>4, <1>6 DEF LogItems
  <2> QED
    BY <1>3, <2>1 DEF LogStep
<1> QED
  BY <1>5, <1>6

\* An item, or a tag, is programmed into the last page of the ring.
LEMMA PageLogged ==
  ASSUME LogInv, TypeOK, TypeOK', soundBoot', ~eraseFailed', ~Emptied, ~Emptied',
         NEW head \in Pages, NEW tag \in PageTag,
         IsLog(flash, head, tag), ~IsComplete(flash[tag.pageId]),
         IsWrite(flash, flash', tag),
         \/ flash'[tag.pageId].items = flash[tag.pageId].items
         \/ \E item \in Item :
              flash'[tag.pageId].items = Append(flash[tag.pageId].items, item),
         Wrapping' => /\ head = erasing'.page
                      /\ IsComplete(flash'[tag.pageId])
                      /\ NextPageNr(tag.pageId) = head
  PROVE  LogInv' /\ LogStep
<1>0. flash \in [Pages -> Page]
  BY DEF TypeOK
<1>1. flash' \in [Pages -> Page]
  BY DEF TypeOK
<1>3. PagesFilled(flash)
  BY DEF LogInv
<1>4. /\ PagesFilled(flash') /\ IsLog(flash', head, tag)
      /\ flash'[tag.pageId].items = flash[tag.pageId].items =>
           PersistentItems(flash') = PersistentItems(flash)
      /\ \A item \in Item :
           flash'[tag.pageId].items = Append(flash[tag.pageId].items, item) =>
             /\ PersistentItems(flash') = Append(PersistentItems(flash), item)
             /\ Len(PersistentItems(flash)) < ItemsPerPage * NrOfPages
  BY <1>0, <1>1, <1>3, LogWritten, ZenonT(60)
<1>5. LogInv'
  <2>1. PagesFilled(flash)' /\ IsLog(flash, head, tag)'
    BY <1>4
  <2> QED
    BY <2>1 DEF LogInv, WrapsAt
<1>6. LogItems = PersistentItems(flash) /\ LogItems' = PersistentItems(flash')
  BY DEF LogItems
<1>7. CASE flash'[tag.pageId].items = flash[tag.pageId].items
  BY <1>4, <1>5, <1>6, <1>7 DEF LogStep
<1>8. CASE \E item \in Item :
             flash'[tag.pageId].items = Append(flash[tag.pageId].items, item)
  <2>1. PICK item \in Item :
               flash'[tag.pageId].items = Append(flash[tag.pageId].items, item)
    BY <1>8
  <2>2. /\ LogItems' = Append(LogItems, item)
        /\ Len(LogItems) < ItemsPerPage * NrOfPages
    BY <1>4, <1>6, <2>1
  <2>3. Log!Add(item)
    BY <2>2 DEF Log!Add, Log!Capacity
  <2> QED
    BY <1>5, <2>3 DEF LogStep, Log!Next
<1> QED
  BY <1>7, <1>8

\* In the idle state of the listener the log ends with the page to write.
LEMMA IdleLog ==
  ASSUME IInv, LogInv, phase = "run", listener = "Idle"
  PROVE  /\ TypeOK /\ ~Emptied /\ erasing.left = 0
         /\ oldestPageInfo.pageId \in Pages
         /\ nextWritePageInfo \in PageTag /\ WritePage \in Pages
         /\ WritePage = nextWritePageInfo.pageId
         /\ IsLog(flash, oldestPageInfo.pageId, nextWritePageInfo)
         /\ ~IsComplete(flash[WritePage])
         /\ flash[WritePage].begin \in {nextWritePageInfo.blockId, ErasedByte}
         /\ Len(flash[WritePage].items) \in Nat
         /\ ~IsUsed(flash[WritePage]) => flash[WritePage] = ErasedPage
<1>1. TypeOK /\ ChainInv
  BY Running DEF LogInv
<1>2. Kept = flash
  BY <1>1, KeptIs DEF TypeOK
<1>3. ~Emptied
  BY DEF Emptied
<1>4. erasing.left = 0
  BY <1>1 DEF IInv, InterlockInv, EraseInterlock, TypeOK, EraseJob
<1>5. /\ nextWritePageInfo \in PageTag /\ oldestPageInfo.pageId \in Pages
      /\ WritePage = nextWritePageInfo.pageId /\ WritePage \in Pages
      /\ IsRing(flash, oldestPageInfo.pageId, nextWritePageInfo)
      /\ WritePageInv(flash)
  BY <1>1, <1>2 DEF ChainInv, PageTag, WritePage
<1>6. ~IsComplete(flash[WritePage])
  BY <1>5 DEF WritePageInv, IsOpenPage, IsComplete, ErasedPage
<1>7. IsLog(flash, oldestPageInfo.pageId, nextWritePageInfo)
  BY <1>5, <1>6 DEF IsLog
<1>8. flash \in [Pages -> Page]
  BY <1>1 DEF TypeOK
<1>9. flash[WritePage].begin \in {nextWritePageInfo.blockId, ErasedByte}
  BY <1>5, <1>8, RingFacts
<1>10. /\ Len(flash[WritePage].items) \in Nat
       /\ ~IsUsed(flash[WritePage]) => flash[WritePage] = ErasedPage
  BY <1>5, <1>8, ItemsType DEF LogInv, PagesFilled
<1> QED
  BY <1>1, <1>3, <1>4, <1>5, <1>6, <1>7, <1>9, <1>10

LEMMA QuietLog ==
  ASSUME TypeOK, LogInv, soundBoot', ~eraseFailed',
         \/ \E item \in Item : RequestAddItem(item) \/ LoseItem(item)
         \/ DeleteAllItems
         \/ StartErase \/ RemindErase \/ EraseDone \/ EraseReminded
         \/ SkipErasedPage \/ CountFullPage \/ RecoverOpenPage
         \/ FlashOperationError
         \/ UNCHANGED vars
  PROVE  LogInv' /\ LogStep
<1>1. CASE \/ \E item \in Item : RequestAddItem(item) \/ LoseItem(item)
           \/ DeleteAllItems \/ RemindErase
           \/ SkipErasedPage \/ CountFullPage \/ RecoverOpenPage
           \/ UNCHANGED vars
  <2>1. UNCHANGED <<flash, listener, reinit, erasing>>
    BY <1>1 DEF RequestAddItem, LoseItem, DeleteAllItems, RemindErase,
                SkipErasedPage, CountFullPage, RecoverOpenPage, vars, eraseVars
  <2>2. (Emptied' <=> Emptied) /\ (Wrapping' <=> Wrapping)
        /\ (Emptied' => Deleting)
    BY <2>1 DEF Emptied, Wrapping, Deleting
  <2> QED
    BY <2>1, <2>2, LogSame
<1>2. CASE StartErase \/ EraseReminded
  <2>1. UNCHANGED flash /\ reinit' /\ (listener = "Idle" \/ listener' = listener)
    BY <1>2 DEF StartErase, EraseReminded
  <2>2. (~Emptied' => ~Emptied) /\ ~Wrapping'
    BY <2>1 DEF Emptied, Wrapping
  <2>3. Deleting
    <3>1. CASE StartErase
      <4>1. messages # <<>> /\ Head(messages) = "ERASE"
        BY <3>1 DEF StartErase, Dispatch, IsNext
      <4>2. 1 \in DOMAIN messages /\ messages[1] = "ERASE"
        BY <4>1 DEF TypeOK
      <4> QED
        BY <4>2 DEF Deleting
    <3>2. CASE EraseReminded
      BY <3>2 DEF EraseReminded, Deleting
    <3> QED
      BY <1>2, <3>1, <3>2
  <2> QED
    BY <2>1, <2>2, <2>3, LogSame
<1>3. CASE EraseDone
  <2>1. UNCHANGED flash /\ ~reinit /\ listener' = "Idle"
    BY <1>3 DEF EraseDone
  <2>2. ~Emptied /\ ~Emptied' /\ ~Wrapping'
    BY <2>1 DEF Emptied, Wrapping
  <2> QED
    BY <2>1, <2>2, LogSame
<1>4. CASE FlashOperationError
  BY <1>4 DEF FlashOperationError
<1> QED
  BY <1>1, <1>2, <1>3, <1>4

\* What the actions of AddItem have in common.
LEMMA ItemLogged ==
  ASSUME IInv, LogInv, TypeOK', soundBoot', ~eraseFailed',
         phase = "run", listener = "Idle",
         \A p \in Pages : p # WritePage => flash'[p] = flash[p],
         flash'[WritePage].begin = nextWritePageInfo.blockId,
         Len(flash'[WritePage].items) <= ItemsPerPage,
         IsComplete(flash'[WritePage]) =>
           /\ flash'[WritePage].complete.nextPage = NextPageNr(WritePage)
           /\ Len(flash'[WritePage].items) = ItemsPerPage,
         \/ flash'[WritePage].items = flash[WritePage].items
         \/ \E item \in Item :
              flash'[WritePage].items = Append(flash[WritePage].items, item),
         listener' = "Idle" \/ ~reinit',
         Wrapping' => /\ erasing'.page = oldestPageInfo.pageId
                      /\ IsComplete(flash'[WritePage])
                      /\ NextPageNr(WritePage) = oldestPageInfo.pageId
  PROVE  LogInv' /\ LogStep
<1>1. PICK head \in Pages, tag \in PageTag :
        head = oldestPageInfo.pageId /\ tag = nextWritePageInfo
  BY IdleLog
<1>2. /\ TypeOK /\ ~Emptied /\ tag.pageId = WritePage
      /\ IsLog(flash, head, tag) /\ ~IsComplete(flash[tag.pageId])
  BY <1>1, IdleLog
<1>3. ~Emptied'
  BY DEF Emptied
<1>4. IsWrite(flash, flash', tag)
  BY <1>1, <1>2 DEF IsWrite
<1> QED
  BY <1>1, <1>2, <1>3, <1>4, PageLogged

LEMMA AddFirstItemLog ==
  ASSUME IInv, LogInv, TypeOK', soundBoot', ~eraseFailed',
         NEW item \in Item, AddFirstItem(item)
  PROVE  LogInv' /\ LogStep
<1>1. /\ phase = "run" /\ listener = "Idle" /\ HasFreePage
      /\ flash' = ItemWritten(BeginTagWritten(flash, nextWritePageInfo),
                              WritePage, item)
      /\ listener' = "Idle"
  BY DEF AddFirstItem, Dispatch, IsNext
<1>2. /\ flash \in [Pages -> Page] /\ WritePage \in Pages
      /\ WritePage = nextWritePageInfo.pageId
      /\ flash[WritePage] = ErasedPage
  BY <1>1, IdleLog DEF TypeOK, HasFreePage, HasNoData
<1>3. /\ \A p \in Pages : p # WritePage => flash'[p] = flash[p]
      /\ flash'[WritePage].begin = nextWritePageInfo.blockId
      /\ flash'[WritePage].items = Append(flash[WritePage].items, item)
      /\ flash'[WritePage].complete = flash[WritePage].complete
  BY <1>1, <1>2 DEF ItemWritten, BeginTagWritten, Page
<1>4. ~IsComplete(flash'[WritePage])
  BY <1>2, <1>3 DEF IsComplete, ErasedPage
<1>5. Len(flash'[WritePage].items) <= ItemsPerPage
  <2>1. flash[WritePage].items = <<>>
    BY <1>2 DEF ErasedPage
  <2>2. Len(Append(<<>>, item)) = 1
    OBVIOUS
  <2> QED
    BY <1>3, <2>1, <2>2, Numbers
<1>6. ~Wrapping'
  BY <1>1 DEF Wrapping
<1> QED
  BY <1>1, <1>3, <1>4, <1>5, <1>6, ItemLogged

\* The next free slot of the page to write.
LEMMA FreeSlot ==
  ASSUME IInv, LogInv, phase = "run", listener = "Idle", HasFreeSlot,
         NEW item \in Item
  PROVE  LET g == ItemWritten(flash, WritePage, item)
         IN  /\ \A p \in Pages : p # WritePage => g[p] = flash[p]
             /\ g[WritePage].begin = nextWritePageInfo.blockId
             /\ g[WritePage].items = Append(flash[WritePage].items, item)
             /\ g[WritePage].complete = flash[WritePage].complete
             /\ ~IsComplete(g[WritePage])
             /\ Len(g[WritePage].items) = currentPageNrOfItems + 1
             /\ currentPageNrOfItems + 1 <= ItemsPerPage
             /\ g \in [Pages -> Page]
<1> DEFINE g == ItemWritten(flash, WritePage, item)
<1>1. /\ flash \in [Pages -> Page] /\ WritePage \in Pages
      /\ ~IsComplete(flash[WritePage])
      /\ flash[WritePage].begin = nextWritePageInfo.blockId
  BY IdleLog DEF TypeOK, HasFreeSlot, IsUsed
<1>2. /\ currentPageNrOfItems = Len(flash[WritePage].items)
      /\ currentPageNrOfItems < ItemsPerPage
  BY DEF HasFreeSlot, CanWriteItem
<1>3. /\ \A p \in Pages : p # WritePage => g[p] = flash[p]
      /\ g[WritePage].begin = flash[WritePage].begin
      /\ g[WritePage].items = Append(flash[WritePage].items, item)
      /\ g[WritePage].complete = flash[WritePage].complete
      /\ g \in [Pages -> Page]
  <2>1. /\ \A p \in Pages : p # WritePage => g[p] = flash[p]
        /\ g[WritePage].begin = flash[WritePage].begin
        /\ g[WritePage].items = Append(flash[WritePage].items, item)
        /\ g[WritePage].complete = flash[WritePage].complete
    BY <1>1 DEF ItemWritten, Page
  <2>2. g \in [Pages -> Page]
    BY <1>1, ItemWrittenType
  <2> QED
    BY <2>1, <2>2
<1>4. Len(g[WritePage].items) = currentPageNrOfItems + 1
  BY <1>1, <1>2, <1>3, ItemsType, AppendProperties
<1>5. currentPageNrOfItems + 1 <= ItemsPerPage
  <2>1. currentPageNrOfItems \in Nat
    BY <1>1, <1>2, ItemsType
  <2> QED
    BY <1>2, <2>1, Numbers
<1> QED
  BY <1>1, <1>3, <1>4, <1>5 DEF IsComplete

LEMMA AddNextItemLog ==
  ASSUME IInv, LogInv, TypeOK', soundBoot', ~eraseFailed',
         NEW item \in Item, AddNextItem(item)
  PROVE  LogInv' /\ LogStep
<1>1. /\ phase = "run" /\ listener = "Idle" /\ HasFreeSlot
      /\ flash' = ItemWritten(flash, WritePage, item)
      /\ listener' = "Idle"
  BY DEF AddNextItem, Dispatch, IsNext
<1>2. /\ \A p \in Pages : p # WritePage => flash'[p] = flash[p]
      /\ flash'[WritePage].begin = nextWritePageInfo.blockId
      /\ flash'[WritePage].items = Append(flash[WritePage].items, item)
      /\ ~IsComplete(flash'[WritePage])
      /\ Len(flash'[WritePage].items) <= ItemsPerPage
  BY <1>1, FreeSlot
<1>3. ~Wrapping'
  BY <1>1 DEF Wrapping
<1> QED
  BY <1>1, <1>2, <1>3, ItemLogged

LEMMA AddLastItemLog ==
  ASSUME IInv, LogInv, TypeOK', soundBoot', ~eraseFailed',
         NEW item \in Item, AddLastItem(item)
  PROVE  LogInv' /\ LogStep
<1> DEFINE written == ItemWritten(flash, WritePage, item)
           tag == SuccessorTag(nextWritePageInfo)
           closed == [written EXCEPT ![WritePage].complete = tag]
           full == Increment(nrOfFullPages)
<1>1. /\ phase = "run" /\ listener = "Idle" /\ HasFreeSlot
      /\ currentPageNrOfItems + 1 = ItemsPerPage
      /\ flash' = closed
      /\ AdjustNextWritePage(closed, tag, oldestPageInfo, full, "run")
  BY DEF AddLastItem, Dispatch, IsNext, ClosePage, WritePage
<1>2. WritePage \in Pages /\ WritePage = nextWritePageInfo.pageId /\ erasing.left = 0
  BY <1>1, IdleLog
<1>3. /\ \A p \in Pages : p # WritePage => written[p] = flash[p]
      /\ written[WritePage].begin = nextWritePageInfo.blockId
      /\ written[WritePage].items = Append(flash[WritePage].items, item)
      /\ Len(written[WritePage].items) = ItemsPerPage
      /\ written \in [Pages -> Page]
  BY <1>1, FreeSlot
<1> HIDE DEF written, tag, full
<1>4. /\ \A p \in Pages : p # WritePage => flash'[p] = flash[p]
      /\ flash'[WritePage].begin = nextWritePageInfo.blockId
      /\ flash'[WritePage].items = Append(flash[WritePage].items, item)
      /\ Len(flash'[WritePage].items) = ItemsPerPage
      /\ flash'[WritePage].complete = tag
  BY <1>1, <1>2, <1>3 DEF Page
<1>5. tag.nextPage = NextPageNr(WritePage)
  BY <1>2 DEF tag, SuccessorTag
<1>6. \/ listener' = "Idle"
      \/ /\ listener' = "Erasing" /\ ~reinit'
         /\ erasing' = [page |-> tag.nextPage, left |-> 1]
         /\ oldestPageInfo.pageId = tag.nextPage
  <2> HIDE DEF closed
  <2> QED
    BY <1>1, <1>2 DEF AdjustNextWritePage, FlashErase
<1>7. Wrapping' => /\ erasing'.page = oldestPageInfo.pageId
                   /\ NextPageNr(WritePage) = oldestPageInfo.pageId
                   /\ IsComplete(flash'[WritePage])
  <2>1. tag # NoCompleteTag
    BY <1>2, <1>5, NextPageNrType, Numbers DEF NoCompleteTag, Pages
  <2> QED
    BY <1>4, <1>5, <1>6, <2>1 DEF Wrapping, IsComplete
<1>8. Len(flash'[WritePage].items) <= ItemsPerPage
  BY <1>4, Numbers
<1>9. listener' = "Idle" \/ ~reinit'
  BY <1>6
<1>10. flash'[WritePage].complete.nextPage = NextPageNr(WritePage)
  BY <1>4, <1>5
<1> HIDE DEF closed
<1> QED
  BY <1>1, <1>4, <1>7, <1>8, <1>9, <1>10, ItemLogged

LEMMA ResetBehindBeginTagLog ==
  ASSUME IInv, LogInv, TypeOK', soundBoot', ~eraseFailed',
         NEW item \in Item, ResetBehindBeginTag(item)
  PROVE  LogInv' /\ LogStep
<1>1. /\ phase = "run" /\ listener = "Idle" /\ HasFreePage
      /\ flash' = BeginTagWritten(flash, nextWritePageInfo)
      /\ listener' = "Idle"
  BY DEF ResetBehindBeginTag, IsNext, Reboot
<1>2. /\ flash \in [Pages -> Page] /\ WritePage \in Pages
      /\ WritePage = nextWritePageInfo.pageId
      /\ flash[WritePage] = ErasedPage
  BY <1>1, IdleLog DEF TypeOK, HasFreePage, HasNoData
<1>3. /\ \A p \in Pages : p # WritePage => flash'[p] = flash[p]
      /\ flash'[WritePage].begin = nextWritePageInfo.blockId
      /\ flash'[WritePage].items = flash[WritePage].items
      /\ flash'[WritePage].complete = flash[WritePage].complete
  BY <1>1, <1>2 DEF BeginTagWritten, Page
<1>4. ~IsComplete(flash'[WritePage])
  BY <1>2, <1>3 DEF IsComplete, ErasedPage
<1>5. Len(flash'[WritePage].items) <= ItemsPerPage
  <2>1. Len(flash[WritePage].items) = 0
    BY <1>2 DEF ErasedPage
  <2> QED
    BY <1>3, <2>1, Numbers
<1>6. ~Wrapping'
  BY <1>1 DEF Wrapping
<1> QED
  BY <1>1, <1>3, <1>4, <1>5, <1>6, ItemLogged

LEMMA ResetBeforeCompleteTagLog ==
  ASSUME IInv, LogInv, TypeOK', soundBoot', ~eraseFailed',
         NEW item \in Item, ResetBeforeCompleteTag(item)
  PROVE  LogInv' /\ LogStep
<1>1. /\ phase = "run" /\ listener = "Idle" /\ HasFreeSlot
      /\ flash' = ItemWritten(flash, WritePage, item)
      /\ listener' = "Idle"
  BY DEF ResetBeforeCompleteTag, IsNext, Reboot
<1>2. /\ \A p \in Pages : p # WritePage => flash'[p] = flash[p]
      /\ flash'[WritePage].begin = nextWritePageInfo.blockId
      /\ flash'[WritePage].items = Append(flash[WritePage].items, item)
      /\ ~IsComplete(flash'[WritePage])
      /\ Len(flash'[WritePage].items) <= ItemsPerPage
  BY <1>1, FreeSlot
<1>3. ~Wrapping'
  BY <1>1 DEF Wrapping
<1> QED
  BY <1>1, <1>2, <1>3, ItemLogged

\* A boot that finds recoverable pages after the first page was erased finds
\* nothing on the others.
LEMMA BootLog ==
  ASSUME LogInv, TypeOK, UNCHANGED flash, soundBoot', ~eraseFailed',
         BeginInit(flash), listener' = "Idle"
  PROVE  LogInv' /\ LogStep
<1>1. ~Emptied' /\ ~Wrapping'
  BY DEF Emptied, Wrapping
<1>2. CASE ~Emptied
  BY <1>1, <1>2, LogSame
<1>3. CASE Emptied
  <2>1. AllErased(flash)
    BY <1>3 DEF BeginInit, Recoverable, Emptied, AllErased
  <2>2. flash \in [Pages -> Page]
    BY DEF TypeOK
  <2>3. /\ PagesFilled(flash) /\ IsLog(flash, FirstPage, FirstTag)
        /\ FirstPage \in Pages /\ FirstTag \in PageTag
        /\ PersistentItems(flash) = <<>>
    BY <2>1, <2>2, ErasedLog
  <2>4. PagesFilled(flash)' /\ IsLog(flash, FirstPage, FirstTag)'
    BY <2>3
  <2>5. LogInv'
    BY <1>1, <2>3, <2>4 DEF LogInv
  <2>6. LogItems = <<>> /\ LogItems' = PersistentItems(flash)
    BY <1>1, <1>3 DEF LogItems
  <2> QED
    BY <2>3, <2>5, <2>6 DEF LogStep
<1> QED
  BY <1>2, <1>3

LEMMA CloseRecoveredPageLog ==
  ASSUME IInv, LogInv, TypeOK', soundBoot', ~eraseFailed', CloseRecoveredPage
  PROVE  LogInv' /\ LogStep
<1>1. /\ phase = "init" /\ initPage \in Pages
      /\ IsUsed(flash[initPage]) /\ ~IsComplete(flash[initPage])
      /\ Len(flash[initPage].items) >= ItemsPerPage
      /\ ~eraseFailed /\ soundBoot
  BY DEF CloseRecoveredPage, InitStep, IsOpenPage, LogInv
<1>2. ~HasNoData(flash[initPage])
  BY <1>1 DEF HasNoData
<1>3. /\ flash \in [Pages -> Page] /\ listener = "Idle" /\ TypeOK
      /\ \E head, last \in Pages :
           /\ IsWritten(flash, head, last)
           /\ initPage > FirstPage => Scanned(head, last)
  BY <1>1, <1>2, RingFound, Booting
<1>4. PICK head, last \in Pages :
        /\ IsWritten(flash, head, last)
        /\ initPage > FirstPage => Scanned(head, last)
  BY <1>3
<1> DEFINE tag == BeginTag(flash, last)
<1>5. /\ initPage = last /\ UNCHANGED <<listener, reinit>>
      /\ flash' = [flash EXCEPT ![last].complete = SuccessorTag(tag)]
  BY <1>1, <1>4, FullPageFound
<1>6. /\ tag \in PageTag /\ tag.pageId = last
      /\ tag.blockId = flash[last].begin
      /\ IsRing(flash, head, tag)
  BY <1>3, <1>4, LastTag
<1>7. /\ IsLog(flash, head, tag) /\ ~IsComplete(flash[tag.pageId])
  BY <1>1, <1>5, <1>6 DEF IsLog
<1> HIDE DEF tag
<1>8. /\ \A p \in Pages : p # last => flash'[p] = flash[p]
      /\ flash'[last].begin = flash[last].begin
      /\ flash'[last].items = flash[last].items
      /\ flash'[last].complete = SuccessorTag(tag)
  BY <1>3, <1>5 DEF Page
<1>9. Len(flash[last].items) = ItemsPerPage
  BY <1>1, <1>3, <1>5, ItemsType, Numbers DEF LogInv, PagesFilled
<1>10. IsWrite(flash, flash', tag)
  <2>1. SuccessorTag(tag).nextPage = NextPageNr(tag.pageId)
    BY DEF SuccessorTag
  <2> QED
    BY <1>6, <1>8, <1>9, <2>1, Numbers DEF IsWrite
<1>11. ~Emptied /\ ~Emptied' /\ ~Wrapping'
  BY <1>3, <1>5 DEF Emptied, Wrapping
<1> QED
  BY <1>3, <1>6, <1>7, <1>8, <1>10, <1>11, PageLogged

\* InitItemStore gives up the oldest page of a ring without any space.
LEMMA FinishInitLog ==
  ASSUME IInv, LogInv, soundBoot', ~eraseFailed', FinishInit
  PROVE  LogInv' /\ LogStep
<1> DEFINE advances == WritePage \in Pages /\ IsComplete(flash[WritePage])
<1>1. /\ phase = "init" /\ initPage = LastPage + 1 /\ UNCHANGED flash
      /\ advances =>
           AdjustNextWritePage(flash, flash[WritePage].complete,
                               oldestPageInfo, nrOfFullPages, "run")
      /\ ~advances => UNCHANGED <<listener, reinit, erasing>>
  BY DEF FinishInit
<1>2. BootInv /\ TypeOK /\ flash \in [Pages -> Page]
  BY <1>1, Booting DEF LogInv
<1>3. listener = "Idle" /\ erasing.left = 0
  BY <1>2 DEF BootInv
<1>4. /\ listener' = "Idle" \/ ~reinit'
      /\ Wrapping' => /\ advances
                      /\ erasing'.page = oldestPageInfo.pageId
                      /\ flash[WritePage].complete.nextPage = oldestPageInfo.pageId
  <2>1. CASE advances
    <3> HIDE DEF advances
    <3> QED
      BY <1>1, <1>3, <2>1 DEF AdjustNextWritePage, FlashErase, Wrapping
  <2>2. CASE ~advances
    BY <1>1, <1>3, <2>2 DEF Wrapping
  <2> QED
    BY <2>1, <2>2
<1>5. ~Emptied' /\ ~Emptied
  BY <1>3, <1>4 DEF Emptied
<1>6. CASE ~Wrapping'
  BY <1>1, <1>5, <1>6, LogSame
<1>7. CASE Wrapping'
  <2>1. advances
    BY <1>4, <1>7
  <2>2. ~AllErased(flash)
    BY <2>1, NothingFound
  <2>3. PICK head, last \in Pages :
          /\ IsWritten(flash, head, last)
          /\ initPage > FirstPage => Scanned(head, last)
    BY <1>2, <2>2 DEF BootInv
  <2>4. /\ IsUsed(flash[FirstPage])
        /\ initPage > FirstPage /\ head < initPage /\ ~(initPage <= last)
    BY <1>1, <1>2, <2>2, Numbers DEF BootInv, Pages
  <2>0. PICK tag \in PageTag : tag = BeginTag(flash, last)
    BY <1>2, <2>3, LastTag
  <2>5. /\ tag.pageId = last
        /\ tag.blockId = flash[last].begin
        /\ IsRing(flash, head, tag) /\ IsUsed(flash[last])
        /\ IsComplete(flash[last]) => flash[last].complete = SuccessorTag(tag)
    BY <1>2, <2>0, <2>3, LastTag
  <2>6. /\ oldestPageInfo = BeginTag(flash, head)
        /\ \/ nextWritePageInfo = tag
           \/ /\ nextWritePageInfo = NextTag(tag)
              /\ ~IsUsed(flash[NextPageNr(last)])
    BY <2>0, <2>3, <2>4 DEF Scanned
  <2>7. oldestPageInfo.pageId = head
    BY <1>2, <2>3, <2>4, <2>6, Layout DEF BeginTag
  <2>8. WritePage = last
    <3>1. CASE nextWritePageInfo = tag
      BY <2>5, <3>1 DEF WritePage
    <3>2. CASE nextWritePageInfo = NextTag(tag) /\ ~IsUsed(flash[NextPageNr(last)])
      <4>1. WritePage = NextPageNr(last)
        BY <2>5, <3>2 DEF WritePage, NextTag
      <4>2. ~IsUsed(flash[WritePage])
        BY <3>2, <4>1
      <4>3. flash[WritePage] = ErasedPage
        BY <2>1, <4>2 DEF LogInv, PagesFilled
      <4> QED
        BY <2>1, <4>3 DEF IsComplete, ErasedPage
    <3> QED
      BY <2>6, <3>1, <3>2
  <2>9. /\ IsComplete(flash[last])
        /\ flash[last].complete.nextPage = NextPageNr(last)
        /\ NextPageNr(last) = head /\ erasing'.page = head
    BY <1>4, <1>7, <2>1, <2>5, <2>7, <2>8 DEF SuccessorTag
  <2>10. IsLog(flash, head, tag)
    BY <2>5, <2>9 DEF IsLog
  <2>11. IsLog(flash, head, tag)' /\ WrapsAt(head, tag)'
    BY <1>1, <2>5, <2>9, <2>10 DEF WrapsAt
  <2>12. LogInv'
    <3>1. PagesFilled(flash)'
      BY <1>1 DEF LogInv
    <3> QED
      BY <2>11, <3>1 DEF LogInv
  <2>13. LogItems' = LogItems
    <3>1. PersistentItems(flash)' = PersistentItems(flash)
      BY <1>1
    <3> QED
      BY <1>5, <3>1 DEF LogItems
  <2> QED
    BY <2>12, <2>13 DEF LogStep
<1> QED
  BY <1>6, <1>7

\* The flash erases the oldest page, or everything, beginning with the first
\* page.
LEMMA FlashEndOfOperationLog ==
  ASSUME IInv, LogInv, TypeOK', soundBoot', ~eraseFailed', FlashEndOfOperation
  PROVE  LogInv' /\ LogStep
<1>1. /\ phase = "run" /\ erasing.left > 0
      /\ flash' = [flash EXCEPT ![erasing.page] = ErasedPage]
      /\ erasing' = [page |-> erasing.page + 1, left |-> erasing.left - 1]
      /\ UNCHANGED <<listener, reinit>>
  BY DEF FlashEndOfOperation
<1>2. /\ TypeOK /\ EraseInv /\ flash \in [Pages -> Page]
      /\ ~reinit => ChainInv
  BY <1>1, Running DEF LogInv, TypeOK
<1>3. listener = "Erasing"
  BY <1>1 DEF IInv, InterlockInv, EraseInterlock
<1>4. erasing.page \in Pages /\ erasing.left \in Nat
  BY <1>1, <1>2 DEF TypeOK, EraseJob
<1>5. PagesFilled(flash)
  BY DEF LogInv
<1>6. CASE reinit
  <2>1. flash'[FirstPage] = ErasedPage
    <3>1. FirstPage \in Pages
      BY Numbers DEF Pages
    <3>2. CASE erasing.page = FirstPage
      BY <1>1, <1>2, <3>1, <3>2
    <3>3. CASE erasing.page # FirstPage
      <4>1. FirstPage < erasing.page
        BY <1>4, <3>3, Numbers DEF Pages
      <4>2. flash[FirstPage] = ErasedPage
        BY <1>2, <1>3, <1>6, <3>1, <4>1 DEF EraseInv
      <4> QED
        BY <1>1, <1>2, <3>1, <3>3, <4>2
    <3> QED
      BY <3>2, <3>3
  <2>2. Emptied'
    BY <1>1, <1>3, <1>6, <2>1 DEF Emptied, IsUsed, ErasedPage
  <2>3. PagesFilled(flash')
    <3>1. /\ ~IsComplete(ErasedPage) /\ Len(ErasedPage.items) <= ItemsPerPage
      BY Numbers DEF ErasedPage, IsComplete
    <3>2. \A p \in Pages : flash'[p] \in {flash[p], ErasedPage}
      BY <1>1, <1>2
    <3> QED
      BY <1>5, <3>1, <3>2 DEF PagesFilled
  <2>4. LogInv'
    BY <2>2, <2>3 DEF LogInv
  <2>5. LogItems' = <<>>
    BY <2>2 DEF LogItems
  <2> QED
    BY <1>1, <1>3, <1>6, <2>4, <2>5 DEF LogStep, Log!Next, Log!RemoveAll, Deleting
<1>7. CASE ~reinit
  <2>1. Wrapping /\ ~Emptied /\ ~Emptied'
    BY <1>1, <1>3, <1>7 DEF Wrapping, Emptied
  <2>2. erasing.left = 1
    BY <1>1, <1>2, <1>3, <1>7 DEF ChainInv
  <2>3. ~Wrapping'
    BY <1>1, <2>2 DEF Wrapping
  <2>4. PICK head \in Pages, tag \in PageTag :
          IsLog(flash, head, tag) /\ WrapsAt(head, tag)
    BY <2>1 DEF LogInv
  <2>5. /\ head = erasing.page /\ IsComplete(flash[tag.pageId])
        /\ NextPageNr(tag.pageId) = head
    BY <2>4 DEF WrapsAt
  <2>6. flash' = [flash EXCEPT ![head] = ErasedPage]
    BY <1>1, <2>5
  <2>7. /\ PagesFilled(flash')
        /\ NextPageNr(head) \in Pages /\ NextTag(tag) \in PageTag
        /\ IsLog(flash', NextPageNr(head), NextTag(tag))
        /\ Len(PersistentItems(flash)) = ItemsPerPage * NrOfPages
        /\ PersistentItems(flash') =
             SubSeq(PersistentItems(flash), ItemsPerPage + 1,
                    ItemsPerPage * NrOfPages)
    BY <1>2, <1>5, <2>4, <2>5, <2>6, LogRecycled
  <2>8. PICK h \in Pages, t \in PageTag : IsLog(flash, h, t)'
    BY <2>7
  <2>9. LogInv'
    BY <2>3, <2>7, <2>8 DEF LogInv
  <2>10. LogItems = PersistentItems(flash) /\ LogItems' = PersistentItems(flash')
    BY <2>1 DEF LogItems
  <2>11. Log!RemoveOldest
    BY <2>7, <2>10 DEF Log!RemoveOldest, Log!Capacity
  <2> QED
    BY <2>9, <2>11 DEF LogStep, Log!Next
<1> QED
  BY <1>6, <1>7

-----------------------------------------------------------------------------

LEMMA LogInit == Init => LogInv /\ LogItems = <<>>
<1> SUFFICES ASSUME Init
             PROVE  LogInv /\ LogItems = <<>>
  OBVIOUS
<1>1. flash \in [Pages -> Page] /\ AllErased(flash)
  BY InitType DEF Init, TypeOK, AllErased
<1>2. soundBoot /\ ~eraseFailed /\ ~Emptied /\ ~Wrapping
  BY DEF Init, Emptied, Wrapping
<1>3. /\ PagesFilled(flash) /\ IsLog(flash, FirstPage, FirstTag)
      /\ FirstPage \in Pages /\ FirstTag \in PageTag
      /\ PersistentItems(flash) = <<>>
  BY <1>1, ErasedLog
<1> QED
  BY <1>2, <1>3 DEF LogInv, LogItems

SoundNext == Next /\ soundBoot' /\ ~eraseFailed'

LEMMA LogNext ==
  ASSUME IInv, IInv', LogInv, [SoundNext]_vars
  PROVE  LogInv' /\ LogStep
<1>1. TypeOK /\ TypeOK'
  BY DEF IInv, InterlockInv
<1>2. CASE UNCHANGED vars
  <2>1. soundBoot' /\ ~eraseFailed'
    BY <1>2 DEF LogInv, vars, bootVars
  <2> QED
    BY <1>1, <1>2, <2>1, QuietLog
<1>3. CASE SoundNext
  <2>1. soundBoot' /\ ~eraseFailed' /\ Next
    BY <1>3 DEF SoundNext
  <2>2. ASSUME NEW item \in Item, RequestAddItem(item)
        PROVE  LogInv' /\ LogStep
    BY <1>1, <2>1, <2>2, QuietLog
  <2>3. ASSUME NEW item \in Item, AddItem(item)
        PROVE  LogInv' /\ LogStep
    <3>1. CASE AddFirstItem(item)
      BY <1>1, <2>1, <3>1, AddFirstItemLog
    <3>2. CASE AddNextItem(item)
      BY <1>1, <2>1, <3>2, AddNextItemLog
    <3>3. CASE AddLastItem(item)
      BY <1>1, <2>1, <3>3, AddLastItemLog
    <3>4. CASE LoseItem(item)
      BY <1>1, <2>1, <3>4, QuietLog
    <3> QED
      BY <2>3, <3>1, <3>2, <3>3, <3>4 DEF AddItem
  <2>4. CASE HandleErase
    BY <1>1, <2>1, <2>4, QuietLog DEF HandleErase
  <2>5. CASE HandleEraseDone
    <3>1. CASE EraseDone \/ EraseReminded
      BY <1>1, <2>1, <3>1, QuietLog
    <3>2. CASE EraseDoneReinit
      <4>1. UNCHANGED flash /\ BeginInit(flash) /\ listener' = "Idle"
        BY <3>2 DEF EraseDoneReinit
      <4> QED
        BY <2>1, <4>1, BootLog DEF IInv, InterlockInv
    <3> QED
      BY <2>5, <3>1, <3>2 DEF HandleEraseDone
  <2>6. CASE InitItemStore
    <3>1. CASE SkipErasedPage \/ CountFullPage \/ RecoverOpenPage
      BY <1>1, <2>1, <3>1, QuietLog
    <3>2. CASE CloseRecoveredPage
      BY <1>1, <2>1, <3>2, CloseRecoveredPageLog
    <3>3. CASE FinishInit
      BY <2>1, <3>3, FinishInitLog
    <3> QED
      BY <2>6, <3>1, <3>2, <3>3 DEF InitItemStore
  <2>7. CASE DeleteAllItems
    BY <1>1, <2>1, <2>7, QuietLog
  <2>8. CASE FlashEndOfOperation
    BY <1>1, <2>1, <2>8, FlashEndOfOperationLog
  <2>9. CASE FlashOperationError
    BY <1>1, <2>1, <2>9, QuietLog
  <2>10. CASE PowerLoss
    <3>1. CASE Reset
      <4>1. UNCHANGED flash /\ BeginInit(flash) /\ listener' = "Idle"
        BY <3>1 DEF Reset, Reboot
      <4> QED
        BY <2>1, <4>1, BootLog DEF IInv, InterlockInv
    <3>2. ASSUME NEW item \in Item, ResetBehindBeginTag(item)
          PROVE  LogInv' /\ LogStep
      BY <1>1, <2>1, <3>2, ResetBehindBeginTagLog
    <3>3. ASSUME NEW item \in Item, ResetBeforeCompleteTag(item)
          PROVE  LogInv' /\ LogStep
      BY <1>1, <2>1, <3>3, ResetBeforeCompleteTagLog
    <3> QED
      BY <2>10, <3>1, <3>2, <3>3 DEF PowerLoss
  <2> QED
    BY <2>1, <2>2, <2>3, <2>4, <2>5, <2>6, <2>7, <2>8, <2>9, <2>10
       DEF Next, HandleMessage
<1> QED
  BY <1>2, <1>3

\* While the pages stay recoverable the inductive invariants hold together.
LEMMA InductiveLog == SoundSpec => [](IInv /\ LogInv)
<1>1. Init => IInv /\ LogInv
  BY InterlockInit, RingInit, LogInit DEF IInv
<1>2. IInv /\ LogInv /\ [SoundNext]_vars => (IInv /\ LogInv)'
  <2> SUFFICES ASSUME IInv, LogInv, [SoundNext]_vars
               PROVE  IInv' /\ LogInv'
    OBVIOUS
  <2>1. IInv'
    BY RingNext DEF SoundNext
  <2> QED
    BY <2>1, LogNext
<1> QED
  BY <1>1, <1>2, PTL DEF SoundSpec, SoundNext

(***************************************************************************)
(* As long as every boot finds recoverable pages and no erase fails, what  *)
(* AddItem, ClosePageIfFull, AdjustNextWritePage, InitItemStore and the    *)
(* erases of Flash.c leave on the pages is a RecycledLog, whenever the     *)
(* power fails: no item is lost, duplicated or reordered but by deleting   *)
(* everything, and the oldest page is only given up when all are full.     *)
(***************************************************************************)
THEOREM PagesAreARecycledLog == SoundSpec => ImplementsRecycledLog
<1>1. Init => Log!Init
  BY LogInit DEF Log!Init
<1>2. IInv /\ LogInv /\ (IInv /\ LogInv)' /\ [SoundNext]_vars
        => [Log!Next]_LogItems
  BY LogNext DEF LogStep
<1> QED
  BY <1>1, <1>2, InductiveLog, PTL
     DEF SoundSpec, SoundNext, ImplementsRecycledLog, Log!Spec

(***************************************************************************)
(* Neither AddItem nor the boot puts a complete tag on a page that is not  *)
(* full.                                                                   *)
(***************************************************************************)
THEOREM ClosedPagesHoldAllItems == SoundSpec => []ClosedPagesAreFull
<1>1. LogInv => ClosedPagesAreFull
  BY DEF LogInv, PagesFilled, ClosedPagesAreFull, Closed
<1> QED
  BY <1>1, InductiveLog, PTL

-----------------------------------------------------------------------------
(* Reading (ItemStoreReader): the store underneath an enumeration.         *)

\* A step of the reader is one of the store, or an item is dropped.
LEMMA ReaderStep ==
  ASSUME [ReaderNext]_allVars
  PROVE  [Next]_vars \/ \E item \in Item : ItemDropped(item)
<1>1. CASE \/ \E startIndex \in StartIndex : BeginEnumerate(startIndex)
           \/ SkipPage \/ OpenEnumerator \/ RefuseEnumerator \/ GetNext
           \/ EndEnumerate \/ UNCHANGED allVars
  <2>1. UNCHANGED vars
    BY <1>1 DEF BeginEnumerate, SkipPage, OpenEnumerator, RefuseEnumerator,
                GetNext, EndEnumerate, allVars
  <2> QED
    BY <2>1
<1>2. ASSUME NEW item \in Item, LoseItemWhileEnumerating(item)
      PROVE  ItemDropped(item)
  BY <1>2 DEF LoseItemWhileEnumerating, ItemDropped
<1>3. CASE WriterStep
  <2>1. Next
    BY <1>3 DEF WriterStep, Next, HandleMessage
  <2> QED
    BY <2>1
<1>4. CASE ReaderPowerLoss
  <2>1. Next
    BY <1>4 DEF ReaderPowerLoss, Next, PowerLoss
  <2> QED
    BY <2>1
<1> QED
  BY <1>1, <1>2, <1>3, <1>4 DEF ReaderNext

\* A dropped item disturbs nothing.
LEMMA ItemDroppedType ==
  ASSUME TypeOK, NEW item \in Item, ItemDropped(item)
  PROVE  TypeOK'
<1>1. messages' \in Seq(Message)
  BY DispatchType DEF ItemDropped
<1> QED
  BY <1>1 DEF ItemDropped, TypeOK, ramVars, bootVars

LEMMA ItemDroppedInterlock ==
  ASSUME InterlockInv, NEW item \in Item, ItemDropped(item)
  PROVE  InterlockInv'
<1>1. item # "ERASE_DONE" /\ Dispatch(item)
      /\ UNCHANGED <<listener, erasing, phase>>
  BY ItemStoreAssumption DEF ItemStoreAssumption, ItemDropped, bootVars
<1>2. /\ DoneMessages' = {} <=> DoneMessages = {}
      /\ AtMostOne(DoneMessages) => AtMostOne(DoneMessages')
  BY <1>1, DispatchDones
<1>3. TypeOK'
  BY ItemDroppedType DEF InterlockInv
<1>4. EraseInterlock'
  BY <1>1, <1>2 DEF InterlockInv, EraseInterlock, AtMostOne
<1>5. phase' # "init"
  BY <1>1 DEF Dispatch, IsNext
<1> QED
  BY <1>3, <1>4, <1>5 DEF InterlockInv

LEMMA ReaderIInv ==
  ASSUME IInv, [ReaderNext]_allVars
  PROVE  IInv'
<1>1. CASE [Next]_vars
  BY <1>1, RingNext
<1>2. ASSUME NEW item \in Item, ItemDropped(item)
      PROVE  IInv'
  BY <1>2, ItemDroppedRing, ItemDroppedInterlock DEF IInv
<1> QED
  BY <1>1, <1>2, ReaderStep

LEMMA ReaderLogInv ==
  ASSUME IInv, IInv', LogInv, [SoundReaderNext]_allVars
  PROVE  LogInv'
<1>1. CASE UNCHANGED vars
  BY <1>1, LogNext
<1>2. CASE SoundReaderNext /\ [Next]_vars
  <2>1. [SoundNext]_vars
    BY <1>2 DEF SoundReaderNext, SoundNext
  <2> QED
    BY <2>1, LogNext
<1>3. ASSUME SoundReaderNext, NEW item \in Item, ItemDropped(item)
      PROVE  LogInv'
  <2>1. UNCHANGED <<flash, listener, reinit, erasing>>
        /\ soundBoot' /\ ~eraseFailed'
    BY <1>3 DEF SoundReaderNext, ItemDropped
  <2>2. (Emptied' <=> Emptied) /\ (Wrapping' <=> Wrapping)
    BY <2>1 DEF Emptied, Wrapping
  <2>3. Emptied' => Deleting
    BY <2>2 DEF Emptied, Deleting
  <2> QED
    BY <2>1, <2>2, <2>3, LogSame
<1> QED
  BY <1>1, <1>2, <1>3, ReaderStep DEF SoundReaderNext, allVars

-----------------------------------------------------------------------------
(* Types.                                                                  *)

EnumeratorType ==
  [valid : BOOLEAN, hasMoreItems : BOOLEAN, page : Pages,
   currentIndex : Nat, itemsOnPage : Nat, itemsRead : Nat,
   itemsToSkip : Nat, totalNrOfItems : Nat]

SearchType ==
  [running : BOOLEAN, page : Pages \cup {ErasedByte},
   itemsOnPage : {0, ItemsPerPage}, skipping : Nat]

LEMMA NoEnumeratorType ==
  /\ NoEnumerator \in EnumeratorType /\ ~NoEnumerator.valid
  /\ NoEnumerator.currentIndex <= NoEnumerator.itemsOnPage
  /\ NoSearch \in SearchType /\ ~NoSearch.running
BY Numbers DEF NoEnumerator, EnumeratorType, NoSearch, SearchType, Pages

LEMMA CountType ==
  ASSUME TypeOK
  PROVE  /\ TotalNrOfItems \in Nat
         /\ \A startIndex \in Int : ItemsToSkip(startIndex) \in Nat
<1>1. TotalNrOfItems \in Nat
  BY Numbers DEF TypeOK, TotalNrOfItems
<1> QED
  BY <1>1 DEF ItemsToSkip

LEMMA ItemsOnPageType ==
  ASSUME TypeOK, NEW page
  PROVE  ItemsOnPage(page) \in Nat \cup {-1}
BY Numbers DEF ItemsOnPage, TypeOK

\* Where the search ends.
LEMMA StartPositionIs ==
  ASSUME ReaderTypeOK, EndsSearch
  PROVE  /\ StartPosition \in Nat
         /\ OnUsedPage => StartPosition = search.skipping
         /\ CanEnumerate => OnUsedPage /\ search.page \in Pages
<1>1. /\ search.skipping \in Nat /\ search.itemsOnPage \in Nat
      /\ currentPageNrOfItems \in Nat /\ ItemsPerPage \in Nat
  BY Numbers DEF ReaderTypeOK, TypeOK
<1>2. CASE OnUsedPage
  BY <1>1, <1>2 DEF StartPosition, LastItemsOnPage, LastSkipping, OnUsedPage
<1>3. CASE ~OnUsedPage
  <2>1. ItemsOnPage(search.page) = -1
    BY <1>3 DEF OnUsedPage, ItemsOnPage
  <2>2. StartPosition = search.itemsOnPage + search.skipping
    BY <1>3 DEF StartPosition, LastItemsOnPage, LastSkipping
  <2> QED
    BY <1>1, <1>3, <2>1, <2>2 DEF CanEnumerate
<1> QED
  BY <1>2, <1>3

\* The enumerator when it is opened, and behind an item that was read.
Opened(e, p, i, n) ==
  [e EXCEPT !.valid = TRUE, !.hasMoreItems = TRUE, !.page = p,
            !.currentIndex = i, !.itemsOnPage = n]

Advanced(e, p, i, n) ==
  [e EXCEPT !.page = p, !.itemsOnPage = n, !.currentIndex = i + 1,
            !.itemsRead = e.itemsRead + 1,
            !.hasMoreItems = e.itemsRead + 1 + e.itemsToSkip < e.totalNrOfItems]

LEMMA OpenedIs ==
  ASSUME NEW e \in EnumeratorType, NEW p \in Pages, NEW i \in Nat, NEW n \in Nat
  PROVE  /\ Opened(e, p, i, n) \in EnumeratorType
         /\ Opened(e, p, i, n).valid /\ Opened(e, p, i, n).hasMoreItems
         /\ Opened(e, p, i, n).page = p
         /\ Opened(e, p, i, n).currentIndex = i
         /\ Opened(e, p, i, n).itemsOnPage = n
         /\ Opened(e, p, i, n).itemsRead = e.itemsRead
         /\ Opened(e, p, i, n).itemsToSkip = e.itemsToSkip
         /\ Opened(e, p, i, n).totalNrOfItems = e.totalNrOfItems
BY DEF Opened, EnumeratorType

LEMMA AdvancedIs ==
  ASSUME NEW e \in EnumeratorType, NEW p \in Pages, NEW i \in Nat, NEW n \in Nat
  PROVE  /\ Advanced(e, p, i, n) \in EnumeratorType
         /\ Advanced(e, p, i, n).valid = e.valid
         /\ Advanced(e, p, i, n).hasMoreItems <=>
              e.itemsRead + 1 + e.itemsToSkip < e.totalNrOfItems
         /\ Advanced(e, p, i, n).page = p
         /\ Advanced(e, p, i, n).currentIndex = i + 1
         /\ Advanced(e, p, i, n).itemsOnPage = n
         /\ Advanced(e, p, i, n).itemsRead = e.itemsRead + 1
         /\ Advanced(e, p, i, n).itemsToSkip = e.itemsToSkip
         /\ Advanced(e, p, i, n).totalNrOfItems = e.totalNrOfItems
<1> DEFINE more == e.itemsRead + 1 + e.itemsToSkip < e.totalNrOfItems
           read == e.itemsRead + 1
           next == i + 1
           new == [e EXCEPT !.page = p, !.itemsOnPage = n, !.currentIndex = next,
                            !.itemsRead = read, !.hasMoreItems = more]
<1>1. more \in BOOLEAN /\ read \in Nat /\ next \in Nat
  BY DEF EnumeratorType
<1>2. Advanced(e, p, i, n) = new
  BY DEF Advanced
<1>3. /\ new \in EnumeratorType /\ new.valid = e.valid
      /\ new.hasMoreItems = more
      /\ new.page = p /\ new.currentIndex = next /\ new.itemsOnPage = n
      /\ new.itemsRead = read /\ new.itemsToSkip = e.itemsToSkip
      /\ new.totalNrOfItems = e.totalNrOfItems
  <2> HIDE DEF more, read, next
  <2> QED
    BY <1>1 DEF EnumeratorType
<1> HIDE DEF new
<1> QED
  BY <1>2, <1>3

\* What is read is an item, or garbage.
LEMMA ReadType ==
  ASSUME ReaderTypeOK, NEW page \in Pages, NEW index \in Nat, NEW onPage \in Nat,
         index < onPage, ReadsFrom(page, index, onPage)
  PROVE  /\ enumerator' \in EnumeratorType
         /\ enumerator'.valid = enumerator.valid
         /\ enumerator'.currentIndex <= enumerator'.itemsOnPage
         /\ delivered' \in Seq(Item \cup {Garbage})
<1>1. enumerator \in EnumeratorType /\ delivered \in Seq(Item \cup {Garbage})
  BY DEF ReaderTypeOK, EnumeratorType
<1>2. flash[page].items \in Seq(Item) /\ Len(flash[page].items) \in Nat
  BY ItemsType DEF ReaderTypeOK, TypeOK
<1>3. index < Len(flash[page].items) => flash[page].items[index + 1] \in Item
  BY <1>2
<1>4. /\ enumerator' \in EnumeratorType
      /\ enumerator'.valid = enumerator.valid
      /\ enumerator'.currentIndex = index + 1
      /\ enumerator'.itemsOnPage = onPage
  <2> DEFINE new == Advanced(enumerator, page, index, onPage)
  <2>1. enumerator' = new
    BY DEF ReadsFrom, Advanced
  <2>2. enumerator \in EnumeratorType
    BY <1>1
  <2>3. /\ new \in EnumeratorType /\ new.valid = enumerator.valid
        /\ new.currentIndex = index + 1 /\ new.itemsOnPage = onPage
    BY ONLY <2>2, page \in Pages, index \in Nat, onPage \in Nat, AdvancedIs
  <2> HIDE DEF new
  <2> QED
    BY <2>1, <2>3
<1>5. delivered' \in Seq(Item \cup {Garbage})
  BY <1>1, <1>3 DEF ReadsFrom
<1> QED
  BY <1>4, <1>5

LEMMA ReaderTypeInit == ReaderInit => ReaderTypeOK
BY InitType, NoEnumeratorType
   DEF ReaderInit, ReaderTypeOK, EnumeratorType, SearchType

LEMMA ReaderTypeNext ==
  ASSUME ReaderTypeOK, [ReaderNext]_allVars
  PROVE  ReaderTypeOK'
<1>0. /\ TypeOK /\ enumerator \in EnumeratorType /\ search \in SearchType
      /\ enumerator.currentIndex <= enumerator.itemsOnPage
      /\ enumerator.valid <=> storeState = "Enumerating"
      /\ search.running => ~enumerator.valid /\ phase = "run"
      /\ delivered \in Seq(Item \cup {Garbage})
      /\ storeState \in {"Idle", "Enumerating"}
  BY DEF ReaderTypeOK, EnumeratorType, SearchType
<1>t. TypeOK'
  BY <1>0, ReaderStep, NextType, ItemDroppedType
<1>p. UNCHANGED vars => UNCHANGED phase
  BY DEF vars, bootVars
<1> SUFFICES /\ enumerator' \in EnumeratorType /\ search' \in SearchType
             /\ enumerator'.currentIndex <= enumerator'.itemsOnPage
             /\ enumerator'.valid <=> storeState' = "Enumerating"
             /\ search'.running => ~enumerator'.valid /\ phase' = "run"
             /\ delivered' \in Seq(Item \cup {Garbage})
             /\ storeState' \in {"Idle", "Enumerating"}
  BY <1>t DEF ReaderTypeOK, EnumeratorType, SearchType
<1>1. ASSUME NEW startIndex \in StartIndex, BeginEnumerate(startIndex)
      PROVE  /\ enumerator' \in EnumeratorType /\ search' \in SearchType
             /\ enumerator'.currentIndex <= enumerator'.itemsOnPage
             /\ ~enumerator'.valid
  <2>1. startIndex \in Int
    BY ReaderAssumption DEF ReaderAssumption
  <2>2. TotalNrOfItems \in Nat /\ ItemsToSkip(startIndex) \in Nat
    BY <1>0, <2>1, CountType
  <2>3. enumerator' = [NoEnumerator EXCEPT
                         !.itemsToSkip = ItemsToSkip(startIndex),
                         !.totalNrOfItems = TotalNrOfItems]
        /\ search' = SearchFrom(ItemsToSkip(startIndex))
    BY <1>1 DEF BeginEnumerate
  <2>4. oldestPageInfo.pageId \in Pages \cup {ErasedByte}
    BY <1>0 DEF TypeOK, PageTag, NoPageTag
  <2> QED
    BY <2>2, <2>3, <2>4, NoEnumeratorType
       DEF EnumeratorType, SearchFrom, SearchType
<1>2. CASE SkipPage
  <2> DEFINE left == search.skipping - ItemsPerPage
  <2>1. /\ search.running /\ search.page \in Pages /\ left >= 0
        /\ IsComplete(flash[search.page])
        /\ search' = [search EXCEPT
                        !.page = IF left > 0
                                   THEN flash[search.page].complete.nextPage
                                   ELSE @,
                        !.itemsOnPage = ItemsPerPage,
                        !.skipping = left]
        /\ UNCHANGED <<enumerator, storeState, delivered, phase>>
    BY <1>2, <1>p DEF SkipPage, OnFullPage, OnUsedPage
  <2>2. flash[search.page].complete \in CompleteTag
    BY <1>0, <2>1 DEF TypeOK, Page, IsComplete
  <2>3. flash[search.page].complete.nextPage \in Pages
    BY <2>2 DEF CompleteTag
  <2>4. left \in Nat
    BY <1>0, <2>1, Numbers DEF SearchType
  <2> HIDE DEF left
  <2>5. search' \in SearchType /\ search'.running
    BY <1>0, <2>1, <2>3, <2>4 DEF SearchType
  <2> QED
    BY <1>0, <2>1, <2>5
<1>3. CASE OpenEnumerator
  <2>1. StartPosition \in Nat /\ search.page \in Pages
    BY <1>3, StartPositionIs DEF OpenEnumerator
  <2>2. ItemsOnPage(search.page) \in Nat
        /\ StartPosition < ItemsOnPage(search.page)
    BY <1>0, <1>3, <2>1, ItemsOnPageType DEF OpenEnumerator, CanEnumerate
  <2>3. /\ enumerator' = [enumerator EXCEPT
                      !.valid = TRUE, !.hasMoreItems = TRUE,
                      !.page = search.page, !.currentIndex = StartPosition,
                      !.itemsOnPage = ItemsOnPage(search.page)]
        /\ storeState' = "Enumerating" /\ search' = NoSearch
        /\ UNCHANGED delivered
    BY <1>3 DEF OpenEnumerator
  <2>4. /\ enumerator' \in EnumeratorType /\ enumerator'.valid
        /\ enumerator'.currentIndex = StartPosition
        /\ enumerator'.itemsOnPage = ItemsOnPage(search.page)
    <3> DEFINE page == search.page
               onPage == ItemsOnPage(search.page)
               new == Opened(enumerator, page, StartPosition, onPage)
    <3>1. enumerator' = new
      BY <2>3 DEF Opened
    <3>2. enumerator \in EnumeratorType /\ page \in Pages
          /\ StartPosition \in Nat /\ onPage \in Nat
      BY <1>0, <2>1, <2>2
    <3> HIDE DEF page, onPage
    <3>3. /\ new \in EnumeratorType /\ new.valid
          /\ new.currentIndex = StartPosition /\ new.itemsOnPage = onPage
      BY <3>2, OpenedIs
    <3> HIDE DEF new
    <3> QED
      BY <3>1, <3>3 DEF page, onPage
  <2>5. enumerator'.currentIndex <= enumerator'.itemsOnPage
    BY <2>1, <2>2, <2>4
  <2> QED
    BY <1>0, <2>3, <2>4, <2>5, NoEnumeratorType
<1>4. CASE RefuseEnumerator
  BY <1>0, <1>4, NoEnumeratorType DEF RefuseEnumerator, EndsSearch
<1>5. CASE GetNext
  <2> DEFINE next == NextPageNr(enumerator.page)
  <2>1. next \in Pages /\ enumerator.page \in Pages
    BY <1>0, NextPageNrType DEF EnumeratorType
  <2>2. UNCHANGED <<storeState, search, phase>>
    BY <1>5, <1>p DEF GetNext
  <2>3. /\ enumerator' \in EnumeratorType
        /\ enumerator'.valid = enumerator.valid
        /\ enumerator'.currentIndex <= enumerator'.itemsOnPage
        /\ delivered' \in Seq(Item \cup {Garbage})
    <3>1. CASE ~PageIsRead /\ ReadsFrom(enumerator.page, enumerator.currentIndex,
                                        enumerator.itemsOnPage)
      <4>1. /\ enumerator.currentIndex \in Nat /\ enumerator.itemsOnPage \in Nat
            /\ enumerator.currentIndex < enumerator.itemsOnPage
        BY <1>0, <3>1 DEF EnumeratorType, PageIsRead
      <4> QED
        BY <2>1, <3>1, <4>1, ReadType
    <3>2. CASE ItemsOnPage(next) > 0 /\ ReadsFrom(next, 0, ItemsOnPage(next))
      <4>1. ItemsOnPage(next) \in Nat
        BY <1>0, <3>2, ItemsOnPageType
      <4> QED
        BY <2>1, <3>2, <4>1, ReadType
    <3>3. CASE enumerator' = [enumerator EXCEPT !.hasMoreItems = FALSE]
               /\ UNCHANGED delivered
      BY <1>0, <3>3 DEF EnumeratorType
    <3> QED
      BY <1>5, <3>1, <3>2, <3>3 DEF GetNext
  <2> QED
    BY <1>0, <2>2, <2>3
<1>6. CASE EndEnumerate
  BY <1>0, <1>6, NoEnumeratorType DEF EndEnumerate
<1>7. CASE \E item \in Item : LoseItemWhileEnumerating(item)
  BY <1>0, <1>7 DEF LoseItemWhileEnumerating, readerVars, bootVars
<1>8. CASE WriterStep
  <2>1. UNCHANGED readerVars
    BY <1>8 DEF WriterStep
  <2>2. search.running => phase' = phase
    BY <1>8 DEF WriterStep, FlashEndOfOperation, FlashOperationError, bootVars
  <2> QED
    BY <1>0, <2>1, <2>2 DEF readerVars
<1>9. CASE ReaderPowerLoss
  BY <1>9, NoEnumeratorType DEF ReaderPowerLoss
<1>10. CASE UNCHANGED allVars
  BY <1>0, <1>10, <1>p DEF allVars, readerVars
<1>11. CASE \E startIndex \in StartIndex : BeginEnumerate(startIndex)
  <2>1. UNCHANGED <<storeState, delivered, phase>> /\ storeState = "Idle"
        /\ phase = "run"
    BY <1>11, <1>p DEF BeginEnumerate
  <2> QED
    BY <1>0, <1>1, <1>11, <2>1
<1> QED
  BY <1>2, <1>3, <1>4, <1>5, <1>6, <1>7, <1>8, <1>9, <1>10, <1>11 DEF ReaderNext

(***************************************************************************)
(* An enumerator never points outside of the store or behind the items it  *)
(* takes to be on its page, whatever the state of the flash it was opened  *)
(* on.                                                                     *)
(***************************************************************************)
THEOREM ReaderTypeCorrect == ReaderSpec => []ReaderTypeOK
<1>1. ReaderTypeOK /\ [ReaderNext]_allVars => ReaderTypeOK'
  BY ReaderTypeNext
<1> QED
  BY <1>1, ReaderTypeInit, PTL DEF ReaderSpec

-----------------------------------------------------------------------------
(* What a regular enumeration delivers.                                    *)

\* Slices of a sequence of items, m the number of items in front of them.
LEMMA SliceIs ==
  ASSUME NEW s \in Seq(Item), NEW m \in Nat, NEW n \in Nat,
         m <= n, n <= Len(s)
  PROVE  /\ SubSeq(s, m + 1, n) \in Seq(Item)
         /\ Len(SubSeq(s, m + 1, n)) = n - m
         /\ \A i \in 1 .. n - m : SubSeq(s, m + 1, n)[i] = s[m + i]
<1>1. Len(s) \in Nat
  OBVIOUS
<1>2. \A i \in m + 1 .. n : s[i] \in Item
  <2>1. \A i \in m + 1 .. n : i \in 1 .. Len(s)
    BY <1>1
  <2> QED
    BY <2>1, ElementOfSeq
<1>3. m + 1 \in Int /\ n \in Int
  OBVIOUS
<1>4. /\ SubSeq(s, m + 1, n) \in Seq(Item)
      /\ Len(SubSeq(s, m + 1, n)) = IF m + 1 <= n THEN n - (m + 1) + 1 ELSE 0
      /\ \A i \in 1 .. n - (m + 1) + 1 :
           SubSeq(s, m + 1, n)[i] = s[m + 1 + i - 1]
  BY <1>2, <1>3, SubSeqProperties
<1>5. /\ (IF m + 1 <= n THEN n - (m + 1) + 1 ELSE 0) = n - m
      /\ n - (m + 1) + 1 = n - m
      /\ \A i \in 1 .. n - m : m + 1 + i - 1 = m + i
  OBVIOUS
<1> DEFINE slice == SubSeq(s, m + 1, n)
<1> HIDE DEF slice
<1>6. /\ slice \in Seq(Item) /\ Len(slice) = n - m
      /\ \A i \in 1 .. n - m : slice[i] = s[m + i]
  BY <1>4, <1>5 DEF slice
<1> QED
  BY <1>6 DEF slice

LEMMA SliceAppended ==
  ASSUME NEW s \in Seq(Item), NEW m \in Nat, NEW n \in Nat,
         m <= n, n < Len(s)
  PROVE  Append(SubSeq(s, m + 1, n), s[n + 1]) = SubSeq(s, m + 1, n + 1)
<1> DEFINE slice == SubSeq(s, m + 1, n)
           longer == SubSeq(s, m + 1, n + 1)
<1>1. /\ Len(s) \in Nat /\ n + 1 \in Nat /\ n + 1 <= Len(s) /\ n <= Len(s)
      /\ m <= n + 1 /\ n - m \in Nat /\ (n + 1) - m = (n - m) + 1
      /\ n + 1 = m + ((n - m) + 1)
  OBVIOUS
<1>2. /\ slice \in Seq(Item) /\ Len(slice) = n - m
      /\ \A i \in 1 .. n - m : slice[i] = s[m + i]
  BY <1>1, SliceIs
<1>3. /\ longer \in Seq(Item) /\ Len(longer) = (n + 1) - m
      /\ \A i \in 1 .. (n + 1) - m : longer[i] = s[m + i]
  BY <1>1, SliceIs
<1>4. s[n + 1] \in Item
  BY <1>1, ElementOfSeq
<1> HIDE DEF slice, longer
<1> DEFINE k == n - m
           last == s[n + 1]
<1>5. /\ k \in Nat /\ (n + 1) - m = k + 1 /\ n + 1 = m + (k + 1)
  BY <1>1
<1>6. /\ Len(slice) = k /\ Len(longer) = k + 1
      /\ \A i \in 1 .. k : slice[i] = s[m + i]
      /\ \A i \in 1 .. k + 1 : longer[i] = s[m + i]
  BY <1>2, <1>3, <1>5
<1>7. longer[k + 1] = last
  BY <1>5, <1>6
<1>8. /\ Append(slice, last) \in Seq(Item) /\ Len(Append(slice, last)) = k + 1
      /\ \A i \in 1 .. k : Append(slice, last)[i] = slice[i]
      /\ Append(slice, last)[k + 1] = last
  <2>1. slice \in Seq(Item) /\ last \in Item /\ Len(slice) = k
    BY <1>2, <1>4, <1>6
  <2> HIDE DEF k, last
  <2> QED
    BY <2>1, AppendProperties
<1> HIDE DEF k, last
<1>9. \A i \in 1 .. k + 1 : i \in 1 .. k \/ i = k + 1
  BY <1>5
<1>10. \A i \in 1 .. k : i \in 1 .. k + 1
  BY <1>5
<1>11. \A i \in 1 .. k + 1 : Append(slice, last)[i] = longer[i]
  BY <1>6, <1>7, <1>8, <1>9, <1>10
<1>12. Append(slice, last) = longer
  BY <1>3, <1>6, <1>8, <1>11, SeqEqual
<1> QED
  BY <1>12 DEF slice, longer, last

LEMMA SliceOfSlice ==
  ASSUME NEW s \in Seq(Item), NEW m \in Nat, NEW n \in Nat,
         m <= n, n <= Len(s)
  PROVE  SubSeq(s, m + 1, n) = SubSeq(SubSeq(s, m + 1, Len(s)), 1, n - m)
<1> DEFINE rest == SubSeq(s, m + 1, Len(s))
           slice == SubSeq(s, m + 1, n)
           k == n - m
           first == SubSeq(rest, 0 + 1, k)
<1>1. Len(s) \in Nat /\ m <= Len(s) /\ k \in Nat /\ 0 \in Nat /\ 0 <= k
      /\ k <= Len(s) - m /\ k - 0 = k
  OBVIOUS
<1>2. /\ rest \in Seq(Item) /\ Len(rest) = Len(s) - m
      /\ \A i \in 1 .. Len(s) - m : rest[i] = s[m + i]
  BY <1>1, SliceIs
<1>3. /\ slice \in Seq(Item) /\ Len(slice) = k
      /\ \A i \in 1 .. k : slice[i] = s[m + i]
  BY <1>1, SliceIs
<1> HIDE DEF rest, slice, k
<1>4. /\ first \in Seq(Item) /\ Len(first) = k - 0
      /\ \A i \in 1 .. k - 0 : first[i] = rest[0 + i]
  BY <1>1, <1>2, SliceIs
<1> HIDE DEF first
<1>5. \A i \in 1 .. k : 0 + i = i /\ i \in 1 .. Len(s) - m
  BY <1>1
<1>6. \A i \in 1 .. k : slice[i] = first[i]
  BY <1>1, <1>2, <1>3, <1>4, <1>5
<1>7. slice = first
  BY <1>1, <1>3, <1>4, <1>6, SeqEqual
<1>8. 0 + 1 = 1
  OBVIOUS
<1> QED
  BY <1>7, <1>8 DEF rest, slice, k, first

\* A page of the ring, its items, and where they are in the log.
IsRead(page, d, head) ==
  LET items == flash[page].items
  IN  /\ page \in Pages /\ items \in Seq(Item)
      /\ Len(items) \in 0 .. ItemsPerPage
      /\ d < Distance(head, WritePage) =>
           /\ IsUsed(flash[page]) /\ IsComplete(flash[page])
           /\ flash[page].complete.nextPage = PageAt(head, d + 1)
           /\ NextPageNr(page) = PageAt(head, d + 1)
           /\ Len(items) = ItemsPerPage
      /\ d = Distance(head, WritePage) =>
           page = WritePage /\ ~IsComplete(flash[page])
      /\ Len(items) > 0 => IsUsed(flash[page])
      /\ IsUsed(flash[page]) => ItemsOnPage(page) = Len(items)
      /\ d * ItemsPerPage + Len(items) <= Len(Contents)
      /\ \A index \in 0 .. Len(items) - 1 :
           items[index + 1] = Contents[d * ItemsPerPage + index + 1]

LEMMA NextPageAt ==
  ASSUME NEW head \in Pages, NEW d \in 0 .. NrOfPages - 1, d + 1 < NrOfPages
  PROVE  NextPageNr(PageAt(head, d)) = PageAt(head, d + 1)
BY Numbers, RingNumbers DEF PageAt, NextPageNr, Pages

\* A store that is read is a ring of pages with the items of the log.
LEMMA ReadableRing ==
  ASSUME IInv, LogInv, phase = "run", listener = "Idle", ~Deleting
  PROVE  LET head == oldestPageInfo.pageId
             last == Distance(head, WritePage)
         IN  /\ head \in Pages /\ WritePage \in Pages
             /\ last \in 0 .. NrOfPages - 1
             /\ Contents \in Seq(Item)
             /\ Len(Contents) =
                  last * ItemsPerPage + Len(flash[WritePage].items)
             /\ \A d \in 0 .. last : IsRead(PageAt(head, d), d, head)
<1> DEFINE head == oldestPageInfo.pageId
           tag == nextWritePageInfo
           last == Distance(head, WritePage)
<1>1. /\ TypeOK /\ head \in Pages /\ tag \in PageTag
      /\ WritePage \in Pages /\ WritePage = tag.pageId
      /\ IsLog(flash, head, tag) /\ ~IsComplete(flash[WritePage])
      /\ flash \in [Pages -> Page] /\ PagesFilled(flash)
      /\ ~IsUsed(flash[WritePage]) => flash[WritePage] = ErasedPage
  BY IdleLog DEF LogInv, TypeOK
<1>2. last \in 0 .. NrOfPages - 1
  BY <1>1, DistanceType
<1>3. CountInv /\ Kept = flash
  BY <1>1, Running, KeptIs DEF LogInv, RunInv
<1>4. Size(flash, head, tag) = last * ItemsPerPage + Len(flash[WritePage].items)
  BY <1>1 DEF Size
<1>5. /\ Contents \in Seq(Item) /\ Len(Contents) = Size(flash, head, tag)
      /\ \A i \in 1 .. Size(flash, head, tag) :
           Contents[i] = ItemAt(flash, head, i - 1)
  BY <1>1, LogIs DEF Contents
<1>6. ItemsPerPage \in Nat /\ ItemsPerPage >= 2 /\ NrOfPages \in Nat
  BY Numbers
<1>7. ASSUME NEW d \in 0 .. last
      PROVE  IsRead(PageAt(head, d), d, head)
  <2> DEFINE page == PageAt(head, d)
             items == flash[page].items
             front == d * ItemsPerPage
  <2>1. /\ d \in 0 .. NrOfPages - 1 /\ d \in Nat /\ d <= last /\ front \in Nat
        /\ last \in Nat
    BY <1>2, <1>6
  <2>2. page \in Pages /\ Distance(head, page) = d
    BY <1>1, <2>1, PageAtDistance
  <2>3. /\ items \in Seq(Item) /\ Len(items) \in Nat /\ Len(items) <= ItemsPerPage
    BY <1>1, <2>2, ItemsType DEF PagesFilled
  <2>4. ASSUME d < last
        PROVE  /\ IsUsed(flash[page]) /\ IsComplete(flash[page])
               /\ flash[page].complete.nextPage = NextPageNr(page)
               /\ NextPageNr(page) = PageAt(head, d + 1)
               /\ Len(items) = ItemsPerPage
               /\ page # WritePage
    <3>1. IsRing(flash, head, tag)
      BY <1>1 DEF IsLog
    <3>2. /\ IsUsed(flash[page]) /\ IsComplete(flash[page])
          /\ flash[page].complete.nextPage = NextPageNr(page)
      BY <1>1, <2>2, <2>4, <3>1, RingFacts
    <3>3. d + 1 < NrOfPages
      BY <1>2, <1>6, <2>1, <2>4
    <3>4. NextPageNr(page) = PageAt(head, d + 1)
      BY <1>1, <2>1, <3>3, NextPageAt
    <3>5. Len(items) = ItemsPerPage
      BY <1>1, <2>2, <3>2 DEF PagesFilled
    <3> QED
      BY <1>1, <2>2, <2>4, <3>2, <3>4, <3>5
  <2>5. d = last => page = WritePage
    BY <1>1, <2>2, DistanceSame
  <2>6. Len(items) > 0 => IsUsed(flash[page])
    BY <1>1, <2>2 DEF PagesFilled, ErasedPage
  <2>7. ASSUME IsUsed(flash[page])
        PROVE  ItemsOnPage(page) = Len(items)
    <3>1. CASE d < last
      BY <2>2, <2>4, <2>7, <3>1 DEF ItemsOnPage
    <3>2. CASE d = last
      <4>1. IsOpenPage(Kept[WritePage])
        BY <1>1, <1>3, <2>5, <2>7, <3>2 DEF IsOpenPage
      <4>2. currentPageNrOfItems = Len(items)
        BY <1>3, <2>5, <3>2, <4>1 DEF CountInv
      <4> QED
        BY <2>2, <2>5, <2>7, <3>2, <4>2 DEF ItemsOnPage
    <3> QED
      BY <2>1, <3>1, <3>2
  <2>8. front + Len(items) <= Len(Contents)
    <3>1. CASE d = last
      BY <1>4, <1>5, <2>5, <3>1
    <3>2. CASE d < last
      <4> DEFINE top == last * ItemsPerPage
                 len == Len(flash[WritePage].items)
      <4>1. front + ItemsPerPage <= top
        BY <2>1, <3>2, Product
      <4>2. Len(items) = ItemsPerPage /\ len \in Nat /\ top \in Nat
        BY <1>1, <1>6, <2>1, <2>4, <3>2, ItemsType
      <4>3. Len(Contents) = top + len
        BY <1>4, <1>5
      <4> HIDE DEF front, items, top, len
      <4> QED
        BY <1>6, <2>1, <4>1, <4>2, <4>3
    <3> QED
      BY <2>1, <3>1, <3>2
  <2>9. ASSUME NEW index \in 0 .. Len(items) - 1
        PROVE  items[index + 1] = Contents[front + index + 1]
    <3>1. /\ index \in 0 .. ItemsPerPage - 1 /\ front + index \in Nat
          /\ front + index + 1 \in 1 .. Len(Contents)
          /\ (front + index + 1) - 1 = front + index
      <4> HIDE DEF front, items
      <4> QED
        BY <1>5, <1>6, <2>1, <2>3, <2>8
    <3>2. /\ (front + index) \div ItemsPerPage = d
          /\ (front + index) % ItemsPerPage = index
      BY <2>1, <3>1, Quotient
    <3>3. Contents[front + index + 1] = ItemAt(flash, head, front + index)
      <4> HIDE DEF front, items
      <4> QED
        BY <1>5, <3>1
    <3>4. ItemAt(flash, head, front + index) = items[index + 1]
      <4>1. PageOf(head, front + index) = page /\ SlotOf(front + index) = index + 1
        BY <3>2 DEF PageOf, SlotOf
      <4> HIDE DEF front
      <4> QED
        BY <4>1 DEF ItemAt
    <3> QED
      BY <3>3, <3>4
  <2>10. Len(items) \in 0 .. ItemsPerPage
    BY <1>6, <2>3
  <2>11. d < last => flash[page].complete.nextPage = PageAt(head, d + 1)
    BY <2>4
  <2>12. d = last => page = WritePage /\ ~IsComplete(flash[page])
    BY <1>1, <2>5
  <2> HIDE DEF page
  <2>13. IsRead(page, d, head)
    BY <2>2, <2>3, <2>4, <2>6, <2>7, <2>8, <2>9, <2>10, <2>11, <2>12
       DEF IsRead
  <2> QED
    BY <2>13 DEF page
<1> QED
  BY <1>1, <1>2, <1>4, <1>5, <1>7

-----------------------------------------------------------------------------
(* The inductive invariant of an enumeration.                              *)

\* A position of the log is `index' items behind the begin of a page.
OnRing(head, tail, page, position, index) ==
  \E d \in 0 .. Distance(head, tail) :
    page = PageAt(head, d) /\ position = d * ItemsPerPage + index

NoMultiple(skip) == skip % ItemsPerPage = 0 => skip = 0

\* The store stays as it is while it is read.
ReadingInv ==
  /\ Reading => phase = "run" /\ listener = "Idle" /\ ~Deleting
  /\ ~enumerator.valid => delivered = <<>>

SearchInv ==
  search.running =>
    /\ enumerator.itemsRead = 0
    /\ enumerator.totalNrOfItems = Len(Contents) =>
         requested = SubSeq(Contents, enumerator.itemsToSkip + 1, Len(Contents))
    /\ NoMultiple(enumerator.itemsToSkip) =>
         OnRing(oldestPageInfo.pageId, WritePage, search.page,
                enumerator.itemsToSkip, search.skipping)

\* What is delivered ends in front of the position of the enumerator.
EnumeratorInv ==
  LET skip == enumerator.itemsToSkip
      position == skip + enumerator.itemsRead
  IN  Regular =>
        /\ OnRing(oldestPageInfo.pageId, WritePage, enumerator.page,
                  position, enumerator.currentIndex)
        /\ enumerator.itemsOnPage = Len(flash[enumerator.page].items)
        /\ position <= Len(Contents)
        /\ requested = SubSeq(Contents, skip + 1, Len(Contents))
        /\ delivered = SubSeq(Contents, skip + 1, position)
        /\ enumerator.hasMoreItems <=> position < Len(Contents)

ReaderInv ==
  /\ ReaderTypeOK /\ IInv /\ LogInv
  /\ ReadingInv /\ SearchInv /\ EnumeratorInv

LEMMA NotReading ==
  ASSUME ~search.running, ~enumerator.valid, delivered = <<>>
  PROVE  ReadingInv /\ SearchInv /\ EnumeratorInv
BY DEF ReadingInv, Reading, SearchInv, EnumeratorInv, Regular

\* What the ring is like while it is read.
LEMMA ReadRing ==
  ASSUME ReaderInv, Reading
  PROVE  LET head == oldestPageInfo.pageId
             last == Distance(head, WritePage)
         IN  /\ head \in Pages /\ WritePage \in Pages
             /\ last \in 0 .. NrOfPages - 1
             /\ Contents \in Seq(Item) /\ Len(Contents) \in Nat
             /\ Len(Contents) =
                  last * ItemsPerPage + Len(flash[WritePage].items)
             /\ \A d \in 0 .. last : IsRead(PageAt(head, d), d, head)
<1>1. IInv /\ LogInv /\ phase = "run" /\ listener = "Idle" /\ ~Deleting
  BY DEF ReaderInv, ReadingInv
<1>2. Contents \in Seq(Item) => Len(Contents) \in Nat
  OBVIOUS
<1> QED
  BY <1>1, <1>2, ReadableRing

\* The other steps of an application that reads leave the store as it is.
LEMMA ReadingStays ==
  ASSUME ReaderInv, Reading, Reading' => ~Deleting',
         \/ \E item \in Item : LoseItemWhileEnumerating(item)
         \/ WriterStep
         \/ UNCHANGED allVars
  PROVE  UNCHANGED <<flash, ramVars, listener, phase, readerVars>>
<1>0. /\ TypeOK /\ phase = "run" /\ listener = "Idle" /\ ~Deleting
      /\ IInv /\ LogInv
      /\ storeState = "Enumerating" \/ search.running
  BY DEF ReaderInv, ReadingInv, Reading, ReaderTypeOK
<1>1. CASE \E item \in Item : LoseItemWhileEnumerating(item)
  BY <1>1 DEF LoseItemWhileEnumerating, bootVars
<1>2. CASE UNCHANGED allVars
  BY <1>2 DEF allVars, vars, eraseVars, bootVars
<1>3. CASE WriterStep
  <2>0. UNCHANGED readerVars
    BY <1>3 DEF WriterStep
  <2>1. ASSUME NEW item \in Item, RequestAddItem(item)
        PROVE  UNCHANGED <<flash, ramVars, listener, phase>>
    BY <2>1 DEF RequestAddItem, bootVars
  <2>2. ~DeleteAllItems
    <3> SUFFICES ASSUME DeleteAllItems PROVE FALSE
      OBVIOUS
    <3>1. messages' = Append(messages, "ERASE")
      BY DEF DeleteAllItems
    <3>2. "ERASE" \in Message /\ messages \in Seq(Message) /\ 0 \in Nat
      BY <1>0 DEF TypeOK, Message
    <3>3. EraseWaits(Append(messages, "ERASE"))
      BY <3>2, EraseInAppend
    <3>4. Deleting'
      BY <3>1, <3>3 DEF Deleting, EraseWaits
    <3>5. Reading'
      BY <2>0 DEF readerVars, Reading
    <3> QED
      BY <3>4, <3>5
  <2>3. ~HandleErase
    <3> SUFFICES ASSUME HandleErase PROVE FALSE
      OBVIOUS
    <3>1. messages # <<>> /\ Head(messages) = "ERASE"
      BY DEF HandleErase, StartErase, RemindErase, Dispatch, IsNext
    <3>2. messages \in Seq(Message)
      BY <1>0 DEF TypeOK
    <3>3. EraseWaits(messages)
      BY <3>1, <3>2, EraseInTail
    <3> QED
      BY <1>0, <3>3, DeletingIs
  <2>4. ~HandleEraseDone
    BY <1>0 DEF HandleEraseDone, EraseDone, EraseReminded, EraseDoneReinit
  <2>5. ~InitItemStore
    BY <1>0 DEF InitItemStore, SkipErasedPage, CountFullPage, RecoverOpenPage,
                CloseRecoveredPage, InitStep, FinishInit
  <2>6. ~FlashEndOfOperation /\ ~FlashOperationError
    <3>1. erasing.left = 0
      BY <1>0, IdleLog
    <3> QED
      BY <3>1 DEF FlashEndOfOperation, FlashOperationError
  <2>7. ~(~search.running /\ storeState = "Idle")
    BY <1>0
  <2> QED
    BY <1>3, <2>0, <2>1, <2>2, <2>3, <2>4, <2>5, <2>6, <2>7 DEF WriterStep
<1> QED
  BY <1>1, <1>2, <1>3

\* The pages of the store, as an enumeration sees them.
LEMMA PagesStay ==
  ASSUME UNCHANGED <<flash, ramVars>>
  PROVE  /\ Contents' = Contents /\ WritePage' = WritePage
         /\ oldestPageInfo' = oldestPageInfo /\ flash' = flash
BY DEF ramVars, Contents, WritePage

LEMMA StayingInv ==
  ASSUME ReadingInv, SearchInv, EnumeratorInv,
         UNCHANGED <<flash, ramVars, listener, phase, readerVars>>,
         Reading' => ~Deleting'
  PROVE  ReadingInv' /\ SearchInv' /\ EnumeratorInv'
<1>1. /\ Contents' = Contents /\ WritePage' = WritePage
      /\ oldestPageInfo' = oldestPageInfo /\ flash' = flash
  BY PagesStay
<1>2. /\ search' = search /\ enumerator' = enumerator
      /\ delivered' = delivered /\ requested' = requested
      /\ listener' = listener /\ phase' = phase
  BY DEF readerVars
<1>3. Reading' <=> Reading
  BY <1>2 DEF Reading
<1>4. ReadingInv'
  BY <1>2, <1>3 DEF ReadingInv
<1>5. SearchInv'
  BY <1>1, <1>2 DEF SearchInv
<1>6. Regular' <=> Regular
  BY <1>1, <1>2 DEF Regular
<1>7. EnumeratorInv'
  BY <1>1, <1>2, <1>6 DEF EnumeratorInv
<1> QED
  BY <1>4, <1>5, <1>7

\* A step that only reads.
LEMMA ReadStep ==
  ASSUME ReaderInv, UNCHANGED vars
  PROVE  /\ Contents' = Contents /\ WritePage' = WritePage
         /\ oldestPageInfo' = oldestPageInfo /\ flash' = flash
         /\ UNCHANGED <<listener, phase>> /\ (Deleting' <=> Deleting)
BY PagesStay DEF vars, eraseVars, bootVars, ramVars, Deleting

LEMMA BeginEnumerateInv ==
  ASSUME ReaderInv, NEW startIndex \in StartIndex, BeginEnumerate(startIndex),
         ReaderTypeOK', Reading' => ~Deleting'
  PROVE  ReadingInv' /\ SearchInv' /\ EnumeratorInv'
<1> DEFINE skip == ItemsToSkip(startIndex)
           head == oldestPageInfo.pageId
<1>1. /\ phase = "run" /\ listener = "Idle" /\ ~enumerator.valid
      /\ TypeOK /\ IInv /\ LogInv /\ delivered = <<>>
  BY DEF BeginEnumerate, ReaderInv, ReaderTypeOK, ReadingInv
<1>2. /\ Contents' = Contents /\ WritePage' = WritePage
      /\ oldestPageInfo' = oldestPageInfo
      /\ UNCHANGED <<listener, phase>> /\ (Deleting' <=> Deleting)
  BY ReadStep DEF BeginEnumerate
<1>3. /\ search' = SearchFrom(skip) /\ requested' = Requested(startIndex)
      /\ delivered' = <<>>
  BY <1>1 DEF BeginEnumerate
<1>4. startIndex \in Int /\ TotalNrOfItems \in Nat /\ skip \in Nat
  BY <1>1, ReaderAssumption, CountType DEF ReaderAssumption
<1>5. /\ enumerator'.itemsRead = 0 /\ ~enumerator'.valid
      /\ enumerator'.itemsToSkip = skip
      /\ enumerator'.totalNrOfItems = TotalNrOfItems
  <2>1. enumerator' = [NoEnumerator EXCEPT
                         !.itemsToSkip = skip, !.totalNrOfItems = TotalNrOfItems]
    BY DEF BeginEnumerate
  <2> HIDE DEF skip
  <2> QED
    BY <2>1 DEF NoEnumerator
<1>6. search'.running /\ search'.page = head /\ search'.skipping = skip
  BY <1>3 DEF SearchFrom
<1>7. Reading' /\ ~Deleting
  BY <1>2, <1>6 DEF Reading
<1>8. ReadingInv'
  BY <1>1, <1>2, <1>3, <1>7 DEF ReadingInv
<1>9. TotalNrOfItems = Len(Contents) =>
        requested' = SubSeq(Contents, skip + 1, Len(Contents))
  BY <1>3 DEF Requested, ItemsToSkip
<1>10. OnRing(head, WritePage, head, skip, skip)
  <2>1. /\ head \in Pages /\ Distance(head, WritePage) \in Nat
        /\ ItemsPerPage \in Nat
    BY <1>1, <1>7, ReadableRing, Numbers
  <2>2. head = PageAt(head, 0) /\ skip = 0 * ItemsPerPage + skip
    <3>1. head \in Nat /\ head <= LastPage /\ head + 0 = head
      BY <2>1, Numbers DEF Pages
    <3>2. head = PageAt(head, 0)
      BY <3>1, Numbers DEF PageAt
    <3> HIDE DEF skip
    <3>3. skip = 0 * ItemsPerPage + skip
      BY <1>4, <2>1
    <3> QED
      BY <3>2, <3>3
  <2>3. 0 \in 0 .. Distance(head, WritePage)
    BY <2>1
  <2> QED
    BY <2>2, <2>3 DEF OnRing
<1> HIDE DEF skip, head
<1>11. SearchInv'
  BY <1>2, <1>5, <1>6, <1>9, <1>10 DEF SearchInv, head
<1>12. EnumeratorInv'
  BY <1>5 DEF EnumeratorInv, Regular
<1> QED
  BY <1>8, <1>11, <1>12

\* A page is skipped, unless nothing is left to be skipped.
LEMMA SkipPageInv ==
  ASSUME ReaderInv, SkipPage
  PROVE  ReadingInv' /\ SearchInv' /\ EnumeratorInv'
<1> DEFINE head == oldestPageInfo.pageId
           left == search.skipping - ItemsPerPage
           skip == enumerator.itemsToSkip
           next == flash[search.page].complete.nextPage
<1>1. /\ search.running /\ IsUsed(flash[search.page])
      /\ IsComplete(flash[search.page])
      /\ search.skipping \in Nat /\ skip \in Nat
      /\ search \in SearchType
      /\ left >= 0 /\ ~enumerator.valid /\ delivered = <<>>
  BY DEF SkipPage, OnFullPage, OnUsedPage, ReaderInv, ReaderTypeOK, ReadingInv,
         SearchType
<1>2. /\ Contents' = Contents /\ WritePage' = WritePage
      /\ oldestPageInfo' = oldestPageInfo
      /\ UNCHANGED <<listener, phase>> /\ (Deleting' <=> Deleting)
      /\ UNCHANGED <<enumerator, delivered, requested>>
  BY ReadStep DEF SkipPage
<1>3. /\ search'.running /\ search'.skipping = left
      /\ left > 0 => search'.page = next
  <2>1. search' = [search EXCEPT
                     !.page = IF left > 0 THEN next ELSE @,
                     !.itemsOnPage = ItemsPerPage,
                     !.skipping = left]
    BY DEF SkipPage
  <2> HIDE DEF left, next
  <2> QED
    BY <1>1, <2>1 DEF SearchType
<1>4. ReadingInv'
  BY <1>1, <1>2 DEF ReaderInv, ReadingInv, Reading
<1>5. EnumeratorInv'
  BY <1>1, <1>2 DEF EnumeratorInv, Regular
<1>6. ASSUME NoMultiple(skip)
      PROVE  OnRing(head, WritePage, search'.page, skip, left)
  <2>1. OnRing(head, WritePage, search.page, skip, search.skipping)
    BY <1>1, <1>6 DEF ReaderInv, SearchInv
  <2>2. PICK d \in 0 .. Distance(head, WritePage) :
               /\ search.page = PageAt(head, d)
               /\ skip = d * ItemsPerPage + search.skipping
    BY <2>1 DEF OnRing
  <2>3. /\ Distance(head, WritePage) \in 0 .. NrOfPages - 1
        /\ IsRead(search.page, d, head)
    BY <1>1, <2>2, ReadRing DEF Reading
  <2>4. d < Distance(head, WritePage)
    <3>1. d # Distance(head, WritePage)
      BY <1>1, <2>3 DEF IsRead
    <3> QED
      BY <2>3, <3>1, Numbers
  <2>5. next = PageAt(head, d + 1)
    BY <2>3, <2>4 DEF IsRead
  <2>6. /\ d + 1 \in Nat /\ d \in Nat /\ ItemsPerPage \in Nat /\ ItemsPerPage > 0
        /\ d + 1 \in 0 .. Distance(head, WritePage)
    BY <2>3, <2>4, Numbers
  <2>7. skip = (d + 1) * ItemsPerPage + left
    <3>1. (d + 1) * ItemsPerPage = d * ItemsPerPage + ItemsPerPage
      BY <2>6
    <3>2. d * ItemsPerPage \in Nat
      BY <2>6
    <3> HIDE DEF skip
    <3> QED
      BY <1>1, <2>2, <2>6, <3>1, <3>2
  <2>8. left > 0
    <3> SUFFICES ASSUME left = 0 PROVE FALSE
      BY <1>1, <2>6
    <3>1. 0 \in 0 .. ItemsPerPage - 1
      BY <2>6
    <3>2. skip % ItemsPerPage = 0
      <4>1. ((d + 1) * ItemsPerPage + 0) % ItemsPerPage = 0
        BY <2>6, <3>1, Quotient
      <4> HIDE DEF skip, left
      <4> QED
        BY <2>7, <4>1
    <3>3. skip = 0
      BY <1>6, <3>2 DEF NoMultiple
    <3> DEFINE behind == (d + 1) * ItemsPerPage
    <3>4. behind > 0 /\ behind \in Nat
      <4>1. behind = d * ItemsPerPage + ItemsPerPage
        BY <2>6
      <4>2. d * ItemsPerPage \in Nat
        BY <2>6
      <4> HIDE DEF behind
      <4> QED
        BY <2>6, <4>1, <4>2
    <3>5. skip = behind + left
      BY <2>7
    <3> HIDE DEF skip, left, behind
    <3> QED
      BY <3>3, <3>4, <3>5
  <2>9. search'.page = PageAt(head, d + 1)
    BY <1>3, <2>5, <2>8
  <2> HIDE DEF left, skip
  <2> QED
    BY <2>6, <2>7, <2>9 DEF OnRing
<1> HIDE DEF left
<1>7. SearchInv'
  BY <1>1, <1>2, <1>3, <1>6 DEF SearchInv, ReaderInv
<1> QED
  BY <1>4, <1>5, <1>7

\* The enumerator is opened where the search ended.
LEMMA OpenEnumeratorInv ==
  ASSUME ReaderInv, OpenEnumerator, ReaderTypeOK', Reading' => ~Deleting'
  PROVE  ReadingInv' /\ SearchInv' /\ EnumeratorInv'
<1> DEFINE head == oldestPageInfo.pageId
           page == search.page
           onPage == ItemsOnPage(page)
           skip == enumerator.itemsToSkip
           new == Opened(enumerator, page, StartPosition, onPage)
           items == flash[page].items
<1>1. /\ search.running /\ delivered = <<>> /\ enumerator.itemsRead = 0
      /\ enumerator \in EnumeratorType /\ skip \in Nat
      /\ Reading
  BY DEF OpenEnumerator, EndsSearch, ReaderInv, ReaderTypeOK, ReadingInv,
         SearchInv, EnumeratorType, Reading
<1>2. /\ Contents' = Contents /\ WritePage' = WritePage
      /\ oldestPageInfo' = oldestPageInfo /\ flash' = flash
      /\ UNCHANGED <<listener, phase>> /\ (Deleting' <=> Deleting)
      /\ UNCHANGED <<delivered, requested>>
  BY ReadStep DEF OpenEnumerator
<1>3. /\ StartPosition \in Nat /\ StartPosition = search.skipping
      /\ page \in Pages /\ IsUsed(flash[page]) /\ TypeOK
  BY StartPositionIs DEF OpenEnumerator, ReaderInv, OnUsedPage, ReaderTypeOK
<1>4. onPage \in Nat /\ StartPosition < onPage
  BY <1>3, ItemsOnPageType DEF OpenEnumerator, CanEnumerate
<1>5. enumerator' = new
  BY DEF OpenEnumerator, Opened
<1>6. /\ new.valid /\ new.hasMoreItems /\ new.page = page
      /\ new.currentIndex = StartPosition /\ new.itemsOnPage = onPage
      /\ new.itemsRead = enumerator.itemsRead
      /\ new.itemsToSkip = enumerator.itemsToSkip
      /\ new.totalNrOfItems = enumerator.totalNrOfItems
  <2>1. /\ enumerator \in EnumeratorType /\ page \in Pages
        /\ StartPosition \in Nat /\ onPage \in Nat
    BY <1>1, <1>3, <1>4
  <2> HIDE DEF page, onPage
  <2> QED
    BY ONLY <2>1, OpenedIs
<1> HIDE DEF new
<1>7. /\ enumerator'.valid /\ enumerator'.hasMoreItems
      /\ enumerator'.page = page
      /\ enumerator'.currentIndex = search.skipping
      /\ enumerator'.itemsOnPage = onPage /\ enumerator'.itemsRead = 0
      /\ enumerator'.itemsToSkip = skip
      /\ enumerator'.totalNrOfItems = enumerator.totalNrOfItems
  BY <1>1, <1>3, <1>5, <1>6
<1>8. ReadingInv'
  BY <1>1, <1>2, <1>7 DEF ReaderInv, ReadingInv, Reading
<1>9. ~search'.running
  BY NoEnumeratorType DEF OpenEnumerator
<1>10. ASSUME Regular'
       PROVE  /\ OnRing(head, WritePage, page, skip, search.skipping)
              /\ onPage = Len(items)
              /\ skip < Len(Contents) /\ Len(Contents) \in Nat
              /\ requested = SubSeq(Contents, skip + 1, Len(Contents))
  <2>1. NoMultiple(skip) /\ enumerator.totalNrOfItems = Len(Contents)
    BY <1>2, <1>7, <1>10 DEF Regular, NoMultiple
  <2>2. /\ OnRing(head, WritePage, page, skip, search.skipping)
        /\ requested = SubSeq(Contents, skip + 1, Len(Contents))
    BY <1>1, <2>1 DEF ReaderInv, SearchInv
  <2>3. PICK d \in 0 .. Distance(head, WritePage) :
               /\ page = PageAt(head, d)
               /\ skip = d * ItemsPerPage + search.skipping
    BY <2>2 DEF OnRing
  <2>4. IsRead(page, d, head) /\ Len(Contents) \in Nat
        /\ Distance(head, WritePage) \in Nat
    BY <1>1, <2>3, ReadRing
  <2>5. onPage = Len(items) /\ d * ItemsPerPage + Len(items) <= Len(Contents)
    BY <1>3, <2>4 DEF IsRead
  <2>6. skip < Len(Contents)
    <3> DEFINE front == d * ItemsPerPage
    <3>1. front \in Nat
      BY <2>4, Numbers
    <3> HIDE DEF front, onPage, items, skip
    <3> QED
      BY <1>3, <1>4, <2>3, <2>4, <2>5, <3>1 DEF front
  <2> QED
    BY <2>2, <2>4, <2>5, <2>6
<1>11. EnumeratorInv'
  <2> SUFFICES ASSUME Regular'
               PROVE  /\ OnRing(head, WritePage, page, skip + 0, search.skipping)
                      /\ onPage = Len(items)
                      /\ skip + 0 <= Len(Contents)
                      /\ requested = SubSeq(Contents, skip + 1, Len(Contents))
                      /\ delivered = SubSeq(Contents, skip + 1, skip + 0)
                      /\ skip + 0 < Len(Contents)
    <3> HIDE DEF head, page, onPage, skip
    <3> QED
      BY <1>2, <1>7 DEF EnumeratorInv, head, items
  <2>1. skip + 0 = skip /\ skip + 1 \in Int /\ skip < skip + 1 /\ skip \in Int
    BY <1>1
  <2>2. delivered = SubSeq(Contents, skip + 1, skip)
    BY <1>1, <2>1, SubSeqEmpty
  <2>3. /\ OnRing(head, WritePage, page, skip, search.skipping)
        /\ onPage = Len(items)
        /\ skip < Len(Contents) /\ Len(Contents) \in Nat
        /\ requested = SubSeq(Contents, skip + 1, Len(Contents))
    BY <1>10
  <2> HIDE DEF skip, onPage, items, page, head
  <2>4. skip + 0 <= Len(Contents) /\ skip + 0 < Len(Contents)
    BY <2>1, <2>3
  <2> QED
    BY <2>1, <2>2, <2>3, <2>4
<1>12. SearchInv'
  BY <1>9 DEF SearchInv
<1> QED
  BY <1>8, <1>11, <1>12

\* An item is read, from the slot at the position of the enumerator.
LEMMA ReadsFromInv ==
  ASSUME ReaderInv, UNCHANGED <<vars, search, requested>>,
         enumerator.valid,
         NEW page \in Pages, NEW index \in Nat, NEW onPage \in Nat,
         index < onPage, ReadsFrom(page, index, onPage),
         Regular =>
           /\ OnRing(oldestPageInfo.pageId, WritePage, page,
                     enumerator.itemsToSkip + enumerator.itemsRead, index)
           /\ onPage = Len(flash[page].items)
  PROVE  ReadingInv' /\ SearchInv' /\ EnumeratorInv'
<1> DEFINE head == oldestPageInfo.pageId
           skip == enumerator.itemsToSkip
           read == enumerator.itemsRead
           position == skip + read
           items == flash[page].items
           size == Len(Contents)
           new == Advanced(enumerator, page, index, onPage)
<1>1. /\ enumerator \in EnumeratorType /\ skip \in Nat /\ read \in Nat
      /\ ~search.running /\ Reading
  BY DEF ReaderInv, ReaderTypeOK, EnumeratorType, Reading
<1>2. /\ Contents' = Contents /\ WritePage' = WritePage
      /\ oldestPageInfo' = oldestPageInfo /\ flash' = flash
      /\ UNCHANGED <<listener, phase>> /\ (Deleting' <=> Deleting)
  BY ReadStep
<1>3. enumerator' = new
  BY DEF ReadsFrom, Advanced
<1>4. /\ new.valid = enumerator.valid /\ new.page = page
      /\ new.hasMoreItems <=> read + 1 + skip < enumerator.totalNrOfItems
      /\ new.currentIndex = index + 1 /\ new.itemsOnPage = onPage
      /\ new.itemsRead = read + 1 /\ new.itemsToSkip = skip
      /\ new.totalNrOfItems = enumerator.totalNrOfItems
  <2>1. enumerator \in EnumeratorType /\ page \in Pages
        /\ index \in Nat /\ onPage \in Nat
    BY <1>1
  <2> QED
    BY ONLY <2>1, AdvancedIs
<1> HIDE DEF new
<1>5. /\ enumerator'.valid /\ enumerator'.page = page
      /\ enumerator'.hasMoreItems <=> read + 1 + skip < enumerator.totalNrOfItems
      /\ enumerator'.currentIndex = index + 1
      /\ enumerator'.itemsOnPage = onPage
      /\ enumerator'.itemsRead = read + 1 /\ enumerator'.itemsToSkip = skip
      /\ enumerator'.totalNrOfItems = enumerator.totalNrOfItems
  BY <1>3, <1>4
<1>6. ReadingInv'
  BY <1>1, <1>2, <1>5 DEF ReaderInv, ReadingInv, Reading
<1>7. SearchInv'
  BY <1>1 DEF SearchInv
<1>8. Regular' => Regular
  BY <1>2, <1>5 DEF Regular
<1>9. ASSUME Regular
      PROVE  /\ OnRing(head, WritePage, page, position + 1, index + 1)
             /\ onPage = Len(items)
             /\ position + 1 <= size
             /\ requested = SubSeq(Contents, skip + 1, size)
             /\ delivered' = SubSeq(Contents, skip + 1, position + 1)
             /\ enumerator.totalNrOfItems = size
  <2>1. /\ requested = SubSeq(Contents, skip + 1, size)
        /\ delivered = SubSeq(Contents, skip + 1, position)
        /\ enumerator.totalNrOfItems = size
    BY <1>9 DEF ReaderInv, EnumeratorInv, Regular
  <2>2. PICK d \in 0 .. Distance(head, WritePage) :
               /\ page = PageAt(head, d)
               /\ position = d * ItemsPerPage + index
    BY <1>9 DEF OnRing
  <2>3. /\ IsRead(page, d, head) /\ Contents \in Seq(Item) /\ size \in Nat
        /\ Distance(head, WritePage) \in Nat
    BY <1>1, <2>2, ReadRing
  <2>4. onPage = Len(items)
    BY <1>9
  <2> DEFINE front == d * ItemsPerPage
  <2>5. front \in Nat /\ d \in Nat
    BY <2>3, Numbers
  <2>6. /\ front + Len(items) <= size
        /\ \A i \in 0 .. Len(items) - 1 : items[i + 1] = Contents[front + i + 1]
    BY <2>3 DEF IsRead
  <2>7. index \in 0 .. Len(items) - 1 /\ index < Len(items)
    BY <2>4
  <2>8. items[index + 1] = Contents[position + 1]
    <3>1. items[index + 1] = Contents[front + index + 1]
      BY <2>6, <2>7
    <3> QED
      BY <2>2, <3>1
  <2>9. delivered' = Append(delivered, items[index + 1])
    BY <2>7 DEF ReadsFrom
  <2>10. position \in Nat /\ position < size /\ skip <= position
    <3>1. position = front + index
      BY <2>2
    <3>2. Len(items) \in Nat
      BY <2>4
    <3>3. position \in Nat /\ skip <= position
      BY <1>1
    <3> HIDE DEF front, items, size, position
    <3> QED
      BY <2>3, <2>5, <2>6, <2>7, <3>1, <3>2, <3>3
  <2>11. delivered' = SubSeq(Contents, skip + 1, position + 1)
    <3>1. delivered' = Append(SubSeq(Contents, skip + 1, position),
                              Contents[position + 1])
      BY <2>1, <2>8, <2>9
    <3>2. skip \in Nat
      BY <1>1
    <3> HIDE DEF skip, position
    <3> QED
      BY <2>3, <2>10, <3>1, <3>2, SliceAppended DEF size
  <2>12. OnRing(head, WritePage, page, position + 1, index + 1)
    <3>1. position + 1 = front + (index + 1)
      <4>1. position = front + index
        BY <2>2
      <4> HIDE DEF position, front
      <4> QED
        BY <2>5, <2>10, <4>1
    <3> HIDE DEF position
    <3> QED
      BY <2>2, <3>1 DEF OnRing, front
  <2>13. position + 1 <= size
    <3> HIDE DEF position, size
    <3> QED
      BY <2>3, <2>10
  <2> QED
    BY <2>1, <2>4, <2>11, <2>12, <2>13
<1>10. EnumeratorInv'
  <2>1. skip + (read + 1) = position + 1 /\ read + 1 + skip = position + 1
    BY <1>1
  <2> HIDE DEF skip, read, position, size, items, head
  <2>2. ASSUME Regular'
        PROVE  /\ OnRing(head, WritePage, page, skip + (read + 1), index + 1)
               /\ onPage = Len(items)
               /\ skip + (read + 1) <= size
               /\ requested' = SubSeq(Contents, skip + 1, size)
               /\ delivered' = SubSeq(Contents, skip + 1, skip + (read + 1))
               /\ enumerator'.hasMoreItems <=> skip + (read + 1) < size
    BY <1>5, <1>8, <1>9, <2>1, <2>2
  <2> QED
    BY <1>2, <1>5, <2>2 DEF EnumeratorInv, head, size, items
<1> QED
  BY <1>6, <1>7, <1>10

LEMMA GetNextInv ==
  ASSUME ReaderInv, GetNext
  PROVE  ReadingInv' /\ SearchInv' /\ EnumeratorInv'
<1> DEFINE head == oldestPageInfo.pageId
           last == Distance(head, WritePage)
           page == enumerator.page
           index == enumerator.currentIndex
           position == enumerator.itemsToSkip + enumerator.itemsRead
           size == Len(Contents)
           next == NextPageNr(page)
           items == flash[page].items
<1>1. /\ enumerator.valid /\ enumerator.hasMoreItems
      /\ UNCHANGED <<vars, search, requested>>
      /\ enumerator \in EnumeratorType /\ TypeOK
      /\ ~search.running /\ Reading
      /\ index <= enumerator.itemsOnPage
  BY DEF GetNext, ReaderInv, ReaderTypeOK, EnumeratorType, Reading
<1>2. /\ page \in Pages /\ index \in Nat /\ enumerator.itemsOnPage \in Nat
      /\ next \in Pages
  BY <1>1, NextPageNrType DEF EnumeratorType
<1>3. Regular =>
        /\ OnRing(head, WritePage, page, position, index)
        /\ enumerator.itemsOnPage = Len(items)
        /\ position < size
  BY <1>1 DEF ReaderInv, EnumeratorInv
<1>4. CASE ~PageIsRead /\ ReadsFrom(page, index, enumerator.itemsOnPage)
  <2>1. index < enumerator.itemsOnPage
    BY <1>1, <1>2, <1>4 DEF PageIsRead
  <2> QED
    BY <1>1, <1>2, <1>3, <1>4, <2>1, ReadsFromInv
\* The log goes on with the first item of the next page.
<1>5. ASSUME PageIsRead, Regular
      PROVE  /\ OnRing(head, WritePage, next, position, 0)
             /\ ItemsOnPage(next) > 0
             /\ ItemsOnPage(next) = Len(flash[next].items)
  <2>1. PICK d \in 0 .. last :
               page = PageAt(head, d) /\ position = d * ItemsPerPage + index
    BY <1>3, <1>5 DEF OnRing
  <2>2. /\ IsRead(page, d, head) /\ last \in 0 .. NrOfPages - 1
        /\ size = last * ItemsPerPage + Len(flash[WritePage].items)
        /\ size \in Nat
        /\ \A e \in 0 .. last : IsRead(PageAt(head, e), e, head)
    BY <1>1, <2>1, ReadRing
  <2>3. index = Len(items) /\ position < size
    BY <1>3, <1>5 DEF PageIsRead
  <2>4. d < last
    <3>1. d # last
      <4> SUFFICES ASSUME d = last PROVE FALSE
        OBVIOUS
      <4>1. page = WritePage
        BY <2>2 DEF IsRead
      <4>2. position = size
        BY <2>1, <2>2, <2>3, <4>1
      <4> HIDE DEF position, size
      <4> QED
        BY <2>2, <2>3, <4>2
    <3> HIDE DEF last
    <3> QED
      BY <2>2, <3>1, Numbers
  <2>5. /\ next = PageAt(head, d + 1) /\ Len(items) = ItemsPerPage
    BY <2>2, <2>4 DEF IsRead
  <2>6. d + 1 \in 0 .. last /\ d \in Nat /\ d + 1 \in Nat /\ d + 1 <= last
    BY <2>2, <2>4, Numbers
  <2>7. position = (d + 1) * ItemsPerPage + 0
    <3> DEFINE front == d * ItemsPerPage
               behind == (d + 1) * ItemsPerPage
    <3>1. behind = front + ItemsPerPage /\ front \in Nat /\ ItemsPerPage \in Nat
      BY <2>6, Numbers
    <3>2. position = front + index /\ index = ItemsPerPage
      BY <2>1, <2>3, <2>5
    <3> HIDE DEF front, behind, index, position
    <3>3. position = behind + 0
      BY <3>1, <3>2
    <3> QED
      BY <3>3 DEF behind
  <2>8. OnRing(head, WritePage, next, position, 0)
    <3> HIDE DEF position, next
    <3> QED
      BY <2>5, <2>6, <2>7 DEF OnRing
  <2>9. IsRead(next, d + 1, head)
    BY <2>2, <2>5, <2>6
  <2>10. Len(flash[next].items) \in Nat /\ Len(flash[next].items) <= ItemsPerPage
    BY <2>9, Numbers DEF IsRead
  <2>11. Len(flash[next].items) > 0
    <3>1. CASE d + 1 < last
      <4>1. Len(flash[next].items) = ItemsPerPage
        BY <2>9, <3>1 DEF IsRead
      <4> QED
        BY <4>1, Numbers
    <3>2. CASE d + 1 = last
      <4>1. next = WritePage
        BY <2>9, <3>2 DEF IsRead
      <4> DEFINE behind == (d + 1) * ItemsPerPage
                 len == Len(flash[next].items)
      <4>2. size = behind + len /\ behind \in Nat /\ position = behind + 0
        <5>1. size = last * ItemsPerPage + Len(flash[WritePage].items)
          BY <2>2
        <5> HIDE DEF last, size, next
        <5>2. size = behind + len
          BY <3>2, <4>1, <5>1
        <5>3. behind \in Nat
          BY <2>6, Numbers
        <5> QED
          BY <2>7, <5>2, <5>3
      <4>3. len \in Nat /\ position < size
        BY <2>3, <2>10
      <4> HIDE DEF size, behind, len, position
      <4>4. len > 0
        BY <4>2, <4>3
      <4> QED
        BY <4>4 DEF len
    <3> HIDE DEF next, last
    <3> QED
      BY <2>2, <2>6, <3>1, <3>2
  <2>12. ItemsOnPage(next) = Len(flash[next].items)
    BY <2>9, <2>11 DEF IsRead
  <2> QED
    BY <2>8, <2>11, <2>12
<1>6. CASE /\ PageIsRead /\ ItemsOnPage(next) > 0
           /\ ReadsFrom(next, 0, ItemsOnPage(next))
  <2>1. ItemsOnPage(next) \in Nat /\ 0 \in Nat /\ 0 < ItemsOnPage(next)
    BY <1>1, <1>6, ItemsOnPageType
  <2>2. Regular => /\ OnRing(head, WritePage, next, position, 0)
                   /\ ItemsOnPage(next) = Len(flash[next].items)
    BY <1>5, <1>6
  <2> QED
    BY <1>1, <1>2, <1>6, <2>1, <2>2, ReadsFromInv
\* Giving up.
<1>7. CASE /\ PageIsRead /\ ItemsOnPage(next) <= 0
           /\ enumerator' = [enumerator EXCEPT !.hasMoreItems = FALSE]
           /\ UNCHANGED delivered
  <2>1. ~Regular
    <3> SUFFICES ASSUME Regular PROVE FALSE
      OBVIOUS
    <3>1. ItemsOnPage(next) > 0 /\ ItemsOnPage(next) <= 0
      BY <1>5, <1>7
    <3>2. ItemsOnPage(next) \in Nat \cup {-1}
      BY <1>1, ItemsOnPageType
    <3> QED
      BY <3>1, <3>2
  <2>2. /\ enumerator'.valid
        /\ enumerator'.totalNrOfItems = enumerator.totalNrOfItems
        /\ enumerator'.itemsToSkip = enumerator.itemsToSkip
    BY <1>1, <1>7 DEF EnumeratorType
  <2>3. /\ Contents' = Contents
        /\ UNCHANGED <<listener, phase>> /\ (Deleting' <=> Deleting)
    BY <1>1, ReadStep
  <2>4. ~Regular'
    BY <1>1, <2>1, <2>2, <2>3 DEF Regular
  <2>5. ReadingInv'
    BY <1>1, <2>2, <2>3 DEF ReaderInv, ReadingInv, Reading
  <2>6. SearchInv' /\ EnumeratorInv'
    BY <1>1, <2>4 DEF SearchInv, EnumeratorInv
  <2> QED
    BY <2>5, <2>6
<1> QED
  BY <1>4, <1>6, <1>7 DEF GetNext

LEMMA ReaderInvInit == ReaderInit => ReaderInv
<1> SUFFICES ASSUME ReaderInit PROVE ReaderInv
  OBVIOUS
<1>1. Init /\ ReaderTypeOK
  BY ReaderTypeInit DEF ReaderInit
<1>2. IInv /\ LogInv
  BY <1>1, InterlockInit, RingInit, LogInit DEF IInv
<1>3. ReadingInv /\ SearchInv /\ EnumeratorInv
  BY NoEnumeratorType, NotReading DEF ReaderInit
<1> QED
  BY <1>1, <1>2, <1>3 DEF ReaderInv

LEMMA ReaderInvNext ==
  ASSUME ReaderInv, [SoundReaderNext]_allVars
  PROVE  ReaderInv'
<1>0. /\ ReaderTypeOK /\ IInv /\ LogInv
      /\ ReadingInv /\ SearchInv /\ EnumeratorInv
      /\ [ReaderNext]_allVars
  BY DEF ReaderInv, SoundReaderNext
<1>1. ReaderTypeOK' /\ IInv' /\ LogInv'
  BY <1>0, ReaderTypeNext, ReaderIInv, ReaderLogInv
<1>2. Reading' => ~Deleting'
  <2>1. CASE SoundReaderNext
    BY <2>1 DEF SoundReaderNext
  <2>2. CASE UNCHANGED allVars
    <3>1. (Reading' <=> Reading) /\ (Deleting' <=> Deleting)
      BY <2>2 DEF allVars, vars, eraseVars, readerVars, Reading, Deleting
    <3> QED
      BY <1>0, <3>1 DEF ReadingInv
  <2> QED
    BY <2>1, <2>2
<1> SUFFICES ReadingInv' /\ SearchInv' /\ EnumeratorInv'
  BY <1>1 DEF ReaderInv
<1>3. CASE \E startIndex \in StartIndex : BeginEnumerate(startIndex)
  BY <1>1, <1>2, <1>3, BeginEnumerateInv
<1>4. CASE SkipPage
  BY <1>4, SkipPageInv
<1>5. CASE OpenEnumerator
  BY <1>1, <1>2, <1>5, OpenEnumeratorInv
<1>6. CASE GetNext
  BY <1>6, GetNextInv
<1>7. CASE RefuseEnumerator \/ EndEnumerate \/ ReaderPowerLoss
  <2>1. ~search'.running /\ ~enumerator'.valid /\ delivered' = <<>>
    <3>1. CASE RefuseEnumerator
      <4>1. delivered = <<>>
        BY <1>0, <3>1 DEF RefuseEnumerator, EndsSearch, ReaderTypeOK, ReadingInv
      <4> QED
        BY <3>1, <4>1, NoEnumeratorType DEF RefuseEnumerator
    <3>2. CASE EndEnumerate
      <4>1. ~search.running /\ search' = search
        BY <1>0, <3>2 DEF EndEnumerate, ReaderTypeOK
      <4> QED
        BY <3>2, <4>1, NoEnumeratorType DEF EndEnumerate
    <3>3. CASE ReaderPowerLoss
      BY <3>3, NoEnumeratorType DEF ReaderPowerLoss
    <3> QED
      BY <1>7, <3>1, <3>2, <3>3
  <2> QED
    BY <2>1 DEF ReadingInv, Reading, SearchInv, EnumeratorInv, Regular
<1>8. CASE \/ \E item \in Item : LoseItemWhileEnumerating(item)
           \/ WriterStep
           \/ UNCHANGED allVars
  <2>1. CASE Reading
    <3>1. UNCHANGED <<flash, ramVars, listener, phase, readerVars>>
      BY <1>2, <1>8, <2>1, ReadingStays
    <3> QED
      BY <1>0, <1>2, <3>1, StayingInv
  <2>2. CASE ~Reading
    <3>1. UNCHANGED readerVars
      BY <1>8 DEF LoseItemWhileEnumerating, WriterStep, allVars
    <3>2. ~search'.running /\ ~enumerator'.valid /\ delivered' = <<>>
      BY <1>0, <2>2, <3>1 DEF Reading, ReadingInv, readerVars
    <3> QED
      BY <3>2 DEF ReadingInv, Reading, SearchInv, EnumeratorInv, Regular
  <2> QED
    BY <2>1, <2>2
<1> QED
  BY <1>0, <1>3, <1>4, <1>5, <1>6, <1>7, <1>8 DEF ReaderNext

LEMMA DeliversInv == ReaderInv => DeliversRequested
<1> SUFFICES ASSUME ReaderInv, Regular
             PROVE  /\ Len(delivered) <= Len(requested)
                    /\ delivered = SubSeq(requested, 1, Len(delivered))
                    /\ enumerator.hasMoreItems <=> delivered # requested
  BY DEF DeliversRequested
<1> DEFINE skip == enumerator.itemsToSkip
           position == skip + enumerator.itemsRead
           size == Len(Contents)
<1>1. /\ enumerator \in EnumeratorType /\ Reading
      /\ position <= size
      /\ requested = SubSeq(Contents, skip + 1, size)
      /\ delivered = SubSeq(Contents, skip + 1, position)
      /\ enumerator.hasMoreItems <=> position < size
  BY DEF ReaderInv, ReaderTypeOK, EnumeratorType, EnumeratorInv, Regular, Reading
<1>2. Contents \in Seq(Item) /\ size \in Nat
  BY <1>1, ReadRing
<1>3. skip \in Nat /\ position \in Nat /\ skip <= position
  BY <1>1 DEF EnumeratorType
<1> HIDE DEF skip, position
<1>4. skip <= size /\ size <= size
  BY <1>1, <1>2, <1>3
<1>5. Len(requested) = size - skip
  BY <1>1, <1>2, <1>3, <1>4, SliceIs
<1>6. Len(delivered) = position - skip
  BY <1>1, <1>2, <1>3, <1>4, SliceIs
<1>7. delivered = SubSeq(requested, 1, position - skip)
  BY <1>1, <1>2, <1>3, <1>4, SliceOfSlice
<1>8. position = size => delivered = requested
  BY <1>1
<1> HIDE DEF size
<1>9. /\ Len(delivered) <= Len(requested)
      /\ Len(delivered) = Len(requested) => position = size
  BY <1>1, <1>2, <1>3, <1>5, <1>6
<1>10. enumerator.hasMoreItems <=> delivered # requested
  BY <1>1, <1>2, <1>3, <1>8, <1>9
<1> QED
  BY <1>6, <1>7, <1>9, <1>10

(***************************************************************************)
(* Between requests to delete everything, and from recoverable pages, an   *)
(* enumeration with the right item count delivers what was asked for,      *)
(* wherever the ring begins, however many pages it crosses, and whatever   *)
(* is requested in the meantime.                                           *)
(***************************************************************************)
THEOREM RequestedIsDelivered == SoundReaderSpec => []DeliversRequested
<1>1. ReaderInv /\ [SoundReaderNext]_allVars => ReaderInv'
  BY ReaderInvNext
<1> QED
  BY <1>1, ReaderInvInit, DeliversInv, PTL DEF SoundReaderSpec

=============================================================================
