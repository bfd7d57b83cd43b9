-------------------------- MODULE MergePushProofs --------------------------
(***************************************************************************)
(* A push reaches the order its merge left, by writes YouTube takes, for   *)
(* every base, every edit on both sides and every number of items; and the *)
(* merge loses nothing, keeps both sides' orders and settles.              *)
(*                                                                         *)
(* The plan is followed first as it was made: on keys, where an entry      *)
(* awaiting an item is known by minus its place.  Each of its writes takes *)
(* one list of distinct keys to the next, and they end at the entries' own *)
(* keys.  The push is then that run with the keys replaced, one by one, by *)
(* the items YouTube makes: the inductive invariant IInv says which list   *)
(* the playlist stands at and that the writes left go on from it.  The     *)
(* merge is followed on keys too: what it weaves of them is read back on   *)
(* the entries' ids and on their items.                                    *)
(***************************************************************************)
EXTENDS MergePush, MergeProofs

-----------------------------------------------------------------------------
(***************************************************************************)
(* One write of a push, on the keys, on YouTube and on the base.           *)
(***************************************************************************)
LEMMA ReachesTail ==
    ASSUME NEW order, NEW T, NEW plan \in Seq(T), plan # <<>>, NEW from, NEW to,
           Reaches(order, plan, from, to)
    PROVE  \E next : /\ next \in Seq(Int) /\ IsInjective(next)
                     /\ from \in Seq(Int) /\ IsInjective(from)
                     /\ Accepted(order, from, Head(plan), next)
                     /\ Reaches(order, Tail(plan), next, to)
  <1>1. PICK lists : ListsRun(order, lists, plan, from, to)
    BY DEF Reaches
  <1> DEFINE L == {ids \in Seq(Int) : IsInjective(ids)}
             n == Len(plan)
             less == Tail(plan)
             w == Head(plan)
             rest == [i \in 1..n |-> lists[i + 1]]
  <1>2. /\ n \in Nat /\ n > 0 /\ w = plan[1] /\ Len(less) = n - 1
        /\ \A i \in 1..(n - 1) : less[i] = plan[i + 1]
    OBVIOUS
  <1>3. /\ lists \in [1..(n + 1) -> L] /\ lists[1] = from /\ lists[n + 1] = to
        /\ \A i \in 1..n : Accepted(order, lists[i], plan[i], lists[i + 1])
    BY <1>1 DEF ListsRun
  <1> HIDE DEF n, less, w, L
  <1>4. /\ 1 \in 1..n /\ lists[2] \in L /\ lists[1] \in L
    BY <1>2, <1>3
  <1>5. Accepted(order, from, w, lists[2])
    BY <1>2, <1>3, <1>4
  <1>6. rest \in [1..(Len(less) + 1) -> L]
    BY <1>2, <1>3
  <1>7. rest[1] = lists[2] /\ rest[Len(less) + 1] = to
    BY <1>2, <1>3
  <1>8. \A i \in 1..Len(less) : Accepted(order, rest[i], less[i], rest[i + 1])
    <2> TAKE i \in 1..Len(less)
    <2>1. i \in 1..n /\ i + 1 \in 1..n /\ i \in 1..(n - 1)
      BY <1>2
    <2>2. rest[i] = lists[i + 1] /\ rest[i + 1] = lists[i + 1 + 1] /\ less[i] = plan[i + 1]
      BY <1>2, <2>1
    <2> HIDE DEF rest
    <2> QED
      BY <1>3, <2>1, <2>2
  <1>9. ListsRun(order, rest, less, lists[2], to)
    BY <1>6, <1>7, <1>8 DEF ListsRun, L
  <1>10. Reaches(order, less, lists[2], to)
    BY <1>9 DEF Reaches
  <1> QED
    BY <1>3, <1>4, <1>5, <1>10 DEF L, w, less

(* What a push has come to is known by a list of keys: an item's id is its  *)
(* own, and the key of an entry stands for the item made for it.            *)
ItemOf(order, key) == IF key < 0 THEN order[-key].item ELSE key
ItemsAt(order, list) == [j \in DOMAIN list |-> ItemOf(order, list[j])]

(* Two lists of one length, whose elements R relates place by place.        *)
Alike(R, A, B, a, b) ==
    /\ a \in Seq(A) /\ b \in Seq(B) /\ Len(a) = Len(b)
    /\ \A i \in 1..Len(b) : <<a[i], b[i]>> \in R

LEMMA AlikeRemoved ==
    ASSUME NEW R, NEW A, NEW B, NEW a, NEW b, Alike(R, A, B, a, b), NEW at \in 1..Len(b)
    PROVE  Alike(R, A, B, RemoveAt(a, at), RemoveAt(b, at))
  <1> DEFINE n == Len(b)
             c == RemoveAt(a, at)
             d == RemoveAt(b, at)
  <1>1. /\ a \in Seq(A) /\ b \in Seq(B) /\ Len(a) = n /\ n \in Nat
        /\ \A i \in 1..n : <<a[i], b[i]>> \in R
    BY DEF Alike
  <1>2. /\ c \in Seq(A) /\ Len(c) = n - 1
        /\ \A j \in 1..(n - 1) : c[j] = IF j < at THEN a[j] ELSE a[j + 1]
    <2>1. at \in 1..Len(a)
      BY <1>1
    <2>2. /\ RemoveAt(a, at) \in Seq(A) /\ Len(RemoveAt(a, at)) = Len(a) - 1
          /\ \A j \in 1..(Len(a) - 1) :
                RemoveAt(a, at)[j] = IF j < at THEN a[j] ELSE a[j + 1]
      BY <1>1, <2>1, RemoveAtPlaces
    <2> QED
      BY <1>1, <2>2
  <1>3. /\ d \in Seq(B) /\ Len(d) = n - 1
        /\ \A j \in 1..(n - 1) : d[j] = IF j < at THEN b[j] ELSE b[j + 1]
    <2>2. /\ RemoveAt(b, at) \in Seq(B) /\ Len(RemoveAt(b, at)) = Len(b) - 1
          /\ \A j \in 1..(Len(b) - 1) :
                RemoveAt(b, at)[j] = IF j < at THEN b[j] ELSE b[j + 1]
      BY <1>1, RemoveAtPlaces
    <2> QED
      BY <2>2
  <1> HIDE DEF c, d, n
  <1>4. \A j \in 1..(n - 1) : <<c[j], d[j]>> \in R
    <2> TAKE j \in 1..(n - 1)
    <2>1. j \in 1..n /\ j + 1 \in 1..n
      BY <1>1
    <2>2. CASE j < at
      BY <1>1, <1>2, <1>3, <2>1, <2>2
    <2>3. CASE ~(j < at)
      BY <1>1, <1>2, <1>3, <2>1, <2>3
    <2> QED
      BY <2>2, <2>3
  <1>5. Alike(R, A, B, c, d)
    BY <1>2, <1>3, <1>4 DEF Alike
  <1> QED
    BY <1>5 DEF c, d

LEMMA AlikeInserted ==
    ASSUME NEW R, NEW A, NEW B, NEW a, NEW b, Alike(R, A, B, a, b),
           NEW at \in 1..(Len(b) + 1), NEW x \in A, NEW y \in B, <<x, y>> \in R
    PROVE  Alike(R, A, B, InsertAt(a, at, x), InsertAt(b, at, y))
  <1> DEFINE n == Len(b)
             c == InsertAt(a, at, x)
             d == InsertAt(b, at, y)
  <1>1. /\ a \in Seq(A) /\ b \in Seq(B) /\ Len(a) = n /\ n \in Nat
        /\ \A i \in 1..n : <<a[i], b[i]>> \in R
    BY DEF Alike
  <1>2. /\ c \in Seq(A) /\ Len(c) = n + 1
        /\ \A j \in 1..(n + 1) :
                c[j] = IF j < at THEN a[j] ELSE IF j = at THEN x ELSE a[j - 1]
    <2>1. at \in 1..(Len(a) + 1)
      BY <1>1
    <2>2. InsertedIn(A, a, at, x, InsertAt(a, at, x))
      BY <1>1, <2>1, InsertAtInserts
    <2> QED
      BY <1>1, <2>2 DEF InsertedIn
  <1>3. /\ d \in Seq(B) /\ Len(d) = n + 1
        /\ \A j \in 1..(n + 1) :
                d[j] = IF j < at THEN b[j] ELSE IF j = at THEN y ELSE b[j - 1]
    <2>2. InsertedIn(B, b, at, y, InsertAt(b, at, y))
      BY <1>1, InsertAtInserts
    <2> QED
      BY <2>2 DEF InsertedIn
  <1>6. at \in 1..(n + 1)
    OBVIOUS
  <1> HIDE DEF c, d, n
  <1>4. \A j \in 1..(n + 1) : <<c[j], d[j]>> \in R
    <2> TAKE j \in 1..(n + 1)
    <2>2. CASE j < at
      <3>1. j \in 1..n
        BY <1>1, <1>6, <2>2
      <3> QED
        BY <1>1, <1>2, <1>3, <2>2, <3>1
    <2>3. CASE j = at
      <3>1. c[j] = x /\ d[j] = y
        BY <1>1, <1>2, <1>3, <1>6, <2>3
      <3> QED
        BY <3>1
    <2>4. CASE j > at
      <3>1. j - 1 \in 1..n /\ ~(j < at) /\ j # at
        BY <1>1, <1>6, <2>4
      <3> QED
        BY <1>1, <1>2, <1>3, <3>1
    <2> QED
      BY <1>1, <1>6, <2>2, <2>3, <2>4
  <1>5. Alike(R, A, B, c, d)
    BY <1>2, <1>3, <1>4 DEF Alike
  <1> QED
    BY <1>5 DEF c, d

LEMMA AlikeAppended ==
    ASSUME NEW R, NEW A, NEW B, NEW a, NEW b, Alike(R, A, B, a, b),
           NEW x \in A, NEW y \in B, <<x, y>> \in R
    PROVE  Alike(R, A, B, Append(a, x), Append(b, y))
  <1> DEFINE n == Len(b)
             c == Append(a, x)
             d == Append(b, y)
  <1>1. /\ a \in Seq(A) /\ b \in Seq(B) /\ Len(a) = n /\ n \in Nat
        /\ \A i \in 1..n : <<a[i], b[i]>> \in R
    BY DEF Alike
  <1>2. /\ c \in Seq(A) /\ Len(c) = n + 1
        /\ \A j \in 1..(n + 1) : c[j] = IF j = n + 1 THEN x ELSE a[j]
    BY <1>1
  <1>3. /\ d \in Seq(B) /\ Len(d) = n + 1
        /\ \A j \in 1..(n + 1) : d[j] = IF j = n + 1 THEN y ELSE b[j]
    BY <1>1
  <1> HIDE DEF c, d, n
  <1>4. \A j \in 1..(n + 1) : <<c[j], d[j]>> \in R
    <2> TAKE j \in 1..(n + 1)
    <2>1. CASE j = n + 1
      <3>1. c[j] = x /\ d[j] = y
        BY <1>2, <1>3, <2>1
      <3> QED
        BY <3>1
    <2>2. CASE j # n + 1
      <3>1. j \in 1..n
        BY <1>1, <2>2
      <3> QED
        BY <1>1, <1>2, <1>3, <2>2, <3>1
    <2> QED
      BY <2>1, <2>2
  <1>5. Alike(R, A, B, c, d)
    BY <1>2, <1>3, <1>4 DEF Alike
  <1> QED
    BY <1>5 DEF c, d

HeldItem == [id : Nat, video : Nat, placed : BOOLEAN]
SentItem == [id : Nat, video : Nat]

(* A base and what YouTube holds, item by item.                             *)
SameItem == {p \in HeldItem \X SentItem : p[1].id = p[2].id /\ p[1].video = p[2].video}
SameItems(held, list) == Alike(SameItem, HeldItem, SentItem, held, list)

(* What YouTube holds, and the keys a plan knows it by.                      *)
Keyed(order) == {p \in SentItem \X Int : p[1].id = ItemOf(order, p[2])}
KeyedBy(order, list, keys) == Alike(Keyed(order), SentItem, Int, list, keys)

LEMMA SameItemsList ==
    ASSUME NEW held, NEW list, SameItems(held, list)
    PROVE  /\ held \in Seq(HeldItem) /\ list \in Seq(SentItem)
           /\ Len(held) = Len(list) /\ Len(list) \in Nat
           /\ DOMAIN held = 1..Len(list) /\ DOMAIN list = 1..Len(list)
           /\ ItemIds(held) = ItemIds(list)
           /\ \A i \in 1..Len(list) : /\ held[i].id = list[i].id
                                      /\ held[i].video = list[i].video
  <1>1. /\ held \in Seq(HeldItem) /\ list \in Seq(SentItem) /\ Len(held) = Len(list)
        /\ \A i \in 1..Len(list) : <<held[i], list[i]>> \in SameItem
    BY DEF SameItems, Alike
  <1>2. \A i \in 1..Len(list) : held[i].id = list[i].id /\ held[i].video = list[i].video
    BY <1>1 DEF SameItem
  <1>3. Len(list) \in Nat /\ DOMAIN held = 1..Len(list) /\ DOMAIN list = 1..Len(list)
    BY <1>1
  <1> QED
    BY <1>1, <1>2, <1>3 DEF ItemIds

LEMMA KeyedList ==
    ASSUME NEW order, NEW list, NEW keys, KeyedBy(order, list, keys)
    PROVE  /\ list \in Seq(SentItem) /\ keys \in Seq(Int)
           /\ Len(list) = Len(keys) /\ Len(list) \in Nat
           /\ DOMAIN list = 1..Len(list) /\ DOMAIN keys = 1..Len(list)
           /\ \A i \in 1..Len(list) : list[i].id = ItemOf(order, keys[i])
           /\ IdsOf(list) = {ItemOf(order, x) : x \in Range(keys)}
  <1>1. /\ list \in Seq(SentItem) /\ keys \in Seq(Int) /\ Len(list) = Len(keys)
        /\ \A i \in 1..Len(keys) : <<list[i], keys[i]>> \in Keyed(order)
    BY DEF KeyedBy, Alike
  <1>2. \A i \in 1..Len(list) : list[i].id = ItemOf(order, keys[i])
    BY <1>1 DEF Keyed
  <1>3. Len(list) \in Nat /\ DOMAIN list = 1..Len(list) /\ DOMAIN keys = 1..Len(list)
    BY <1>1
  <1>4. IdsOf(list) = {ItemOf(order, x) : x \in Range(keys)}
    BY <1>2, <1>3 DEF IdsOf, Range
  <1> QED
    BY <1>1, <1>2, <1>3, <1>4

LEMMA SamePlace ==
    ASSUME NEW a, NEW b, Len(a) = Len(b), NEW e, NEW f, \A j \in 1..Len(b) : a[j] = e <=> b[j] = f
    PROVE  PlaceIn(a, e) = PlaceIn(b, f)
  <1>1. {i \in 1..Len(a) : a[i] = e} = {i \in 1..Len(b) : b[i] = f}
    OBVIOUS
  <1> QED
    BY <1>1 DEF PlaceIn, SelectInSeq

(* A write the base records as YouTube carries it out.                      *)
LEMMA AppliedSame ==
    ASSUME NEW held, NEW list, SameItems(held, list), NEW w \in WritesOf(Nat), NEW made \in Nat,
           w.kind \in {"delete", "move"} => w.item \in IdsOf(list),
           w.kind = "insert" => w.position \in 0..Len(list),
           w.kind = "move" => w.position \in 0..(Len(list) - 1)
    PROVE  SameItems(Applied(held, w, made), Performed(list, w, made))
  <1> DEFINE at == PlaceIn(ItemIds(list), w.item)
             h == [id |-> made, video |-> w.video, placed |-> TRUE]
             e == [id |-> made, video |-> w.video]
             p == w.position + 1
  <1>1. /\ held \in Seq(HeldItem) /\ list \in Seq(SentItem)
        /\ Len(held) = Len(list) /\ Len(list) \in Nat
        /\ DOMAIN held = 1..Len(list) /\ DOMAIN list = 1..Len(list)
        /\ ItemIds(held) = ItemIds(list)
        /\ \A i \in 1..Len(list) : held[i].id = list[i].id /\ held[i].video = list[i].video
    BY SameItemsList
  <1>2. /\ w.kind \in {"delete", "move", "insert", "append"} /\ w.position \in Nat
        /\ AddsItem(w) => w.video \in Nat
    BY DEF WritesOf
  <1>3. w.kind \in {"delete", "move"} => at \in 1..Len(list) /\ list[at].id = w.item
    <2> HAVE w.kind \in {"delete", "move"}
    <2> DEFINE ids == ItemIds(list)
    <2>1. /\ ids \in Seq(Nat) /\ Len(ids) = Len(list) /\ \A i \in 1..Len(list) : ids[i] = list[i].id
      <3>1. \A i \in 1..Len(list) : list[i].id \in Nat
        <4>1. \A i \in 1..Len(list) : list[i] \in SentItem
          BY <1>1
        <4> QED
          BY <4>1 DEF SentItem
      <3> QED
        BY <1>1, <3>1 DEF ItemIds
    <2>2. w.item \in Range(ids)
      BY <1>1, <2>1 DEF IdsOf, Range
    <2> HIDE DEF ids
    <2>3. PlaceIn(ids, w.item) \in 1..Len(ids) /\ ids[PlaceIn(ids, w.item)] = w.item
      BY <2>1, <2>2, PlaceInList
    <2> QED
      BY <2>1, <2>3 DEF ids
  <1>4. AddsItem(w) => h \in HeldItem /\ e \in SentItem /\ <<h, e>> \in SameItem
    BY <1>2 DEF HeldItem, SentItem, SameItem
  <1>5. h.id = made /\ h.video = w.video
    OBVIOUS
  <1> DEFINE rest == RemoveAt(list, at)
             left == RemoveAt(held, at)
  <1>6. w.kind \in {"delete", "move"} => SameItems(left, rest)
    <2> HIDE DEF at
    <2> QED
      BY <1>3, AlikeRemoved DEF SameItems
  <1>7. CASE w.kind = "delete"
    <2>1. Applied(held, w, made) = left
      <3>1. at # 0
        BY <1>1, <1>3, <1>7
      <3> QED
        BY <1>1, <1>7, <3>1 DEF Applied
    <2>2. Performed(list, w, made) = rest
      BY <1>7 DEF Performed
    <2> QED
      BY <1>6, <1>7, <2>1, <2>2
  <1>8. CASE w.kind = "append"
    <2>1. Applied(held, w, made) = Append(held, h) /\ Performed(list, w, made) = Append(list, e)
      BY <1>8 DEF Applied, Performed
    <2>2. AddsItem(w)
      BY <1>8 DEF AddsItem
    <2> HIDE DEF h, e
    <2>3. SameItems(Append(held, h), Append(list, e))
      BY <1>4, <2>2, AlikeAppended DEF SameItems
    <2> QED
      BY <2>1, <2>3
  <1>9. CASE w.kind = "insert"
    <2>1. /\ Applied(held, w, made) = InsertAt(held, p, h)
          /\ Performed(list, w, made) = InsertAt(list, p, e)
      BY <1>9 DEF Applied, PutAt, Performed
    <2>2. AddsItem(w)
      BY <1>9 DEF AddsItem
    <2>4. p \in 1..(Len(list) + 1)
      BY <1>1, <1>2, <1>9
    <2> HIDE DEF h, e, p
    <2>3. SameItems(InsertAt(held, p, h), InsertAt(list, p, e))
      BY <1>4, <2>2, <2>4, AlikeInserted DEF SameItems
    <2> QED
      BY <2>1, <2>3
  <1>10. CASE w.kind = "move"
    <2> DEFINE x == [held[at] EXCEPT !.placed = TRUE]
               y == list[at]
    <2>1. /\ Applied(held, w, made) = InsertAt(left, p, x)
          /\ Performed(list, w, made) = InsertAt(rest, p, y)
      BY <1>1, <1>10 DEF Applied, PutAt, Performed
    <2> HIDE DEF at
    <2>2. held[at] \in HeldItem /\ list[at] \in SentItem
      BY <1>1, <1>3, <1>10
    <2>3. /\ held[at].id = list[at].id /\ held[at].video = list[at].video
      BY <1>1, <1>3, <1>10
    <2>4. x \in HeldItem /\ y \in SentItem /\ x.id = y.id /\ x.video = y.video
      BY <2>2, <2>3 DEF HeldItem
    <2>5. <<x, y>> \in SameItem
      BY <2>4 DEF SameItem
    <2>6. Len(rest) = Len(list) - 1
      <3>1. /\ RemoveAt(list, at) \in Seq(SentItem) /\ Len(RemoveAt(list, at)) = Len(list) - 1
            /\ \A j \in 1..(Len(list) - 1) :
                RemoveAt(list, at)[j] = IF j < at THEN list[j] ELSE list[j + 1]
        BY <1>1, <1>3, <1>10, RemoveAtPlaces
      <3> QED
        BY <3>1
    <2>7. p \in 1..(Len(rest) + 1)
      BY <1>1, <1>2, <1>10, <2>6
    <2> HIDE DEF x, y, p, left, rest
    <2>8. SameItems(InsertAt(left, p, x), InsertAt(rest, p, y))
      BY <1>6, <1>10, <2>4, <2>5, <2>7, AlikeInserted DEF SameItems
    <2> QED
      BY <2>1, <2>8
  <1> QED
    BY <1>2, <1>7, <1>8, <1>9, <1>10

(* A delete or a move, which YouTube makes of the item a key stands for.     *)
LEMMA PerformedOfKnown ==
    ASSUME NEW order, NEW list, NEW keys, KeyedBy(order, list, keys), IsInjective(keys),
           NEW w \in WritesOf(Nat), NEW made, w.kind \in {"delete", "move"},
           w.item \in Range(keys),
           \A x \in Range(keys) : ItemOf(order, x) = w.item <=> x = w.item,
           w.kind = "move" => w.position \in 0..(Len(keys) - 1)
    PROVE  /\ KeyedBy(order, Performed(list, w, made), IdsAfter(keys, w, 0))
           /\ w.item \in IdsOf(list)
  <1> DEFINE at == PlaceIn(keys, w.item)
             p == w.position + 1
             rest == RemoveAt(list, at)
             left == RemoveAt(keys, at)
  <1>1. /\ list \in Seq(SentItem) /\ keys \in Seq(Int)
        /\ Len(list) = Len(keys) /\ Len(list) \in Nat
        /\ DOMAIN list = 1..Len(list) /\ DOMAIN keys = 1..Len(list)
        /\ \A i \in 1..Len(list) : list[i].id = ItemOf(order, keys[i])
        /\ IdsOf(list) = {ItemOf(order, x) : x \in Range(keys)}
    BY KeyedList
  <1>2. PlaceIn(ItemIds(list), w.item) = at
    <2> DEFINE ids == ItemIds(list)
    <2>1. Len(ids) = Len(keys) /\ \A i \in 1..Len(keys) : ids[i] = list[i].id
      BY <1>1 DEF ItemIds
    <2> HIDE DEF ids
    <2>2. \A i \in 1..Len(keys) : ids[i] = w.item <=> keys[i] = w.item
      <3>1. \A i \in 1..Len(keys) : keys[i] \in Range(keys)
        BY <1>1 DEF Range
      <3> QED
        BY <1>1, <2>1, <3>1
    <2>3. PlaceIn(ids, w.item) = PlaceIn(keys, w.item)
      BY <2>1, <2>2, SamePlace
    <2> QED
      BY <2>3 DEF ids
  <1>3. at \in 1..Len(keys) /\ keys[at] = w.item
    BY <1>1, PlaceInList
  <1>4. w.item \in IdsOf(list)
    BY <1>1
  <1>5. w.position \in Nat
    BY DEF WritesOf
  <1>6. KeyedBy(order, rest, left)
    <2> HIDE DEF at
    <2> QED
      BY <1>3, AlikeRemoved DEF KeyedBy
  <1>7. CASE w.kind = "delete"
    <2>1. Performed(list, w, made) = rest /\ IdsAfter(keys, w, 0) = left
      BY <1>2, <1>7 DEF Performed, IdsAfter
    <2> QED
      BY <1>4, <1>6, <2>1
  <1>8. CASE w.kind = "move"
    <2> DEFINE x == list[at]
               y == w.item
    <2>1. Performed(list, w, made) = InsertAt(rest, p, x) /\ IdsAfter(keys, w, 0) = InsertAt(left, p, y)
      BY <1>2, <1>8 DEF Performed, IdsAfter
    <2>2. Len(left) = Len(keys) - 1
      <3> HIDE DEF at
      <3>1. /\ RemoveAt(keys, at) \in Seq(Int) /\ Len(RemoveAt(keys, at)) = Len(keys) - 1
            /\ \A j \in 1..(Len(keys) - 1) :
                RemoveAt(keys, at)[j] = IF j < at THEN keys[j] ELSE keys[j + 1]
        BY <1>1, <1>3, RemoveAtPlaces
      <3> QED
        BY <3>1
    <2>3. x \in SentItem /\ y \in Int /\ x.id = ItemOf(order, y)
      <3>1. keys[at] \in Int
        BY <1>1, <1>3
      <3> QED
        BY <1>1, <1>3, <3>1
    <2>4. <<x, y>> \in Keyed(order)
      BY <2>3 DEF Keyed
    <2>5. p \in 1..(Len(left) + 1)
      BY <1>1, <1>5, <1>8, <2>2
    <2> HIDE DEF x, y, p, left, rest
    <2>6. KeyedBy(order, InsertAt(rest, p, x), InsertAt(left, p, y))
      BY <1>6, <2>3, <2>4, <2>5, AlikeInserted DEF KeyedBy
    <2> QED
      BY <1>4, <2>1, <2>6
  <1> QED
    BY <1>7, <1>8

(* An insert or an append, which makes the item a key now stands for.       *)
LEMMA PerformedOfNew ==
    ASSUME NEW order, NEW list, NEW keys, KeyedBy(order, list, keys),
           NEW w \in WritesOf(Nat), NEW made \in Nat, AddsItem(w),
           w.kind = "insert" => w.position \in 0..Len(keys),
           NEW new, NEW key \in Int, ItemOf(new, key) = made,
           \A x \in Range(keys) : ItemOf(new, x) = ItemOf(order, x)
    PROVE  KeyedBy(new, Performed(list, w, made), IdsAfter(keys, w, key))
  <1> DEFINE e == [id |-> made, video |-> w.video]
             p == w.position + 1
  <1>1. /\ list \in Seq(SentItem) /\ keys \in Seq(Int)
        /\ Len(list) = Len(keys) /\ Len(list) \in Nat
        /\ DOMAIN list = 1..Len(list) /\ DOMAIN keys = 1..Len(list)
        /\ \A i \in 1..Len(list) : list[i].id = ItemOf(order, keys[i])
    BY KeyedList
  <1>2. KeyedBy(new, list, keys)
    <2>1. ASSUME NEW i \in 1..Len(keys) PROVE <<list[i], keys[i]>> \in Keyed(new)
      <3>1. keys[i] \in Range(keys) /\ keys[i] \in Int /\ list[i] \in SentItem
        BY SMTT(30), <1>1 DEF Range
      <3> QED
        BY <1>1, <3>1 DEF Keyed
    <2> QED
      BY <1>1, <2>1 DEF KeyedBy, Alike
  <1>3. w.video \in Nat /\ w.position \in Nat
    BY DEF WritesOf
  <1>4. e \in SentItem /\ <<e, key>> \in Keyed(new)
    BY <1>3 DEF SentItem, Keyed
  <1>5. CASE w.kind = "append"
    <2>1. Performed(list, w, made) = Append(list, e) /\ IdsAfter(keys, w, key) = Append(keys, key)
      BY <1>5 DEF Performed, IdsAfter
    <2> HIDE DEF e
    <2>2. KeyedBy(new, Append(list, e), Append(keys, key))
      BY <1>2, <1>4, AlikeAppended DEF KeyedBy
    <2> QED
      BY <2>1, <2>2
  <1>6. CASE w.kind = "insert"
    <2>1. /\ Performed(list, w, made) = InsertAt(list, p, e)
          /\ IdsAfter(keys, w, key) = InsertAt(keys, p, key)
      BY <1>6 DEF Performed, IdsAfter
    <2>2. p \in 1..(Len(keys) + 1)
      BY <1>1, <1>3, <1>6
    <2> HIDE DEF e, p
    <2>3. KeyedBy(new, InsertAt(list, p, e), InsertAt(keys, p, key))
      BY <1>2, <1>4, <2>2, AlikeInserted DEF KeyedBy
    <2> QED
      BY <2>1, <2>3
  <1> QED
    BY <1>5, <1>6 DEF AddsItem

(* The entries a push plans for, and what they have become.                 *)
StandFor(ids, left, now, first) ==
    /\ now \in OrdersOf(Nat) /\ Distinct(now)
    /\ DOMAIN now = DOMAIN first
    /\ \A i \in DOMAIN first :
        /\ now[i].id = first[i].id /\ now[i].video = first[i].video
        /\ first[i].item # NoItem => now[i].item = first[i].item /\ now[i].item <= ids
        /\ first[i].item = NoItem => now[i].item = NoItem \/ now[i].item > ids + 1 + left

(* Where a push has come to: YouTube holds what list stands for, and the    *)
(* writes left take list to to.                                             *)
Pushing(ids, first, list, to, now, there, held, rest) ==
    /\ first \in OrdersOf(Nat) /\ Distinct(first) /\ NewEntry \notin IdsOf(first)
    /\ StandFor(ids, Len(rest), now, first)
    /\ rest \in Seq(WritesOf(Nat))
    /\ list \in Seq(Int) /\ IsInjective(list)
    /\ \A x \in Range(list) :
        \/ x \in 1..ids
        \/ /\ x < 0 /\ -x \in DOMAIN first /\ first[-x].item = NoItem
           /\ now[-x].item # NoItem
    /\ KeyedBy(now, there, list)
    /\ SameItems(held, there)
    /\ Reaches(first, rest, list, to)

AfterWrite(now, w, made) ==
    IF w.entry = NewEntry THEN now
    ELSE [i \in DOMAIN now |-> IF now[i].id = w.entry THEN Entry(w.entry, now[i].video, made)
                               ELSE now[i]]

LEMMA WritePushes ==
    ASSUME NEW ids \in Nat, NEW first, NEW list, NEW to, NEW now, NEW there, NEW held, NEW rest,
           Pushing(ids, first, list, to, now, there, held, rest), rest # <<>>
    PROVE  LET w == Head(rest)
               made == ids + 1 + Len(rest)
           IN  /\ AcceptsPosition(there, w)
               /\ w.kind \in {"move", "delete"} => HasItem(there, w.item)
               /\ \E next : Pushing(ids, first, next, to, AfterWrite(now, w, made),
                                    Performed(there, w, made), Applied(held, w, made),
                                    Tail(rest))
  <1> DEFINE w == Head(rest)
             made == ids + 1 + Len(rest)
             then == AfterWrite(now, w, made)
             Known(x) == \/ x \in 1..ids
                         \/ /\ x < 0 /\ -x \in DOMAIN first /\ first[-x].item = NoItem
                            /\ now[-x].item # NoItem
  <1>1. /\ first \in OrdersOf(Nat) /\ Distinct(first) /\ NewEntry \notin IdsOf(first)
        /\ StandFor(ids, Len(rest), now, first)
        /\ rest \in Seq(WritesOf(Nat))
        /\ list \in Seq(Int) /\ IsInjective(list)
        /\ \A x \in Range(list) : Known(x)
        /\ KeyedBy(now, there, list)
        /\ SameItems(held, there)
        /\ Reaches(first, rest, list, to)
    BY DEF Pushing
  <1>2. /\ now \in OrdersOf(Nat) /\ Distinct(now)
        /\ DOMAIN now = DOMAIN first
        /\ \A i \in DOMAIN first :
            /\ now[i].id = first[i].id /\ now[i].video = first[i].video
            /\ first[i].item # NoItem => now[i].item = first[i].item /\ now[i].item <= ids
            /\ first[i].item = NoItem => now[i].item = NoItem \/ now[i].item > ids + 1 + Len(rest)
    BY <1>1 DEF StandFor
  <1>3. /\ w \in WritesOf(Nat) /\ Tail(rest) \in Seq(WritesOf(Nat))
        /\ Len(rest) \in Nat \ {0} /\ Len(Tail(rest)) = Len(rest) - 1
    <2> DEFINE T == WritesOf(Nat)
    <2>1. rest \in Seq(T)
      BY <1>1
    <2> HIDE DEF T
    <2>2. Head(rest) \in T /\ Tail(rest) \in Seq(T) /\ Len(rest) \in Nat \ {0}
          /\ Len(Tail(rest)) = Len(rest) - 1
      BY <2>1
    <2> QED
      BY <2>2 DEF T
  <1>4. PICK next : /\ next \in Seq(Int) /\ IsInjective(next)
                    /\ Accepted(first, list, w, next)
                    /\ Reaches(first, Tail(rest), next, to)
    BY <1>1, ReachesTail
  <1>5. made \in Nat /\ made > ids + 1 + Len(Tail(rest)) /\ made > ids
    BY <1>3
  <1>6. /\ Len(there) = Len(list) /\ there \in Seq(SentItem) /\ DOMAIN there = 1..Len(there)
        /\ IdsOf(there) = {ItemOf(now, x) : x \in Range(list)}
    BY <1>1, KeyedList
  <1>7. \A x \in Range(list) : x # 0 /\ (x > 0 => x \in 1..ids)
            /\ (x < 0 => -x \in DOMAIN first /\ first[-x].item = NoItem
                            /\ now[-x].item > ids + 1 + Len(rest))
    <2> TAKE x \in Range(list)
    <2>1. Known(x)
      BY <1>1
    <2>2. CASE x \in 1..ids
      BY <2>2
    <2>3. CASE /\ x < 0 /\ -x \in DOMAIN first /\ first[-x].item = NoItem
               /\ now[-x].item # NoItem
      <3>1. now[-x].item > ids + 1 + Len(rest)
        BY <1>2, <2>3
      <3>2. x \in Int
        BY <1>1 DEF Range
      <3> QED
        BY <2>3, <3>1, <3>2
    <2> QED
      BY <2>1, <2>2, <2>3
  <1>14. Len(list) \in Nat
    BY <1>1
  <1> HIDE DEF made, then
  <1>8. CASE w.kind \in {"delete", "move"}
    <2>1. /\ w.entry = NewEntry /\ w.item \in Range(list) /\ w.item \in Nat \ {0}
          /\ w.kind = "move" => w.position \in 0..(Len(list) - 1)
          /\ next = IdsAfter(list, w, 0)
      BY <1>4, <1>8 DEF Accepted
    <2>2. \A x \in Range(list) : ItemOf(now, x) = w.item <=> x = w.item
      <3> TAKE x \in Range(list)
      <3>1. x \in Int /\ w.item \in 1..ids
        <4>1. x \in Int
          BY <1>1 DEF Range
        <4> QED
          BY <1>7, <2>1, <4>1
      <3>2. CASE x < 0
        <4>1. ItemOf(now, x) = now[-x].item /\ now[-x].item > ids + 1 + Len(rest)
          BY <1>7, <3>2 DEF ItemOf
        <4>2. now[-x].item \in Nat
          <5>1. -x \in DOMAIN now
            BY <1>2, <1>7, <3>2
          <5> DEFINE i == -x
          <5>2. i \in DOMAIN now
            BY <5>1
          <5> HIDE DEF i
          <5>3. now[i] \in [id : Nat, video : Nat, item : Nat]
            BY <1>2, <5>2, EntryTyped
          <5>4. now[i].item \in Nat
            BY <5>3
          <5> QED
            BY <5>4 DEF i
        <4> QED
          BY <1>3, <3>1, <3>2, <4>1, <4>2
      <3>3. CASE ~(x < 0)
        BY <3>3 DEF ItemOf
      <3> QED
        BY <3>2, <3>3
    <2>3. /\ KeyedBy(now, Performed(there, w, made), IdsAfter(list, w, 0))
          /\ w.item \in IdsOf(there)
      <3> HIDE DEF w
      <3>1. w \in WritesOf(Nat) /\ w.kind \in {"delete", "move"} /\ w.item \in Range(list)
            /\ KeyedBy(now, there, list) /\ IsInjective(list)
        BY <1>1, <1>3, <1>8, <2>1
      <3>2. w.kind = "move" => w.position \in 0..(Len(list) - 1)
        BY <2>1
      <3> QED
        BY <2>2, <3>1, <3>2, PerformedOfKnown
    <2>4. then = now
      BY <2>1 DEF then, AfterWrite
    <2>5. SameItems(Applied(held, w, made), Performed(there, w, made))
      <3>1. w.kind # "insert"
        BY <1>8
      <3> QED
        BY <1>1, <1>3, <1>5, <1>6, <2>1, <2>3, <3>1, AppliedSame
    <2>6. StandFor(ids, Len(Tail(rest)), now, first)
      <3>1. \A n \in Nat : n > ids + 1 + Len(rest) => n > ids + 1 + Len(Tail(rest))
        BY <1>3
      <3>2. \A i \in DOMAIN first : now[i].item \in Nat
        <4>1. \A i \in DOMAIN now : now[i] \in [id : Nat, video : Nat, item : Nat]
          BY <1>2, EntryTyped
        <4> QED
          BY <1>2, <4>1
      <3> QED
        BY <1>2, <3>1, <3>2 DEF StandFor
    <2>7. Range(next) \subseteq Range(list)
      <3> DEFINE at == PlaceIn(list, w.item)
                 less == RemoveAt(list, at)
                 p == w.position + 1
      <3>1. at \in 1..Len(list)
        BY <1>1, <2>1, PlaceInList
      <3> HIDE DEF at
      <3>2. /\ less \in Seq(Int) /\ Len(less) = Len(list) - 1 /\ Range(less) \subseteq Range(list)
        BY <1>1, <3>1, RemoveAtKeeps
      <3> HIDE DEF less
      <3>3. CASE w.kind = "delete"
        <4>1. next = less
          BY <2>1, <3>3 DEF IdsAfter, less, at
        <4> QED
          BY <3>2, <4>1
      <3>4. CASE w.kind = "move"
        <4>1. next = InsertAt(less, p, w.item)
          BY <2>1, <3>4 DEF IdsAfter, less, at
        <4>2. p \in 1..(Len(less) + 1) /\ w.item \in Int
          BY <1>14, <2>1, <3>2, <3>4
        <4> HIDE DEF p
        <4>3. Range(InsertAt(less, p, w.item)) = Range(less) \cup {w.item}
          BY <3>2, <4>2, InsertAtKeeps
        <4> QED
          BY <2>1, <3>2, <4>1, <4>3
      <3> QED
        BY <1>8, <3>3, <3>4
    <2>8. Pushing(ids, first, next, to, now, Performed(there, w, made), Applied(held, w, made),
                  Tail(rest))
      <3>1. \A x \in Range(next) : Known(x)
        BY <1>1, <2>7
      <3> HIDE DEF w
      <3> QED
        BY <1>1, <1>3, <1>4, <2>1, <2>3, <2>5, <2>6, <3>1 DEF Pushing
    <2>9. HasItem(there, w.item) /\ AcceptsPosition(there, w)
      <3>1. HasItem(there, w.item)
        BY <2>3 DEF HasItem, IdsOf
      <3>2. AcceptsPosition(there, w)
        BY <1>6, <1>8, <2>1 DEF AcceptsPosition
      <3> QED
        BY <3>1, <3>2
    <2> QED
      BY <2>4, <2>8, <2>9 DEF then, made
  <1>9. CASE w.kind \in {"insert", "append"}
    <2>1. PICK i \in DOMAIN first :
            /\ first[i].id = w.entry /\ first[i].item = NoItem
            /\ -i \notin Range(list) /\ next = IdsAfter(list, w, -i)
      BY <1>4, <1>9 DEF Accepted
    <2>2. w.kind = "insert" => w.position \in 0..Len(list)
      BY <1>4, <1>9 DEF Accepted
    <2>3. i \in Nat \ {0} /\ w.entry # NewEntry /\ w.entry \in Nat /\ DOMAIN first = 1..Len(first)
      <3>1. DOMAIN first = 1..Len(first) /\ Len(first) \in Nat
        BY <1>1 DEF OrdersOf
      <3> QED
        BY <1>1, <1>3, <2>1, <3>1 DEF IdsOf, WritesOf
    <2>4. /\ DOMAIN then = DOMAIN now
          /\ \A j \in DOMAIN now :
                then[j] = IF j = i THEN Entry(w.entry, now[j].video, made) ELSE now[j]
      <3>1. then = [j \in DOMAIN now |-> IF now[j].id = w.entry
                                         THEN Entry(w.entry, now[j].video, made) ELSE now[j]]
        BY <2>3 DEF then, AfterWrite
      <3>2. \A j \in DOMAIN now : now[j].id = w.entry <=> j = i
        BY <1>2, <2>1, <2>3 DEF Distinct
      <3> QED
        BY <3>1, <3>2
    <2>5. /\ then[i].id = w.entry /\ then[i].video = now[i].video /\ then[i].item = made
          /\ now[i].id = w.entry
      BY <1>2, <2>1, <2>4 DEF Entry
    <2>6. \A j \in DOMAIN now : now[j] \in [id : Nat, video : Nat, item : Nat]
      BY <1>2, EntryTyped
    <2>7. then \in OrdersOf(Nat)
      <3>1. \A j \in DOMAIN now : then[j] \in [id : Nat, video : Nat, item : Nat]
        <4> TAKE j \in DOMAIN now
        <4>1. CASE j = i
          <5>1. now[j].video \in Nat
            BY <2>6
          <5> QED
            BY <1>5, <2>3, <2>4, <4>1, <5>1 DEF Entry
        <4>2. CASE j # i
          BY <2>4, <2>6, <4>2
        <4> QED
          BY <4>1, <4>2
      <3>2. DOMAIN then = 1..Len(first) /\ Len(first) \in Nat
        BY <1>1, <1>2, <2>3, <2>4 DEF OrdersOf
      <3>3. then = [j \in DOMAIN then |-> then[j]]
        BY <2>3, <2>4 DEF then, AfterWrite
      <3> DEFINE T == [id : Nat, video : Nat, item : Nat]
      <3>4. \A j \in 1..Len(first) : then[j] \in T
        BY <2>4, <3>1, <3>2
      <3> HIDE DEF T
      <3>5. then \in [1..Len(first) -> T]
        BY <3>2, <3>3, <3>4
      <3>6. then \in Seq(T)
        BY <3>2, <3>5
      <3> QED
        BY <3>6 DEF OrdersOf, T
    <2>8. \A j \in DOMAIN now : now[j].item # made /\ (now[j].item # NoItem /\ now[j].item \in Nat
                                    => now[j].item <= ids \/ now[j].item > made)
      <3> TAKE j \in DOMAIN now
      <3>1. now[j].item \in Nat
        BY <2>6
      <3> QED
        BY <1>2, <1>3, <3>1 DEF made, NoItem
    <2>9. Distinct(then)
      <3> SUFFICES ASSUME NEW j \in DOMAIN now, NEW k \in DOMAIN now
                   PROVE  /\ then[j].id = then[k].id /\ then[j].id # NewEntry => j = k
                          /\ then[j].item = then[k].item /\ then[j].item # NoItem => j = k
        BY <2>4 DEF Distinct
      <3>1. \A l \in DOMAIN now : then[l].id = now[l].id
        BY <2>4, <2>5
      <3>2. \A l \in DOMAIN now : l # i => then[l].item = now[l].item
        BY <2>4
      <3>3. then[j].id = then[k].id /\ then[j].id # NewEntry => j = k
        BY <1>2, <3>1 DEF Distinct
      <3>4. then[j].item = then[k].item /\ then[j].item # NoItem => j = k
        BY <1>2, <2>5, <2>8, <3>2 DEF Distinct
      <3> QED
        BY <3>3, <3>4
    <2>10. StandFor(ids, Len(Tail(rest)), then, first)
      <3>1. ASSUME NEW j \in DOMAIN first
            PROVE  /\ then[j].id = first[j].id /\ then[j].video = first[j].video
                   /\ first[j].item # NoItem => then[j].item = first[j].item /\ then[j].item <= ids
                   /\ first[j].item = NoItem =>
                        then[j].item = NoItem \/ then[j].item > ids + 1 + Len(Tail(rest))
        <4>1. CASE j = i
          BY <1>2, <1>5, <2>1, <2>5, <4>1
        <4>2. CASE j # i
          <5>1. then[j] = now[j] /\ now[j].item \in Nat
            BY <1>2, <2>4, <2>6, <4>2
          <5> QED
            BY <1>2, <1>3, <5>1
        <4> QED
          BY <4>1, <4>2
      <3> QED
        BY <1>2, <2>4, <2>7, <2>9, <3>1 DEF StandFor
    <2>11. \A x \in Range(list) : ItemOf(then, x) = ItemOf(now, x)
      <3> TAKE x \in Range(list)
      <3>0. x \in Int
        BY <1>1 DEF Range
      <3>1. CASE x < 0
        <4>1. -x \in DOMAIN now /\ -x # i
          BY <1>2, <1>7, <2>1, <2>3, <3>0, <3>1
        <4> QED
          BY <2>4, <3>1, <4>1 DEF ItemOf
      <3>2. CASE ~(x < 0)
        BY <3>2 DEF ItemOf
      <3> QED
        BY <3>1, <3>2
    <2> DEFINE key == -i
    <2>12. ItemOf(then, key) = made /\ key \in Int /\ key < 0 /\ -key = i
      BY <2>3, <2>5 DEF ItemOf
    <2>13. KeyedBy(then, Performed(there, w, made), IdsAfter(list, w, key))
      <3>1. AddsItem(w)
        BY <1>9 DEF AddsItem
      <3> HIDE DEF key
      <3> QED
        BY <1>1, <1>3, <1>5, <2>2, <2>11, <2>12, <3>1, PerformedOfNew
    <2>14. SameItems(Applied(held, w, made), Performed(there, w, made))
      <3>1. w.kind \notin {"delete", "move"}
        BY <1>9
      <3>2. w.kind = "insert" => w.position \in 0..Len(there)
        BY <1>6, <2>2
      <3> QED
        BY <1>1, <1>3, <1>5, <3>1, <3>2, AppliedSame
    <2>15. Range(next) = Range(list) \cup {key}
      <3>1. next = IdsAfter(list, w, key)
        BY <2>1
      <3>2. key \notin Range(list)
        BY <2>1
      <3> HIDE DEF key
      <3>3. CASE w.kind = "append"
        <4>1. next = Append(list, key)
          BY <3>1, <3>3 DEF IdsAfter
        <4> QED
          BY <1>1, <2>12, <3>2, <4>1, AppendedKeys
      <3>4. CASE w.kind = "insert"
        <4> DEFINE p == w.position + 1
        <4>1. next = InsertAt(list, p, key)
          BY <3>1, <3>4 DEF IdsAfter
        <4>2. p \in 1..(Len(list) + 1)
          BY <1>14, <2>2, <3>4
        <4> HIDE DEF p
        <4>3. Range(InsertAt(list, p, key)) = Range(list) \cup {key}
          BY <1>1, <2>12, <4>2, InsertAtKeeps
        <4> QED
          BY <4>1, <4>3
      <3> QED
        BY <1>9, <3>3, <3>4
    <2>16. ASSUME NEW x \in Range(next)
           PROVE  \/ x \in 1..ids
                  \/ /\ x < 0 /\ -x \in DOMAIN first /\ first[-x].item = NoItem
                     /\ then[-x].item # NoItem
      <3>1. CASE x = key
        <4>1. made # NoItem
          BY <1>5, <2>5 DEF NoItem
        <4> QED
          BY <2>1, <2>5, <2>12, <3>1, <4>1
      <3>2. CASE x # key
        <4>1. x \in Range(list)
          BY <2>15, <3>2
        <4>2. CASE x \in 1..ids
          BY <4>2
        <4>3. CASE x < 0
          <5>1. -x \in DOMAIN first /\ first[-x].item = NoItem /\ now[-x].item # NoItem
            BY <1>1, <4>1, <4>3
          <5>2. x \in Int
            BY <1>1, <4>1 DEF Range
          <5>3. -x # i
            BY <2>3, <3>2, <5>2
          <5>4. then[-x] = now[-x]
            BY <1>2, <2>4, <5>1, <5>3
          <5> QED
            BY <4>3, <5>1, <5>4
        <4> QED
          BY <1>1, <4>1, <4>2, <4>3
      <3> QED
        BY <3>1, <3>2
    <2>17. Pushing(ids, first, next, to, then, Performed(there, w, made), Applied(held, w, made),
                   Tail(rest))
      <3>1. KeyedBy(then, Performed(there, w, made), next)
        BY <2>1, <2>13
      <3> HIDE DEF w
      <3> QED
        BY <1>1, <1>3, <1>4, <2>10, <2>14, <2>16, <3>1 DEF Pushing
    <2>18. AcceptsPosition(there, w) /\ w.kind \notin {"move", "delete"}
      BY <1>6, <1>9, <2>2 DEF AcceptsPosition
    <2> QED
      BY <2>17, <2>18 DEF then, made
  <1>10. w.kind \in {"delete", "move", "insert", "append"}
    BY <1>3 DEF WritesOf
  <1> QED
    BY <1>8, <1>9, <1>10

-----------------------------------------------------------------------------
(***************************************************************************)
(* What the edits on both sides may leave.                                 *)
(***************************************************************************)
EntriesGiven ==
    /\ entries \in OrdersOf(Nat) /\ Distinct(entries)
    /\ \A i \in DOMAIN entries :
        \/ /\ entries[i].item \in Base0 \cup input.lost
           /\ entries[i] = HeldEntry(entries[i].item)
        \/ \E n \in input.waiting : entries[i] = WaitingEntry(n)

ReadGiven ==
    /\ read \in ItemsOf(Nat)
    /\ IdsOf(read) \subseteq Base0 \cup input.added
    /\ \A i \in DOMAIN read : read[i] = Item(read[i].id)

InputTyped(in) ==
    /\ in.ids \in Nat /\ in.size \in 0..in.ids
    /\ in.added \cup in.lost \subseteq (in.size + 1)..in.ids
    /\ in.added \cap in.lost = {}
    /\ in.waiting \subseteq 1..in.ids

LEMMA Orders ==
    ASSUME NEW n \in Nat, NEW S, S \subseteq (-n)..n, NEW order \in SetToAllKPermutations(S)
    PROVE  order \in Seq(S) /\ IsInjective(order)
  <1>1. PICK s \in SUBSET S : order \in SetToSeqs(s)
    BY DEF SetToAllKPermutations
  <1>2. IsFiniteSet(s) /\ Cardinality(s) \in Nat
    <2>1. IsFiniteSet((-n)..n)
      BY FS_Interval
    <2>2. IsFiniteSet(s)
      BY <2>1, FS_Subset
    <2> QED
      BY <2>2, FS_CardinalityType
  <1>3. /\ order \in [1..Cardinality(s) -> s]
        /\ \A i, j \in 1..Cardinality(s) : i # j => order[i] # order[j]
    BY <1>1 DEF SetToSeqs
  <1>4. order \in Seq(S)
    <2> DEFINE c == Cardinality(s)
    <2>1. c \in Nat /\ order \in [1..c -> s]
      BY <1>2, <1>3
    <2> HIDE DEF c
    <2>2. order \in [1..c -> S]
      BY <2>1
    <2> QED
      BY <2>1, <2>2
  <1> QED
    BY <1>3, <1>4 DEF IsInjective

LEMMA EntriesAfterEdits ==
    ASSUME InputTyped(input), NEW order \in OrdersHere
    PROVE  LET list == [i \in DOMAIN order |-> IF order[i] > 0 THEN HeldEntry(order[i])
                                               ELSE WaitingEntry(-order[i])]
           IN  /\ list \in OrdersOf(Nat) /\ Distinct(list)
               /\ \A i \in DOMAIN list :
                    \/ /\ list[i].item \in Base0 \cup input.lost
                       /\ list[i] = HeldEntry(list[i].item)
                    \/ \E n \in input.waiting : list[i] = WaitingEntry(n)
  <1> DEFINE S == Base0 \cup input.lost \cup {-w : w \in input.waiting}
             T == [id : Nat, video : Nat, item : Nat]
             list == [i \in DOMAIN order |-> IF order[i] > 0 THEN HeldEntry(order[i])
                                             ELSE WaitingEntry(-order[i])]
  <1>1. /\ input.ids \in Nat /\ input.size \in 0..input.ids
        /\ input.lost \subseteq (input.size + 1)..input.ids
        /\ input.waiting \subseteq 1..input.ids
    BY DEF InputTyped
  <1>2. Base0 \subseteq 1..input.ids /\ input.lost \subseteq 1..input.ids
    BY <1>1 DEF Base0
  <1>3. order \in Seq(S) /\ IsInjective(order)
    <2>1. S \subseteq (-input.ids)..input.ids
      <3> DEFINE m == input.ids
      <3>1. m \in Nat /\ Base0 \subseteq 1..m /\ input.lost \subseteq 1..m /\ input.waiting \subseteq 1..m
        BY <1>1, <1>2
      <3> HIDE DEF m
      <3>2. \A x \in 1..m : x \in (-m)..m /\ -x \in (-m)..m
        BY <3>1
      <3>3. S \subseteq (-m)..m
        BY <3>1, <3>2
      <3> QED
        BY <3>3 DEF m
    <2>2. order \in SetToAllKPermutations(S)
      BY DEF OrdersHere
    <2> HIDE DEF S
    <2> QED
      BY <1>1, <2>1, <2>2, Orders
  <1>4. DOMAIN order = 1..Len(order) /\ Len(order) \in Nat
    BY <1>3
  <1>5. ASSUME NEW i \in DOMAIN order
        PROVE  \/ /\ order[i] > 0 /\ order[i] \in 1..input.ids
                  /\ order[i] \in Base0 \cup input.lost
                  /\ list[i] = HeldEntry(order[i])
               \/ /\ order[i] < 0 /\ -order[i] \in 1..input.ids /\ -order[i] \in input.waiting
                  /\ list[i] = WaitingEntry(-order[i])
    <2>1. order[i] \in S
      <3> HIDE DEF S
      <3> QED
        BY <1>3
    <2>2. CASE order[i] \in Base0 \cup input.lost
      <3>1. order[i] \in 1..input.ids
        BY <1>2, <2>2
      <3>2. order[i] > 0
        BY <1>1, <3>1
      <3> QED
        BY <2>2, <3>1, <3>2
    <2>3. CASE order[i] \in {-w : w \in input.waiting}
      <3>1. PICK w \in input.waiting : order[i] = -w
        BY <2>3
      <3>2. w \in 1..input.ids
        BY <1>1
      <3>3. order[i] < 0 /\ -order[i] = w /\ ~(order[i] > 0)
        BY <1>1, <3>1, <3>2
      <3> QED
        BY <3>2, <3>3
    <2> QED
      BY <2>1, <2>2, <2>3
  <1>12. S \subseteq Int
    <2> DEFINE m == input.ids
    <2>1. m \in Nat /\ Base0 \subseteq 1..m /\ input.lost \subseteq 1..m /\ input.waiting \subseteq 1..m
      BY <1>1, <1>2
    <2> HIDE DEF m
    <2>2. \A x \in 1..m : x \in Int /\ -x \in Int
      BY <2>1
    <2> QED
      BY <2>1, <2>2
  <1> HIDE DEF S
  <1>6. ASSUME NEW i \in DOMAIN order
        PROVE  /\ list[i] \in T
               /\ order[i] > 0 => list[i].id = order[i] /\ list[i].item = order[i]
               /\ order[i] < 0 => list[i].id = input.ids - order[i] /\ list[i].item = 0
               /\ order[i] \in Int /\ order[i] # 0 /\ order[i] <= input.ids
    <2>1. AddedVideo \in Nat
      BY <1>1 DEF AddedVideo
    <2>2. CASE order[i] > 0
      <3>3. order[i] \in Int
        <4>1. order[i] \in S
          BY <1>3
        <4> QED
          BY <1>12, <4>1
      <3>1. list[i] = HeldEntry(order[i]) /\ order[i] \in 1..input.ids
        BY <1>5, <2>2, <3>3
      <3>2. Item(order[i]).video \in Nat
        BY <1>1, <2>1, <3>1 DEF Item
      <3> QED
        BY <1>1, <2>2, <3>1, <3>2 DEF HeldEntry, Entry
    <2>3. CASE ~(order[i] > 0)
      <3>1. list[i] = WaitingEntry(-order[i]) /\ -order[i] \in 1..input.ids /\ order[i] < 0
        BY <1>5, <2>3
      <3>2. order[i] \in Int
        <4>1. order[i] \in S
          BY <1>3
        <4> QED
          BY <1>12, <4>1
      <3>3. input.ids + (-order[i]) = input.ids - order[i] /\ input.ids - order[i] \in Nat
        BY <1>1, <3>1, <3>2
      <3> QED
        BY <1>1, <2>1, <2>3, <3>1, <3>2, <3>3 DEF WaitingEntry, Entry, NoItem
    <2> QED
      BY <2>2, <2>3
  <1>7. DOMAIN list = DOMAIN order
    OBVIOUS
  <1>8. list \in Seq(T)
    <2> HIDE DEF T
    <2>1. \A i \in 1..Len(order) : (IF order[i] > 0 THEN HeldEntry(order[i])
                                     ELSE WaitingEntry(-order[i])) \in T
      BY <1>4, <1>6
    <2> QED
      BY <1>4, <2>1
  <1>9. \A i \in DOMAIN list :
            \/ /\ list[i].item \in Base0 \cup input.lost
               /\ list[i] = HeldEntry(list[i].item)
            \/ \E n \in input.waiting : list[i] = WaitingEntry(n)
    <2> TAKE i \in DOMAIN list
    <2>1. CASE order[i] > 0
      <3>1. list[i].item = order[i]
        BY <1>6, <1>7, <2>1
      <3> QED
        BY <1>5, <1>7, <2>1, <3>1
    <2>2. CASE ~(order[i] > 0)
      <3>1. -order[i] \in input.waiting /\ list[i] = WaitingEntry(-order[i])
        BY <1>5, <1>7, <2>2
      <3> QED
        BY <3>1
    <2> QED
      BY <2>1, <2>2
  <1> HIDE DEF list
  <1>10. Distinct(list)
    <2> SUFFICES ASSUME NEW i \in DOMAIN order, NEW j \in DOMAIN order
                 PROVE  /\ list[i].id = list[j].id /\ list[i].id # NewEntry => i = j
                        /\ list[i].item = list[j].item /\ list[i].item # NoItem => i = j
      BY <1>7 DEF Distinct
    <2>1. order[i] = order[j] => i = j
      BY <1>3 DEF IsInjective
    <2>2. list[i].id = list[j].id => order[i] = order[j]
      <3>1. CASE order[i] > 0 /\ order[j] > 0
        BY <1>6, <3>1
      <3>2. CASE order[i] < 0 /\ order[j] < 0
        BY <1>1, <1>6, <3>2
      <3>3. CASE order[i] > 0 /\ order[j] < 0
        <4>1. list[i].id <= input.ids /\ list[j].id > input.ids /\ list[i].id \in Int
          BY <1>1, <1>6, <3>3
        <4> QED
          BY <1>1, <4>1
      <3>4. CASE order[i] < 0 /\ order[j] > 0
        <4>1. list[j].id <= input.ids /\ list[i].id > input.ids /\ list[j].id \in Int
          BY <1>1, <1>6, <3>4
        <4> QED
          BY <1>1, <4>1
      <3> QED
        BY <1>6, <3>1, <3>2, <3>3, <3>4
    <2>3. list[i].item = list[j].item /\ list[i].item # NoItem => order[i] = order[j]
      BY <1>6 DEF NoItem
    <2> QED
      BY <2>1, <2>2, <2>3
  <1> QED
    BY <1>8, <1>9, <1>10 DEF OrdersOf, list

LEMMA ReadAfterEdits ==
    ASSUME InputTyped(input), NEW order \in OrdersThere
    PROVE  LET list == [i \in DOMAIN order |-> Item(order[i])]
           IN  /\ list \in ItemsOf(Nat)
               /\ IdsOf(list) \subseteq Base0 \cup input.added
               /\ \A i \in DOMAIN list : list[i] = Item(list[i].id)
  <1> DEFINE S == Base0 \cup input.added
             T == [id : Nat \ {0}, video : Nat]
             list == [i \in DOMAIN order |-> Item(order[i])]
  <1>1. /\ input.ids \in Nat /\ input.size \in 0..input.ids
        /\ input.added \subseteq (input.size + 1)..input.ids
    BY DEF InputTyped
  <1>2. Base0 \subseteq 1..input.ids /\ input.added \subseteq 1..input.ids
    BY <1>1 DEF Base0
  <1>3. order \in Seq(S) /\ IsInjective(order)
    <2>1. CASE input.ownerEdits
      <3>1. S \subseteq (-input.ids)..input.ids
        <4> DEFINE m == input.ids
        <4>1. m \in Nat /\ Base0 \subseteq 1..m /\ input.added \subseteq 1..m
          BY <1>1, <1>2
        <4> HIDE DEF m
        <4>2. \A x \in 1..m : x \in (-m)..m
          BY <4>1
        <4>3. S \subseteq (-m)..m
          BY <4>1, <4>2
        <4> QED
          BY <4>3 DEF m
      <3>2. order \in SetToAllKPermutations(S)
        BY <2>1 DEF OrdersThere
      <3> HIDE DEF S
      <3> QED
        BY <1>1, <3>1, <3>2, Orders
    <2>2. CASE ~input.ownerEdits
      <3>1. order = [i \in 1..input.size |-> i]
        BY <2>2 DEF OrdersThere, Base0
      <3>2. \A i \in 1..input.size : i \in S
        BY DEF Base0
      <3>3. input.size \in Nat
        BY <1>1
      <3> HIDE DEF S
      <3> QED
        BY <3>1, <3>2, <3>3 DEF IsInjective
    <2> QED
      BY <2>1, <2>2
  <1>4. DOMAIN order = 1..Len(order) /\ Len(order) \in Nat
    BY <1>3
  <1>5. \A i \in DOMAIN order : order[i] \in S /\ order[i] \in 1..input.ids
    <2> TAKE i \in DOMAIN order
    <2>1. order[i] \in S
      <3> HIDE DEF S
      <3> QED
        BY <1>3
    <2> QED
      BY <1>2, <2>1
  <1>6. \A i \in DOMAIN order : /\ list[i] = Item(order[i]) /\ list[i].id = order[i]
                                /\ Item(order[i]) \in T
    <2> TAKE i \in DOMAIN order
    <2>1. order[i] \in Nat \ {0}
      BY <1>1, <1>5
    <2>2. AddedVideo \in Nat
      BY <1>1 DEF AddedVideo
    <2> QED
      BY <2>1, <2>2 DEF Item
  <1>7. list \in Seq(T)
    <2> HIDE DEF T
    <2> QED
      BY <1>4, <1>6
  <1>8. DOMAIN list = DOMAIN order
    OBVIOUS
  <1> HIDE DEF list
  <1>9. list \in ItemsOf(Nat)
    <2>1. \A i, j \in DOMAIN list : list[i].id = list[j].id => i = j
      BY <1>3, <1>6, <1>8 DEF IsInjective
    <2> QED
      BY <1>7, <2>1 DEF ItemsOf
  <1>10. IdsOf(list) \subseteq S
    BY <1>5, <1>6, <1>8 DEF IdsOf
  <1>11. \A i \in DOMAIN list : list[i] = Item(list[i].id)
    BY <1>6, <1>8
  <1> QED
    BY <1>9, <1>10, <1>11 DEF list

LEMMA NumberedKeeps ==
    ASSUME input.ids \in Nat, NEW list \in OrdersOf(Nat), Distinct(list),
           \A i \in DOMAIN list : list[i].id <= 2 * input.ids
    PROVE  LET new == Numbered(list)
           IN  /\ new \in OrdersOf(Nat) /\ Distinct(new) /\ NewEntry \notin IdsOf(new)
               /\ DOMAIN new = DOMAIN list
               /\ \A i \in DOMAIN list :
                    /\ new[i].item = list[i].item /\ new[i].video = list[i].video
                    /\ list[i].id # NewEntry => new[i] = list[i]
                    /\ list[i].id = NewEntry => new[i].id = 2 * input.ids + i
               /\ HeldBy(new) = HeldBy(list)
  <1> DEFINE new == Numbered(list)
             T == [id : Nat, video : Nat, item : Nat]
  <1>1. DOMAIN list = 1..Len(list) /\ Len(list) \in Nat
    BY DEF OrdersOf
  <1>2. \A i \in DOMAIN list : list[i] \in T
    BY EntryTyped
  <1>3. DOMAIN new = DOMAIN list
    BY DEF Numbered
  <1>4. ASSUME NEW i \in DOMAIN list
        PROVE  /\ new[i] \in T
               /\ new[i].item = list[i].item /\ new[i].video = list[i].video
               /\ list[i].id # NewEntry => new[i] = list[i]
               /\ list[i].id = NewEntry => new[i].id = 2 * input.ids + i
    <2>1. 2 * input.ids + i \in Nat
      BY <1>1
    <2>2. CASE list[i].id # NewEntry
      <3>1. new[i] = list[i]
        BY <2>2 DEF Numbered
      <3> QED
        BY <1>2, <2>2, <3>1
    <2>3. CASE list[i].id = NewEntry
      <3>1. new[i] = [list[i] EXCEPT !.id = 2 * input.ids + i]
        BY <2>3 DEF Numbered
      <3>2. list[i] \in T
        BY <1>2
      <3> QED
        BY <2>1, <2>3, <3>1, <3>2
    <2> QED
      BY <2>2, <2>3
  <1>5. new \in Seq(T)
    <2>1. new = [i \in 1..Len(list) |-> new[i]]
      BY <1>1 DEF Numbered
    <2> HIDE DEF new, T
    <2>2. new \in [1..Len(list) -> T]
      BY <1>1, <1>4, <2>1
    <2> QED
      BY <1>1, <2>2
  <1> HIDE DEF new
  <1>6. \A i \in DOMAIN list : new[i].id # NewEntry
    <2> TAKE i \in DOMAIN list
    <2>1. i \in Nat \ {0}
      BY <1>1
    <2> QED
      BY <1>4, <2>1 DEF NewEntry
  <1>7. Distinct(new)
    <2> SUFFICES ASSUME NEW i \in DOMAIN list, NEW j \in DOMAIN list
                 PROVE  /\ new[i].id = new[j].id /\ new[i].id # NewEntry => i = j
                        /\ new[i].item = new[j].item /\ new[i].item # NoItem => i = j
      BY <1>3 DEF Distinct
    <2>1. new[i].item = new[j].item /\ new[i].item # NoItem => i = j
      BY <1>4 DEF Distinct
    <2>2. new[i].id = new[j].id => i = j
      <3>1. i \in Nat \ {0} /\ j \in Nat \ {0}
        BY <1>1
      <3>2. list[i].id \in Nat /\ list[j].id \in Nat
        BY <1>2
      <3>3. CASE list[i].id = NewEntry /\ list[j].id = NewEntry
        BY <1>4, <3>1, <3>3
      <3>4. CASE list[i].id # NewEntry /\ list[j].id # NewEntry
        BY <1>4, <3>4 DEF Distinct
      <3>5. CASE list[i].id # NewEntry /\ list[j].id = NewEntry
        <4>1. new[i].id <= 2 * input.ids /\ new[j].id = 2 * input.ids + j /\ new[i].id \in Nat
          BY <1>4, <3>2, <3>5
        <4> QED
          BY <3>1, <4>1
      <3>6. CASE list[i].id = NewEntry /\ list[j].id # NewEntry
        <4>1. new[j].id <= 2 * input.ids /\ new[i].id = 2 * input.ids + i /\ new[j].id \in Nat
          BY <1>4, <3>2, <3>6
        <4> QED
          BY <3>1, <4>1
      <3> QED
        BY <3>3, <3>4, <3>5, <3>6
    <2> QED
      BY <2>1, <2>2
  <1>8. HeldBy(new) = HeldBy(list)
    BY <1>3, <1>4 DEF HeldBy
  <1>9. NewEntry \notin IdsOf(new)
    BY <1>3, <1>6 DEF IdsOf
  <1> QED
    BY <1>3, <1>4, <1>5, <1>7, <1>8, <1>9 DEF OrdersOf, new

(* What a plan reaches, when it has no writes left.                          *)
LEMMA PushEnds ==
    ASSUME NEW ids \in Nat, NEW first, NEW list, NEW to, NEW now, NEW there, NEW held, NEW rest,
           Pushing(ids, first, list, to, now, there, held, rest), rest = <<>>,
           Range(to) = Range(KeysOf(first))
    PROVE  /\ to = KeysOf(first) =>
                ItemIds(there) = [i \in DOMAIN now |-> now[i].item]
           /\ Range([i \in DOMAIN now |-> now[i].item]) = IdsOf(there)
           /\ Len([i \in DOMAIN now |-> now[i].item]) = Len(there)
  <1> DEFINE items == [i \in DOMAIN now |-> now[i].item]
             keys == KeysOf(first)
  <1>1. /\ first \in OrdersOf(Nat) /\ Distinct(first)
        /\ StandFor(ids, Len(rest), now, first)
        /\ list \in Seq(Int) /\ IsInjective(list)
        /\ KeyedBy(now, there, list)
        /\ Reaches(first, rest, list, to)
    BY DEF Pushing
  <1>2. list = to
    <2>1. PICK lists : ListsRun(first, lists, rest, list, to)
      BY <1>1 DEF Reaches
    <2>2. Len(rest) = 0
      OBVIOUS
    <2> QED
      BY <2>1, <2>2 DEF ListsRun
  <1>3. /\ DOMAIN now = DOMAIN first
        /\ \A i \in DOMAIN first : first[i].item # NoItem => now[i].item = first[i].item
    BY <1>1 DEF StandFor
  <1>4. /\ keys \in Seq(Int) /\ IsInjective(keys)
        /\ DOMAIN keys = DOMAIN first /\ Len(keys) = Len(first)
        /\ \A i \in DOMAIN first :
            /\ keys[i] = Key(first, i)
            /\ first[i].item # NoItem => Key(first, i) = first[i].item /\ first[i].item \in Nat \ {0}
            /\ first[i].item = NoItem => Key(first, i) = -i
    BY <1>1, KeysKept
  <1>5. /\ Len(there) = Len(list) /\ Len(there) \in Nat /\ DOMAIN there = 1..Len(there)
        /\ \A i \in 1..Len(there) : there[i].id = ItemOf(now, list[i])
        /\ IdsOf(there) = {ItemOf(now, x) : x \in Range(list)}
    BY <1>1, KeyedList
  <1>6. DOMAIN first = 1..Len(first) /\ Len(first) \in Nat
    BY <1>1 DEF OrdersOf
  <1> HIDE DEF keys
  <1>7. \A i \in DOMAIN first : ItemOf(now, keys[i]) = now[i].item
    <2> TAKE i \in DOMAIN first
    <2>1. i \in Nat \ {0}
      BY <1>6
    <2>2. CASE first[i].item = NoItem
      <3>1. keys[i] = -i /\ -i < 0 /\ -(-i) = i
        BY <1>4, <2>1, <2>2
      <3> QED
        BY <3>1 DEF ItemOf
    <2>3. CASE first[i].item # NoItem
      <3>1. keys[i] = first[i].item /\ keys[i] \in Nat
        BY <1>4, <2>3
      <3> QED
        BY <1>3, <2>3, <3>1 DEF ItemOf
    <2> QED
      BY <2>2, <2>3
  <1>8. Range(items) = IdsOf(there)
    <2>1. Range(items) = {ItemOf(now, x) : x \in Range(keys)}
      BY <1>3, <1>4, <1>7 DEF Range
    <2>2. Range(list) = Range(keys)
      BY <1>2 DEF keys
    <2> QED
      BY <1>5, <2>1, <2>2
  <1>9. Len(items) = Len(first) /\ DOMAIN items = 1..Len(first)
    <2>1. items = [i \in 1..Len(first) |-> now[i].item]
      BY <1>3, <1>6
    <2> HIDE DEF items
    <2> QED
      BY <1>6, <2>1
  <1>10. Len(list) = Len(keys)
    <2>1. Range(list) = Range(keys)
      BY <1>2 DEF keys
    <2> QED
      BY <1>1, <1>4, <2>1, SameLengths
  <1>11. to = keys => ItemIds(there) = items
    <2> HAVE to = keys
    <2>1. \A i \in 1..Len(there) : there[i].id = now[i].item
      BY <1>2, <1>4, <1>5, <1>6, <1>7
    <2> QED
      BY <1>3, <1>4, <1>5, <1>6, <1>10, <2>1 DEF ItemIds
  <1> QED
    BY <1>4, <1>5, <1>8, <1>9, <1>10, <1>11 DEF keys

(***************************************************************************)
(* The inductive invariant.                                                *)
(***************************************************************************)
BaseGiven ==
    /\ DOMAIN base = Base0
    /\ \A i \in Base0 : base[i].id = i

UnansweredGiven ==
    /\ unanswered.kind \in {"none", "move", "append"}
    /\ unanswered.kind = "append" =>
        /\ unanswered.video = AddedVideo
        /\ \E n \in input.waiting : unanswered.entry = input.ids + n

(* What a merge leaves the push.                                            *)
AsMerged ==
    /\ merged = [Merged(base, read, entries, unanswered, sort) EXCEPT !.entries = Numbered(@)]
    /\ pushBase = Unplaced(read) /\ youtube = read
    /\ writes = PlanFor(sort, read, merged.entries)

OnItsWay ==
    \E first, list, to :
        /\ Pushing(input.ids, first, list, to, merged.entries, youtube, pushBase, writes)
        /\ Range(to) = Range(KeysOf(first))
        /\ sort = Manual => to = KeysOf(first)

PushGiven ==
    /\ planned \in Nat /\ Len(writes) \in Nat /\ Len(writes) <= planned
    /\ Len(writes) = planned => AsMerged
    /\ sort = Automatic => \A n \in DOMAIN writes : writes[n].kind \in {"delete", "append"}
    /\ "entries" \in DOMAIN merged
    /\ OnItsWay

IInv ==
    /\ InputTyped(input) /\ BaseGiven /\ UnansweredGiven
    /\ sort \in {Manual, Automatic}
    /\ phase \in {"edit", "read", "merge", "push"}
    /\ phase \in {"read", "merge", "push"} => EntriesGiven
    /\ phase \in {"merge", "push"} => ReadGiven
    /\ phase = "merge" => youtube = read
    /\ phase = "push" => PushGiven

LEMMA InitGiven ==
    ASSUME Init
    PROVE  IInv
  <1>1. InputTyped(input)
    BY MergePushAssumption DEF Init, InputTyped
  <1>2. BaseGiven
    <2>1. PICK P \in SUBSET Base0 : base = [i \in Base0 |-> [id |-> i, video |-> i, placed |-> i \in P]]
      BY DEF Init
    <2> QED
      BY <2>1 DEF BaseGiven
  <1>3. UnansweredGiven
    <2>1. \/ unanswered = NoWrite
          \/ \E i \in Base0 : unanswered = Write("move", i, NewEntry, 0, 0)
          \/ \E n \in input.waiting :
                unanswered = Write("append", NoItem, input.ids + n, AddedVideo, 0)
      BY DEF Init
    <2> QED
      BY <2>1 DEF UnansweredGiven, NoWrite, Write
  <1> QED
    BY <1>1, <1>2, <1>3 DEF Init, IInv

LEMMA EditGiven ==
    ASSUME IInv, EditHere
    PROVE  IInv'
  <1>1. PICK order \in OrdersHere :
            entries' = [i \in DOMAIN order |-> IF order[i] > 0 THEN HeldEntry(order[i])
                                               ELSE WaitingEntry(-order[i])]
    BY DEF EditHere
  <1>2. /\ InputTyped(input) /\ BaseGiven /\ UnansweredGiven /\ sort \in {Manual, Automatic}
    BY DEF IInv
  <1>3. EntriesGiven'
    <2>1. /\ entries' \in OrdersOf(Nat) /\ Distinct(entries')
          /\ \A i \in DOMAIN entries' :
                \/ /\ entries'[i].item \in Base0 \cup input.lost
                   /\ entries'[i] = HeldEntry(entries'[i].item)
                \/ \E n \in input.waiting : entries'[i] = WaitingEntry(n)
      BY <1>1, <1>2, EntriesAfterEdits
    <2>2. input' = input
      BY DEF EditHere
    <2> QED
      BY <2>1, <2>2 DEF EntriesGiven, Base0, HeldEntry, WaitingEntry, Item, AddedVideo
  <1>4. BaseGiven' /\ UnansweredGiven' /\ InputTyped(input')
    BY <1>2 DEF EditHere, BaseGiven, UnansweredGiven, Base0, AddedVideo
  <1> QED
    BY <1>2, <1>3, <1>4 DEF IInv, EditHere

LEMMA ReadGivenNext ==
    ASSUME IInv, Read
    PROVE  IInv'
  <1>1. PICK order \in OrdersThere : read' = [i \in DOMAIN order |-> Item(order[i])]
    BY DEF Read
  <1>2. /\ InputTyped(input) /\ BaseGiven /\ UnansweredGiven /\ sort \in {Manual, Automatic}
        /\ EntriesGiven
    BY DEF IInv, Read
  <1>3. ReadGiven'
    <2>1. /\ read' \in ItemsOf(Nat)
          /\ IdsOf(read') \subseteq Base0 \cup input.added
          /\ \A i \in DOMAIN read' : read'[i] = Item(read'[i].id)
      BY <1>1, <1>2, ReadAfterEdits
    <2>2. input' = input
      BY DEF Read
    <2> QED
      BY <2>1, <2>2 DEF ReadGiven, Base0, Item, AddedVideo
  <1>4. BaseGiven' /\ UnansweredGiven' /\ InputTyped(input') /\ EntriesGiven'
    BY <1>2 DEF Read, BaseGiven, UnansweredGiven, Base0, AddedVideo, EntriesGiven,
                HeldEntry, WaitingEntry, Item
  <1> QED
    BY <1>2, <1>3, <1>4 DEF IInv, Read

(* What a plan begins with.                                                 *)
LEMMA PushStarts ==
    ASSUME NEW ids \in Nat, NEW items \in ItemsOf(Nat), IdsOf(items) \subseteq 1..ids,
           NEW first \in OrdersOf(Nat), Distinct(first), NewEntry \notin IdsOf(first),
           HeldBy(first) \subseteq IdsOf(items), NEW by
    PROVE  \E to : /\ Pushing(ids, first, ItemIds(items), to, first, items, Unplaced(items),
                              PlanFor(by, items, first))
                   /\ Range(to) = Range(KeysOf(first))
                   /\ by = Manual => to = KeysOf(first)
  <1> DEFINE list == ItemIds(items)
             rest == PlanFor(by, items, first)
             T == [id : Nat \ {0}, video : Nat]
  <1>1. PICK to : /\ Reaches(first, rest, list, to)
                  /\ Range(to) = Range(KeysOf(first))
                  /\ by = Manual => to = KeysOf(first)
    BY PlanForReaches
  <1>2. rest \in Seq(WritesOf(Nat))
    <2>1. Planned(Nat, items, first, rest)
      BY PlanForKeeps
    <2> QED
      BY <2>1 DEF Planned
  <1>3. /\ list \in Seq(Int) /\ IsInjective(list) /\ Range(list) = IdsOf(items)
        /\ Len(list) = Len(items)
    BY ItemIdsOf
  <1>4. items \in Seq(T) /\ DOMAIN items = 1..Len(items) /\ Len(items) \in Nat
    BY DEF ItemsOf
  <1>5. \A i \in 1..Len(items) : items[i] \in T
    <2> HIDE DEF T
    <2> QED
      BY <1>4
  <1>6. \A i \in 1..Len(items) : list[i] = items[i].id
    BY <1>4 DEF ItemIds
  <1>7. items \in Seq(SentItem)
    <2>1. \A i \in 1..Len(items) : items[i] \in SentItem
      BY <1>5 DEF SentItem
    <2>2. items = [i \in 1..Len(items) |-> items[i]]
      <3> HIDE DEF T
      <3> QED
        BY <1>4
    <2> QED
      BY <1>4, <2>1, <2>2
  <1> HIDE DEF list, rest
  <1>8. KeyedBy(first, items, list)
    <2>1. \A i \in 1..Len(list) : <<items[i], list[i]>> \in Keyed(first)
      <3> TAKE i \in 1..Len(list)
      <3>1. items[i] \in SentItem /\ items[i].id \in Nat /\ list[i] = items[i].id
        BY <1>3, <1>5, <1>6 DEF SentItem
      <3>2. ItemOf(first, list[i]) = items[i].id
        BY <3>1 DEF ItemOf
      <3> QED
        BY <3>1, <3>2 DEF Keyed
    <2> QED
      BY <1>3, <1>7, <2>1 DEF KeyedBy, Alike
  <1>9. SameItems(Unplaced(items), items)
    <2> DEFINE held == Unplaced(items)
    <2>1. held = [i \in 1..Len(items) |->
                    [id |-> items[i].id, video |-> items[i].video, placed |-> FALSE]]
      BY <1>4 DEF Unplaced
    <2>2. \A i \in 1..Len(items) : items[i].id \in Nat /\ items[i].video \in Nat
      BY <1>5
    <2>3. held \in Seq(HeldItem) /\ Len(held) = Len(items)
      <3>1. \A i \in 1..Len(items) :
                [id |-> items[i].id, video |-> items[i].video, placed |-> FALSE] \in HeldItem
        BY <2>2 DEF HeldItem
      <3> HIDE DEF held
      <3> QED
        BY <1>4, <2>1, <3>1
    <2>4. \A i \in 1..Len(items) : <<held[i], items[i]>> \in SameItem
      <3> TAKE i \in 1..Len(items)
      <3>1. held[i] = [id |-> items[i].id, video |-> items[i].video, placed |-> FALSE]
        BY <2>1
      <3>2. items[i] \in SentItem /\ held[i] \in HeldItem
        BY <1>5, <2>2, <3>1 DEF SentItem, HeldItem
      <3>3. held[i].id = items[i].id /\ held[i].video = items[i].video
        BY <3>1
      <3> HIDE DEF held
      <3> QED
        BY <3>2, <3>3 DEF SameItem
    <2> HIDE DEF held
    <2>5. SameItems(held, items)
      BY <1>7, <2>3, <2>4 DEF SameItems, Alike
    <2> QED
      BY <2>5 DEF held
  <1>10. StandFor(ids, Len(rest), first, first)
    <2>1. \A i \in DOMAIN first : first[i].item # NoItem => first[i].item <= ids
      <3> TAKE i \in DOMAIN first
      <3> HAVE first[i].item # NoItem
      <3>1. first[i].item \in HeldBy(first)
        BY DEF HeldBy
      <3>2. first[i].item \in 1..ids
        BY <3>1
      <3> QED
        BY <3>2
    <2> QED
      BY <2>1 DEF StandFor
  <1>11. Pushing(ids, first, list, to, first, items, Unplaced(items), rest)
    BY <1>1, <1>2, <1>3, <1>8, <1>9, <1>10 DEF Pushing
  <1> QED
    BY <1>1, <1>11 DEF list, rest

LEMMA AppendsOnly ==
    ASSUME NEW V, NEW items \in ItemsOf(V), NEW first \in OrdersOf(V)
    PROVE  \A n \in DOMAIN PlanAppends(items, first) :
                PlanAppends(items, first)[n].kind \in {"delete", "append"}
  <1> DEFINE T == [id : Nat, video : V, item : Nat]
             S == {e \in Range(first) : e.item = NoItem}
             waiting == Only(first, S)
             appends == [i \in DOMAIN waiting |->
                            Write("append", NoItem, waiting[i].id, waiting[i].video, 0)]
             deletes == Deletes(items, first)
  <1>1. waiting \in Seq(T)
    <2> HIDE DEF S, T
    <2>1. first \in Seq(T)
      BY DEF OrdersOf, T
    <2> QED
      BY <2>1, OnlyKeeps
  <1> HIDE DEF waiting
  <1>2. DOMAIN waiting = 1..Len(waiting) /\ Len(waiting) \in Nat
    BY <1>1
  <1>3. /\ appends \in Seq({w \in {Write("append", NoItem, waiting[i].id, waiting[i].video, 0) :
                                    i \in DOMAIN waiting} : TRUE})
        /\ Len(appends) = Len(waiting)
        /\ \A i \in 1..Len(waiting) : appends[i].kind = "append"
    BY <1>2 DEF Write
  <1>4. /\ deletes \in Seq(WritesOf(V)) /\ \A n \in DOMAIN deletes : deletes[n].kind = "delete"
    <2>1. deletes \in Seq(WritesOf(V)) /\ \A n \in DOMAIN deletes : DeletesOneOf(items, first, deletes[n])
      BY DeletesKeep
    <2> QED
      BY <2>1 DEF DeletesOneOf
  <1>5. PlanAppends(items, first) = deletes \o appends
    BY DEF PlanAppends, waiting
  <1>6. /\ Len(deletes) \in Nat /\ DOMAIN deletes = 1..Len(deletes)
        /\ Len(appends) \in Nat /\ DOMAIN appends = 1..Len(appends)
    BY <1>2, <1>3, <1>4
  <1> HIDE DEF deletes, appends
  <1>7. /\ DOMAIN (deletes \o appends) = 1..(Len(deletes) + Len(appends))
        /\ \A i \in 1..(Len(deletes) + Len(appends)) :
                (deletes \o appends)[i] = IF i <= Len(deletes) THEN deletes[i]
                                          ELSE appends[i - Len(deletes)]
    BY <1>3, <1>4, <1>6
  <1>8. ASSUME NEW i \in 1..(Len(deletes) + Len(appends))
        PROVE  (deletes \o appends)[i].kind \in {"delete", "append"}
    <2>1. CASE i <= Len(deletes)
      BY <1>4, <1>6, <1>7, <2>1
    <2>2. CASE ~(i <= Len(deletes))
      <3>1. i - Len(deletes) \in 1..Len(waiting)
        BY <1>3, <1>6, <2>2
      <3> QED
        BY <1>3, <1>7, <2>2, <3>1
    <2> QED
      BY <2>1, <2>2
  <1> QED
    BY <1>5, <1>7, <1>8

LEMMA EntryIdsGiven ==
    ASSUME InputTyped(input), EntriesGiven
    PROVE  \A x \in IdsOf(entries) : x \in Nat /\ x <= 2 * input.ids
  <1> TAKE x \in IdsOf(entries)
  <1>1. /\ input.ids \in Nat /\ input.size \in 0..input.ids
        /\ input.lost \subseteq (input.size + 1)..input.ids
        /\ input.waiting \subseteq 1..input.ids
    BY DEF InputTyped
  <1>2. PICK i \in DOMAIN entries : x = entries[i].id
    BY DEF IdsOf
  <1>3. CASE /\ entries[i].item \in Base0 \cup input.lost
             /\ entries[i] = HeldEntry(entries[i].item)
    <2>1. entries[i].id = entries[i].item
      BY <1>3 DEF HeldEntry, Entry
    <2>2. entries[i].item \in 1..input.ids
      <3>1. Base0 \subseteq 1..input.ids /\ input.lost \subseteq 1..input.ids
        BY <1>1 DEF Base0
      <3> QED
        BY <1>3, <3>1
    <2> QED
      BY <1>1, <1>2, <2>1, <2>2
  <1>4. CASE \E n \in input.waiting : entries[i] = WaitingEntry(n)
    <2>1. PICK n \in input.waiting : entries[i] = WaitingEntry(n)
      BY <1>4
    <2>2. n \in 1..input.ids /\ entries[i].id = input.ids + n
      BY <1>1, <2>1 DEF WaitingEntry, Entry
    <2> QED
      BY <1>1, <1>2, <2>2
  <1> QED
    BY <1>3, <1>4 DEF EntriesGiven

LEMMA BaseIds ==
    ASSUME BaseGiven, InputTyped(input)
    PROVE  IdsOf(base) = Base0 /\ NoItem \notin IdsOf(base)
  BY DEF BaseGiven, InputTyped, IdsOf, Base0, NoItem

LEMMA MergeGiven ==
    ASSUME IInv, MergeInto
    PROVE  IInv'
  <1> DEFINE m == Merged(base, read, entries, unanswered, sort)
             new == m.entries
             first == Numbered(new)
             plan == PlanFor(sort, read, first)
  <1>1. /\ InputTyped(input) /\ BaseGiven /\ UnansweredGiven /\ sort \in {Manual, Automatic}
        /\ EntriesGiven /\ ReadGiven /\ youtube = read
    BY DEF IInv, MergeInto
  <1>2. read \in ItemsOf(Nat) /\ entries \in OrdersOf(Nat) /\ Distinct(entries)
        /\ NoItem \notin IdsOf(base)
    BY <1>1, BaseIds DEF EntriesGiven, ReadGiven
  <1>3. /\ new \in OrdersOf(Nat) /\ Distinct(new)
        /\ HeldBy(new) \subseteq IdsOf(read)
        /\ IdsOf(new) \subseteq IdsOf(entries) \cup {NewEntry}
    BY <1>2, MergedKeeps
  <1>4. input.ids \in Nat /\ IdsOf(read) \subseteq 1..input.ids
    <2>1. /\ input.ids \in Nat /\ input.size \in 0..input.ids
          /\ input.added \subseteq (input.size + 1)..input.ids
          /\ IdsOf(read) \subseteq Base0 \cup input.added
      BY <1>1 DEF InputTyped, ReadGiven
    <2>2. Base0 \subseteq 1..input.ids /\ input.added \subseteq 1..input.ids
      BY <2>1 DEF Base0
    <2> QED
      BY <2>1, <2>2
  <1> HIDE DEF new
  <1>5. \A i \in DOMAIN new : new[i].id <= 2 * input.ids
    <2> TAKE i \in DOMAIN new
    <2>1. new[i].id \in IdsOf(entries) \cup {NewEntry}
      BY <1>3 DEF IdsOf
    <2>2. \A x \in IdsOf(entries) : x \in Nat /\ x <= 2 * input.ids
      BY <1>1, EntryIdsGiven
    <2> QED
      BY <1>4, <2>1, <2>2 DEF NewEntry
  <1>6. /\ first \in OrdersOf(Nat) /\ Distinct(first) /\ NewEntry \notin IdsOf(first)
        /\ HeldBy(first) = HeldBy(new)
    BY <1>3, <1>4, <1>5, NumberedKeeps
  <1>7. /\ merged' = [m EXCEPT !.entries = Numbered(@)]
        /\ pushBase' = Unplaced(read) /\ youtube' = read
        /\ writes' = PlanFor(sort, read, merged'.entries)
        /\ planned' = Len(writes') /\ phase' = "push"
        /\ UNCHANGED <<input, base, read, entries, unanswered, sort>>
    BY <1>1 DEF MergeInto
  <1>8. "entries" \in DOMAIN merged' /\ merged'.entries = first
    <2>1. "entries" \in DOMAIN m
      BY DEF Merged
    <2> HIDE DEF m, first
    <2>2. merged'.entries = Numbered(m.entries) /\ DOMAIN merged' = DOMAIN m
      BY <1>7, <2>1
    <2> QED
      BY <2>1, <2>2 DEF first, new
  <1> HIDE DEF first
  <1>9. plan = writes'
    BY <1>7, <1>8
  <1>10. \E to : /\ Pushing(input.ids, first, ItemIds(read), to, first, read, Unplaced(read), plan)
                 /\ Range(to) = Range(KeysOf(first))
                 /\ sort = Manual => to = KeysOf(first)
    BY <1>2, <1>3, <1>4, <1>6, PushStarts
  <1>11. plan \in Seq(WritesOf(Nat))
    BY <1>10 DEF Pushing
  <1>12. plan = PlanAppends(read, first) \/ sort = Manual
    BY DEF PlanFor
  <1> HIDE DEF plan
  <1>13. OnItsWay'
    <2>1. PICK to : /\ Pushing(input.ids, first, ItemIds(read), to, first, read, Unplaced(read), plan)
                    /\ Range(to) = Range(KeysOf(first))
                    /\ sort = Manual => to = KeysOf(first)
      BY <1>10
    <2>2. Pushing(input.ids', first, ItemIds(read), to, merged'.entries, youtube', pushBase', writes')
      BY <1>7, <1>8, <1>9, <2>1
    <2> QED
      BY <1>7, <2>1, <2>2 DEF OnItsWay
  <1>14. AsMerged'
    BY <1>7 DEF AsMerged, Numbered
  <1>15. sort = Automatic => \A n \in DOMAIN plan : plan[n].kind \in {"delete", "append"}
    <2> HAVE sort = Automatic
    <2>1. plan = PlanAppends(read, first)
      BY <1>12 DEF Manual, Automatic
    <2> QED
      BY <1>2, <1>6, <2>1, AppendsOnly
  <1>16. Len(plan) \in Nat
    <2> DEFINE S == WritesOf(Nat)
    <2>1. plan \in Seq(S)
      BY <1>11
    <2> HIDE DEF S
    <2> QED
      BY <2>1
  <1>17. PushGiven'
    BY <1>7, <1>8, <1>9, <1>13, <1>14, <1>15, <1>16 DEF PushGiven
  <1>18. /\ BaseGiven' /\ UnansweredGiven' /\ InputTyped(input') /\ EntriesGiven' /\ ReadGiven'
    BY <1>1, <1>7 DEF BaseGiven, UnansweredGiven, Base0, AddedVideo, EntriesGiven,
                ReadGiven, HeldEntry, WaitingEntry, Item
  <1> QED
    BY <1>1, <1>7, <1>17, <1>18 DEF IInv

LEMMA PushGivenNext ==
    ASSUME IInv, PushWrite
    PROVE  IInv'
  <1> DEFINE w == Head(writes)
             made == input.ids + 1 + Len(writes)
  <1>1. /\ InputTyped(input) /\ BaseGiven /\ UnansweredGiven /\ sort \in {Manual, Automatic}
        /\ EntriesGiven /\ ReadGiven /\ PushGiven /\ writes # <<>> /\ phase = "push"
    BY DEF IInv, PushWrite
  <1>2. input.ids \in Nat
    BY <1>1 DEF InputTyped
  <1>3. PICK first, list, to :
            /\ Pushing(input.ids, first, list, to, merged.entries, youtube, pushBase, writes)
            /\ Range(to) = Range(KeysOf(first))
            /\ sort = Manual => to = KeysOf(first)
    BY <1>1 DEF PushGiven, OnItsWay
  <1>4. PICK next : Pushing(input.ids, first, next, to, AfterWrite(merged.entries, w, made),
                            Performed(youtube, w, made), Applied(pushBase, w, made),
                            Tail(writes))
    BY <1>1, <1>2, <1>3, WritePushes
  <1>5. /\ pushBase' = Applied(pushBase, w, made) /\ youtube' = Performed(youtube, w, made)
        /\ merged' = IF w.entry = NewEntry THEN merged
                     ELSE [merged EXCEPT !.entries =
                            [i \in DOMAIN @ |-> IF @[i].id = w.entry
                                                THEN Entry(w.entry, @[i].video, made)
                                                ELSE @[i]]]
        /\ writes' = Tail(writes)
        /\ UNCHANGED <<input, phase, base, read, entries, unanswered, sort, planned>>
    BY DEF PushWrite, Made
  <1>6. /\ merged'.entries = AfterWrite(merged.entries, w, made)
        /\ "entries" \in DOMAIN merged'
    <2>1. "entries" \in DOMAIN merged
      BY <1>1 DEF PushGiven
    <2> HIDE DEF w, made
    <2>2. CASE w.entry = NewEntry
      BY <1>5, <2>1, <2>2 DEF AfterWrite
    <2>3. CASE w.entry # NewEntry
      BY <1>5, <2>1, <2>3 DEF AfterWrite
    <2> QED
      BY <2>2, <2>3
  <1>7. /\ Len(Tail(writes)) \in Nat /\ Len(Tail(writes)) = Len(writes) - 1 /\ Len(writes) \in Nat
        /\ DOMAIN writes = 1..Len(writes) /\ DOMAIN Tail(writes) = 1..(Len(writes) - 1)
        /\ \A n \in 1..(Len(writes) - 1) : Tail(writes)[n] = writes[n + 1]
    <2> DEFINE S == WritesOf(Nat)
    <2>1. writes \in Seq(S)
      BY <1>3 DEF Pushing
    <2> HIDE DEF S
    <2> QED
      BY <1>1, <2>1
  <1> HIDE DEF w, made
  <1>8. OnItsWay'
    <2>1. Pushing(input.ids', first, next, to, merged'.entries, youtube', pushBase', writes')
      BY <1>4, <1>5, <1>6
    <2> QED
      BY <1>3, <1>5, <2>1 DEF OnItsWay
  <1>9. /\ planned' = planned /\ planned \in Nat /\ Len(writes) <= planned
    BY <1>1, <1>5 DEF PushGiven
  <1>10. Len(writes') < planned' /\ Len(writes') \in Nat
    BY <1>5, <1>7, <1>9
  <1>11. sort = Automatic => \A n \in DOMAIN writes' : writes'[n].kind \in {"delete", "append"}
    <2> SUFFICES ASSUME sort = Automatic, NEW n \in DOMAIN Tail(writes)
                 PROVE  Tail(writes)[n].kind \in {"delete", "append"}
      BY <1>5
    <2>1. n \in 1..(Len(writes) - 1) /\ n + 1 \in DOMAIN writes
      BY <1>7
    <2>2. Tail(writes)[n] = writes[n + 1]
      BY <1>7, <2>1
    <2> QED
      BY <1>1, <2>1, <2>2 DEF PushGiven
  <1>12. PushGiven'
    BY <1>5, <1>6, <1>8, <1>9, <1>10, <1>11 DEF PushGiven
  <1>13. /\ BaseGiven' /\ UnansweredGiven' /\ InputTyped(input') /\ EntriesGiven' /\ ReadGiven'
    BY <1>1, <1>5 DEF BaseGiven, UnansweredGiven, Base0, AddedVideo, EntriesGiven,
                ReadGiven, HeldEntry, WaitingEntry, Item
  <1> QED
    BY <1>1, <1>5, <1>12, <1>13 DEF IInv

LEMMA StillGiven ==
    ASSUME IInv, UNCHANGED vars
    PROVE  IInv'
  BY DEF vars, IInv, InputTyped, BaseGiven, UnansweredGiven, Base0, AddedVideo, EntriesGiven,
         ReadGiven, HeldEntry, WaitingEntry, Item, PushGiven, AsMerged, OnItsWay, Numbered

(* Each phase of a sync has what the one before leaves it, and a push stands *)
(* at a list of keys its plan goes on from.                                  *)
THEOREM PushIsGiven == Spec => []IInv
  <1>1. Init => IInv
    BY InitGiven
  <1>2. IInv /\ [Next]_vars => IInv'
    BY EditGiven, ReadGivenNext, MergeGiven, PushGivenNext, StillGiven DEF Next
  <1> QED
    BY <1>1, <1>2, PTL DEF Spec

LEMMA GivenReaches ==
    ASSUME IInv
    PROVE  PushReachesOrder
  <1> SUFFICES ASSUME phase = "push"
               PROVE  PushReachesOrder
    BY DEF PushReachesOrder, WritesAccepted, BaseIsYouTube, PlanReachesOrder, Pushed
  <1>1. InputTyped(input) /\ sort \in {Manual, Automatic} /\ PushGiven /\ input.ids \in Nat
    BY DEF IInv, InputTyped
  <1>2. PICK first, list, to :
            /\ Pushing(input.ids, first, list, to, merged.entries, youtube, pushBase, writes)
            /\ Range(to) = Range(KeysOf(first))
            /\ sort = Manual => to = KeysOf(first)
    BY <1>1 DEF PushGiven, OnItsWay
  <1>3. WritesAccepted
    <2> SUFFICES ASSUME writes # <<>>
                 PROVE  WritesAccepted
      BY DEF WritesAccepted
    <2> DEFINE w == Head(writes)
    <2>1. /\ AcceptsPosition(youtube, w)
          /\ w.kind \in {"move", "delete"} => HasItem(youtube, w.item)
      BY <1>1, <1>2, WritePushes
    <2>2. sort = Automatic => w.kind \in {"delete", "append"}
      <3>1. 1 \in DOMAIN writes /\ w = writes[1]
        <4> DEFINE S == WritesOf(Nat)
        <4>1. writes \in Seq(S)
          BY <1>2 DEF Pushing
        <4> HIDE DEF S
        <4> QED
          BY <4>1
      <3> QED
        BY <1>1, <3>1 DEF PushGiven
    <2> QED
      BY <2>1, <2>2 DEF WritesAccepted
  <1>4. BaseIsYouTube
    <2>1. SameItems(pushBase, youtube)
      BY <1>2 DEF Pushing
    <2>2. /\ pushBase \in Seq(HeldItem) /\ youtube \in Seq(SentItem)
          /\ DOMAIN pushBase = 1..Len(youtube) /\ DOMAIN youtube = 1..Len(youtube)
          /\ \A i \in 1..Len(youtube) : /\ pushBase[i].id = youtube[i].id
                                        /\ pushBase[i].video = youtube[i].video
      BY <2>1, SameItemsList
    <2>3. ASSUME NEW i \in 1..Len(youtube)
          PROVE  pushBase[i] = [id |-> youtube[i].id, video |-> youtube[i].video,
                                placed |-> pushBase[i].placed]
      <3>1. pushBase[i] \in HeldItem
        BY <2>2
      <3> DEFINE x == pushBase[i]
      <3>2. x = [id |-> x.id, video |-> x.video, placed |-> x.placed]
        <4>1. x \in [id : Nat, video : Nat, placed : BOOLEAN]
          BY <3>1 DEF HeldItem
        <4> HIDE DEF x
        <4> QED
          BY <4>1
      <3> QED
        BY <2>2, <3>2
    <2>4. pushBase = [i \in 1..Len(youtube) |-> pushBase[i]]
      BY <2>2
    <2> QED
      BY <2>2, <2>3, <2>4 DEF BaseIsYouTube
  <1>5. PlanReachesOrder
    <2> SUFFICES ASSUME writes = <<>>
                 PROVE  PlanReachesOrder
      BY DEF PlanReachesOrder, Pushed
    <2>1. /\ to = KeysOf(first) =>
                ItemIds(youtube) = [i \in DOMAIN merged.entries |-> merged.entries[i].item]
          /\ Range([i \in DOMAIN merged.entries |-> merged.entries[i].item]) = IdsOf(youtube)
          /\ Len([i \in DOMAIN merged.entries |-> merged.entries[i].item]) = Len(youtube)
      BY <1>1, <1>2, PushEnds
    <2> QED
      BY <1>2, <2>1 DEF PlanReachesOrder
  <1> QED
    BY <1>3, <1>4, <1>5 DEF PushReachesOrder

(* A push gets there by writes YouTube takes, and knows after each of them  *)
(* what YouTube holds: pushAll and applied, of any base, any edits and any  *)
(* read.                                                                    *)
THEOREM PushReaches == Spec => []PushReachesOrder
  <1>1. IInv => PushReachesOrder
    BY GivenReaches
  <1> QED
    BY <1>1, PushIsGiven, PTL

(* What a merge leaves before its first write.                              *)
LEMMA MergedGiven ==
    ASSUME IInv, JustMerged
    PROVE  LET m == Merged(base, read, entries, unanswered, sort)
           IN  /\ InputTyped(input) /\ BaseGiven /\ UnansweredGiven /\ sort \in {Manual, Automatic}
               /\ EntriesGiven /\ ReadGiven
               /\ read \in ItemsOf(Nat) /\ entries \in OrdersOf(Nat) /\ Distinct(entries)
               /\ NoItem \notin IdsOf(base) /\ IdsOf(base) = Base0
               /\ m.entries \in OrdersOf(Nat) /\ Distinct(m.entries)
               /\ HeldBy(m.entries) \subseteq IdsOf(read)
               /\ IdsOf(m.entries) \subseteq IdsOf(entries) \cup {NewEntry}
               /\ merged.entries = Numbered(m.entries)
               /\ merged.order = m.order /\ merged.added = m.added
               /\ merged.entries \in OrdersOf(Nat) /\ Distinct(merged.entries)
               /\ NewEntry \notin IdsOf(merged.entries)
               /\ DOMAIN merged.entries = DOMAIN m.entries
               /\ \A i \in DOMAIN m.entries :
                    /\ merged.entries[i].item = m.entries[i].item
                    /\ merged.entries[i].video = m.entries[i].video
                    /\ m.entries[i].id # NewEntry => merged.entries[i] = m.entries[i]
                    /\ m.entries[i].id = NewEntry => merged.entries[i].id = 2 * input.ids + i
               /\ HeldBy(merged.entries) = HeldBy(m.entries)
               /\ writes = PlanFor(sort, read, merged.entries)
               /\ input.ids \in Nat
  <1> DEFINE m == Merged(base, read, entries, unanswered, sort)
             new == m.entries
  <1>1. /\ InputTyped(input) /\ BaseGiven /\ UnansweredGiven /\ sort \in {Manual, Automatic}
        /\ EntriesGiven /\ ReadGiven /\ AsMerged
    BY DEF IInv, JustMerged, PushGiven
  <1>2. /\ read \in ItemsOf(Nat) /\ entries \in OrdersOf(Nat) /\ Distinct(entries)
        /\ NoItem \notin IdsOf(base) /\ IdsOf(base) = Base0 /\ input.ids \in Nat
    BY <1>1, BaseIds DEF EntriesGiven, ReadGiven, InputTyped
  <1>3. /\ new \in OrdersOf(Nat) /\ Distinct(new)
        /\ HeldBy(new) \subseteq IdsOf(read)
        /\ IdsOf(new) \subseteq IdsOf(entries) \cup {NewEntry}
    BY <1>2, MergedKeeps
  <1>4. /\ DOMAIN m = {"entries", "order", "added", "removed"}
        /\ merged = [m EXCEPT !.entries = Numbered(@)]
        /\ writes = PlanFor(sort, read, merged.entries)
    BY <1>1 DEF AsMerged, Merged
  <1>5. merged.entries = Numbered(new) /\ merged.order = m.order /\ merged.added = m.added
    <2> HIDE DEF m
    <2> QED
      BY <1>4
  <1> HIDE DEF m
  <1>6. \A i \in DOMAIN new : new[i].id <= 2 * input.ids
    <2> TAKE i \in DOMAIN new
    <2>1. new[i].id \in IdsOf(entries) \cup {NewEntry}
      BY <1>3 DEF IdsOf
    <2>2. \A x \in IdsOf(entries) : x \in Nat /\ x <= 2 * input.ids
      BY <1>1, EntryIdsGiven
    <2> QED
      BY <1>2, <2>1, <2>2 DEF NewEntry
  <1> HIDE DEF new
  <1>7. LET list == Numbered(new)
        IN  /\ list \in OrdersOf(Nat) /\ Distinct(list) /\ NewEntry \notin IdsOf(list)
            /\ DOMAIN list = DOMAIN new
            /\ \A i \in DOMAIN new :
                 /\ list[i].item = new[i].item /\ list[i].video = new[i].video
                 /\ new[i].id # NewEntry => list[i] = new[i]
                 /\ new[i].id = NewEntry => list[i].id = 2 * input.ids + i
            /\ HeldBy(list) = HeldBy(new)
    BY <1>2, <1>3, <1>6, NumberedKeeps
  <1> QED
    BY <1>1, <1>2, <1>3, <1>4, <1>5, <1>7 DEF m, new

LEMMA GivenIsFewest ==
    ASSUME IInv
    PROVE  FewestWrites
  <1> SUFFICES ASSUME JustMerged, sort = Manual
               PROVE  FewestWrites
    BY DEF FewestWrites
  <1> DEFINE list == merged.entries
  <1>1. /\ read \in ItemsOf(Nat) /\ list \in OrdersOf(Nat) /\ Distinct(list)
        /\ HeldBy(list) \subseteq IdsOf(read)
        /\ writes = PlanFor(sort, read, list)
    BY MergedGiven
  <1>2. writes = Plan(read, list)
    BY <1>1 DEF PlanFor
  <1>3. LET items == Only(ItemsOfEntries(list), HeldBy(list))
            moves == Cardinality({i \in DOMAIN writes : writes[i].kind = "move"})
            InOrder(S) == Only(items, S) = Only(ItemIds(read), S)
        IN  /\ \E S \in SUBSET Range(items) : InOrder(S) /\ Cardinality(S) + moves = Len(items)
            /\ \A S \in SUBSET Range(items) : InOrder(S) => Cardinality(S) + moves <= Len(items)
            /\ Len(writes) = moves + (Len(read) - Len(items)) + (Len(list) - Len(items))
    <2> HIDE DEF list
    <2>1. LET items == Only(ItemsOfEntries(list), HeldBy(list))
              plan == Plan(read, list)
              moves == Cardinality({i \in DOMAIN plan : plan[i].kind = "move"})
              InOrder(S) == Only(items, S) = Only(ItemIds(read), S)
          IN  /\ Range(items) = HeldBy(list) /\ moves \in Nat
              /\ \E S \in SUBSET Range(items) : InOrder(S) /\ Cardinality(S) + moves = Len(items)
              /\ \A S \in SUBSET Range(items) : InOrder(S) => Cardinality(S) + moves <= Len(items)
              /\ Len(plan) = moves + (Len(read) - Len(items)) + (Len(list) - Len(items))
      BY <1>1, PlanIsFewest
    <2> QED
      BY <1>2, <2>1
  <1>4. ItemsHeld(list) = Only(ItemsOfEntries(list), HeldBy(list))
    BY DEF ItemsHeld, ItemsOfEntries
  <1> QED
    BY <1>3, <1>4 DEF FewestWrites

(* A push by hand makes the fewest writes that reach its order.             *)
THEOREM PushIsShortest == Spec => []FewestWrites
  <1>1. IInv => FewestWrites
    BY GivenIsFewest
  <1> QED
    BY <1>1, PushIsGiven, PTL

-----------------------------------------------------------------------------
(***************************************************************************)
(* The merge of a sync, by its keys.                                       *)
(***************************************************************************)
TheMerging == Merging(base, read, entries, unanswered)
TheMade == MadeHere(base, read, entries, unanswered)
TheWanted == Wanted(base, read, TheMerging, TheMade)
TheKeys == WovenKeys(base, read, TheMerging, TheMade, ByYouTube(base, read, unanswered, sort))
TheEntries == Merged(base, read, entries, unanswered, sort).entries

LEMMA EntryIdsPositive ==
    ASSUME InputTyped(input), EntriesGiven
    PROVE  NewEntry \notin IdsOf(entries)
  <1> SUFFICES ASSUME NEW i \in DOMAIN entries
               PROVE  entries[i].id # NewEntry
    BY DEF IdsOf
  <1>1. /\ input.ids \in Nat /\ input.size \in 0..input.ids
        /\ input.lost \subseteq (input.size + 1)..input.ids
        /\ input.waiting \subseteq 1..input.ids
    BY DEF InputTyped
  <1>2. CASE /\ entries[i].item \in Base0 \cup input.lost
             /\ entries[i] = HeldEntry(entries[i].item)
    <2>1. entries[i].id = entries[i].item
      BY <1>2 DEF HeldEntry, Entry
    <2>2. entries[i].item \in 1..input.ids
      BY <1>1, <1>2 DEF Base0
    <2> QED
      BY <1>1, <2>1, <2>2 DEF NewEntry
  <1>3. CASE \E n \in input.waiting : entries[i] = WaitingEntry(n)
    <2>1. PICK n \in input.waiting : entries[i].id = input.ids + n
      BY <1>3 DEF WaitingEntry, Entry
    <2>2. n \in 1..input.ids
      BY <1>1
    <2> QED
      BY <1>1, <2>1, <2>2 DEF NewEntry
  <1> QED
    BY <1>2, <1>3 DEF EntriesGiven

LEMMA MergedFromKeys ==
    ASSUME IInv, JustMerged
    PROVE  /\ TheMerging \in OrdersOf(Nat) /\ Distinct(TheMerging)
           /\ NewEntry \notin IdsOf(TheMerging)
           /\ ItemIds(TheMerging) = ItemIds(entries) /\ IdsOf(TheMerging) = IdsOf(entries)
           /\ DOMAIN TheMerging = DOMAIN entries
           /\ \A i \in DOMAIN entries : TheMerging[i].id = entries[i].id
           /\ TheKeys \in Seq(Int) /\ IsInjective(TheKeys) /\ Range(TheKeys) = TheWanted
           /\ KeysInOrder(TheKeys, KeysOf(TheMerging), ItemIds(read), TheWanted,
                          ByYouTube(base, read, unanswered, sort))
           /\ merged.order = IF ByYouTube(base, read, unanswered, sort) THEN "youtube" ELSE "server"
           /\ merged.added = Added(base, read, TheMerging, TheMade)
           /\ EntriesOf(TheEntries, TheKeys, TheMerging, GoneAt(base, read, TheMerging), merged.added)
           /\ NumberedAs(merged.entries, TheEntries, TheMerging)
           /\ DOMAIN merged.entries = DOMAIN TheKeys
           /\ \A n \in DOMAIN TheKeys :
                merged.entries[n].item = IF TheKeys[n] > 0 THEN TheKeys[n] ELSE NoItem
  <1> DEFINE m == Merged(base, read, entries, unanswered, sort)
             byYouTube == ByYouTube(base, read, unanswered, sort)
  <1>1. /\ InputTyped(input) /\ EntriesGiven
        /\ read \in ItemsOf(Nat) /\ entries \in OrdersOf(Nat) /\ Distinct(entries)
        /\ m.entries \in OrdersOf(Nat)
        /\ merged.order = m.order /\ merged.added = m.added
        /\ DOMAIN merged.entries = DOMAIN m.entries
        /\ \A i \in DOMAIN m.entries :
             /\ merged.entries[i].item = m.entries[i].item
             /\ merged.entries[i].video = m.entries[i].video
             /\ m.entries[i].id # NewEntry => merged.entries[i] = m.entries[i]
             /\ m.entries[i].id = NewEntry => merged.entries[i].id = 2 * input.ids + i
        /\ input.ids \in Nat
    BY MergedGiven
  <1>2. NewEntry \notin IdsOf(entries) /\ \A x \in IdsOf(entries) : x \in Nat /\ x <= 2 * input.ids
    BY <1>1, EntryIdsPositive, EntryIdsGiven
  <1>3. /\ TheMerging \in OrdersOf(Nat) /\ Distinct(TheMerging)
        /\ DOMAIN TheMerging = DOMAIN entries
        /\ \A i \in DOMAIN entries : TheMerging[i].id = entries[i].id
    <2> DEFINE merging == Merging(base, read, entries, unanswered)
    <2>1. /\ merging \in OrdersOf(Nat) /\ Distinct(merging)
          /\ DOMAIN merging = DOMAIN entries
          /\ \A i \in DOMAIN entries :
                merging[i].id = entries[i].id /\ merging[i].video = entries[i].video
          /\ HeldBy(merging) \subseteq IdsOf(base) \cup IdsOf(read)
      BY <1>1, MergingKeeps
    <2> QED
      BY <2>1 DEF TheMerging
  <1>4. ItemIds(TheMerging) = ItemIds(entries) /\ IdsOf(TheMerging) = IdsOf(entries)
    BY <1>3 DEF ItemIds, IdsOf
  <1>5. /\ m.order = IF byYouTube THEN "youtube" ELSE "server"
        /\ m.added = Added(base, read, TheMerging, TheMade)
        /\ TheKeys \in Seq(Int) /\ IsInjective(TheKeys) /\ Range(TheKeys) = TheWanted
        /\ EntriesOf(m.entries, TheKeys, TheMerging, GoneAt(base, read, TheMerging),
                     Added(base, read, TheMerging, TheMade))
    BY <1>1, MergedByKeys DEF TheMerging, TheMade, TheKeys, TheWanted
  <1>6. KeysInOrder(TheKeys, KeysOf(TheMerging), ItemIds(read), TheWanted, byYouTube)
    BY <1>1, WovenInOrder DEF TheMerging, TheMade, TheKeys, TheWanted
  <1>7. TheEntries = m.entries
    BY DEF TheEntries
  <1> HIDE DEF m, byYouTube
  <1>8. ASSUME NEW n \in DOMAIN TheEntries, TheEntries[n].id = NewEntry
        PROVE  merged.entries[n].id \notin IdsOf(entries)
    <2>1. merged.entries[n].id = 2 * input.ids + n
      BY <1>1, <1>7, <1>8
    <2>2. n \in Nat /\ n > 0
      <3>1. DOMAIN TheEntries = DOMAIN TheKeys /\ DOMAIN TheKeys = 1..Len(TheKeys)
        BY <1>5, <1>7 DEF EntriesOf
      <3> QED
        BY <3>1
    <2> QED
      BY <1>1, <1>2, <2>1, <2>2
  <1>9. NumberedAs(merged.entries, TheEntries, TheMerging)
    BY <1>1, <1>4, <1>7, <1>8 DEF NumberedAs
  <1>10. /\ DOMAIN merged.entries = DOMAIN TheKeys
         /\ \A n \in DOMAIN TheKeys :
                merged.entries[n].item = IF TheKeys[n] > 0 THEN TheKeys[n] ELSE NoItem
    BY <1>1, <1>5 DEF EntriesOf
  <1> QED
    BY <1>1, <1>2, <1>3, <1>4, <1>5, <1>6, <1>7, <1>9, <1>10 DEF byYouTube

LEMMA GivenKeepsOrders ==
    ASSUME IInv
    PROVE  EachOrderKept
  <1> SUFFICES ASSUME JustMerged
               PROVE  EachOrderKept
    BY DEF EachOrderKept
  <1> DEFINE list == merged.entries
             after == ItemIds(list)
             items == ItemsHeld(list)
             serverKept == Only(ItemIds(entries), Range(after)) = Only(after, EntryIds(entries))
             youtubeKept == Only(ItemIds(read), Range(items)) = items
             shared == HeldBy(entries) \cap IdsOf(read)
             agree == Only(ItemsHeld(entries), shared) = Only(ItemIds(read), shared)
             waiting == {e.id : e \in {x \in Range(list) : x.item = NoItem}}
             Follow(there, here, S) ==
                \A i, j \in DOMAIN there :
                    i < j /\ there[j] \in S /\ {there[i], there[j]} \subseteq Range(here) =>
                        PlaceIn(here, there[i]) < PlaceIn(here, there[j])
             byYouTube == ByYouTube(base, read, unanswered, sort)
             server == KeysOf(TheMerging)
             youTube == ItemIds(read)
  <1>1. /\ read \in ItemsOf(Nat) /\ entries \in OrdersOf(Nat) /\ Distinct(entries)
        /\ UnansweredGiven
        /\ list \in OrdersOf(Nat) /\ Distinct(list) /\ NewEntry \notin IdsOf(list)
        /\ HeldBy(list) \subseteq IdsOf(read)
    BY MergedGiven
  <1>2. /\ TheMerging \in OrdersOf(Nat) /\ Distinct(TheMerging)
        /\ NewEntry \notin IdsOf(TheMerging)
        /\ ItemIds(TheMerging) = ItemIds(entries) /\ IdsOf(TheMerging) = IdsOf(entries)
        /\ DOMAIN TheMerging = DOMAIN entries
        /\ TheKeys \in Seq(Int) /\ IsInjective(TheKeys) /\ Range(TheKeys) = TheWanted
        /\ KeysInOrder(TheKeys, server, youTube, TheWanted, byYouTube)
        /\ merged.order = IF byYouTube THEN "youtube" ELSE "server"
        /\ merged.added = Added(base, read, TheMerging, TheMade)
        /\ EntriesOf(TheEntries, TheKeys, TheMerging, GoneAt(base, read, TheMerging), merged.added)
        /\ NumberedAs(list, TheEntries, TheMerging)
        /\ DOMAIN list = DOMAIN TheKeys
        /\ \A n \in DOMAIN TheKeys : list[n].item = IF TheKeys[n] > 0 THEN TheKeys[n] ELSE NoItem
    BY MergedFromKeys
  <1>3. items = Only(ItemsOfEntries(list), HeldBy(list)) /\ Range(items) = HeldBy(list)
    <2>1. items = Only(ItemsOfEntries(list), HeldBy(list))
      BY DEF ItemsHeld, ItemsOfEntries
    <2> HIDE DEF list
    <2>2. Range(Only(ItemsOfEntries(list), HeldBy(list))) = HeldBy(list)
      BY <1>1, HeldInOrder
    <2> QED
      BY <2>1, <2>2
  <1>4. youTube \in Seq(Int) /\ IsInjective(youTube) /\ Range(youTube) = IdsOf(read)
            /\ IdsOf(read) \subseteq Nat \ {0}
    BY <1>1, ItemIdsOf
  <1> HIDE DEF list, byYouTube, server
  <1>5. InOrderOf(TheKeys, server, TheWanted) => serverKept
    <2> SUFFICES ASSUME InOrderOf(TheKeys, server, TheWanted)
                 PROVE  serverKept
      OBVIOUS
    <2>1. Only(ItemIds(TheMerging), Range(after)) = Only(after, IdsOf(TheMerging))
      BY <1>1, <1>2, IdsInOrder DEF server
    <2> QED
      BY <1>2, <2>1 DEF EntryIds
  <1>6. InOrderOf(TheKeys, youTube, TheWanted) => youtubeKept
    <2> SUFFICES ASSUME InOrderOf(TheKeys, youTube, TheWanted)
                 PROVE  youtubeKept
      OBVIOUS
    <2>1. Only(youTube, HeldBy(list)) = Only(ItemsOfEntries(list), HeldBy(list))
      BY <1>1, <1>2, ItemsInOrder
    <2> QED
      BY <1>3, <2>1
  <1>7. ASSUME ~byYouTube
        PROVE  serverKept /\ Follow(youTube, items, merged.added)
    <2>1. /\ InOrderOf(TheKeys, server, TheWanted)
          /\ \A y \in TheWanted \ Range(server), x \in TheWanted :
                Before(youTube, x, y) => Before(TheKeys, x, y)
      BY <1>2, <1>7 DEF KeysInOrder
    <2>2. merged.added \subseteq TheWanted \ Range(server)
      <3>1. merged.added \subseteq TheWanted
        BY <1>2 DEF TheWanted, Wanted
      <3>2. ASSUME NEW i \in DOMAIN TheMerging, server[i] \in merged.added
            PROVE  FALSE
        <4>1. server[i] \in IdsOf(read) /\ server[i] \notin HeldBy(TheMerging)
          BY <1>2, <3>2 DEF Added
        <4>2. /\ server[i] = Key(TheMerging, i)
              /\ Key(TheMerging, i) \in Nat \ {0} => Key(TheMerging, i) = TheMerging[i].item
          BY <1>2, KeysAreDistinct DEF server, KeysOf
        <4>3. server[i] = TheMerging[i].item /\ server[i] # NoItem
          BY <1>4, <4>1, <4>2 DEF NoItem
        <4> QED
          BY <4>1, <4>3 DEF HeldBy
      <3>3. DOMAIN server = DOMAIN TheMerging
        BY DEF server, KeysOf
      <3> QED
        BY <3>1, <3>2, <3>3 DEF Range
    <2>3. \A y \in merged.added, x \in Range(TheKeys) :
                Before(youTube, x, y) => Before(TheKeys, x, y)
      BY <1>2, <2>1, <2>2
    <2> HIDE DEF youTube, items
    <2>4. LET held == Only(ItemsOfEntries(list), HeldBy(list))
          IN  \A i, j \in DOMAIN youTube :
                i < j /\ youTube[j] \in merged.added
                        /\ {youTube[i], youTube[j]} \subseteq Range(held) =>
                    PlaceIn(held, youTube[i]) < PlaceIn(held, youTube[j])
      BY <1>1, <1>2, <2>3, ItemsFollow
    <2>5. Follow(youTube, items, merged.added)
      BY <1>3, <2>4
    <2> QED
      BY <1>5, <2>1, <2>5
  <1>8. ASSUME byYouTube
        PROVE  youtubeKept /\ Follow(ItemIds(entries), after, waiting)
    <2>1. /\ InOrderOf(TheKeys, youTube, TheWanted)
          /\ \A y \in TheWanted \ Range(youTube), x \in TheWanted :
                Before(server, x, y) => Before(TheKeys, x, y)
      BY <1>2, <1>8 DEF KeysInOrder
    <2>2. /\ \A k \in Range(youTube) : k > 0
          /\ \A y \in Range(TheKeys) \ Range(youTube), x \in Range(TheKeys) :
                Before(KeysOf(TheMerging), x, y) => Before(TheKeys, x, y)
      BY <1>2, <1>4, <2>1 DEF server
    <2> HIDE DEF youTube
    <2>3. LET ids == ItemIds(TheMerging)
          IN  \A i, j \in DOMAIN ids :
                    i < j /\ ids[j] \in waiting /\ {ids[i], ids[j]} \subseteq Range(after) =>
                        PlaceIn(after, ids[i]) < PlaceIn(after, ids[j])
      BY <1>1, <1>2, <2>2, IdsFollow
    <2>4. Follow(ItemIds(entries), after, waiting)
      BY <1>2, <2>3
    <2> QED
      BY <1>6, <2>1, <2>4
  <1>9. ASSUME agree, unanswered.kind # "append"
        PROVE  serverKept /\ youtubeKept
    <2>1. TheMerging = Released(base, read, entries)
      BY <1>1, <1>9, NothingLanded DEF TheMerging, UnansweredGiven
    <2>2. Only(Only(ItemsOfEntries(entries), HeldBy(entries)), shared) = Only(youTube, shared)
      BY <1>9 DEF ItemsHeld, ItemsOfEntries
    <2>3. InOrderOf(youTube, server, TheWanted \cap Range(server) \cap Range(youTube))
      BY <1>1, <2>1, <2>2, AgreeKeys DEF server
    <2>4. InOrderOf(TheKeys, server, TheWanted) /\ InOrderOf(TheKeys, youTube, TheWanted)
      BY <1>2, <2>3 DEF KeysInOrder
    <2> QED
      BY <1>5, <1>6, <2>4
  <1>10. /\ merged.order = "server" => serverKept /\ Follow(ItemIds(read), items, merged.added)
         /\ merged.order = "youtube" => youtubeKept /\ Follow(ItemIds(entries), after, waiting)
         /\ agree /\ unanswered.kind # "append" => serverKept /\ youtubeKept
    BY <1>2, <1>7, <1>8, <1>9
  <1> QED
    BY <1>10 DEF EachOrderKept, list

LEMMA GivenOneSideWins ==
    ASSUME IInv
    PROVE  OneSideWins
  <1> SUFFICES ASSUME JustMerged, unanswered = NoWrite
               PROVE  OneSideWins
    BY DEF OneSideWins
  <1> DEFINE m == Merged(base, read, entries, unanswered, sort)
             new == m.entries
             list == merged.entries
             there == ItemIds(read)
  <1>1. /\ InputTyped(input) /\ BaseGiven /\ EntriesGiven
        /\ read \in ItemsOf(Nat) /\ entries \in OrdersOf(Nat) /\ Distinct(entries)
        /\ NoItem \notin IdsOf(base)
        /\ new \in OrdersOf(Nat)
        /\ HeldBy(new) \subseteq IdsOf(read)
        /\ list \in OrdersOf(Nat) /\ Distinct(list)
        /\ DOMAIN list = DOMAIN new
        /\ \A i \in DOMAIN new : new[i].id # NewEntry => list[i] = new[i]
        /\ HeldBy(list) = HeldBy(new)
    BY MergedGiven
  <1>2. unanswered.kind \notin {"insert", "append", "move"}
    BY DEF NoWrite, Write
  <1>3. there \in Seq(Int) /\ IsInjective(there) /\ Range(there) = IdsOf(read)
    BY <1>1, ItemIdsOf
  <1>4. ASSUME sort = Manual, there = ItemIds(base), HeldBy(entries) \subseteq IdsOf(base)
        PROVE  list = entries
    <2>1. IdsOf(base) = IdsOf(read)
      <3>1. Range(ItemIds(base)) = IdsOf(base)
        BY DEF Range, ItemIds, IdsOf
      <3> QED
        BY <1>3, <1>4, <3>1
    <2>2. HeldBy(entries) \subseteq IdsOf(read) /\ sort # Automatic
      BY <1>4, <2>1 DEF Manual, Automatic
    <2>3. new = entries
      BY <1>1, <1>2, <1>4, <2>2, MergeOfSame
    <2>4. \A i \in DOMAIN new : new[i].id # NewEntry
      BY <1>1, <2>3, EntryIdsPositive DEF IdsOf
    <2> HIDE DEF m, list
    <2>5. DOMAIN list = DOMAIN entries /\ \A i \in DOMAIN entries : list[i] = entries[i]
      BY <1>1, <2>3, <2>4
    <2>6. /\ list = [i \in DOMAIN list |-> list[i]]
          /\ entries = [i \in DOMAIN entries |-> entries[i]]
      BY <1>1 DEF OrdersOf
    <2> QED
      BY <2>5, <2>6
  <1>5. ASSUME \A i \in DOMAIN base : ~base[i].placed,
               [i \in DOMAIN entries |-> entries[i].item] = ItemIds(base)
        PROVE  ItemsHeld(list) = there
    <2> DEFINE all == ItemIds(base)
               items == ItemsHeld(list)
               both == HeldBy(entries) \cap IdsOf(read)
    <2>1. all = ItemsOfEntries(entries)
      BY <1>5 DEF ItemsOfEntries
    <2>2. Range(all) = IdsOf(base)
      BY DEF Range, ItemIds, IdsOf
    <2>3. HeldBy(entries) = IdsOf(base)
      <3>1. Range(ItemsOfEntries(entries)) = {entries[i].item : i \in DOMAIN entries}
        BY DEF Range, ItemsOfEntries
      <3> QED
        BY <1>1, <2>1, <2>2, <3>1 DEF HeldBy
    <2>4. all \in Seq(Int) /\ IsInjective(all)
      <3>1. DOMAIN base = 1..input.size /\ input.size \in Nat /\ \A i \in 1..input.size : base[i].id = i
        BY <1>1 DEF BaseGiven, Base0, InputTyped
      <3> DEFINE s == input.size
      <3>2. all = [i \in 1..s |-> i] /\ s \in Nat
        BY <3>1 DEF ItemIds
      <3> HIDE DEF s, all
      <3>3. all \in Seq(Int)
        BY <3>2
      <3>4. IsInjective(all)
        BY <3>2 DEF IsInjective
      <3> QED
        BY <3>3, <3>4
    <2>5. ItemsHeld(entries) = all
      <3>1. ItemsHeld(entries) = Only(all, HeldBy(entries))
        BY <2>1 DEF ItemsHeld, ItemsOfEntries
      <3> HIDE DEF all
      <3> QED
        BY <2>2, <2>3, <2>4, <3>1, OnlyAll
    <2>6. HeldBy(list) = IdsOf(read)
      <3>1. MadeHere(base, read, entries, unanswered) = NoItem
        BY <1>2, NothingLanded
      <3>2. LET held == HeldBy(Merged(base, read, entries, unanswered, sort).entries)
                added == IdsOf(read) \ IdsOf(base)
            IN  /\ held \cap IdsOf(base) = HeldBy(entries) \cap IdsOf(base) \cap IdsOf(read)
                /\ held \cap added = added \ {MadeHere(base, read, entries, unanswered)}
        BY <1>1, HeldByMerge
      <3>3. NoItem \notin IdsOf(read)
        BY <1>1, ItemIdsOf
      <3> QED
        BY <1>1, <2>3, <3>1, <3>2, <3>3
    <2>7. Only(there, Range(items)) = items
      <3>1. EachOrderKept
        BY GivenKeepsOrders
      <3>2. CASE merged.order = "youtube"
        BY <3>1, <3>2 DEF EachOrderKept
      <3>3. CASE merged.order # "youtube"
        <4>1. ~Reordered(base, read, unanswered)
          BY <3>3, MergedFromKeys DEF ByYouTube
        <4>2. PlacedByYouTube(base, unanswered) = IdsOf(base)
          BY <1>2, <1>5 DEF PlacedByYouTube, IdsOf
        <4>3. Only(all, both) = Only(there, both)
          BY <2>3, <4>1, <4>2 DEF Reordered
        <4>4. Only(ItemsHeld(entries), both) = Only(there, both)
          BY <2>5, <4>3
        <4> QED
          BY <1>2, <3>1, <4>4 DEF EachOrderKept
      <3> QED
        BY <3>2, <3>3
    <2>8. Range(items) = IdsOf(read)
      <3>1. items = Only(ItemsOfEntries(list), HeldBy(list))
        BY DEF ItemsHeld, ItemsOfEntries
      <3> HIDE DEF list, items
      <3> QED
        BY <1>1, <2>6, <3>1, HeldInOrder
    <2>9. Only(there, Range(items)) = there
      BY <1>3, <2>8, OnlyAll
    <2> QED
      BY <2>7, <2>9
  <1> QED
    BY <1>4, <1>5 DEF OneSideWins

(* A merge keeps each side's order where it may, and all of one side's where *)
(* only that side was edited.                                               *)
THEOREM MergesKeepOrders == Spec => []OrdersKept
  <1>1. IInv => OrdersKept
    BY GivenKeepsOrders, GivenOneSideWins DEF OrdersKept
  <1> QED
    BY <1>1, PushIsGiven, PTL

(* What YouTube's owner added holds the video an unanswered append was of,  *)
(* so one of those items is taken for the append's unless its entry waits.  *)
LEMMA MistakenOnce ==
    ASSUME IInv, JustMerged, NEW x \in IdsOf(read) \ IdsOf(base), unanswered.kind = "append"
    PROVE  MadeHere(base, read, entries, unanswered) # NoItem
                <=> unanswered.entry \notin IdsOf(entries)
  <1>1. /\ InputTyped(input) /\ UnansweredGiven /\ EntriesGiven /\ ReadGiven
        /\ read \in ItemsOf(Nat) /\ entries \in OrdersOf(Nat)
        /\ IdsOf(base) = Base0
    BY MergedGiven
  <1>2. /\ input.ids \in Nat /\ input.size \in 0..input.ids
        /\ input.lost \subseteq (input.size + 1)..input.ids
        /\ input.added \cap input.lost = {}
        /\ input.waiting \subseteq 1..input.ids
    BY <1>1 DEF InputTyped
  <1>3. HeldBy(entries) \subseteq Base0 \cup input.lost
    <2> SUFFICES ASSUME NEW i \in DOMAIN entries, entries[i].item # NoItem
                 PROVE  entries[i].item \in Base0 \cup input.lost
      BY DEF HeldBy
    <2>1. CASE \E n \in input.waiting : entries[i] = WaitingEntry(n)
      BY <2>1 DEF WaitingEntry, Entry
    <2> QED
      BY <1>1, <2>1 DEF EntriesGiven
  <1>4. Landed(base, read, entries, unanswered) # {}
    <2>1. PICK k \in DOMAIN read : read[k].id = x
      BY DEF IdsOf
    <2>2. x \in input.added /\ x \notin Base0
      BY <1>1 DEF ReadGiven
    <2>3. read[k] = Item(x)
      BY <1>1, <2>1 DEF ReadGiven
    <2>4. read[k].video = AddedVideo
      BY <2>2, <2>3 DEF Item
    <2>5. x \notin IdsOf(base) \cup HeldBy(entries)
      BY <1>1, <1>2, <1>3, <2>2
    <2>6. unanswered.video = AddedVideo
      BY <1>1 DEF UnansweredGiven
    <2>7. k \in Landed(base, read, entries, unanswered)
      BY <2>1, <2>4, <2>5, <2>6 DEF Landed
    <2> QED
      BY <2>7
  <1>5. ASSUME NEW i \in DOMAIN entries, entries[i].id = unanswered.entry
        PROVE  entries[i].item = NoItem
    <2>1. PICK n \in input.waiting : unanswered.entry = input.ids + n
      BY <1>1 DEF UnansweredGiven
    <2>2. n \in 1..input.ids
      BY <1>2
    <2>3. CASE /\ entries[i].item \in Base0 \cup input.lost
               /\ entries[i] = HeldEntry(entries[i].item)
      <3>1. entries[i].id = entries[i].item
        BY <2>3 DEF HeldEntry, Entry
      <3>2. entries[i].item \in 1..input.ids
        BY <1>2, <2>3 DEF Base0
      <3> QED
        BY <1>2, <1>5, <2>1, <2>2, <3>1, <3>2
    <2>4. CASE \E w \in input.waiting : entries[i] = WaitingEntry(w)
      BY <2>4 DEF WaitingEntry, Entry
    <2> QED
      BY <1>1, <2>3, <2>4 DEF EntriesGiven
  <1>6. MadeHere(base, read, entries, unanswered) # NoItem <=>
                /\ Landed(base, read, entries, unanswered) # {}
                /\ \A i \in DOMAIN entries :
                    ~(entries[i].id = unanswered.entry /\ entries[i].item = NoItem)
    BY <1>1, MadeHereWhen
  <1> QED
    BY <1>4, <1>5, <1>6 DEF IdsOf

LEMMA GivenLosesNothing ==
    ASSUME IInv
    PROVE  NothingLostOrRevived
  <1> SUFFICES ASSUME JustMerged
               PROVE  NothingLostOrRevived
    BY DEF NothingLostOrRevived
  <1> DEFINE list == merged.entries
             held == HeldBy(list)
             added == IdsOf(read) \ IdsOf(base)
             mistaken == IF /\ unanswered.kind = "append"
                            /\ unanswered.entry \notin EntryIds(entries)
                         THEN 1 ELSE 0
             made == MadeHere(base, read, entries, unanswered)
             m == Merged(base, read, entries, unanswered, sort)
  <1>1. /\ UnansweredGiven
        /\ read \in ItemsOf(Nat) /\ entries \in OrdersOf(Nat) /\ Distinct(entries)
        /\ NoItem \notin IdsOf(base)
        /\ HeldBy(m.entries) \subseteq IdsOf(read)
        /\ list \in OrdersOf(Nat) /\ Distinct(list) /\ NewEntry \notin IdsOf(list)
        /\ HeldBy(list) = HeldBy(m.entries)
    BY MergedGiven
  <1>2. /\ HeldBy(m.entries) \cap IdsOf(base) = HeldBy(entries) \cap IdsOf(base) \cap IdsOf(read)
        /\ HeldBy(m.entries) \cap added = added \ {made}
        /\ \A i \in DOMAIN entries :
            KeysOf(TheMerging)[i] \in TheWanted
                <=> entries[i].item \notin IdsOf(base) \ IdsOf(read)
    BY <1>1, HeldByMerge DEF TheMerging, TheMade, TheWanted
  <1>3. /\ TheMerging \in OrdersOf(Nat) /\ Distinct(TheMerging)
        /\ NewEntry \notin IdsOf(TheMerging)
        /\ DOMAIN TheMerging = DOMAIN entries
        /\ \A i \in DOMAIN entries : TheMerging[i].id = entries[i].id
        /\ TheKeys \in Seq(Int) /\ Range(TheKeys) = TheWanted
        /\ EntriesOf(TheEntries, TheKeys, TheMerging, GoneAt(base, read, TheMerging), merged.added)
        /\ NumberedAs(list, TheEntries, TheMerging)
    BY MergedFromKeys
  <1>4. IsInjective(ItemsHeld(list))
    <2>1. ItemsHeld(list) = Only(ItemsOfEntries(list), HeldBy(list))
      BY DEF ItemsHeld, ItemsOfEntries
    <2> HIDE DEF list
    <2> QED
      BY <1>1, <2>1, HeldInOrder
  <1> HIDE DEF list, m
  <1>5. IsInjective(ItemIds(list))
    BY <1>1, EntryIdsList
  <1>6. \A i \in DOMAIN entries :
            entries[i].id \in EntryIds(list) <=> entries[i].item \notin IdsOf(base) \ IdsOf(read)
    <2>1. \A i \in DOMAIN TheMerging :
            TheMerging[i].id \in IdsOf(list) <=> KeysOf(TheMerging)[i] \in Range(TheKeys)
      BY <1>3, IdsByKeys
    <2> QED
      BY <1>2, <1>3, <2>1 DEF EntryIds
  <1>7. IsFiniteSet(added) /\ Cardinality(added) \in Nat
    <2>1. IsFiniteSet(IdsOf(read))
      <3>1. ItemIds(read) \in Seq(Int) /\ IsInjective(ItemIds(read)) /\ Range(ItemIds(read)) = IdsOf(read)
        BY <1>1, ItemIdsOf
      <3> QED
        BY <3>1, LengthIsCount
    <2>2. IsFiniteSet(added)
      BY <2>1, FS_Subset
    <2> QED
      BY <2>2, FS_CardinalityType
  <1>8. made = NoItem \/ made \in added
    BY <1>1, MergingItems
  <1>9. NoItem \notin added
    BY <1>1, ItemIdsOf
  <1>10. held \cap added = added \ {made}
    BY <1>1, <1>2
  <1>11. added # {} => (made # NoItem <=> mistaken = 1)
    <2> SUFFICES ASSUME NEW x \in added
                 PROVE  made # NoItem <=> mistaken = 1
      OBVIOUS
    <2>1. CASE unanswered.kind = "append"
      <3>1. made # NoItem <=> unanswered.entry \notin IdsOf(entries)
        BY <2>1, MistakenOnce
      <3> QED
        BY <2>1, <3>1 DEF EntryIds
    <2>2. CASE unanswered.kind # "append"
      <3>1. made = NoItem
        BY <1>1, <2>2, NothingLanded DEF UnansweredGiven
      <3> QED
        BY <2>2, <3>1
    <2> QED
      BY <2>1, <2>2
  <1>12. mistaken \in {0, 1}
    OBVIOUS
  <1> HIDE DEF held, added, mistaken, made
  <1>13. Cardinality(held \cap added) = IF added = {} THEN 0 ELSE Cardinality(added) - mistaken
    <2>1. CASE added = {}
      <3>1. held \cap added = {}
        BY <2>1
      <3> QED
        BY <2>1, <3>1, FS_EmptySet
    <2>2. CASE added # {} /\ made = NoItem
      <3>1. held \cap added = added /\ mistaken = 0
        BY <1>9, <1>10, <1>11, <1>12, <2>2
      <3>2. Cardinality(held \cap added) = Cardinality(added)
        BY <3>1
      <3>3. Cardinality(added) - mistaken = Cardinality(added)
        BY <1>7, <3>1
      <3> QED
        BY <2>2, <3>2, <3>3
    <2>3. CASE added # {} /\ made # NoItem
      <3>1. made \in added /\ mistaken = 1
        BY <1>8, <1>11, <2>3
      <3>2. Cardinality(added \ {made}) = Cardinality(added) - 1
        BY <1>7, <3>1, FS_RemoveElement
      <3> QED
        BY <1>10, <2>3, <3>1, <3>2
    <2> QED
      BY <2>1, <2>2, <2>3
  <1>14. held \subseteq IdsOf(read)
    BY <1>1 DEF held
  <1>15. held \cap IdsOf(base) = HeldBy(entries) \cap IdsOf(base) \cap IdsOf(read)
    BY <1>1, <1>2 DEF held
  <1> QED
    BY <1>4, <1>5, <1>6, <1>13, <1>14, <1>15
       DEF NothingLostOrRevived, list, held, added, mistaken

(* No merge loses what either side kept or added, but for one addition an   *)
(* unanswered insert may have made, nor brings back what either removed.    *)
THEOREM MergesLoseNothing == Spec => []NothingLostOrRevived
  <1>1. IInv => NothingLostOrRevived
    BY GivenLosesNothing
  <1> QED
    BY <1>1, PushIsGiven, PTL

-----------------------------------------------------------------------------
(* What YouTube holds while a push is made is a playlist's items, whose ids *)
(* differ.                                                                  *)
LEMMA PushedItems ==
    ASSUME NEW ids \in Nat, NEW first, NEW list, NEW to, NEW now, NEW there, NEW held, NEW rest,
           Pushing(ids, first, list, to, now, there, held, rest)
    PROVE  there \in ItemsOf(Nat)
  <1>1. /\ StandFor(ids, Len(rest), now, first) /\ Len(rest) \in Nat
        /\ first \in OrdersOf(Nat)
        /\ IsInjective(list)
        /\ \A x \in Range(list) :
            \/ x \in 1..ids
            \/ /\ x < 0 /\ -x \in DOMAIN first /\ first[-x].item = NoItem
               /\ now[-x].item # NoItem
        /\ KeyedBy(now, there, list)
    BY DEF Pushing
  <1>2. /\ there \in Seq(SentItem) /\ list \in Seq(Int)
        /\ Len(there) = Len(list) /\ Len(there) \in Nat
        /\ DOMAIN there = 1..Len(there) /\ DOMAIN list = 1..Len(there)
        /\ \A i \in 1..Len(there) : there[i].id = ItemOf(now, list[i])
    BY <1>1, KeyedList
  <1>3. Distinct(now) /\ DOMAIN now = DOMAIN first
    BY <1>1 DEF StandFor
  <1>4. ASSUME NEW i \in 1..Len(there)
        PROVE  \/ /\ list[i] \in 1..ids /\ there[i].id = list[i]
               \/ /\ list[i] < 0 /\ -list[i] \in DOMAIN now
                  /\ there[i].id = now[-list[i]].item
                  /\ there[i].id > ids + 1 + Len(rest) /\ there[i].id # NoItem
    <2>1. list[i] \in Range(list) /\ list[i] \in Int
      BY <1>2 DEF Range
    <2>2. CASE list[i] \in 1..ids
      <3>1. ItemOf(now, list[i]) = list[i]
        BY <2>2 DEF ItemOf
      <3> QED
        BY <1>2, <2>2, <3>1
    <2>3. CASE /\ list[i] < 0 /\ -list[i] \in DOMAIN first /\ first[-list[i]].item = NoItem
               /\ now[-list[i]].item # NoItem
      <3>1. ItemOf(now, list[i]) = now[-list[i]].item
        BY <2>1, <2>3 DEF ItemOf
      <3>2. now[-list[i]].item > ids + 1 + Len(rest)
        BY <1>1, <2>3 DEF StandFor
      <3> QED
        BY <1>2, <1>3, <2>3, <3>1, <3>2
    <2> QED
      BY <1>1, <2>1, <2>2, <2>3
  <1>5. ASSUME NEW i \in 1..Len(there)
        PROVE  there[i] \in [id : Nat \ {0}, video : Nat]
    <2>1. there[i] \in [id : Nat, video : Nat]
      <3>1. there[i] \in SentItem
        BY <1>2
      <3> QED
        BY <3>1 DEF SentItem
    <2>2. there[i].id # 0
      BY <1>1, <1>4 DEF NoItem
    <2> DEFINE x == there[i]
    <2>3. x \in [id : Nat, video : Nat] /\ x.id # 0
      BY <2>1, <2>2
    <2> HIDE DEF x
    <2>4. x \in [id : Nat \ {0}, video : Nat]
      BY <2>3
    <2> QED
      BY <2>4 DEF x
  <1>6. ASSUME NEW i \in 1..Len(there), NEW j \in 1..Len(there), there[i].id = there[j].id
        PROVE  i = j
    <2>1. list[i] \in Int /\ list[j] \in Int
      BY <1>2
    <2>2. list[i] = list[j]
      <3>1. CASE list[i] \in 1..ids
        <4>1. there[i].id = list[i] /\ there[i].id <= ids
          BY <1>4, <2>1, <3>1
        <4>2. ~(there[j].id > ids + 1 + Len(rest))
          BY <1>1, <1>6, <3>1, <4>1
        <4> QED
          BY <1>4, <1>6, <4>1, <4>2
      <3>2. CASE list[j] \in 1..ids
        <4>1. there[j].id = list[j] /\ there[j].id <= ids
          BY <1>4, <2>1, <3>2
        <4>2. ~(there[i].id > ids + 1 + Len(rest))
          BY <1>1, <1>6, <3>2, <4>1
        <4> QED
          BY <1>4, <1>6, <4>1, <4>2
      <3>3. CASE list[i] \notin 1..ids /\ list[j] \notin 1..ids
        <4>1. /\ -list[i] \in DOMAIN now /\ -list[j] \in DOMAIN now
              /\ now[-list[i]].item = now[-list[j]].item /\ now[-list[i]].item # NoItem
          BY <1>4, <1>6, <3>3
        <4>2. -list[i] = -list[j]
          BY <1>3, <4>1 DEF Distinct
        <4> QED
          BY <2>1, <4>2
      <3> QED
        BY <3>1, <3>2, <3>3
    <2> QED
      BY <1>1, <1>2, <2>2 DEF IsInjective
  <1>7. there \in Seq([id : Nat \ {0}, video : Nat])
    <2> DEFINE T == [id : Nat \ {0}, video : Nat]
    <2>1. \A i \in 1..Len(there) : there[i] \in T
      BY <1>5
    <2>2. there = [i \in 1..Len(there) |-> there[i]]
      BY <1>2
    <2> HIDE DEF T
    <2>3. [i \in 1..Len(there) |-> there[i]] \in Seq(T)
      BY <1>2, <2>1
    <2>4. there \in Seq(T)
      BY <2>2, <2>3
    <2> QED
      BY <2>4 DEF T
  <1> QED
    BY <1>2, <1>6, <1>7 DEF ItemsOf

(* Merging again what a merge has just left.                                *)
LEMMA MergedAgain ==
    ASSUME IInv, JustMerged
    PROVE  Merged(Unplaced(read), read, merged.entries, NoWrite, sort).entries = merged.entries
  <1> DEFINE list == merged.entries
             there == ItemIds(read)
             here == KeysOf(list)
             items == Only(ItemsOfEntries(list), HeldBy(list))
  <1>1. /\ read \in ItemsOf(Nat)
        /\ list \in OrdersOf(Nat) /\ Distinct(list)
        /\ HeldBy(list) \subseteq IdsOf(read)
    BY MergedGiven
  <1>2. ItemIds(read) = ItemIds(Unplaced(read))
    BY DEF ItemIds, Unplaced
  <1>3. NoWrite.kind \notin {"insert", "append"}
    BY DEF NoWrite, Write
  <1>4. sort = Automatic => Only(there, HeldBy(list)) = items
    <2> SUFFICES ASSUME sort = Automatic
                 PROVE  Only(there, HeldBy(list)) = items
      OBVIOUS
    <2>1. merged.order = "youtube"
      BY MergedFromKeys DEF ByYouTube
    <2>2. Only(ItemIds(read), Range(ItemsHeld(list))) = ItemsHeld(list)
      BY <2>1, GivenKeepsOrders DEF EachOrderKept
    <2>3. ItemsHeld(list) = items
      BY DEF ItemsHeld, ItemsOfEntries
    <2> HIDE DEF list
    <2>4. Range(items) = HeldBy(list)
      BY <1>1, HeldInOrder
    <2> QED
      BY <2>2, <2>3, <2>4
  <1> HIDE DEF list
  <1>5. sort = Automatic => InOrderOf(there, here, HeldBy(list))
    <2> SUFFICES ASSUME sort = Automatic, NEW x \in HeldBy(list), NEW y \in HeldBy(list),
                        Before(here, x, y)
                 PROVE  Before(there, x, y)
      BY DEF InOrderOf
    <2>1. /\ here \in Seq(Int) /\ DOMAIN list = DOMAIN here
          /\ \A n \in DOMAIN here : list[n].item = IF here[n] > 0 THEN here[n] ELSE NoItem
      BY <1>1, ItemsOfKeys
    <2> HIDE DEF here
    <2>2. InOrderOf(items, here, HeldBy(list))
      BY <1>1, <2>1, ItemsByKeys
    <2>3. Before(items, x, y)
      BY <2>2 DEF InOrderOf
    <2>4. Before(Only(there, HeldBy(list)), x, y)
      BY <1>4, <2>3
    <2>5. there \in Seq(Int)
      BY <1>1, ItemIdsOf
    <2> HIDE DEF there
    <2> QED
      BY <2>4, <2>5, OnlyBefore
  <1>6. Merged(Unplaced(read), read, list, NoWrite, sort).entries = list
    BY <1>1, <1>2, <1>3, <1>5, MergeOfSame
  <1> QED
    BY <1>6 DEF list

(* Merging what a push has left, and planning from there.                   *)
LEMMA PushedAgain ==
    ASSUME IInv, Pushed
    PROVE  LET again == Merged(pushBase, youtube, merged.entries, NoWrite, sort)
           IN  /\ sort = Manual => again.entries = merged.entries
               /\ PlanFor(sort, youtube, again.entries) = <<>>
  <1> DEFINE list == merged.entries
             all == ItemsOfEntries(list)
             again == Merged(pushBase, youtube, list, NoWrite, sort)
             new == again.entries
  <1>1. phase = "push" /\ writes = <<>>
    BY DEF Pushed
  <1>2. input.ids \in Nat /\ PushGiven /\ sort \in {Manual, Automatic}
    BY <1>1 DEF IInv, InputTyped
  <1>3. PICK first, at, to :
            /\ Pushing(input.ids, first, at, to, list, youtube, pushBase, writes)
            /\ Range(to) = Range(KeysOf(first))
    BY <1>2 DEF PushGiven, OnItsWay
  <1>4. youtube \in ItemsOf(Nat)
    BY <1>2, <1>3, PushedItems
  <1>5. /\ list \in OrdersOf(Nat) /\ Distinct(list) /\ NewEntry \notin IdsOf(list)
    <2>1. /\ StandFor(input.ids, Len(writes), list, first) /\ NewEntry \notin IdsOf(first)
      BY <1>3 DEF Pushing
    <2> HIDE DEF list
    <2>2. IdsOf(list) = IdsOf(first)
      BY <2>1 DEF StandFor, IdsOf
    <2> QED
      BY <2>1, <2>2 DEF StandFor
  <1>6. Range(all) = IdsOf(youtube)
    <2>1. Range([i \in DOMAIN list |-> list[i].item]) = IdsOf(youtube)
      BY <1>1, <1>2, <1>3, PushEnds
    <2> QED
      BY <2>1 DEF ItemsOfEntries
  <1>7. sort = Manual => all = ItemIds(youtube)
    <2>1. PlanReachesOrder
      BY GivenReaches DEF PushReachesOrder
    <2> QED
      BY <2>1 DEF PlanReachesOrder, Pushed, ItemsOfEntries
  <1>8. ItemIds(pushBase) = ItemIds(youtube) /\ IdsOf(pushBase) = IdsOf(youtube)
    <2>1. SameItems(pushBase, youtube)
      BY <1>3 DEF Pushing
    <2>2. /\ DOMAIN pushBase = 1..Len(youtube) /\ DOMAIN youtube = 1..Len(youtube)
          /\ \A i \in 1..Len(youtube) : pushBase[i].id = youtube[i].id
      BY <2>1, SameItemsList
    <2> QED
      BY <2>2 DEF ItemIds, IdsOf
  <1> HIDE DEF list
  <1>9. /\ NoItem \notin IdsOf(youtube) /\ HeldBy(list) = IdsOf(youtube)
        /\ \A i \in DOMAIN list : list[i].item # NoItem
    <2>1. NoItem \notin IdsOf(youtube)
      BY <1>4, ItemIdsOf
    <2>2. Range(all) = {list[i].item : i \in DOMAIN list}
      BY DEF Range, ItemsOfEntries
    <2> HIDE DEF all
    <2> QED
      BY <1>6, <2>1, <2>2 DEF HeldBy
  <1>10. NoWrite.kind \notin {"insert", "append"}
    BY DEF NoWrite, Write
  <1>11. CASE sort = Manual
    <2>1. sort # Automatic
      BY <1>11 DEF Manual, Automatic
    <2>2. Merged(pushBase, youtube, list, NoWrite, sort).entries = list
      BY <1>4, <1>5, <1>8, <1>9, <1>10, <2>1, MergeOfSame
    <2>3. Plan(youtube, list) = <<>>
      BY <1>4, <1>5, <1>7, <1>11, PlanOfReached
    <2> QED
      BY <1>11, <2>2, <2>3 DEF PlanFor, list
  <1>12. CASE sort = Automatic
    <2>1. sort # Manual
      BY <1>12 DEF Manual, Automatic
    <2>2. /\ new \in OrdersOf(Nat) /\ HeldBy(new) \subseteq IdsOf(youtube)
      BY <1>4, <1>5, <1>8, <1>9, MergedKeeps
    <2>3. HeldBy(new) \cap IdsOf(pushBase) = HeldBy(list) \cap IdsOf(pushBase) \cap IdsOf(youtube)
      BY <1>4, <1>5, <1>8, <1>9, HeldByMerge
    <2>4. \A n \in DOMAIN new : new[n].item # NoItem
      <3>1. HeldBy(list) \subseteq IdsOf(pushBase)
        BY <1>8, <1>9
      <3>2. \A n \in DOMAIN new : new[n].item = NoItem =>
                \E k \in DOMAIN list :
                    /\ list[k].id = new[n].id /\ list[k].item = NoItem
                    /\ \/ Landed(pushBase, youtube, list, NoWrite) = {}
                       \/ list[k].id # NoWrite.entry
        BY <1>4, <1>5, <3>1, MergedAwaits
      <3> QED
        BY <1>9, <3>2
    <2> HIDE DEF new
    <2>5. HeldBy(new) = IdsOf(youtube)
      BY <1>8, <1>9, <2>2, <2>3
    <2>6. PlanAppends(youtube, new) = <<>>
      BY <1>4, <2>2, <2>4, <2>5, AppendsOfReached
    <2> QED
      BY <1>12, <2>1, <2>6 DEF PlanFor, new, again, list
  <1> QED
    BY <1>2, <1>11, <1>12

(* A sync that finds YouTube as a finished push left it has nothing to do.  *)
THEOREM PushesSettle == Spec => []Settled
  <1>1. IInv => Settled
    BY MergedAgain, PushedAgain DEF Settled
  <1> QED
    BY <1>1, PushIsGiven, PTL
=============================================================================
