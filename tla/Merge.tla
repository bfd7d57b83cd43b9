------------------------------- MODULE Merge -------------------------------
(***************************************************************************)
(* The merge of one playlist and the plan of its push: api/merge, which    *)
(* is pure.  A playlist's base is what YouTube held at the last read, with *)
(* the writes made since; its read is what YouTube holds now; its entries  *)
(* are the server's order.  Ids of items and of entries are positive       *)
(* numbers, as the code's are never empty, and 0 is the absent id.         *)
(***************************************************************************)
EXTENDS Integers, Sequences, SequencesExt

NoItem == 0
NewEntry == 0

Manual == "manual"
Automatic == "automatic"

(* What YouTube was asked to do, as merge.Write; a field a kind does not    *)
(* name is 0.                                                               *)
Write(kind, item, entry, video, position) ==
    [kind |-> kind, item |-> item, entry |-> entry, video |-> video,
     position |-> position]

NoWrite == Write("none", NoItem, NewEntry, 0, 0)

Entry(id, video, item) == [id |-> id, video |-> video, item |-> item]

IdsOf(items) == {items[i].id : i \in DOMAIN items}
ItemIds(items) == [i \in DOMAIN items |-> items[i].id]
HeldBy(entries) == {entries[i].item : i \in DOMAIN entries} \ {NoItem}

(* What of a list is in S: SelectSeq for a set, spelled out since the provers *)
(* know nothing of the library's.                                           *)
Only(list, S) ==
    LET upTo[i \in 0..Len(list)] ==
            IF i = 0 THEN <<>>
            ELSE IF list[i] \in S THEN Append(upTo[i - 1], list[i])
            ELSE upTo[i - 1]
    IN  upTo[Len(list)]

Larger(a, b) == IF a > b THEN a ELSE b

-----------------------------------------------------------------------------
(***************************************************************************)
(* Merging.                                                                *)
(***************************************************************************)

(* Only inserts looked for, not what an append may have made.               *)
LandedOfInsert(base, read, entries, unanswered) ==
    {i \in DOMAIN read :
        /\ unanswered.kind = "insert"
        /\ read[i].video = unanswered.video
        /\ read[i].id \notin IdsOf(base) \cup HeldBy(entries)}

(* Only appends looked for.                                                 *)
LandedOfAppend(base, read, entries, unanswered) ==
    {i \in DOMAIN read :
        /\ unanswered.kind = "append"
        /\ read[i].video = unanswered.video
        /\ read[i].id \notin IdsOf(base) \cup HeldBy(entries)}

(* The items of the read an unanswered insert may have made: those holding  *)
(* its video that neither the base nor an entry knows.                      *)
Landed(base, read, entries, unanswered) ==
    {i \in DOMAIN read :
        /\ unanswered.kind \in {"insert", "append"}
        /\ read[i].video = unanswered.video
        /\ read[i].id \notin IdsOf(base) \cup HeldBy(entries)}

(* landedInsert: the first of them goes to the entry the insert was sent    *)
(* for while that waits for an item, and is otherwise an item made here     *)
(* whose entry an edit removed.                                             *)
LandedInsert(base, read, entries, unanswered) ==
    LET landed == Landed(base, read, entries, unanswered)
        made == read[Min(landed)].id
        waiting == {i \in DOMAIN entries :
                        /\ entries[i].id = unanswered.entry
                        /\ entries[i].item = NoItem}
    IN  IF landed = {}
        THEN [entries |-> entries, madeHere |-> NoItem]
        ELSE IF waiting = {}
        THEN [entries |-> entries, madeHere |-> made]
        ELSE [entries |-> [entries EXCEPT ![Min(waiting)].item = made],
              madeHere |-> NoItem]

(* Entries left holding an item nobody has.                                 *)
NotReleased(base, read, entries) == entries

(* An entry whose item neither side knows waits for an item again.          *)
Released(base, read, entries) ==
    [i \in DOMAIN entries |->
        IF entries[i].item \in IdsOf(base) \cup IdsOf(read)
        THEN entries[i]
        ELSE [entries[i] EXCEPT !.item = NoItem]]

(* The base's items, wherever a write of a push put them.                   *)
AnyPlace(base, unanswered) == IdsOf(base)

(* No item, as if a reorder on YouTube were never looked for.               *)
NoPlaces(base, unanswered) == {}

(* The base's items that sit where YouTube's own edits put them: no write   *)
(* placed them, and the unanswered one is not their move.                   *)
PlacedByYouTube(base, unanswered) ==
    {base[i].id : i \in {j \in DOMAIN base : ~base[j].placed}}
        \ (IF unanswered.kind = "move" THEN {unanswered.item} ELSE {})

(* Whether YouTube moved an item it placed itself, among those the base and *)
(* the read share.                                                          *)
Reordered(base, read, unanswered) ==
    LET shared == PlacedByYouTube(base, unanswered) \cap IdsOf(read)
    IN  Only(ItemIds(base), shared) # Only(ItemIds(read), shared)

(* The wanted keys of primary, each wanted key only secondary holds put     *)
(* after the key that precedes it in secondary.  The cursor only advances.  *)
Weave(primary, secondary, wanted) ==
    LET Place(acc, k) ==
            CASE k \notin wanted -> acc
              [] k \in wanted /\ Contains(acc.result, k) ->
                    [acc EXCEPT !.cursor =
                        Larger(@, SelectInSeq(acc.result, LAMBDA r : r = k))]
              [] OTHER ->
                    [result |-> InsertAt(acc.result, acc.cursor + 1, k),
                     cursor |-> acc.cursor + 1]
    IN  FoldLeft(Place,
                 [result |-> Only(primary, wanted), cursor |-> 0],
                 secondary).result

(* A key is an item's id, or minus the place of an entry awaiting one.      *)
Key(entries, i) == IF entries[i].item = NoItem THEN -i ELSE entries[i].item

Merged(base, read, entries, unanswered, sort) ==
    LET settled == LandedInsert(base, read, entries, unanswered)
        merging == Released(base, read, settled.entries)
        gone == {i \in DOMAIN merging :
                    merging[i].item \in IdsOf(base) \ IdsOf(read)}
        added == IdsOf(read) \
                    (HeldBy(merging) \cup IdsOf(base) \cup {settled.madeHere})
        serverKeys == [i \in DOMAIN merging |-> Key(merging, i)]
        wanted == {serverKeys[i] : i \in DOMAIN merging \ gone} \cup added
        byYouTube == sort = Automatic \/ Reordered(base, read, unanswered)
        keys == IF byYouTube
                THEN Weave(ItemIds(read), serverKeys, wanted)
                ELSE Weave(serverKeys, ItemIds(read), wanted)
        EntryOf(k) ==
            IF \E i \in DOMAIN merging : Key(merging, i) = k
            THEN merging[CHOOSE i \in DOMAIN merging : Key(merging, i) = k]
            ELSE LET item == read[CHOOSE i \in DOMAIN read : read[i].id = k]
                 IN  Entry(NewEntry, item.video, item.id)
    IN  [entries |-> [n \in DOMAIN keys |-> EntryOf(keys[n])],
         order |-> IF byYouTube THEN "youtube" ELSE "server",
         added |-> added,
         removed |-> {merging[i].item : i \in gone}]

-----------------------------------------------------------------------------
(***************************************************************************)
(* Planning the push.                                                      *)
(***************************************************************************)

(* The first item no entry holds passed over.                               *)
DeletesAfterFirst(read, entries) ==
    LET lost == Only(ItemIds(read), IdsOf(read) \ HeldBy(entries))
    IN  [i \in 1..(Len(lost) - 1) |-> Write("delete", lost[i + 1], NewEntry, 0, 0)]

(* A delete of each item of the read no entry holds, in the read's order.   *)
Deletes(read, entries) ==
    LET lost == Only(ItemIds(read), IdsOf(read) \ HeldBy(entries))
    IN  [i \in DOMAIN lost |-> Write("delete", lost[i], NewEntry, 0, 0)]

(* The read's items after them.                                             *)
Left(read, entries) == Only(ItemIds(read), HeldBy(entries))

PlaceIn(s, e) == SelectInSeq(s, LAMBDA x : x = e)

(* Each id after the last one taken, from the first on.                     *)
FirstIncreasing(ids, playlist) ==
    LET Take(acc, id) == IF PlaceIn(playlist, id) > acc.last
                         THEN [last |-> PlaceIn(playlist, id), run |-> acc.run \cup {id}]
                         ELSE acc
    IN  FoldLeft(Take, [last |-> 0, run |-> {}], ids).run

(* longestIncreasing: tails[k] is the index into ids of the smallest last   *)
(* place of an increasing run of length k, and before[i] the index before i *)
(* in the run ending at i.                                                  *)
LongestIncreasing(ids, playlist) ==
    LET Place(i) == PlaceIn(playlist, ids[i])
        Extend(acc, i) ==
            LET k == Cardinality({n \in DOMAIN acc.tails :
                                    Place(acc.tails[n]) < Place(i)})
            IN  [before |-> Append(acc.before, IF k = 0 THEN 0 ELSE acc.tails[k]),
                 tails |-> IF k = Len(acc.tails) THEN Append(acc.tails, i)
                           ELSE [acc.tails EXCEPT ![k + 1] = i]]
        acc == FoldLeftDomain(Extend, [before |-> <<>>, tails |-> <<>>], ids)
        n == Len(acc.tails)
        run[k \in 1..n] == IF k = n THEN acc.tails[n] ELSE acc.before[run[k + 1]]
    IN  {ids[run[k]] : k \in 1..n}

(* The writes that turn read into entries in a playlist sorted by hand:     *)
(* deletes, then one insert or move for each entry not already in the       *)
(* longest run kept in place.                                               *)
Plan(read, entries) ==
    LET left == Left(read, entries)
        kept == Only([i \in DOMAIN entries |-> entries[i].item], Range(left))
        stays == LongestIncreasing(kept, left)
        Step(acc, i) ==
            LET e == entries[i]
                key == Key(entries, i)
                rest == RemoveFirst(acc.playlist, key)
                at == PlaceIn(rest, acc.previous)
                Write1 == IF e.item = NoItem
                          THEN Write("insert", NoItem, e.id, e.video, at)
                          ELSE Write("move", e.item, NewEntry, e.video, at)
            IN  IF key \in stays
                THEN [acc EXCEPT !.previous = key]
                ELSE [previous |-> key,
                      playlist |-> InsertAt(rest, at + 1, key),
                      writes |-> Append(acc.writes, Write1)]
    IN  Deletes(read, entries) \o
            FoldLeftDomain(Step,
                           [previous |-> 0, playlist |-> left, writes |-> <<>>],
                           entries).writes

(* The writes toward entries in a playlist YouTube orders itself.           *)
PlanAppends(read, entries) ==
    LET waiting == Only(entries, {e \in Range(entries) : e.item = NoItem})
    IN  Deletes(read, entries) \o
            [i \in DOMAIN waiting |->
                Write("append", NoItem, waiting[i].id, waiting[i].video, 0)]

(* Positions planned for a playlist YouTube orders itself.                  *)
PlanAnySort(sort, read, entries) == Plan(read, entries)

(* What run.push and PendingPushes plan, by the playlist's sort.            *)
PlanFor(sort, read, entries) ==
    IF sort = Manual THEN Plan(read, entries) ELSE PlanAppends(read, entries)

-----------------------------------------------------------------------------
(***************************************************************************)
(* The base.                                                               *)
(***************************************************************************)

Unplaced(read) ==
    [i \in DOMAIN read |->
        [id |-> read[i].id, video |-> read[i].video, placed |-> FALSE]]

(* An item recorded as if YouTube had put it last.                          *)
PutLast(base, position, item) == Append(base, item)

(* The base with an item where YouTube put it.                              *)
PutAt(base, position, item) == InsertAt(base, position + 1, item)

(* applied: the base after w did what the plan expects, made being the item *)
(* an insert or an append made.                                             *)
Applied(base, w, made) ==
    LET at == PlaceIn(ItemIds(base), w.item)
        new == [id |-> made, video |-> w.video, placed |-> TRUE]
    IN  CASE w.kind = "delete" -> IF at = 0 THEN base ELSE RemoveAt(base, at)
          [] w.kind = "insert" -> PutAt(base, w.position, new)
          [] w.kind = "append" -> Append(base, new)
          [] w.kind = "move" ->
                PutAt(RemoveAt(base, at), w.position, [base[at] EXCEPT !.placed = TRUE])
=============================================================================
