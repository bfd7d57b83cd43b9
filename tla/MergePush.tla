----------------------------- MODULE MergePush -----------------------------
(***************************************************************************)
(* One sync of one playlist while nobody else touches it: the server's     *)
(* order was edited and so was YouTube's since the last read, the sync     *)
(* merges the two and pushes the result write by write.  It checks what    *)
(* the pure merge and plan of api/merge compute over every small input;    *)
(* PlaylistSync has the interleavings.                                     *)
(*                                                                         *)
(* The base is <<1, ..., size>>: items are only labels, so any other   *)
(* base is this one renamed.  Item n holds video n, except that the items  *)
(* the owner adds on YouTube hold AddedVideo, and an entry awaiting an     *)
(* item holds it too, so that an unanswered insert may be confused with    *)
(* the owner's addition.                                                   *)
(***************************************************************************)
EXTENDS YouTubePlaylist

CONSTANT
    Inputs          \* the playlists merged and pushed, each a record of:
                    \*   ids         a number no item or entry here is above
                    \*   size        how many items the base holds
                    \*   added       the items the owner may add on YouTube
                    \*   waiting     the ids of the entries added here
                    \*   lost        items an entry may hold that neither the
                    \*               base nor YouTube has
                    \*   ownerEdits  whether the owner edits it on YouTube

ASSUME MergePushAssumption ==
    \A in \in Inputs :
        /\ in.ids \in Nat
        /\ in.size \in 0..in.ids
        /\ in.added \cup in.lost \subseteq (in.size + 1)..in.ids
        /\ in.added \cap in.lost = {}
        /\ in.waiting \subseteq 1..in.ids
        /\ in.ownerEdits \in BOOLEAN

VARIABLES
    input,          \* the one of Inputs this is
    phase,          \* what the round does next
    base, read, entries, unanswered, sort,      \* merge.Playlist
    merged,         \* merge.Result
    youtube,        \* what YouTube holds, as the push writes to it
    pushBase,       \* the push's base, after the writes made
    writes,         \* the writes the plan has left
    planned         \* how many it had

vars == <<input, phase, base, read, entries, unanswered, sort, merged, youtube,
          pushBase, writes, planned>>

AddedVideo == input.size + 1
Base0 == 1..input.size

Item(id) == [id |-> id, video |-> IF id \in Base0 THEN id ELSE AddedVideo]

(* The orders an edit on either side may leave; a waiting entry is negative. *)
OrdersHere == SetToAllKPermutations(Base0 \cup input.lost \cup {-w : w \in input.waiting})
OrdersThere == IF input.ownerEdits THEN SetToAllKPermutations(Base0 \cup input.added)
               ELSE {[i \in Base0 |-> i]}

(* The entry of base item n is n, and that of a lost item is its number too; *)
(* the others are numbered after those.                                     *)
HeldEntry(id) == Entry(id, Item(id).video, id)
WaitingEntry(id) == Entry(input.ids + id, AddedVideo, NoItem)

(* Without the owner's edits the read is the base, and neither its flags nor *)
(* an unanswered write tells one merge from another.                        *)
Init ==
    /\ input \in Inputs
    /\ phase = "edit"
    /\ base \in {[i \in Base0 |-> [id |-> i, video |-> i, placed |-> i \in P]] :
                    P \in SUBSET Base0}
    /\ sort \in {Manual, Automatic}
    /\ unanswered \in
            {NoWrite} \cup {Write("move", i, NewEntry, 0, 0) : i \in Base0}
                \cup {Write("append", NoItem, input.ids + n, AddedVideo, 0) : n \in input.waiting}
    /\ ~input.ownerEdits => /\ unanswered = NoWrite
                      /\ \A i \in DOMAIN base : ~base[i].placed
    /\ read = <<>> /\ entries = <<>>
    /\ merged = <<>> /\ youtube = <<>>
    /\ pushBase = <<>> /\ writes = <<>> /\ planned = 0

(* The server's order after edits here: what is left of the base's entries, *)
(* in any order, among entries awaiting an item.                            *)
EditHere ==
    /\ phase = "edit"
    /\ \E order \in OrdersHere :
            entries' = [i \in DOMAIN order |->
                            IF order[i] > 0 THEN HeldEntry(order[i])
                            ELSE WaitingEntry(-order[i])]
    /\ phase' = "read"
    /\ UNCHANGED <<input, base, read, unanswered, sort, merged, youtube,
                   pushBase, writes, planned>>

(* What YouTube holds after the owner's edits there, read whole.            *)
Read ==
    /\ phase = "read"
    /\ \E order \in OrdersThere :
            read' = [i \in DOMAIN order |-> Item(order[i])]
    /\ youtube' = read'
    /\ phase' = "merge"
    /\ UNCHANGED <<input, base, entries, unanswered, sort, merged, pushBase,
                   writes, planned>>

(* The ids new entries take as they are stored.                             *)
Numbered(list) ==
    [i \in DOMAIN list |->
        IF list[i].id # NewEntry THEN list[i]
        ELSE [list[i] EXCEPT !.id = 2 * input.ids + i]]

MergeInto ==
    /\ phase = "merge"
    /\ merged' = LET m == Merged(base, read, entries, unanswered, sort)
                 IN  [m EXCEPT !.entries = Numbered(@)]
    /\ pushBase' = Unplaced(read)
    /\ writes' = PlanFor(sort, read, merged'.entries)
    /\ planned' = Len(writes')
    /\ phase' = "push"
    /\ UNCHANGED <<input, base, read, entries, unanswered, sort, youtube>>

(* The item the next insert makes.                                          *)
Made == input.ids + 1 + Len(writes)

PushWrite ==
    /\ phase = "push"
    /\ writes # <<>>
    /\ LET w == Head(writes)
       IN  /\ pushBase' = Applied(pushBase, w, Made)
           /\ youtube' = Performed(youtube, w, Made)
           /\ merged' =
                 IF w.entry = NewEntry THEN merged
                 ELSE [merged EXCEPT !.entries =
                        [i \in DOMAIN @ |-> IF @[i].id = w.entry
                                            THEN Entry(w.entry, @[i].video, Made)
                                            ELSE @[i]]]
    /\ writes' = Tail(writes)
    /\ UNCHANGED <<input, phase, base, read, entries, unanswered, sort,
                   planned>>

Next == EditHere \/ Read \/ MergeInto \/ PushWrite

Spec == Init /\ [][Next]_vars

-----------------------------------------------------------------------------
JustMerged == phase = "push" /\ Len(writes) = planned
Pushed == phase = "push" /\ writes = <<>>

ItemsHeld(list) == Only([i \in DOMAIN list |-> list[i].item], HeldBy(list))
EntryIds(list) == IdsOf(list)

(* The three-way merge.  An item YouTube removed or the server removed stays *)
(* removed, one either side added stays, and an entry leaves only with an    *)
(* item YouTube removed: api/README.md:50-56.  The one exception is the one  *)
(* Merge documents: an addition with the video of an unanswered insert whose *)
(* entry an edit removed is taken for that insert.                           *)
NothingLostOrRevived ==
    JustMerged =>
        LET held == HeldBy(merged.entries)
            added == IdsOf(read) \ IdsOf(base)
            mistaken == IF /\ unanswered.kind = "append"
                           /\ unanswered.entry \notin EntryIds(entries)
                        THEN 1 ELSE 0
        IN  /\ held \subseteq IdsOf(read)
            /\ IsInjective(ItemsHeld(merged.entries))
            /\ held \cap IdsOf(base) = HeldBy(entries) \cap IdsOf(base) \cap IdsOf(read)
            /\ Cardinality(held \cap added) = (IF added = {} THEN 0 ELSE Cardinality(added) - mistaken)
            /\ \A i \in DOMAIN entries :
                    entries[i].id \in EntryIds(merged.entries)
                        <=> entries[i].item \notin IdsOf(base) \ IdsOf(read)
            /\ IsInjective(ItemIds(merged.entries))

(* What the merge keeps of one side's order it keeps in that order, both     *)
(* sides' when they agree about the items both hold, and what only the other *)
(* side has follows everything it followed there: weave's forward-only       *)
(* cursor, merge.go:272-293.                                                 *)
EachOrderKept ==
    JustMerged =>
        LET after == ItemIds(merged.entries)
            items == ItemsHeld(merged.entries)
            serverKept == Only(ItemIds(entries), Range(after)) = Only(after, EntryIds(entries))
            youtubeKept == Only(ItemIds(read), Range(items)) = items
            shared == HeldBy(entries) \cap IdsOf(read)
            agree == Only(ItemsHeld(entries), shared) = Only(ItemIds(read), shared)
            waiting == {e.id : e \in {x \in Range(merged.entries) : x.item = NoItem}}
            Follow(there, here, S) ==
                \A i, j \in DOMAIN there :
                    i < j /\ there[j] \in S /\ {there[i], there[j]} \subseteq Range(here) =>
                        PlaceIn(here, there[i]) < PlaceIn(here, there[j])
        IN  /\ merged.order = "server" =>
                    serverKept /\ Follow(ItemIds(read), items, merged.added)
            /\ merged.order = "youtube" =>
                    youtubeKept /\ Follow(ItemIds(entries), after, waiting)
            /\ agree /\ unanswered.kind # "append" => serverKept /\ youtubeKept

(* A merge takes one side's order whole while the other side left the base  *)
(* as it was: the server's, when YouTube holds the base and its writes were *)
(* answered, and YouTube's, when no edit here and no push since the last    *)
(* read put an item elsewhere (api/README.md:50-55).                        *)
OneSideWins ==
    JustMerged /\ unanswered = NoWrite =>
        /\ sort = Manual /\ ItemIds(read) = ItemIds(base) /\ HeldBy(entries) \subseteq IdsOf(base) =>
                merged.entries = entries
        /\ (\A i \in DOMAIN base : ~base[i].placed)
                /\ [i \in DOMAIN entries |-> entries[i].item] = ItemIds(base) =>
                ItemsHeld(merged.entries) = ItemIds(read)

(* The merged order, of both sides' and of one side's edits.                *)
OrdersKept == EachOrderKept /\ OneSideWins

(* Every position the plan names is one YouTube accepts when the write is   *)
(* made, and every item it names is there: writer.go:95-97, 139-142.        *)
WritesAccepted ==
    phase = "push" /\ writes # <<>> =>
        LET w == Head(writes)
        IN  /\ AcceptsPosition(youtube, w)
            /\ w.kind \in {"move", "delete"} => HasItem(youtube, w.item)
            /\ sort = Automatic => w.kind \in {"delete", "append"}

(* The base the push records after each write is what YouTube then holds.   *)
BaseIsYouTube ==
    phase = "push" =>
        pushBase = [i \in DOMAIN youtube |->
                        [id |-> youtube[i].id, video |-> youtube[i].video,
                         placed |-> pushBase[i].placed]]

(* The whole plan leaves YouTube holding the server's order, or its videos  *)
(* in a playlist YouTube orders itself.                                     *)
PlanReachesOrder ==
    Pushed =>
        LET items == [i \in DOMAIN merged.entries |-> merged.entries[i].item]
        IN  IF sort = Manual THEN ItemIds(youtube) = items
            ELSE Range(items) = IdsOf(youtube) /\ Len(items) = Len(youtube)

(* A push gets there by writes YouTube takes, and knows after each of them  *)
(* what YouTube holds.                                                      *)
PushReachesOrder == WritesAccepted /\ BaseIsYouTube /\ PlanReachesOrder

(* Plan makes the fewest writes: one delete for each item no entry holds,   *)
(* one insert for each entry without one, and a move only for each item     *)
(* outside a longest run already in the server's order.                     *)
FewestWrites ==
    JustMerged /\ sort = Manual =>
        LET items == ItemsHeld(merged.entries)
            InOrder(S) == Only(items, S) = Only(ItemIds(read), S)
            moves == Cardinality({i \in DOMAIN writes : writes[i].kind = "move"})
        IN  /\ \E S \in SUBSET Range(items) :
                    InOrder(S) /\ Cardinality(S) + moves = Len(items)
            /\ \A S \in SUBSET Range(items) :
                    InOrder(S) => Cardinality(S) + moves <= Len(items)
            /\ Len(writes) = moves + (Len(read) - Len(items))
                                + (Len(merged.entries) - Len(items))

(* A sync that finds YouTube as a finished push left it changes nothing and *)
(* plans nothing, and so does a merge made again before any push.           *)
Settled ==
    /\ JustMerged =>
        Merged(Unplaced(read), read, merged.entries, NoWrite, sort).entries
            = merged.entries
    /\ Pushed =>
        LET again == Merged(pushBase, youtube, merged.entries, NoWrite, sort)
        IN  /\ sort = Manual => again.entries = merged.entries
            /\ PlanFor(sort, youtube, again.entries) = <<>>
=============================================================================
