-------------------------- MODULE YouTubePlaylist --------------------------
(***************************************************************************)
(* A playlist as YouTube keeps it, modelled from what the code relies on   *)
(* (the comments and sentinels of api/youtube/writer.go): the items in     *)
(* order, which writes YouTube accepts, and what an accepted write does.   *)
(* Writes are merge.Write records; an item is [id, video].                 *)
(***************************************************************************)
EXTENDS Merge

HasItem(items, id) == \E i \in DOMAIN items : items[i].id = id

(* A position from 0 to the count for an insert, and to one less for a move. *)
AcceptsPosition(items, w) ==
    CASE w.kind = "insert" -> w.position \in 0..Len(items)
      [] w.kind = "move" -> w.position \in 0..Len(items) - 1
      [] OTHER -> TRUE

(* An insert makes the item made; a move takes its item out of its slot and *)
(* puts it exactly at the position; a delete closes the gap.                *)
Performed(items, w, made) ==
    LET at == PlaceIn(ItemIds(items), w.item)
        others == RemoveAt(items, at)
        new == [id |-> made, video |-> w.video]
        Into(list, one) == InsertAt(list, w.position + 1, one)
    IN  CASE w.kind = "delete" -> others
          [] w.kind = "append" -> Append(items, new)
          [] w.kind = "insert" -> Into(items, new)
          [] w.kind = "move" -> Into(others, items[at])
=============================================================================
