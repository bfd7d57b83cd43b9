-------------------------- MODULE MCPlaylistSync --------------------------
(* Small instances of PlaylistSync.                                         *)
EXTENDS PlaylistSync

CONSTANTS c1, c2

TwoVideos == <<1, 2>>

(* Orders that add, remove, reorder and repeat.                             *)
EditedOrders == {<<2, 1>>, <<3, 1>>, <<1>>, <<2, 3, 1>>, <<1, 1, 2>>}
FewOrders == {<<2, 1>>, <<3, 1>>, <<1>>}

Nothing ==
    [clients |-> {c1}, orders |-> FewOrders, edits |-> 0, owner |-> 0,
     faults |-> 0, miss |-> FALSE, delete |-> FALSE, sort |-> FALSE]

(* One client's edits with the owner's and a fault; and two clients'.       *)
SyncScenarios ==
    {[Nothing EXCEPT !.orders = EditedOrders \ {<<1>>}, !.edits = 2,
                     !.owner = 1, !.faults = 1, !.sort = TRUE],
     [Nothing EXCEPT !.clients = {c1, c2}, !.edits = 2, !.faults = 1]}

(* Everything once; and two faults beside a read that misses items and a    *)
(* delete, without the owner.                                               *)
EverythingOnce ==
    {[Nothing EXCEPT !.edits = 1, !.owner = 1, !.faults = 1, !.miss = TRUE,
                     !.delete = TRUE, !.sort = TRUE],
     [Nothing EXCEPT !.orders = EditedOrders, !.edits = 1, !.faults = 2,
                     !.miss = TRUE, !.delete = TRUE]}

MissedInsert == {[Nothing EXCEPT !.edits = 1, !.faults = 2, !.miss = TRUE]}
=============================================================================
