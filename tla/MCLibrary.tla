----------------------------- MODULE MCLibrary -----------------------------
(* Small libraries, of plays and ratings some of whose tails are the same.  *)
EXTENDS Library

CONSTANTS v1, v2, elsewhere, t1, t2

EndOf(id) == IF id = 2 THEN t2 ELSE t1

Row1(video, ts) == [video |-> video, ts |-> ts]
Play(handle, video, ts) == [handle |-> handle, video |-> video, ts |-> ts]

Nothing ==
    [plays |-> <<>>, ratings |-> <<>>, clock |-> 0, playbacks |-> 0, adds |-> 0,
     deletes |-> 0, rates |-> 0, lists |-> 0, faults |-> 0, seconds |-> 0]

(* Two delete plays of two stored, while a third is added or sent again.    *)
Deleting == [Nothing EXCEPT !.plays = <<Play(1, v1, 0), Play(2, v2, 0)>>,
                            !.adds = 2, !.deletes = 2, !.faults = 1]

(* A playback whose answers are lost, and somebody deleting what it stored. *)
Playing == [Nothing EXCEPT !.plays = <<Play(1, v1, 0)>>, !.clock = 1,
                           !.playbacks = 1, !.deletes = 1, !.faults = 2]

(* Lists over pages, of rows made at the same second and not, which are     *)
(* added to and deleted from meanwhile.                                     *)
ListingPlays ==
    {[Nothing EXCEPT !.plays = [id \in 1..3 |-> Play(id, v1, ts[id])], !.clock = 1,
                     !.lists = 1, !.adds = 1, !.deletes = 1] : ts \in [1..3 -> 0..1]}
ListingRatings ==
    {[Nothing EXCEPT !.ratings = [id \in 1..3 |-> Row1(IF id = 3 THEN v2 ELSE v1, ts[id])],
                     !.clock = 1, !.lists = 1, !.rates = 1, !.deletes = 1, !.seconds = 1] :
            ts \in [1..3 -> 0..1]}

Everything == {Deleting, Playing} \cup ListingPlays \cup ListingRatings
JustPlaying == {[Playing EXCEPT !.deletes = 0]}
=============================================================================
