-------------------------- MODULE VersionedOrder --------------------------
(***************************************************************************)
(* What the API promises of a playlist's order (GET and PUT of             *)
(* /playlists/{id}/items): an order with a revision that counts its        *)
(* changes, which a client replaces at the revision it last received or at *)
(* any, and which the sync changes too.  PlaylistSync implements it.       *)
(***************************************************************************)
EXTENDS Naturals

CONSTANTS Clients, StartOrder

VARIABLES order, revision, received

vars == <<order, revision, received>>

(* What a client holds: the last order it received, its revision, and       *)
(* whether that answered an edit it forced, naming no revision.             *)
Nothing == [revision |-> 0, videos |-> <<>>, forced |-> FALSE]

Init ==
    /\ order = StartOrder
    /\ revision = 1
    /\ received = [c \in Clients |-> Nothing]

Receives(c, forced) ==
    received' = [received EXCEPT ![c] = [revision |-> revision', videos |-> order',
                                         forced |-> forced]]

Changes == order' # order /\ revision' = revision + 1

Read(c) == Receives(c, FALSE) /\ UNCHANGED <<order, revision>>

(* An edit of the order the client has: what it replaces is what it saw.    *)
Edit(c) ==
    /\ received[c].revision = revision
    /\ received[c].videos = order
    /\ Changes
    /\ Receives(c, FALSE)

Overwrite(c) == Changes /\ Receives(c, TRUE)

SyncChange == Changes /\ UNCHANGED received

Next == SyncChange \/ \E c \in Clients : Read(c) \/ Edit(c) \/ Overwrite(c)

Spec == Init /\ [][Next]_vars
=============================================================================
