------------------------------- MODULE Passes -------------------------------
(***************************************************************************)
(* The worker and its passes over every playlist: worker.go, queue.go and  *)
(* the pass of reconcile.go.  What a sync does to a playlist's items is     *)
(* PlaylistSync's; here a playlist is how many writes its push has left and *)
(* what the listing and its reads say of it, and the quota is whether it    *)
(* has room for a write.  The store does not fail.                          *)
(***************************************************************************)
EXTENDS Integers, Sequences, SequencesExt, FiniteSets

CONSTANTS
    Playlists,
    NoPlaylist,
    Scenarios       \* how much there is and may happen: see Scenario

(* The playlists YouTube has at first, the most writes a push plans, and how *)
(* many edits, edits on YouTube, deletes and faults there may be.           *)
Scenario ==
    [playlists : SUBSET Playlists, plan : Nat,
     edits : Nat, owner : Nat, deletes : Nat, faults : Nat, failed : {FALSE}]

ASSUME PassesAssumption ==
    /\ IsFiniteSet(Playlists) /\ NoPlaylist \notin Playlists
    /\ Scenarios \subseteq Scenario

VARIABLES
    stored,         \* the playlists the store holds
    reads,          \* those it has held, as they were last read
    plan,           \* PendingPush.Writes of each
    held,           \* the playlists whose push a refusal of today holds
    spent,          \* whether a pass drew today's quota refusal
    has,            \* the playlists YouTube has
    unread,         \* those changed on YouTube since a read of them was merged
    moved,          \* those whose count is not what it was at that read
    recent,         \* those whose items a push wrote within the lag
    room,           \* whose writes the quota has room for
    committed,      \* the orders an edit stored with Edited yet to be called
    pending, wake,  \* Edits
    signaling,      \* the calls of Edited between the list and the channel
    retrying,       \* the timers of the worker
    deleting,       \* the playlists the API has deleted on YouTube alone
    deleted,        \* those whose delete is settled and newer than a read
    pc, pass,       \* the worker and its pass
    left            \* what may yet happen, and whether a fault has

storeVars == <<stored, reads, plan, held, spent>>
youtubeVars == <<has, unread, moved, recent, room>>
editVars == <<committed, pending, wake, signaling, retrying>>
deleteVars == <<deleting, deleted>>
vars == <<storeVars, youtubeVars, editVars, deleteVars, pc, pass, left>>

PriorityEdit == 0
PriorityChanged == 1
PriorityUnfinished == 2
PrioritySweep == 3
PriorityLengths == 4

Job(kind, priority, playlist, full) ==
    [kind |-> kind, priority |-> priority, playlist |-> playlist, full |-> full]

SyncOf(p, priority) == Job("sync", priority, p, FALSE)
ProbeJob(full) == Job("probe", PriorityChanged, NoPlaylist, full)
LengthsJob == Job("lengths", PriorityLengths, NoPlaylist, FALSE)
NoJob == Job("none", PriorityEdit, NoPlaylist, FALSE)

(* What room is: nobody's, an edit's alone above EditReserve, or anybody's. *)
NoRoom == 0
EditsOnly == 1
Everybody == 2

(* Room for more than the write.                                            *)
AllowsBelow(priority) == room > (IF priority = PriorityEdit THEN EditsOnly ELSE Everybody)

Allows(priority) == room >= (IF priority = PriorityEdit THEN EditsOnly ELSE Everybody)

(* A run before its first job, or once it has ended.                        *)
NewPass ==
    [queue |-> <<>>, job |-> NoJob,
     listed |-> {},     \* run.listed
     flagged |-> {},    \* those whose count it gives is not the last read's
     later |-> {},      \* those whose count has changed since
     synced |-> {}, retry |-> {},
     fresh |-> FALSE,   \* whether the order is still the one merged
     touched |-> FALSE] \* whether YouTube's owner changed what was read

Syncing == pass.job.playlist
IsListed == Syncing \in pass.listed

(* YouTube has every playlist, and the store those the server has read.     *)
Init ==
    /\ left \in Scenarios
    /\ has = left.playlists
    /\ \E read \in SUBSET has :
            /\ stored = read
            /\ reads = SetToSeq(read)
            /\ unread = has \ read
            /\ moved = has \ read
    /\ plan = [p \in Playlists |-> 0]
    /\ held = {}
    /\ spent = FALSE
    /\ recent = {}
    /\ room = Everybody
    /\ committed = {} /\ pending = <<>> /\ wake = FALSE
    /\ signaling = {} /\ retrying = {}
    /\ deleting = {} /\ deleted = {}
    /\ pc = "starting"
    /\ pass = NewPass

Faults(n) ==
    /\ n <= left.faults
    /\ left' = [left EXCEPT !.faults = @ - n, !.failed = @ \/ n > 0]

Fault == Faults(1)

(* The playlists the longest unread first.                                  *)
ListPlaylistReads == reads
Without(p) == RemoveFirst(ListPlaylistReads, p)

(* Not stamped once it was.                                                 *)
NeverStamped(p) == IF p \in Range(reads) THEN reads ELSE Append(reads, p)

(* SetPlaylistReadTs: a playlist stored by then is now the one read last.   *)
ReadLast(p) == Append(Without(p), p)

-----------------------------------------------------------------------------
(***************************************************************************)
(* The queue, and the list of edits.                                       *)
(***************************************************************************)

(* A queue in the order jobs came.                                          *)
AddLast(queue, j) == Append(queue, j)

(* queue.add: behind its priority, a playlist's sync at the earlier of two. *)
Add(queue, j) ==
    LET queued == SelectInSeq(queue, LAMBDA k : k.kind = "sync" /\ k.playlist = j.playlist)
        rest == IF queued = 0 THEN queue ELSE RemoveAt(queue, queued)
        behind == SelectInSeq(rest, LAMBDA k : k.priority > j.priority)
    IN  IF queued # 0 /\ queue[queued].priority <= j.priority
        THEN queue
        ELSE InsertAt(rest, IF behind = 0 THEN Len(rest) + 1 ELSE behind, j)

AddAll(queue, jobs) == FoldLeft(Add, queue, jobs)

Syncs(playlists, priority) ==
    [i \in DOMAIN playlists |-> SyncOf(playlists[i], priority)]

Holds(queue, p) == \E i \in DOMAIN queue : queue[i].kind = "sync" /\ queue[i].playlist = p

(* A pass that is running is taken to need no signal.                       *)
ListEditedIdle(p) ==
    /\ pending' = IF Contains(pending, p) THEN pending ELSE Append(pending, p)
    /\ signaling' = IF pc = "idle" THEN signaling \cup {p} ELSE signaling

(* Edited lists the playlist, and signals the worker after unlocking.       *)
ListEdited(p) ==
    /\ pending' = IF Contains(pending, p) THEN pending ELSE Append(pending, p)
    /\ signaling' = signaling \cup {p}

Waiting == pending # <<>>
Taken == pending

Signal(p) ==
    /\ p \in signaling
    /\ signaling' = signaling \ {p}
    /\ wake' = TRUE
    /\ UNCHANGED <<storeVars, youtubeVars, committed, pending, retrying,
                   deleteVars, pc, pass, left>>

-----------------------------------------------------------------------------
(***************************************************************************)
(* The API and the owner of the channel.                                   *)
(***************************************************************************)

(* replacePlaylistItems commits an order, which releases a held push.       *)
Commit(p) ==
    /\ left.edits > 0
    /\ p \in stored \ committed
    /\ \E n \in 0..left.plan : plan' = [plan EXCEPT ![p] = n]
    /\ held' = held \ {p}
    /\ committed' = committed \cup {p}
    /\ pass' = [pass EXCEPT !.fresh = @ /\ p # Syncing]
    /\ left' = [left EXCEPT !.edits = @ - 1]
    /\ UNCHANGED <<stored, reads, spent, youtubeVars, pending, wake, signaling, retrying,
                   deleteVars, pc>>

(* It then calls Edited.                                                    *)
Edited(p) ==
    /\ p \in committed
    /\ committed' = committed \ {p}
    /\ ListEdited(p)
    /\ UNCHANGED <<storeVars, youtubeVars, wake, retrying, deleteVars, pc, pass,
                   left>>

(* deletePlaylist deletes it on YouTube, which may have deleted it already,  *)
(* and from the store as it settles.                                        *)
DeleteOnYouTube(p) ==
    /\ left.deletes > 0
    /\ p \in stored \ deleting
    /\ has' = has \ {p}
    /\ deleting' = deleting \cup {p}
    /\ left' = [left EXCEPT !.deletes = @ - 1]
    /\ UNCHANGED <<storeVars, unread, moved, recent, room, editVars, deleted,
                   pc, pass>>

Dropped(p) ==
    /\ stored' = stored \ {p}
    /\ plan' = [plan EXCEPT ![p] = 0]
    /\ held' = held \ {p}

DeleteStored(p) ==
    /\ p \in deleting
    /\ Dropped(p)
    /\ deleting' = deleting \ {p}
    /\ deleted' = deleted \cup {p}
    /\ pass' = [pass EXCEPT !.fresh = @ /\ p # Syncing]
    /\ UNCHANGED <<reads, spent, youtubeVars, editVars, pc, left>>

(* The owner edits a playlist on YouTube: its count moves, stays, or comes  *)
(* back to what the last read found.                                        *)
OwnerEdits(p) ==
    /\ left.owner > 0
    /\ p \in has
    /\ unread' = unread \cup {p}
    /\ \/ /\ moved' \in {moved \cup {p}, moved \ {p}}
          /\ pass' = [pass EXCEPT !.later = @ \cup {p}, !.touched = @ \/ p = Syncing]
       \/ /\ moved' = moved
          /\ pass' = [pass EXCEPT !.touched = @ \/ p = Syncing]
    /\ left' = [left EXCEPT !.owner = @ - 1]
    /\ UNCHANGED <<storeVars, has, recent, room, editVars, deleteVars, pc>>

OwnerDeletes(p) ==
    /\ left.owner > 0
    /\ p \in has
    /\ has' = has \ {p}
    /\ left' = [left EXCEPT !.owner = @ - 1]
    /\ UNCHANGED <<storeVars, unread, moved, recent, room, editVars, deleteVars,
                   pc, pass>>

-----------------------------------------------------------------------------
(***************************************************************************)
(* The worker begins and ends passes.                                      *)
(***************************************************************************)

(* Runner.pass up to its first job: a day whose refusal is drawn drops the  *)
(* edits and sends nothing.                                                 *)
Begins(jobs) ==
    /\ IF spent
       THEN pass' = NewPass /\ pending' = <<>> /\ pc' = "idle"
       ELSE /\ pass' = [NewPass EXCEPT !.queue = AddAll(<<>>, jobs)]
            /\ pending' = pending
            /\ pc' = "next"
    /\ UNCHANGED <<storeVars, youtubeVars, committed, signaling, retrying,
                   deleteVars, left>>

(* Runner.Run, made as the worker starts.                                   *)
Run ==
    /\ pc = "starting"
    /\ Begins(<<ProbeJob(TRUE), LengthsJob>>)
    /\ UNCHANGED wake

(* Runner.Tick: the probe, the lengths once an hour, and the pushes left.   *)
Unfinished == SetToSeq({p \in stored \ held : plan[p] > 0})

Tick ==
    /\ pc = "idle"
    /\ \E due \in BOOLEAN :
            Begins(<<ProbeJob(FALSE)>> \o (IF due THEN <<LengthsJob>> ELSE <<>>)
                        \o Syncs(Unfinished, PriorityUnfinished))
    /\ UNCHANGED wake

(* Runner.Pass, on an edit's signal.                                        *)
Woken ==
    /\ pc = "idle" /\ wake
    /\ Begins(<<>>)
    /\ wake' = FALSE

(* Runner.Pass, on enrichment's: a pass that leaves edits' signal in place. *)
EnrichmentRefused ==
    /\ pc = "idle"
    /\ Begins(<<>>)
    /\ UNCHANGED wake

(* The pass is recorded, and the edits it put off are timed.                *)
Ends ==
    /\ pc' = "idle"
    /\ pass' = NewPass
    /\ retrying' = retrying \cup pass.retry

(* A job is done, and the pass goes on to its next.                         *)
JobDone(p) ==
    /\ pc' = "next"
    /\ pass' = [p EXCEPT !.job = NoJob, !.fresh = FALSE, !.touched = FALSE]

(* execute: takes the edits, and the first job.                             *)
NextJob ==
    /\ pc = "next"
    /\ pending' = <<>>
    /\ LET queue == AddAll(pass.queue, Syncs(Taken, PriorityEdit))
       IN  IF queue = <<>>
           THEN Ends
           ELSE /\ pass' = [pass EXCEPT !.queue = Tail(queue), !.job = Head(queue)]
                /\ pc' = Head(queue).kind
                /\ UNCHANGED retrying
    /\ UNCHANGED <<storeVars, youtubeVars, committed, wake, signaling, deleteVars,
                   left>>

-----------------------------------------------------------------------------
(***************************************************************************)
(* The probe.                                                              *)
(***************************************************************************)

(* A listing may miss a playlist, and may still have one the API deleted.   *)
List ==
    /\ pc = "probe"
    /\ \E missed \in SUBSET has, ghosts \in SUBSET (deleting \cup deleted) :
            /\ Faults(Cardinality(missed))
            /\ LET listed == (has \ missed) \cup ghosts
               IN  pass' = [pass EXCEPT !.listed = listed,
                                        !.flagged = moved \cap listed,
                                        !.later = {}]
    /\ pc' = "queue"
    /\ UNCHANGED <<storeVars, youtubeVars, editVars, deleteVars>>

(* Looked for as the worker starts alone.                                   *)
GoneAtStart == IF pass.job.full THEN stored \ (pass.listed \cup has) ELSE {}

(* deleteUnlisted, and the jobs of the listing.                             *)
Gone == stored \ (pass.listed \cup has)

(* The sweep takes what the pass has synced again.                          *)
SweepsAgain(list, queue) ==
    LET due == {i \in DOMAIN list : list[i] \in stored \cap pass.listed /\ ~Holds(queue, list[i])}
    IN  IF due = {} THEN <<>> ELSE <<SyncOf(list[Min(due)], PrioritySweep)>>

FirstToSweep(list, queue) ==
    LET due == {i \in DOMAIN list : /\ list[i] \in (stored \cap pass.listed) \ pass.synced
                                    /\ ~Holds(queue, list[i])}
    IN  IF due = {} THEN <<>> ELSE <<SyncOf(list[Min(due)], PrioritySweep)>>

QueueListed ==
    /\ pc = "queue"
    /\ stored' = stored \ Gone
    /\ plan' = [p \in Playlists |-> IF p \in Gone THEN 0 ELSE plan[p]]
    /\ held' = held \ Gone
    /\ LET changed == IF pass.job.full THEN pass.listed
                      ELSE pass.flagged \cup (pass.listed \ stored)
           queue == AddAll(pass.queue, Syncs(SetToSeq(changed), PriorityChanged))
           sweep == IF pass.job.full THEN <<>> ELSE FirstToSweep(ListPlaylistReads, queue)
       IN  JobDone([pass EXCEPT !.queue = AddAll(queue, sweep), !.flagged = {}])
    /\ UNCHANGED <<reads, spent, youtubeVars, editVars, deleteVars, left>>

(* Reading the lengths of videos leaves everything here as it is.           *)
ReadLengths ==
    /\ pc = "lengths"
    /\ JobDone(pass)
    /\ UNCHANGED <<storeVars, youtubeVars, editVars, deleteVars, left>>

(* A listing that fails ends the pass.                                      *)
ListFails ==
    /\ Fault
    /\ pc = "probe"
    /\ Ends
    /\ UNCHANGED <<storeVars, youtubeVars, committed, pending, wake, signaling,
                   deleteVars>>

-----------------------------------------------------------------------------
(***************************************************************************)
(* The sync of one playlist.                                               *)
(***************************************************************************)

(* Upserted whatever the API wrote.                                         *)
UpsertsListed == IsListed

(* Whether the merge's transaction stores a playlist as the pass listed it. *)
Upserts == IsListed /\ Syncing \notin deleted

(* An edit put off is left to a tick.                                       *)
SyncEndsForGood(again) ==
    /\ stored' = IF pc = "merge" /\ Upserts THEN stored \cup {Syncing} ELSE stored
    /\ reads' = IF Syncing \in stored' THEN ReadLast(Syncing) ELSE reads
    /\ JobDone([pass EXCEPT !.synced = @ \cup {Syncing}])

(* A sync that ends before its push: the read is stamped, unless it never   *)
(* began, and an edit's is put off if it is to be tried again.              *)
SyncEnds(again) ==
    /\ stored' = IF pc = "merge" /\ Upserts THEN stored \cup {Syncing} ELSE stored
    /\ reads' = IF Syncing \in stored' THEN ReadLast(Syncing) ELSE reads
    /\ JobDone([pass EXCEPT
            !.synced = @ \cup {Syncing},
            !.retry = IF again /\ pass.job.priority = PriorityEdit
                      THEN @ \cup {Syncing} ELSE @])

(* An unfinished push is not read without room for one of its writes.       *)
MayRead == pass.job.priority = PriorityUnfinished => Allows(PriorityUnfinished)

SyncWaits ==
    /\ pc = "sync" /\ ~MayRead
    /\ JobDone(pass)
    /\ UNCHANGED <<storeVars, youtubeVars, editVars, deleteVars, left>>

(* The API deleted the playlist after it was queued.                        *)
SyncNobody ==
    /\ pc = "sync" /\ MayRead
    /\ ~IsListed /\ Syncing \notin stored
    /\ SyncEnds(FALSE)
    /\ UNCHANGED <<plan, held, spent, youtubeVars, editVars, deleteVars, left>>

ReadsItems == pc = "sync" /\ MayRead /\ (IsListed \/ Syncing \in stored)

(* Its items are not found: it is deleted, unless a write of the API to it  *)
(* is newer than the read.                                                  *)
SyncNotFound ==
    /\ ReadsItems
    /\ Syncing \notin has
    /\ IF Syncing \in deleted
       THEN /\ SyncEnds(TRUE)
            /\ UNCHANGED <<plan, held>>
       ELSE /\ Dropped(Syncing)
            /\ reads' = reads
            /\ JobDone([pass EXCEPT !.synced = @ \cup {Syncing}])
    /\ UNCHANGED <<spent, youtubeVars, editVars, deleteVars, left>>

(* The read fails, or an item it lacks is still there or cannot be read.    *)
SyncFails ==
    /\ ReadsItems
    /\ Fault
    /\ SyncEnds(FALSE)
    /\ UNCHANGED <<plan, held, spent, youtubeVars, editVars, deleteVars>>

SyncRead ==
    /\ ReadsItems
    /\ Syncing \in has \cup deleting \cup deleted
    /\ pc' = "merge"
    /\ pass' = [pass EXCEPT !.synced = @ \cup {Syncing}, !.touched = FALSE]
    /\ UNCHANGED <<storeVars, youtubeVars, editVars, deleteVars, left>>

(* The API deleted the playlist later than the listing can show.            *)
MergeDeleted ==
    /\ pc = "merge"
    /\ IsListed /\ ~Upserts
    /\ SyncEnds(FALSE)
    /\ UNCHANGED <<plan, held, spent, youtubeVars, editVars, deleteVars, left>>

(* Its items were written within the lag of the read.                       *)
MergeDeferred ==
    /\ pc = "merge"
    /\ IsListed => Upserts
    /\ Syncing \in recent
    /\ SyncEnds(TRUE)
    /\ UNCHANGED <<plan, held, spent, youtubeVars, editVars, deleteVars, left>>

(* GetPlaylistState finds no row, which ends the pass.                      *)
MergeFindsNoRow ==
    /\ pc = "merge"
    /\ ~IsListed /\ Syncing \notin stored \cup recent
    /\ Ends
    /\ UNCHANGED <<storeVars, youtubeVars, committed, pending, wake, signaling,
                   deleteVars, left>>

(* The count the listing gave: it may have changed since.                   *)
SetPlaylistReadCount ==
    IF Syncing \in pass.later THEN moved \cup {Syncing} ELSE moved \ {Syncing}

(* The merge is stored.  What YouTube changed may change what a push has to *)
(* write, and the base with it, which releases a held push.                 *)
MergeStored ==
    /\ pc = "merge"
    /\ IF IsListed THEN Upserts ELSE Syncing \in stored
    /\ Syncing \notin recent
    /\ stored' = stored \cup {Syncing}
    /\ reads' = ReadLast(Syncing)
    /\ IF Syncing \in unread
       THEN /\ \E n \in 0..left.plan : plan' = [plan EXCEPT ![Syncing] = n]
            /\ held' \in {held, held \ {Syncing}}
       ELSE UNCHANGED <<plan, held>>
    /\ unread' = IF pass.touched THEN unread ELSE unread \ {Syncing}
    /\ moved' = IF IsListed THEN SetPlaylistReadCount ELSE moved
    /\ pass' = [pass EXCEPT !.fresh = TRUE]
    /\ pc' = "push"
    /\ UNCHANGED <<spent, has, recent, room, editVars, deleteVars, left>>

-----------------------------------------------------------------------------
(***************************************************************************)
(* The push.                                                               *)
(***************************************************************************)

MayWrite ==
    /\ plan[Syncing] > 0
    /\ pass.fresh
    /\ Syncing \notin held
    /\ pass.job.priority # PriorityEdit => ~Waiting
    /\ Allows(pass.job.priority)

(* The push is done, held, overtaken by an edit or out of room.             *)
PushEnds ==
    /\ pc = "push" /\ ~MayWrite
    /\ JobDone(pass)
    /\ UNCHANGED <<storeVars, youtubeVars, editVars, deleteVars, left>>

(* A write is made, which may move the count and use up room.               *)
WriteApplied ==
    /\ pc = "push" /\ MayWrite
    /\ plan' = [plan EXCEPT ![Syncing] = @ - 1]
    /\ recent' = recent \cup {Syncing}
    /\ \/ UNCHANGED <<moved, pass>>
       \/ /\ moved' = moved \cup {Syncing}
          /\ pass' = [pass EXCEPT !.later = @ \cup {Syncing}]
    /\ UNCHANGED <<stored, reads, held, spent, has, unread, room, editVars, deleteVars, pc,
                   left>>

(* The video is refused and leaves the order, or YouTube turns out to order *)
(* the playlist itself, which plans its writes anew.                        *)
WriteReplans ==
    /\ pc = "push" /\ MayWrite
    /\ Fault
    /\ \E n \in 0..plan[Syncing] : plan' = [plan EXCEPT ![Syncing] = n]
    /\ recent' = recent \cup {Syncing}
    /\ JobDone(pass)
    /\ UNCHANGED <<stored, reads, held, spent, has, unread, moved, room, editVars,
                   deleteVars>>

(* The write is refused for another reason, which holds the push today, or  *)
(* unanswered, or its item is gone from YouTube.                            *)
WriteStops ==
    /\ pc = "push" /\ MayWrite
    /\ Fault
    /\ recent' = recent \cup {Syncing}
    /\ \/ held' = held \cup {Syncing} /\ unread' = unread
       \/ held' = held /\ unread' = unread \cup {Syncing}
    /\ JobDone(pass)
    /\ UNCHANGED <<stored, reads, plan, spent, has, moved, room, editVars, deleteVars>>

(* YouTube refuses a request for the day's quota, which ends the pass.      *)
QuotaRefused ==
    /\ Fault
    /\ \/ pc \in {"probe", "lengths"}
       \/ ReadsItems
       \/ pc = "push" /\ MayWrite
    /\ spent' = TRUE
    /\ Ends
    /\ UNCHANGED <<stored, reads, plan, held, youtubeVars, committed, pending, wake,
                   signaling, deleteVars>>

-----------------------------------------------------------------------------
(***************************************************************************)
(* Time, and the end of the process.                                       *)
(***************************************************************************)

(* Units are spent, or the reset nears and fewer are kept back for reads.   *)
RoomChanges ==
    /\ Fault
    /\ room' \in {NoRoom, EditsOnly, Everybody} \ {room}
    /\ UNCHANGED <<storeVars, has, unread, moved, recent, editVars, deleteVars, pc,
                   pass>>

DayPasses ==
    /\ spent \/ held # {} \/ room # Everybody
    /\ spent' = FALSE
    /\ held' = {}
    /\ room' = Everybody
    /\ UNCHANGED <<stored, reads, plan, has, unread, moved, recent, editVars, deleteVars, pc,
                   pass, left>>

LagPasses(p) ==
    /\ p \in recent
    /\ recent' = recent \ {p}
    /\ UNCHANGED <<storeVars, has, unread, moved, room, editVars, deleteVars, pc,
                   pass, left>>

(* A listing newer by the lag than the delete no longer has the playlist.   *)
DeleteShows(p) ==
    /\ p \in deleted /\ pc = "idle"
    /\ deleted' = deleted \ {p}
    /\ UNCHANGED <<storeVars, youtubeVars, editVars, deleting, pc, pass, left>>

(* The timer of an edit put off.                                            *)
RetryFires(p) ==
    /\ p \in retrying
    /\ retrying' = retrying \ {p}
    /\ ListEdited(p)
    /\ UNCHANGED <<storeVars, youtubeVars, committed, wake, deleteVars, pc, pass,
                   left>>

(* The process stops, and starts again.                                     *)
Crash ==
    /\ Fault
    /\ pc' = "starting"
    /\ pass' = NewPass
    /\ committed' = {} /\ pending' = <<>> /\ wake' = FALSE
    /\ signaling' = {} /\ retrying' = {}
    /\ deleting' = {}
    /\ UNCHANGED <<storeVars, youtubeVars, deleted>>

-----------------------------------------------------------------------------
API == \E p \in Playlists :
            \/ Commit(p) \/ Edited(p) \/ Signal(p)
            \/ DeleteOnYouTube(p) \/ DeleteStored(p)

Owner == \E p \in Playlists : OwnerEdits(p) \/ OwnerDeletes(p)

Time == \/ RoomChanges \/ DayPasses
        \/ \E p \in Playlists : LagPasses(p) \/ DeleteShows(p) \/ RetryFires(p)

Sync == \/ SyncWaits \/ SyncNobody \/ SyncNotFound \/ SyncFails \/ SyncRead
        \/ MergeDeleted \/ MergeDeferred \/ MergeFindsNoRow \/ MergeStored
        \/ PushEnds \/ WriteApplied \/ WriteReplans \/ WriteStops

Pass == Run \/ NextJob \/ List \/ QueueListed \/ ReadLengths \/ ListFails
            \/ QuotaRefused \/ Sync

Next == API \/ Owner \/ Time \/ Pass \/ Tick \/ Woken \/ EnrichmentRefused \/ Crash

Spec == Init /\ [][Next]_vars

-----------------------------------------------------------------------------
(***************************************************************************)
(* What the passes keep.                                                   *)
(***************************************************************************)

(* An edit in the list is never left without what will take it: the signal,  *)
(* a call about to leave it, or a pass about to take the list.  Both sides   *)
(* of the list run at once, and the channel holds one signal for them all.   *)
NoLostWake ==
    pending # <<>> => wake \/ signaling # {} \/ pc # "idle"

(* A pass goes through its jobs by priority, whatever was queued while it    *)
(* ran, and has one sync of a playlist left at the most.                     *)
QueueInOrder ==
    \A i, j \in DOMAIN pass.queue : i < j =>
        /\ pass.queue[i].priority <= pass.queue[j].priority
        /\ pass.queue[i].kind = "sync" => pass.queue[i].playlist # pass.queue[j].playlist

(* A playlist the API deleted is not stored again by a pass that listed it   *)
(* or read its items while YouTube still showed it.                          *)
DeletedStaysDeleted == deleted \cap stored = {}

(* The sweep of a pass is of a playlist it has not read: its units are not   *)
(* spent on one an edit had it read before the probe.                        *)
SweptOnce ==
    \A i \in DOMAIN pass.queue :
        pass.queue[i].priority = PrioritySweep => pass.queue[i].playlist \notin pass.synced

(* A failure of one playlist's merge leaves the pass the jobs it has left.   *)
MergeKeepsThePass == [][pc = "merge" => pc' # "idle"]_vars

-----------------------------------------------------------------------------
(***************************************************************************)
(* What it gets done.  The fairness of the worker's steps and of the calls  *)
(* and timers is said by what each of them leaves, which is what WF of it   *)
(* comes to: the pass leaves each phase, a signal an idle worker is woken   *)
(* by, a call and a timer its set; and the lag and the day pass.            *)
(***************************************************************************)
Phases == {"starting", "next", "probe", "queue", "lengths", "sync", "merge", "push"}

Goes ==
    /\ \A phase \in Phases : []<>(pc # phase)
    /\ []<>(pc # "idle" \/ ~wake)
    /\ \A p \in Playlists :
        /\ []<>(p \notin committed) /\ []<>(p \notin signaling)
        /\ []<>(p \notin retrying) /\ []<>(p \notin deleting)
        /\ []<>(p \notin recent)
    /\ []<>(~spent /\ held = {} /\ room = Everybody)

(* Go's select takes a ready tick in the end, whatever else is ready with it. *)
WokenSpec == Spec /\ Goes
FairSpec == WokenSpec /\ SF_vars(Tick)

(* The server's order of a playlist is pushed to the end, across pushes that *)
(* stop part way, refusals, restarts and edits no pass was woken for.        *)
OrdersArePushed ==
    \A p \in Playlists : []<>(plan[p] = 0 \/ p \notin stored \cap has)

(* A change on YouTube is merged, one that leaves the count alone too.       *)
ChangesArrive ==
    \A p \in Playlists : []<>(p \notin unread \cap has)

(* A playlist YouTube no longer has leaves the store.                        *)
GoneLeaves ==
    \A p \in Playlists : []<>(p \notin stored \ has)

(* An edit is pushed without waiting for a tick, unless YouTube, the quota or *)
(* the process fails, or a pass ends at another playlist the API deleted, as  *)
(* MergeKeepsThePass has it.                                                 *)
EditsArePushed ==
    \A p \in Playlists :
        p \in committed ~> \/ plan[p] = 0 \/ p \notin stored
                          \/ left.failed \/ deleted \ {p} # {}
=============================================================================
