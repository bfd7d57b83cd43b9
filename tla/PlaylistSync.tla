--------------------------- MODULE PlaylistSync ---------------------------
(***************************************************************************)
(* The sync of one playlist: api/reconcile, with the store operations it   *)
(* and the API make (api/store) and the edit of a playlist's order         *)
(* (api/handlers/playlist_items.go).                                       *)
(*                                                                         *)
(* Four parties act.  The worker makes one sync at a time: it reads YouTube,*)
(* confirms what the read lacks, merges in one transaction, then pushes    *)
(* write by write, each recorded before it is sent and settled after.      *)
(* Clients of the API read the order and replace it at the revision they   *)
(* read.  The channel's owner edits the playlist on YouTube.  YouTube      *)
(* refuses or loses the answer of a write, and for a while after one a     *)
(* read may show the playlist as it was before.  The process may stop at   *)
(* any step, and what it has not stored is lost.                           *)
(***************************************************************************)
EXTENDS YouTubePlaylist

CONSTANTS
    Clients,
    Videos,
    StartVideos,        \* the videos of the playlist at the start, in order
    Orders,             \* the orders of videos a client may ask for
    OwnerVideos,        \* the videos the owner may add on YouTube
    Scenarios           \* how much may happen: see Scenario

(* How many edits of the order to which orders, how many edits on YouTube,  *)
(* how many lost answers, refusals and crashes; and whether a read may miss  *)
(* an item, the API may delete the playlist and the owner may have YouTube  *)
(* order it.                                                                *)
Scenario ==
    [clients : SUBSET Clients, orders : SUBSET Orders,
     edits : Nat, owner : Nat, faults : Nat,
     miss : BOOLEAN, delete : BOOLEAN, sort : BOOLEAN]

ASSUME PlaylistSyncAssumption ==
    /\ Videos \subseteq Nat
    /\ StartVideos \in Seq(Videos)
    /\ Orders \subseteq Seq(Videos)
    /\ OwnerVideos \subseteq Videos
    /\ Scenarios \subseteq Scenario

VARIABLES
    (* YouTube. *)
    youtube,        \* the playlist's items in order
    youtubeSort,    \* whether the owner has YouTube order the playlist
    live,           \* whether YouTube has the playlist
    older,          \* contents a read may still return, within the lag of a write
    nextItem,
    (* The store: the playlist's row, its entries and its base. *)
    stored, entries, base, revision, sort, unanswered, refused,
    recent,         \* ItemWritesSince: a write a read sent now may not show
    quotaSpent,     \* a pass has drawn the day's quota refusal
    nextEntry,
    (* The server's memory. *)
    edited,         \* Edits holds the playlist
    retry,          \* logged will put it back in Edits
    worker,         \* the pass's sync of the playlist, as it stands
    (* Clients, and how much may yet happen. *)
    seen,           \* the ETag and order each client last received, and
                    \* whether from an edit of its own under If-Match: *
    left,
    (* History, for the properties: what no code keeps. *)
    history

youtubeVars == <<youtube, youtubeSort, live, older, nextItem>>
storeVars == <<stored, entries, base, revision, sort, unanswered, refused,
               recent, quotaSpent, nextEntry>>
vars == <<youtube, youtubeSort, live, older, nextItem,
          stored, entries, base, revision, sort, unanswered, refused, recent,
          quotaSpent, nextEntry, edited, retry, worker, seen, left, history>>

VideosOf(list) == [i \in DOMAIN list |-> list[i].video]

Idle == [pc |-> "idle", job |-> "none", read |-> <<>>, checked |-> <<>>,
         revision |-> 0, writes |-> <<>>, base |-> <<>>,
         outcome |-> "none", made |-> NoItem]

Init ==
    /\ youtube = [i \in DOMAIN StartVideos |-> [id |-> i, video |-> StartVideos[i]]]
    /\ youtubeSort = Manual
    /\ live = TRUE
    /\ older = {}
    /\ nextItem = Len(StartVideos) + 1
    /\ stored = TRUE
    /\ entries = [i \in DOMAIN StartVideos |-> Entry(i, StartVideos[i], i)]
    /\ base = Unplaced(youtube)
    /\ revision = 1
    /\ sort = Manual
    /\ unanswered = NoWrite
    /\ refused = "none"
    /\ recent = FALSE
    /\ quotaSpent = FALSE
    /\ nextEntry = Len(StartVideos) + 1
    /\ edited = FALSE
    /\ retry = FALSE
    /\ worker = Idle
    /\ seen = [c \in Clients |-> [revision |-> 0, videos |-> <<>>, forced |-> FALSE]]
    /\ left \in Scenarios
    /\ history = [made |-> {}, editedAway |-> {}, taken |-> {}, sinceBase |-> {}, sinceRead |-> {}]

Fault == /\ left.faults > 0
         /\ left' = [left EXCEPT !.faults = @ - 1]

-----------------------------------------------------------------------------
(* store.ReplaceOrder's entries: an entry keeps its id, a new one takes the *)
(* next.                                                                    *)
NewUpTo(list, i) == Cardinality({j \in 1..i : list[j].id = NewEntry})

(* New entries stored without an id of their own.                           *)
Unnumbered(list) == list

Numbered(list) ==
    [i \in DOMAIN list |->
        Entry(IF list[i].id = NewEntry THEN nextEntry + NewUpTo(list, i) - 1
              ELSE list[i].id,
              list[i].video, list[i].item)]

(* A revision that counts additions and removals alone.                     *)
RevisionOfMembers(list) ==
    IF Range(VideosOf(list)) = Range(VideosOf(entries)) THEN revision ELSE revision + 1

(* The revision counts each change to the videos.                           *)
NextRevision(list) ==
    IF VideosOf(list) = VideosOf(entries) THEN revision ELSE revision + 1

(* store.ReplaceOrder, of which any change releases the refused write.      *)
ReplaceOrder(list) ==
    /\ entries' = Numbered(list)
    /\ nextEntry' = nextEntry + NewUpTo(list, Len(list))
    /\ revision' = NextRevision(list)

ReleasedByOrder(list) == IF list = entries THEN refused ELSE "none"

(* store.ReplaceBase releases it when the items or their order change.       *)
ReleasedByBase(items, held) ==
    IF /\ ItemIds(items) = ItemIds(base)
       /\ VideosOf(items) = VideosOf(base)
    THEN held ELSE "none"

-----------------------------------------------------------------------------
(***************************************************************************)
(* Clients.                                                                *)
(***************************************************************************)

(* GET: the order with its revision as the ETag.                            *)
ClientRead(c) ==
    /\ stored /\ c \in left.clients
    /\ seen' = [seen EXCEPT ![c] = [revision |-> revision,
                                    videos |-> VideosOf(entries),
                                    forced |-> FALSE]]
    /\ UNCHANGED <<youtubeVars, storeVars, edited, retry, worker, left, history>>

(* Every video takes the first entry holding it.                            *)
FirstOf(videos, i) == 1

(* Which of the entries holding its video the i-th takes.                   *)
NthOf(videos, i) == Cardinality({j \in 1..i : videos[j] = videos[i]})

(* Each video takes the earliest entry holding it that no earlier video     *)
(* took, and a video no entry is left for takes a new entry.                *)
OrderedEntries(list, videos) ==
    LET holding(v) == Only(list, {e \in Range(list) : e.video = v})
    IN  [i \in DOMAIN videos |->
            IF NthOf(videos, i) <= Len(holding(videos[i]))
            THEN LET held == holding(videos[i])[NthOf(videos, i)]
                 IN  Entry(held.id, videos[i], held.item)
            ELSE Entry(NewEntry, videos[i], NoItem)]

EditedAway(old, new) ==
    {old[i] : i \in {j \in DOMAIN old : old[j].id \notin IdsOf(new)}}

(* An edit taken whatever its If-Match names.                               *)
AnyMatch(c, any) == TRUE

(* If-Match names the revision the client last saw, or any: "*".            *)
IfMatch(c, any) == any \/ seen[c].revision = revision

(* PUT of an order that is not the stored one.                              *)
ReplaceItems(c, videos, any) ==
    /\ stored
    /\ left.edits > 0 /\ c \in left.clients /\ videos \in left.orders
    /\ IfMatch(c, any)
    /\ videos # VideosOf(entries)
    /\ LET ordered == OrderedEntries(entries, videos)
       IN  /\ ReplaceOrder(ordered)
           /\ refused' = ReleasedByOrder(ordered)
           /\ history' = [history EXCEPT !.editedAway =
                                @ \cup EditedAway(entries, ordered)]
    /\ sort' = Manual
    /\ edited' = TRUE
    /\ seen' = [seen EXCEPT ![c] = [revision |-> revision', videos |-> videos,
                                    forced |-> any]]
    /\ left' = [left EXCEPT !.edits = @ - 1]
    /\ UNCHANGED <<youtubeVars, stored, base, unanswered, recent, quotaSpent,
                   retry, worker>>

(* DELETE of the playlist: YouTube drops it, and then so does the store.    *)
DeleteOnYouTube ==
    /\ left.delete /\ live /\ stored
    /\ live' = FALSE
    /\ youtube' = <<>>
    /\ older' = older \cup {youtube}
    /\ UNCHANGED <<youtubeSort, nextItem, storeVars, edited, retry, worker,
                   seen, left, history>>

DeleteStored ==
    /\ left.delete /\ ~live /\ stored
    /\ stored' = FALSE
    /\ UNCHANGED <<youtubeVars, entries, base, revision, sort, unanswered,
                   refused, recent, quotaSpent, nextEntry, edited, retry,
                   worker, seen, left, history>>

-----------------------------------------------------------------------------
(***************************************************************************)
(* The channel's owner, on YouTube.                                        *)
(***************************************************************************)

Owner(kind) ==
    /\ live
    /\ left.owner > 0
    /\ left' = [left EXCEPT !.owner = @ - 1]
    /\ history' = [history EXCEPT !.sinceBase = @ \cup {kind},
                                  !.sinceRead = @ \cup {kind}]
    /\ UNCHANGED <<live, older, storeVars, edited, retry, worker, seen>>

OwnerAdds(video, place) ==
    /\ Owner("add")
    /\ youtube' = InsertAt(youtube, place, [id |-> nextItem, video |-> video])
    /\ nextItem' = nextItem + 1
    /\ UNCHANGED youtubeSort

OwnerRemoves(place) ==
    /\ Owner("remove")
    /\ youtube' = RemoveAt(youtube, place)
    /\ UNCHANGED <<youtubeSort, nextItem>>

OwnerMoves(from, to) ==
    /\ Owner("move")
    /\ from # to
    /\ youtube' = InsertAt(RemoveAt(youtube, from), to, youtube[from])
    /\ UNCHANGED <<youtubeSort, nextItem>>

(* Turning the manual order off lets YouTube order the playlist, and on     *)
(* again keeps what YouTube made of it.                                     *)
OwnerSorts ==
    /\ left.sort
    /\ Owner("move")
    /\ youtubeSort' = IF youtubeSort = Manual THEN Automatic ELSE Manual
    /\ IF youtubeSort = Manual
       THEN youtube' \in {[i \in DOMAIN youtube |-> youtube[p[i]]] :
                            p \in {q \in [DOMAIN youtube -> DOMAIN youtube] :
                                        IsInjective(q)}}
       ELSE UNCHANGED youtube
    /\ UNCHANGED nextItem

OwnerEdits ==
    \/ \E v \in OwnerVideos, place \in 1..Len(youtube) + 1 : OwnerAdds(v, place)
    \/ \E place \in DOMAIN youtube : OwnerRemoves(place)
    \/ \E from, to \in DOMAIN youtube : OwnerMoves(from, to)
    \/ OwnerSorts

-----------------------------------------------------------------------------
(***************************************************************************)
(* The worker: the read.                                                   *)
(***************************************************************************)

(* What a read may return.                                                  *)
Readable == older \cup IF live THEN {youtube} ELSE {}

Job == IF edited THEN "edit" ELSE "other"

(* Only edits read, whatever else the sweep would reach.                    *)
TakesUpEdits == worker.pc = "idle" /\ stored /\ ~quotaSpent /\ edited

(* The sweep reaches the playlist at some tick, edited or not.              *)
TakesUp == worker.pc = "idle" /\ stored /\ ~quotaSpent

(* A write too recent for a read sent now to be sure to show it.            *)
ItemWritesSince == recent

Reading(content) ==
    /\ TakesUp /\ ~ItemWritesSince
    /\ edited' = FALSE
    /\ worker' = [Idle EXCEPT !.pc = "confirm", !.job = Job,
                              !.read = content, !.checked = base]
    /\ history' = [history EXCEPT !.sinceRead = {}]

TakeUp ==
    /\ \E content \in Readable : Reading(content)
    /\ UNCHANGED <<youtubeVars, storeVars, retry, seen, left>>

(* A read that spans pages misses an item while others shift between them.  *)
TakeUpMissing ==
    /\ left.miss
    /\ \E content \in Readable :
            \E place \in DOMAIN content : Reading(RemoveAt(content, place))
    /\ Fault
    /\ UNCHANGED <<youtubeVars, storeVars, retry, seen>>

(* The items were written within the lag of the read, which leaves them for *)
(* a later pass, an edit's being woken again.                               *)
TakeUpDeferred ==
    /\ TakesUp /\ ItemWritesSince /\ edited
    /\ edited' = FALSE
    /\ retry' = TRUE
    /\ UNCHANGED <<youtubeVars, storeVars, worker, seen, left, history>>

(* A read that fails is skipped, and an edit's is not woken again; one that *)
(* draws the quota refusal ends the pass.                                   *)
ReadFails ==
    /\ Fault
    /\ \/ UNCHANGED quotaSpent
       \/ quotaSpent' = TRUE
    /\ UNCHANGED <<youtubeVars, stored, entries, base, revision, sort,
                   unanswered, refused, recent, nextEntry, retry, seen, history>>

TakeUpFails ==
    /\ TakesUp /\ edited
    /\ edited' = FALSE
    /\ UNCHANGED worker
    /\ ReadFails

(* YouTube answers that it has no such playlist: deleteGone, which leaves   *)
(* one the API wrote within the lag for a later pass.                       *)
TakeUpNotYet ==
    /\ TakesUp /\ ~live /\ older # {} /\ edited
    /\ edited' = FALSE
    /\ retry' = TRUE
    /\ UNCHANGED <<youtubeVars, storeVars, worker, seen, left, history>>

TakeUpGone ==
    /\ TakesUp /\ ~live
    /\ edited' = FALSE
    /\ stored' = FALSE
    /\ UNCHANGED <<youtubeVars, entries, base, revision, sort, unanswered,
                   refused, recent, quotaSpent, nextEntry, retry, worker,
                   seen, left, history>>

(* A pass on a day that drew the quota refusal empties Edits and does no    *)
(* more.                                                                    *)
SpentPass ==
    /\ worker.pc = "idle" /\ quotaSpent /\ edited
    /\ edited' = FALSE
    /\ UNCHANGED <<youtubeVars, storeVars, retry, worker, seen, left, history>>

(* No item read again by id.                                                *)
TrustTheRead == {}

(* The items of the base the read lacks.                                    *)
Absent == IdsOf(worker.checked) \ IdsOf(worker.read)

(* Those of ids that a read by id finds.                                    *)
ExistingItems(ids, content) == ids \cap IdsOf(content)

ConfirmAbsences ==
    /\ worker.pc = "confirm"
    /\ \E content \in older \cup {youtube} :
            worker' = IF ExistingItems(Absent, content) = {}
                      THEN [worker EXCEPT !.pc = "merge"]
                      ELSE Idle
    /\ UNCHANGED <<youtubeVars, storeVars, edited, retry, seen, left, history>>

ConfirmFails ==
    /\ worker.pc = "confirm" /\ Absent # {}
    /\ worker' = Idle
    /\ UNCHANGED edited
    /\ ReadFails

-----------------------------------------------------------------------------
(***************************************************************************)
(* The worker: the merge, in one transaction, and the plan made from it.   *)
(***************************************************************************)

MergeResult == Merged(base, worker.read, entries, unanswered, sort)

(* The items taken for those of an unanswered insert whose entry is gone.   *)
TakenForLost ==
    LET made == LandedInsert(base, worker.read, entries, unanswered).madeHere
    IN  IF made = NoItem THEN {} ELSE {[entry |-> unanswered.entry, item |-> made]}

MergeInto ==
    /\ worker.pc = "merge"
    /\ stored /\ base = worker.checked
    /\ ReplaceOrder(MergeResult.entries)
    /\ base' = Unplaced(worker.read)
    /\ unanswered' = NoWrite
    /\ refused' = ReleasedByBase(Unplaced(worker.read),
                                 ReleasedByOrder(MergeResult.entries))
    /\ worker' = [Idle EXCEPT
                    !.pc = "push", !.job = worker.job,
                    !.revision = revision', !.base = Unplaced(worker.read),
                    !.writes = IF refused' = "today" THEN <<>>
                               ELSE PlanFor(sort, worker.read, entries')]
    /\ history' = [history EXCEPT !.sinceBase = history.sinceRead,
                                  !.taken = @ \cup TakenForLost]
    /\ UNCHANGED <<youtubeVars, stored, sort, recent, quotaSpent, edited, retry,
                   seen, left>>

(* The playlist was deleted, or its base moved, since the absences were     *)
(* confirmed.                                                               *)
MergeStops ==
    /\ worker.pc = "merge"
    /\ ~stored \/ base # worker.checked
    /\ worker' = Idle
    /\ UNCHANGED <<youtubeVars, storeVars, edited, retry, seen, left, history>>

-----------------------------------------------------------------------------
(***************************************************************************)
(* The worker: the push.                                                   *)
(***************************************************************************)

PushGoesOn ==
    /\ worker.writes # <<>>
    /\ worker.job = "edit" \/ ~edited
    /\ stored
    /\ revision = worker.revision

PushStops ==
    /\ worker.pc = "push" /\ ~PushGoesOn
    /\ worker' = Idle
    /\ UNCHANGED <<youtubeVars, storeVars, edited, retry, seen, left, history>>

(* The day's quota has no room for the next write beside its reserves, or   *)
(* an edit of another playlist waits.                                       *)
PushYields ==
    /\ worker.pc = "push" /\ worker.writes # <<>>
    /\ Fault
    /\ worker' = Idle
    /\ UNCHANGED <<youtubeVars, storeVars, edited, retry, seen, history>>

(* A write as its row gives it back: a move's names no video.               *)
Recorded(w) == [w EXCEPT !.video = IF w.kind = "move" THEN 0 ELSE @]

(* A write that does not hold back the next merge.                          *)
BeginWriteUndated ==
    /\ worker.pc = "push" /\ PushGoesOn
    /\ unanswered' = Recorded(Head(worker.writes))
    /\ worker' = [worker EXCEPT !.pc = "send"]
    /\ UNCHANGED <<youtubeVars, stored, entries, base, revision, sort, refused,
                   recent, quotaSpent, nextEntry, edited, retry, seen, left, history>>

(* The write is on record as the playlist's unanswered one before it is sent. *)
BeginWrite ==
    /\ worker.pc = "push" /\ PushGoesOn
    /\ unanswered' = Recorded(Head(worker.writes))
    /\ recent' = TRUE
    /\ worker' = [worker EXCEPT !.pc = "send"]
    /\ UNCHANGED <<youtubeVars, stored, entries, base, revision, sort, refused,
                   quotaSpent, nextEntry, edited, retry, seen, left, history>>

Sent == Head(worker.writes)

YouTubeAnswer ==
    CASE ~live -> "absent"
      [] live /\ Sent.kind \in {"delete", "move"} /\ ~HasItem(youtube, Sent.item) ->
            "absent"
      [] live /\ youtubeSort = Automatic /\ Sent.kind \in {"insert", "move"} ->
            "manual_sort_required"
      [] OTHER -> IF AcceptsPosition(youtube, Sent) THEN "applied" ELSE "refused"

Answered(outcome, made) ==
    worker' = [worker EXCEPT !.pc = "settle", !.outcome = outcome, !.made = made]

(* The write lands; in a playlist YouTube orders, an append lands anywhere. *)
Lands ==
    /\ YouTubeAnswer = "applied"
    /\ older' = older \cup {youtube}
    /\ IF Sent.kind \in {"insert", "append"}
       THEN /\ nextItem' = nextItem + 1
            /\ history' = [history EXCEPT !.made =
                            @ \cup {[entry |-> Sent.entry, item |-> nextItem]}]
       ELSE UNCHANGED <<nextItem, history>>
    /\ IF youtubeSort = Automatic /\ Sent.kind = "append"
       THEN \E place \in 1..Len(youtube) + 1 :
                youtube' = InsertAt(youtube, place,
                                    [id |-> nextItem, video |-> Sent.video])
       ELSE youtube' = Performed(youtube, Sent, nextItem)
    /\ UNCHANGED <<youtubeSort, live>>

SendApplied ==
    /\ worker.pc = "send"
    /\ Lands
    /\ Answered("applied", IF Sent.kind \in {"insert", "append"} THEN nextItem
                           ELSE NoItem)
    /\ UNCHANGED <<storeVars, edited, retry, seen, left>>

SendDeclined ==
    /\ worker.pc = "send"
    /\ YouTubeAnswer # "applied"
    /\ Answered(YouTubeAnswer, NoItem)
    /\ UNCHANGED <<youtubeVars, storeVars, edited, retry, seen, left, history>>

(* No answer arrives in time, whether or not the write landed.              *)
SendLost ==
    /\ worker.pc = "send"
    /\ Fault
    /\ Lands \/ UNCHANGED <<youtubeVars, history>>
    /\ Answered("unanswered", NoItem)
    /\ UNCHANGED <<storeVars, edited, retry, seen>>

(* YouTube refuses the video, the write, or any more units today.           *)
SendRefused ==
    /\ worker.pc = "send"
    /\ Fault
    /\ \/ Sent.kind \in {"insert", "append"} /\ Answered("video_refused", NoItem)
       \/ Answered("refused", NoItem)
       \/ Answered("quota_spent", NoItem)
    /\ UNCHANGED <<youtubeVars, storeVars, edited, retry, seen, history>>

-----------------------------------------------------------------------------
(***************************************************************************)
(* The worker: the settlement, in one transaction.                         *)
(***************************************************************************)

Did == worker.outcome = "applied"
         \/ (worker.outcome = "absent" /\ Sent.kind = "delete")

NextBase == Applied(worker.base, Sent, worker.made)

(* store.SetEntryItem, which changes nothing once the entry is gone.        *)
WithItem(list, entry, made) ==
    [i \in DOMAIN list |-> IF list[i].id = entry
                           THEN Entry(entry, list[i].video, made) ELSE list[i]]

NextWrite == [worker EXCEPT !.pc = "push", !.writes = Tail(@), !.base = NextBase,
                            !.outcome = "none", !.made = NoItem]

Settling == worker.pc = "settle" /\ stored

(* A write left unanswered once answered.                                   *)
StillUnanswered == unanswered

(* Only a write YouTube did not answer stays the unanswered one.            *)
Unanswered == IF worker.outcome = "unanswered" THEN unanswered ELSE NoWrite

(* The write did what the plan expects, and the push goes on.               *)
SettleDone ==
    /\ Settling /\ Did
    /\ base' = NextBase
    /\ refused' = ReleasedByBase(NextBase, refused)
    /\ entries' = IF worker.made = NoItem THEN entries
                  ELSE WithItem(entries, Sent.entry, worker.made)
    /\ unanswered' = Unanswered
    /\ recent' = TRUE
    /\ worker' = NextWrite
    /\ UNCHANGED <<youtubeVars, stored, revision, sort, quotaSpent, nextEntry,
                   edited, retry, seen, left, history>>

(* dropEntry: a video YouTube refuses to add leaves the server's order.     *)
SettleVideoRefused ==
    /\ Settling /\ worker.outcome = "video_refused"
    /\ LET kept == RemoveFirstMatch(entries, LAMBDA e : e.id = Sent.entry)
       IN  /\ ReplaceOrder(kept)
           /\ refused' = ReleasedByOrder(kept)
           /\ history' = [history EXCEPT !.editedAway =
                                @ \cup EditedAway(entries, kept)]
    /\ unanswered' = Unanswered
    /\ recent' = TRUE
    /\ worker' = Idle
    /\ UNCHANGED <<youtubeVars, stored, base, sort, quotaSpent, edited, retry,
                   seen, left>>

(* Any other answer ends the push: YouTube orders the playlist itself, it   *)
(* refuses the write or the day's units, or the target is gone.             *)
SettleDeclined ==
    /\ Settling /\ ~Did
    /\ worker.outcome \in {"manual_sort_required", "refused", "quota_spent", "absent"}
    /\ sort' = IF worker.outcome = "manual_sort_required" THEN Automatic ELSE sort
    /\ refused' = IF worker.outcome = "refused" THEN "today" ELSE refused
    /\ quotaSpent' = (quotaSpent \/ worker.outcome = "quota_spent")
    /\ unanswered' = Unanswered
    /\ recent' = TRUE
    /\ worker' = Idle
    /\ UNCHANGED <<youtubeVars, stored, entries, base, revision, nextEntry,
                   edited, retry, seen, left, history>>

(* The write stays unanswered, for the next merge to account for.           *)
SettleUnanswered ==
    /\ Settling /\ worker.outcome = "unanswered"
    /\ unanswered' = Unanswered
    /\ recent' = TRUE
    /\ worker' = Idle
    /\ UNCHANGED <<youtubeVars, stored, entries, base, revision, sort, refused,
                   quotaSpent, nextEntry, edited, retry, seen, left, history>>

(* The API deleted the playlist while the write was sent.                   *)
SettleGone ==
    /\ worker.pc = "settle" /\ ~stored
    /\ worker' = IF Did THEN NextWrite ELSE Idle
    /\ quotaSpent' = (quotaSpent \/ worker.outcome = "quota_spent")
    /\ UNCHANGED <<youtubeVars, stored, entries, base, revision, sort,
                   unanswered, refused, recent, nextEntry, edited, retry, seen,
                   left, history>>

(* The store does not take the settlement, which ends the pass.             *)
SettleFails ==
    /\ worker.pc = "settle"
    /\ Fault
    /\ worker' = Idle
    /\ UNCHANGED <<youtubeVars, storeVars, edited, retry, seen, history>>

-----------------------------------------------------------------------------
(***************************************************************************)
(* Time, and the process.                                                  *)
(***************************************************************************)

(* ReadLag passes with no write in flight.  ReadWindow shows why a read     *)
(* ItemWritesSince does not hold back shows every write.                    *)
LagPasses ==
    /\ worker.pc \notin {"send", "settle"}
    /\ recent \/ older # {}
    /\ recent' = FALSE
    /\ older' = {}
    /\ UNCHANGED <<youtube, youtubeSort, live, nextItem, stored, entries, base,
                   revision, sort, unanswered, refused, quotaSpent, nextEntry,
                   edited, retry, worker, seen, left, history>>

(* logged's time.AfterFunc.                                                 *)
RetryFires ==
    /\ retry
    /\ retry' = FALSE
    /\ edited' = TRUE
    /\ UNCHANGED <<youtubeVars, storeVars, worker, seen, left, history>>

(* Midnight Pacific.                                                        *)
DayPasses ==
    /\ refused = "today" \/ quotaSpent
    /\ refused' = IF refused = "today" THEN "earlier" ELSE refused
    /\ quotaSpent' = FALSE
    /\ UNCHANGED <<youtubeVars, stored, entries, base, revision, sort,
                   unanswered, recent, nextEntry, edited, retry, worker, seen,
                   left, history>>

(* The process stops, and starts again with what the store holds.           *)
Crash ==
    /\ worker.pc # "idle" \/ edited \/ retry
    /\ Fault
    /\ worker' = Idle
    /\ edited' = FALSE
    /\ retry' = FALSE
    /\ UNCHANGED <<youtubeVars, storeVars, seen, history>>

-----------------------------------------------------------------------------
ClientActions ==
    \/ \E c \in Clients : ClientRead(c)
    \/ \E c \in Clients, videos \in Orders, any \in BOOLEAN :
            ReplaceItems(c, videos, any)
    \/ DeleteOnYouTube
    \/ DeleteStored

WorkerActions ==
    \/ TakeUp \/ TakeUpDeferred \/ TakeUpNotYet \/ TakeUpGone \/ SpentPass
    \/ ConfirmAbsences
    \/ MergeInto \/ MergeStops
    \/ PushStops \/ BeginWrite
    \/ SendApplied \/ SendDeclined
    \/ SettleDone \/ SettleVideoRefused \/ SettleDeclined
    \/ SettleUnanswered \/ SettleGone

Faults ==
    \/ TakeUpMissing \/ TakeUpFails \/ ConfirmFails
    \/ PushYields
    \/ SendLost \/ SendRefused
    \/ SettleFails
    \/ Crash

Next ==
    \/ ClientActions
    \/ OwnerEdits
    \/ WorkerActions
    \/ Faults
    \/ LagPasses \/ RetryFires \/ DayPasses

Phases == {"idle", "confirm", "merge", "push", "send", "settle"}

Spec == Init /\ [][Next]_vars

(* The worker waits for nothing but the next tick and time passes; nobody   *)
(* has to edit, retry or fail.  Outside "idle" some action of the worker is *)
(* enabled whatever the others do, so that it leaves every phase is weak    *)
(* fairness of those actions.                                               *)
Fairness ==
    /\ \A phase \in Phases \ {"idle"} : []<>(worker.pc # phase)
    /\ WF_vars(TakeUp \/ TakeUpDeferred \/ TakeUpNotYet \/ TakeUpGone \/ SpentPass)
    /\ WF_vars(LagPasses)
    /\ WF_vars(DayPasses)

FairSpec == Spec /\ Fairness

-----------------------------------------------------------------------------
(***************************************************************************)
(* Properties.                                                             *)
(***************************************************************************)

Injective(f) == \A i, j \in DOMAIN f : f[i] = f[j] => i = j
HoldOneEach(list) ==
    \A i, j \in DOMAIN list : list[i].item = list[j].item /\ i # j => list[i].item = NoItem

TypeOK ==
    /\ \A i \in DOMAIN youtube : youtube[i].id \in 1..nextItem - 1
    /\ youtubeSort \in {Manual, Automatic} /\ sort \in {Manual, Automatic}
    /\ {live, stored, recent, quotaSpent, edited, retry} \subseteq BOOLEAN
    /\ \A i \in DOMAIN entries : /\ entries[i].id \in 1..nextEntry - 1
                                 /\ entries[i].video \in Videos
                                 /\ entries[i].item \in 0..nextItem - 1
    /\ revision \in Nat
    /\ refused \in {"none", "today", "earlier"}
    /\ worker.pc \in Phases

(* An entry never holds an item the base does not, nor two entries one: so  *)
(* the count of pending writes /sync/status reports from the base plans     *)
(* only moves of items it knows (standing.go:40-85), and merge.go:132-134   *)
(* never makes an entry whose video was pushed wait to be pushed again.     *)
EntriesHoldBaseItems ==
    stored => /\ HeldBy(entries) \subseteq IdsOf(base)
              /\ HoldOneEach(entries)
              /\ Injective(ItemIds(entries))

(* A video is not added to YouTube twice for one entry, whatever answer is  *)
(* lost, whenever the process stops and whatever is edited meanwhile        *)
(* (push_test.go:194).  A read that misses the item of an unanswered insert *)
(* is the one way to it, so the runs that check this let no read miss one.  *)
NoDoubleAdd ==
    \A a, b \in history.made :
        a.entry = b.entry /\ a.item # b.item =>
            ~(HasItem(youtube, a.item) /\ HasItem(youtube, b.item))

(* The push deletes an item only because an edit here removed its entry, or *)
(* the entry it was inserted for, or because the merge took it for the item *)
(* of an unanswered insert whose entry an edit removed.  An item the owner  *)
(* added is never deleted for being unknown to a stale merge.               *)
DeletesOnlyEdits ==
    worker.pc = "send" /\ Sent.kind = "delete" =>
        \E e \in history.editedAway :
            \/ e.item = Sent.item
            \/ [entry |-> e.id, item |-> Sent.item] \in history.made \cup history.taken

(* A merge drops an entry only when YouTube no longer has its item: neither *)
(* a read within the lag of a write nor one that missed an item drops what  *)
(* a client ordered.                                                        *)
MergeDropsOnlyGone ==
    [][worker.pc = "merge" /\ worker'.pc = "push" =>
        \A e \in EditedAway(entries, entries') : ~HasItem(youtube, e.item)]_vars

(* The merge takes YouTube's order of a playlist sorted by hand only after  *)
(* the owner moved something there: where a push write landed, shifted by   *)
(* whatever the owner added or removed meanwhile, answered or not, is never *)
(* taken for a reorder (merge.go:244-248).                                  *)
OrderOnlyFromOwner ==
    [][worker.pc = "merge" /\ worker'.pc = "push"
            /\ sort = Manual /\ "move" \notin history.sinceBase =>
        LET both == IdsOf(entries) \cap IdsOf(entries')
        IN  Only(ItemIds(entries), both) = Only(ItemIds(entries'), both)]_vars

(* While the owner does nothing and no write is unanswered, the base is     *)
(* what YouTube holds, so what /sync/status counts as pending is what a     *)
(* push would write.                                                        *)
BaseIsYouTube ==
    stored /\ live /\ unanswered = NoWrite /\ history.sinceBase = {} =>
        IF youtubeSort = Manual THEN ItemIds(base) = ItemIds(youtube)
        ELSE IdsOf(base) = IdsOf(youtube) /\ Len(base) = Len(youtube)

(* An ETag still current names the order its client saw, so an edit made    *)
(* with it replaces nothing the client did not see.                         *)
SeenIsCurrent ==
    \A c \in Clients :
        /\ seen[c].revision <= revision
        /\ seen[c].revision = revision => seen[c].videos = VideosOf(entries)

(* A write is on record as the unanswered one, and recent enough to hold    *)
(* back a merge, from before it is sent until its answer is stored: so      *)
(* wherever the process stops, the next merge accounts for what it sent.    *)
WriteOnRecord ==
    worker.pc \in {"send", "settle"} /\ stored =>
        unanswered = Recorded(Sent) /\ recent

(* The revision counts the changes to the order's videos and nothing else,  *)
(* and an edit made at a client's ETag replaces exactly the order that      *)
(* client saw: VersionedOrder is what the API promises.                     *)
Versioned == INSTANCE VersionedOrder
                WITH order <- VideosOf(entries), received <- seen,
                     StartOrder <- StartVideos

ImplementsVersionedOrder == Versioned!Spec

(* Once edits and faults stop, YouTube comes to hold the server's order, or *)
(* the store drops a playlist YouTube no longer has.                        *)
InStep ==
    stored => live /\ ItemIds(youtube) = [i \in DOMAIN entries |-> entries[i].item]

Converges == <>[]InStep
=============================================================================
