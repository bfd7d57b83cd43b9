------------------------------ MODULE Library ------------------------------
(***************************************************************************)
(* What a person has heard and said of the library: plays and ratings      *)
(* (api/handlers/plays.go, ratings.go), the clients that make, delete and  *)
(* list them (cli/internal/cli/plays.go, rate.go, cli/internal/api), and a *)
(* playback that records what it plays (cli/internal/cli/play.go,          *)
(* listen.go).  A request is one transaction of the server; one whose      *)
(* client gave up on it may still reach the server later.                  *)
(* An id is the number of ids made before it: version 7 UUIDs sort by time.*)
(***************************************************************************)
EXTENDS Integers, Sequences, SequencesExt, FiniteSets

CONSTANTS
    Users,
    Videos, Library,        \* what can be played, and what of it is stored
    Tails, TailOf(_),       \* the last characters of an id
    PageSize,               \* the most rows a page holds
    ClockSkew,
    Scenarios               \* what the store holds at first, and how often
                            \* what a person, the time and the network do
                            \* may happen

ASSUME LibraryAssumption ==
    /\ Library \subseteq Videos
    /\ PageSize \in Nat \ {0} /\ ClockSkew \in Nat
    /\ \A s \in Scenarios :        \* ids and handles are given from 1 up
        /\ s.clock \in Nat
        /\ \A id \in DOMAIN s.plays : s.plays[id].ts \in Int
        /\ \A id \in DOMAIN s.ratings : s.ratings[id].ts \in Int
        /\ \E n \in 0..Cardinality(DOMAIN s.plays \cup DOMAIN s.ratings) :
                DOMAIN s.plays \cup DOMAIN s.ratings = 1..n
        /\ \E n \in 0..Cardinality(DOMAIN s.plays) : {s.plays[id].handle : id \in DOMAIN s.plays} = 1..n
        /\ \A id, other \in DOMAIN s.plays :
                s.plays[id].handle = s.plays[other].handle => id = other

VARIABLES
    plays, deleted,         \* by id, and what is kept of those deleted
    ratings,                \* by id
    clock,
    made,                   \* how many ids were made
    late,                   \* requests nobody waits for any more
    player,                 \* the playback
    asking,                 \* each user's `ypl plays delete`
    listing,                \* a `ypl plays list` or `ypl ratings list`
    left,                   \* of the scenario
    history                 \* for the properties: what no code keeps

vars == <<plays, deleted, ratings, clock, made, late, player, asking, listing,
          left, history>>

NewId == made + 1
Arrival == -1               \* a request that names no time of its own

NoPlayer == [pc |-> "idle", queue |-> {}, counted |-> {}, pending |-> <<>>,
             todo |-> {}, stored |-> {}, unsent |-> {},
             sent |-> {}]       \* for the properties: <<video, id>> of each attempt

(* What a person types is an id, or digits that may be a handle, the tail of *)
(* an id, or both.                                                          *)
TheId(id) == [ids |-> {id}, handles |-> {}, tails |-> {}]
References ==
    {TheId(id) : id \in 1..made} \cup
    {[ids |-> {}, handles |-> h, tails |-> t] : h \in {{}} \cup {{n} : n \in 1..made},
                                               t \in {{}} \cup {{tail} : tail \in Tails}}

NotAsking == [pc |-> "idle", ref |-> TheId(0), shown |-> 0, took |-> 0]
NotListing == [pc |-> "idle", kind |-> "plays", of |-> {}, limit |-> 0, rows |-> <<>>,
               more |-> FALSE, before |-> {}]

Init ==
    /\ left \in Scenarios
    /\ plays = left.plays /\ ratings = left.ratings /\ deleted = {}
    /\ made = Cardinality(DOMAIN plays \cup DOMAIN ratings)
    /\ clock = left.clock
    /\ late = {}
    /\ player = NoPlayer
    /\ asking = [u \in Users |-> NotAsking]
    /\ listing = NotListing
    /\ history = [named |-> {<<plays[id].handle, id>> : id \in DOMAIN plays},
                  removed |-> {}]       \* the ids of plays deleted

May(what) == left[what] > 0 /\ left' = [left EXCEPT ![what] = @ - 1]

Row(table, id) == [id |-> id, ts |-> table[id].ts]

-----------------------------------------------------------------------------
(***************************************************************************)
(* The store's queries.                                                    *)
(***************************************************************************)
PlayHandles == {plays[id].handle : id \in DOMAIN plays}
TakenHandles == PlayHandles \cup {d.handle : d \in deleted}

After(handles) == IF handles = {} THEN 1 ELSE Max(handles) + 1

NextPlayHandle == After(PlayHandles)
NextHandle == After(TakenHandles)

(* ON CONFLICT (play_id) DO NOTHING                                         *)
InsertPlay(id, video, ts) ==
    plays' = [i \in DOMAIN plays \cup {id} |->
                IF i \in DOMAIN plays THEN plays[i]
                ELSE [handle |-> NextHandle, video |-> video, ts |-> ts]]

GetPlay(id) == {id} \cap DOMAIN plays
GetPlayByHandle(handle) == {id \in DOMAIN plays : plays[id].handle = handle}
ListPlaysByTail(tail) == {id \in DOMAIN plays : TailOf(id) = tail}

IsPlayDeleted(id) == \E d \in deleted : d.id = id

KeepDeletedPlay(id) == deleted' = deleted \cup {[id |-> id, handle |-> plays[id].handle]}
DeletePlay(id) == plays' = [i \in DOMAIN plays \ {id} |-> plays[i]]

InsertRating(id, video, ts) ==
    ratings' = [i \in DOMAIN ratings \cup {id} |->
                  IF i \in DOMAIN ratings THEN ratings[i] ELSE [video |-> video, ts |-> ts]]
DeleteRating(id) == ratings' = [i \in DOMAIN ratings \ {id} |-> ratings[i]]
ListRatingIDsEndingWith(tail) == {id \in DOMAIN ratings : TailOf(id) = tail}

(* The rows of a list that follow a row of it, newest first.                *)
Newer(a, b) == a.ts > b.ts \/ (a.ts = b.ts /\ a.id > b.id)
NewerByTime(a, b) == a.ts > b.ts

FollowsByTime(cursor, row) == NewerByTime(cursor, row)
Follows(cursor, row) == Newer(cursor, row)

ListPlaysBefore(cursor) == {row \in {Row(plays, id) : id \in DOMAIN plays} : Follows(cursor, row)}
ListNewestPlays == {Row(plays, id) : id \in DOMAIN plays}
ListRatings(of, cursors) ==
    {row \in {Row(ratings, id) : id \in {i \in DOMAIN ratings : ratings[i].video \in of}} :
        \A cursor \in cursors : Follows(cursor, row)}

(* The videos of the library by when they were last played, never first:    *)
(* what a draw of n of them may hold.                                       *)
LastPlayed(video) == Max({-1} \cup {plays[id].ts : id \in {i \in DOMAIN plays : plays[i].video = video}})
ListSuggestions(n) ==
    {draw \in SUBSET Library :
        /\ Cardinality(draw) = (IF Cardinality(Library) < n THEN Cardinality(Library) ELSE n)
        /\ \A v \in draw, w \in Library \ draw : LastPlayed(v) <= LastPlayed(w)}

-----------------------------------------------------------------------------
(***************************************************************************)
(* The server's handlers.                                                  *)
(***************************************************************************)

(* createPlay: what a play sent at a time of its own, or none, is answered. *)
PlayAnswer(id, video, at) ==
    IF at > clock + ClockSkew THEN "played_ts_in_the_future"
    ELSE IF video \notin Library THEN "video_not_stored"
    ELSE IF IsPlayDeleted(id) THEN "play_deleted"
    ELSE IF id \notin DOMAIN plays THEN "created"
    ELSE IF plays[id].video # video \/ at \notin {Arrival, plays[id].ts} THEN "play_conflict"
    ELSE "stored"

CreatePlay(id, video, at) ==
    IF PlayAnswer(id, video, at) = "created"
    THEN /\ InsertPlay(id, video, IF at = Arrival THEN clock ELSE at)
         /\ history' = [history EXCEPT !.named = @ \cup {<<NextHandle, id>>}]
    ELSE UNCHANGED <<plays, history>>

(* resolvePlay: the plays a reference names, which must be one.             *)
Named(ref) ==
    (UNION {GetPlay(id) : id \in ref.ids})
    \cup (UNION {GetPlayByHandle(handle) : handle \in ref.handles})
    \cup (UNION {ListPlaysByTail(tail) : tail \in ref.tails})

(* showPlay: the one play a reference names, if it does.                    *)
ShowPlay(ref) == {id \in Named(ref) : Named(ref) = {id}}

(* deletePlay.  One already deleted is answered as deleted.                 *)
DeleteNamed(id) ==
    /\ KeepDeletedPlay(id) /\ DeletePlay(id)
    /\ history' = [history EXCEPT !.removed = @ \cup {id}]

DeletePlayNamed(ref) ==
    IF ShowPlay(ref) # {} THEN \E id \in ShowPlay(ref) : DeleteNamed(id)
    ELSE UNCHANGED <<plays, deleted, history>>

CreateRating(id, video) ==
    IF video \in Library THEN InsertRating(id, video, clock) ELSE UNCHANGED ratings

DeleteRatingNamed(tail) ==
    \E id \in ListRatingIDsEndingWith(tail) :
        ListRatingIDsEndingWith(tail) = {id} /\ DeleteRating(id)

-----------------------------------------------------------------------------
(***************************************************************************)
(* A playback: `ypl play`.                                                 *)
(***************************************************************************)

(* A draw of the library, or a playlist of it; and, by --mpv, anything.     *)
Plays(queue) ==
    /\ player.pc = "idle" /\ May("playbacks")
    /\ player' = [NoPlayer EXCEPT !.pc = "playing", !.queue = queue]
    /\ UNCHANGED <<plays, deleted, ratings, clock, made, late, asking, listing, history>>

PlaysSome ==
    \/ \E n \in 1..Cardinality(Library) : \E queue \in ListSuggestions(n) : Plays(queue)
    \/ Plays(Videos)

(* A tick on which a video has been heard long enough, once in a playback:  *)
(* observe, and the id its play is sent under.                              *)
Counts(video) ==
    /\ player.pc = "playing" /\ player.todo = {}
    /\ video \in player.queue \ player.counted
    /\ LET pending == [v \in DOMAIN player.pending \cup {video} |->
                         IF v = video THEN NewId ELSE player.pending[v]]
       IN  player' = [player EXCEPT !.counted = @ \cup {video}, !.pending = pending,
                                    !.todo = DOMAIN pending]
    /\ made' = NewId
    /\ UNCHANGED <<plays, deleted, ratings, clock, late, asking, listing, left, history>>

(* A tick on which none has, which sends again what is pending.             *)
Resends ==
    /\ player.pc = "playing" /\ player.todo = {} /\ DOMAIN player.pending # {}
    /\ player' = [player EXCEPT !.todo = DOMAIN player.pending]
    /\ UNCHANGED <<plays, deleted, ratings, clock, made, late, asking, listing, left, history>>

(* The id a pending play is sent under.                                     *)
IdMadeNow(video) == NewId
IdSent(video) == player.pending[video]

NotPending(video) == [v \in DOMAIN player.pending \ {video} |-> player.pending[v]]

(* One attempt, answered.                                                   *)
Sent(video) ==
    /\ player.pc \in {"playing", "flush"} /\ video \in player.todo
    /\ CreatePlay(IdSent(video), video, Arrival)
    /\ LET answer == PlayAnswer(IdSent(video), video, Arrival)
       IN  player' = [player EXCEPT !.todo = @ \ {video},
                !.sent = @ \cup {<<video, IdSent(video)>>},
                !.stored = IF answer \in {"created", "stored"} THEN @ \cup {video} ELSE @,
                !.pending = IF answer \in {"created", "stored", "play_deleted"}
                            THEN NotPending(video) ELSE @]
    /\ UNCHANGED <<deleted, ratings, clock, made, late, asking, listing, left>>

(* One attempt whose answer did not come within its bound: it was made, is  *)
(* under way, or never got there.                                           *)
SentUnanswered(video) ==
    /\ player.pc \in {"playing", "flush"} /\ video \in player.todo
    /\ May("faults")
    /\ late' = late \cup {[op |-> "play", id |-> IdSent(video), video |-> video]}
    /\ player' = [player EXCEPT !.todo = @ \ {video},
                                !.sent = @ \cup {<<video, IdSent(video)>>}]
    /\ UNCHANGED <<plays, deleted, ratings, clock, made, asking, listing, history>>

(* mpv exits, or the terminal is interrupted: what is still to send is sent *)
(* once more.  A request cut off by it is SentUnanswered.                   *)
Exits ==
    /\ player.pc = "playing"
    /\ player' = [player EXCEPT !.pc = "flush", !.todo = DOMAIN player.pending]
    /\ UNCHANGED <<plays, deleted, ratings, clock, made, late, asking, listing, left, history>>

Reports ==
    /\ player.pc = "flush" /\ player.todo = {}
    /\ player' = [player EXCEPT !.pc = "done", !.unsent = DOMAIN player.pending]
    /\ UNCHANGED <<plays, deleted, ratings, clock, made, late, asking, listing, left, history>>

-----------------------------------------------------------------------------
(***************************************************************************)
(* The other commands.                                                     *)
(***************************************************************************)

(* `ypl plays add`, whose id is new; and a client of the API that sends an  *)
(* earlier id again, with a time of its own.                                *)
Adds(id, video, at) ==
    /\ May("adds")
    /\ CreatePlay(id, video, at)
    /\ made' = IF id = NewId THEN NewId ELSE made
    /\ UNCHANGED <<deleted, ratings, clock, late, player, asking, listing>>

AddsSome ==
    \/ \E video \in Videos : Adds(NewId, video, Arrival)
    \/ \E id \in DOMAIN plays \cup {d.id : d \in deleted}, video \in Library,
          at \in {Arrival} \cup 0..(clock + ClockSkew + 1) : Adds(id, video, at)

(* `ypl plays delete` asks about the play its reference names, and deletes  *)
(* that one by its id.                                                      *)
Asks(u, ref) ==
    /\ asking[u].pc # "asked" /\ May("deletes")
    /\ \E id \in ShowPlay(ref) :
            asking' = [asking EXCEPT ![u] = [pc |-> "asked", ref |-> ref, shown |-> id, took |-> 0]]
    /\ UNCHANGED <<plays, deleted, ratings, clock, made, late, player, listing, history>>

DeleteByReference(u) == asking[u].ref
DeleteBy(u) == TheId(asking[u].shown)

Confirms(u) ==
    /\ asking[u].pc = "asked"
    /\ DeletePlayNamed(DeleteBy(u))
    /\ asking' = [asking EXCEPT ![u] =
            [pc |-> "answered", ref |-> @.ref, shown |-> @.shown,
             took |-> IF DOMAIN plays' = DOMAIN plays THEN 0
                      ELSE CHOOSE id \in DOMAIN plays : id \notin DOMAIN plays']]
    /\ UNCHANGED <<ratings, clock, made, late, player, listing, left>>

ConfirmsUnanswered(u) ==
    /\ asking[u].pc = "asked" /\ May("faults")
    /\ late' = late \cup {[op |-> "delete", id |-> asking[u].shown]}
    /\ asking' = [asking EXCEPT ![u] = NotAsking]
    /\ UNCHANGED <<plays, deleted, ratings, clock, made, player, listing, history>>

Declines(u) ==
    /\ asking[u].pc = "asked"
    /\ asking' = [asking EXCEPT ![u] = NotAsking]
    /\ UNCHANGED <<plays, deleted, ratings, clock, made, late, player, listing, left, history>>

(* A request whose client gave up on it.                                    *)
Lands(r) ==
    /\ late' = late \ {r}
    /\ IF r.op = "play"
       THEN CreatePlay(r.id, r.video, Arrival) /\ deleted' = deleted
       ELSE DeletePlayNamed(TheId(r.id))
    /\ UNCHANGED <<ratings, clock, made, player, asking, listing, left>>

(* `ypl rate`, and `ypl ratings delete`, whose reference is a tail.         *)
Rates(video) ==
    /\ May("rates")
    /\ CreateRating(NewId, video)
    /\ made' = NewId
    /\ UNCHANGED <<plays, deleted, clock, late, player, asking, listing, history>>

DeletesRating(tail) ==
    /\ May("deletes")
    /\ DeleteRatingNamed(tail)
    /\ UNCHANGED <<plays, deleted, clock, made, late, player, asking, listing, history>>

-----------------------------------------------------------------------------
(***************************************************************************)
(* A list, read page by page.                                              *)
(***************************************************************************)
Table == IF listing.kind = "plays" THEN plays ELSE ratings
Held(kind, of) ==
    IF kind = "plays" THEN DOMAIN plays
    ELSE {id \in DOMAIN ratings : ratings[id].video \in of}

Lists(kind, of, limit) ==
    /\ listing.pc # "reading" /\ May("lists")
    /\ listing' = [NotListing EXCEPT !.pc = "reading", !.kind = kind, !.of = of,
                                     !.limit = limit, !.before = Held(kind, of)]
    /\ UNCHANGED <<plays, deleted, ratings, clock, made, late, player, asking, history>>

ListsSome ==
    \E limit \in 1..3 :
        \/ Lists("plays", Videos, limit)
        \/ \E of \in {Videos} \cup {{v} : v \in Library} : Lists("ratings", of, limit)

(* ORDER BY ts DESC, id DESC                                                *)
NewestFirst(rows) ==
    CHOOSE list \in [1..Cardinality(rows) -> rows] :
        \A i, j \in DOMAIN list : i < j => Newer(list[i], list[j])

(* pageOf: the first limit of rows, and whether more follow.                *)
PageOf(rows, limit) ==
    LET sorted == NewestFirst(rows)
    IN  [data |-> SubSeq(sorted, 1, IF limit < Len(sorted) THEN limit ELSE Len(sorted)),
         more |-> Len(sorted) > limit]

Cursors == IF listing.rows = <<>> THEN {} ELSE {Last(listing.rows)}

ListedRows ==
    IF listing.kind = "ratings" THEN ListRatings(listing.of, Cursors)
    ELSE IF Cursors = {} THEN ListNewestPlays
    ELSE UNION {ListPlaysBefore(cursor) : cursor \in Cursors}

(* collect: one page more, after the last row read.                         *)
ReadsPage ==
    /\ listing.pc = "reading"
    /\ \A cursor \in Cursors : cursor.id \in DOMAIN Table
    /\ LET wanted == listing.limit - Len(listing.rows)
           page == PageOf(ListedRows, IF wanted < PageSize THEN wanted ELSE PageSize)
           rows == listing.rows \o page.data
       IN  listing' = [listing EXCEPT !.rows = rows, !.more = page.more,
                        !.pc = IF page.more /\ Len(rows) < listing.limit
                               THEN "reading" ELSE "listed"]
    /\ UNCHANGED <<plays, deleted, ratings, clock, made, late, player, asking, left, history>>

(* The row the next page follows was deleted: the list is refused.          *)
LosesCursor ==
    /\ listing.pc = "reading"
    /\ \E cursor \in Cursors : cursor.id \notin DOMAIN Table
    /\ listing' = NotListing
    /\ UNCHANGED <<plays, deleted, ratings, clock, made, late, player, asking, left, history>>

-----------------------------------------------------------------------------
SecondPasses ==
    /\ May("seconds")
    /\ clock' = clock + 1
    /\ UNCHANGED <<plays, deleted, ratings, made, late, player, asking, listing, history>>

Playback ==
    \/ PlaysSome \/ Resends \/ Exits \/ Reports
    \/ \E video \in Videos : Counts(video) \/ Sent(video) \/ SentUnanswered(video)

Commands ==
    \/ AddsSome
    \/ \E u \in Users :
        \/ \E ref \in References : Asks(u, ref)
        \/ Confirms(u) \/ ConfirmsUnanswered(u) \/ Declines(u)
    \/ \E video \in Videos : Rates(video)
    \/ \E tail \in Tails : DeletesRating(tail)

Listing == ListsSome \/ ReadsPage \/ LosesCursor

Next == Playback \/ Commands \/ Listing \/ (\E r \in late : Lands(r)) \/ SecondPasses

Spec == Init /\ [][Next]_vars

-----------------------------------------------------------------------------
(* The short handle a play was given, which a person types, names that play *)
(* and no other for good, and a play that was deleted does not come back,   *)
(* under whatever request that was under way or is sent again.              *)
PlayNamesForGood ==
    /\ \A a, b \in history.named : a[1] = b[1] <=> a[2] = b[2]
    /\ history.removed \cap DOMAIN plays = {}

(* `ypl plays delete` deletes the play it showed or none, whatever its      *)
(* reference has come to name by the time the person answers.               *)
DeletesWhatWasShown ==
    \A u \in Users : asking[u].took \in {0, asking[u].shown}

EverStored(id) == id \in DOMAIN plays \/ IsPlayDeleted(id)

(* A listen is stored once, however often it was sent and whatever became   *)
(* of its answers, and one that is not stored by the end of the playback is *)
(* named to the person.                                                     *)
ListensKeptOnce ==
    \A video \in player.counted :
        LET kept == {s \in player.sent : s[1] = video /\ EverStored(s[2])}
        IN  /\ Cardinality(kept) <= 1
            /\ player.pc = "done" /\ kept = {} => video \in player.unsent

(* A list read over several pages holds every row there was from its start  *)
(* to its end, once, newest first, up to where its limit cut it.            *)
PagesMissNothing ==
    listing.pc = "listed" =>
        LET rows == listing.rows
            ids == {rows[i].id : i \in DOMAIN rows}
        IN  /\ \A i, j \in DOMAIN rows : i < j => Newer(rows[i], rows[j])
            /\ \A id \in listing.before \cap DOMAIN Table :
                id \in ids \/ (listing.more /\ Len(rows) = listing.limit
                               /\ Newer(Last(rows), Row(Table, id)))

(* A play the person is told could not be recorded, and is told to record   *)
(* with `ypl plays add`, is not stored: listen.go:43, "a play the server    *)
(* was never told about".                                                   *)
UnsentIsNotStored ==
    player.pc = "done" =>
        \A video \in player.unsent : ~EverStored(player.pending[video])
=============================================================================
