# A formal model of ypl

ypl keeps a person's YouTube playlists on a server of their own. Clients edit
the order of a playlist on the server; the server reads the same playlists from
YouTube, where their owner may edit them too, merges the two and pushes the
result back, a write at a time, within YouTube's daily quota. The server also
reads the descriptions of videos to find tracklists, and keeps plays, ratings
and the watch history; a command line plays the playlists.

The TLA+ modules here model that server: what it stores, what its worker and its
handlers do, what YouTube and the process can do to it meanwhile, and what has
to hold all the same. TLC checks the properties on small instances, and TLAPS
proves the ones named under "What is proved" for every value of the constants.
`PROJECT.json` maps each definition to the lines it models. Paths below are
within `src/`.

## The system

### Components

| Component | State it keeps | Operations | Hard behaviours | What makes it correct |
|---|---|---|---|---|
| merge (`api/merge`) | none | `Merge`, `Plan`, `PlanAppends` | every combination of edits here, edits on YouTube, lost items and an unanswered insert | a three-way merge that loses, revives and doubles nothing; a plan YouTube accepts, that reaches the order in the fewest writes |
| sync of one playlist (`api/reconcile/reconcile.go`, `push.go`) | the run in memory; the playlist's row, entries, base, unanswered and refused write in the store | `mergePlaylist`, `confirmAbsences`, `mergeInto`, `push`, `write` | edits between any two steps; refused, lost and late answers; reads that lag or miss items; a stop between a write and its record | nothing is added twice or deleted for being unknown; the base is what YouTube holds; both sides converge |
| recency of writes (`api/store/store.go`, `youtube.ReadLag`) | the records of writes with their times | `BeginWrite`, `SettleWrite`, `ItemWritesSince` | a write that lands after its record's time; times cut to the second | a merged read shows every write the server made |
| passes (`api/reconcile/queue.go`, `worker.go`, the probe and the sweep of `reconcile.go`) | `Edits` and its signal, timers, a pass's queue, listing and reads | `Run`, `Tick`, `Pass`, `Edited`, `probe`, `deleteUnlisted`, `sync` | edits while a pass runs, quota refusals, playlists deleted while queued | edits are pushed at once, changes on YouTube reach the store, nothing starves, nothing deleted comes back |
| store (`api/store`) | SQLite: playlists, videos, entries, base, writes, runs, plays, ratings | `ReplaceOrder`, `ReplaceBase`, the records of writes, the sums of `standing.go` | what is read outside the transaction that writes | the revision is a sound ETag; the base and the entries agree |
| playlist order (`api/handlers/playlist_items.go`, `conditional.go`) | none of its own | GET and PUT of the items, with ETag and If-Match | two clients and the sync at once | no edit replaces an order its client did not see |
| playlist writes (`api/handlers/playlist_writes.go`) | the turn writes take, the draining flag | create, update, delete on YouTube, then in the store | the store fails after YouTube did it; a listing or a read older than the write | nothing deleted comes back, nothing is renamed back, the store comes to hold what YouTube does |
| plays, ratings (`api/handlers/plays.go`, `ratings.go`) | rows with the id the client chose, what is kept of deleted plays | add, delete, list by page | an answer lost and the request sent again; a reference that names another play by now; rows that come and go between pages | one row for one id, deleted for good; a handle names one play for good; a list misses nothing |
| history and session (`api/handlers/history.go`, `api/jarseal`, `api/ytdlp/history.go`) | the sealed cookie jar | store a session, read the history | the jar a read rotates against a session pasted meanwhile | the newest session survives |
| enrichment (`api/enrich`, `api/ytdlp`) | attempts, retry times, the tally, the pause | read videos one by one, pause on a refusal | the tally taken by a pass while it grows; restarts in a pause | a refusal pauses; no video is read more often than allowed |
| channel (`api/youtube`) | counts of requests and units | reads with pages, writes, retries, refusals | an aborted request sent again, the day that ends meanwhile | what a push is allowed leaves the day's reads their units |
| server process (`api/main.go`) | contexts of the worker and the server | start, drain, shut down | writes under way and waiting when the signal comes | it does not exit with a write begun and not settled |
| tracklists (`api/tracklist`) | none | read tracks from text, orient them | none but the text | what is read of each line |
| command line (`cli`) | the player, an edit's buffer, its login | play, listen, edit, rate, delete, list | answers lost while a playback goes on; a play deleted between being shown and confirmed | a listen is kept once or named to the person; a delete takes what was shown |

The listing of sync status, of videos and playlists, the wire format, the
generated queries and the one-off commands keep no state that a property could
be about.

### How they interact

The worker (one goroutine) makes passes, one at a time. A pass takes jobs from
its queue: the probe lists the channel's playlists and queues syncs; a sync
reads one playlist, merges it in one transaction and pushes it. Handlers run
beside it, one goroutine a request: a PUT of an order changes the entries and
the revision in one transaction and then calls `Edits.Edited`, which adds the
playlist to a list under a mutex and puts a signal in a channel of one. A delete
is made on YouTube first and in the store after. The two share nothing but the
store, `Edits` and enrichment's tally. YouTube is eventually consistent: within
`youtube.ReadLag` of a write a read may show what was there before. The process
may stop anywhere, and keeps only what the store holds.

## The modules

| Module | Models | Checked with |
|---|---|---|
| `Merge` | `api/merge` whole, as operators: the merge, the plans, the base a push tracks | `MergePush` |
| `YouTubePlaylist` | what YouTube does with a write (external) | `MergePush`, `PlaylistSync` |
| `MergePush` | one sync of every small input: edit here, edit there, merge, push | `MCMergePush.cfg` |
| `VersionedOrder` | abstract: an order, its revision, and who may change it from what | refined by `PlaylistSync` |
| `PlaylistSync` | one playlist's sync with clients, owner, YouTube, faults and restarts; extends `YouTubePlaylist` | `MCPlaylistSync*.cfg` |
| `ReadWindow` | why a read that is merged shows every write: the records' times, in ticks of real time | `MCReadWindow.cfg` |
| `Passes` | the worker, `Edits`, the queue, the probe, the sweep and retries over several playlists | `MCPasses*.cfg` |
| `PlaylistWrites` | a playlist's existence and details: the API's create, rename and delete against listings and reads | `MCPlaylistWrites.cfg` |
| `Library` | plays, ratings, their lists, and the command line that makes, deletes and lists them or plays videos | `MCLibrary*.cfg` |
| `Enrich` | enrichment's loop, its tally, and the passes that record refusals | `MCServer.cfg` |
| `HistorySession` | the watch history's session and its rotated jar | `MCServer.cfg` |
| `Quota` | what YouTube charges, what the server counts of it, and the room of a push | `MCServer.cfg` |
| `Shutdown` | how the process stops, with its writes under way | `MCServer.cfg` |
| `MCServer` | the sum of the four above: they share no state, so a behavior is one of any of them | `MCServer.cfg` |
| `MergePushProofs`, `PlaylistSyncProofs`, `ReadWindowProofs`, `PassesProofs`, `PlaylistWritesProofs`, `LibraryProofs` | theorems about the module each is named after | TLAPS |
| `ServerProofs` | theorems about `Enrich`, `HistorySession`, `Quota` and `Shutdown` | TLAPS |
| `MergeProofs` | theorems about the operators of `Merge`: what a merge keeps and in which order, and where a plan ends and in how many writes; and the lemmas about sequences and folds the others rest on | TLAPS |

A model that is run on several small worlds takes them from one constant,
`Scenarios` (`Inputs` in `MergePush`): a scenario says what there is at first and
how often each thing that needs no reason may happen. `left` is what is left of
it, and every guard that spends from it names what it spends.

### Merge, YouTubePlaylist and MergePush

`Merged` is `merge.Merge` from `Released` (entries whose item is gone from the
base and waits again) through `LandedInsert` (the insert whose answer was lost),
`Reordered` and `Weave` to the entries it returns; `Plan`, `PlanAppends` and
`Deletes` are the functions of `plan.go`, `LongestIncreasing` the patience
search with its ties. Entries, items and videos are numbers. `Applied` is what
`push.go` makes of the base after each answer. `MergePush` starts from a base,
lets an edit here and the owner there each become any order of its small
universe, merges, and makes the plan's writes on YouTube one at a time.

### PlaylistSync and VersionedOrder

The variables are the playlist as YouTube has it (with `older`, what a read
within the lag may still return), the store's row, entries and base, the memory
of the process (`edited`, `retry`, `worker`), what clients last received, and
history variables that only properties read. A sync goes through the phases
`confirm` (`ExistingItems` of what the read lacks), `merge` (one transaction),
`push` (between writes), `send` and `settle`. Each is an action or several, one
for each way the code leaves it: `TakeUpNotYet`, `ConfirmFails`, `MergeStops`,
`PushYields`, `SettleVideoRefused` and so on. The read, the record of a write,
its sending and its settlement are separate steps, so that edits, deletes, a
crash or the owner come between any two. `ReplaceItems` is the PUT of an order,
with If-Match or without.

`ImplementsVersionedOrder` is the refinement: `order` is the videos of the
entries. It says that the revision counts exactly the changes of the order and
that an edit at an ETag replaces what its client saw.

What it abstracts: `recent` stands for `ItemWritesSince` (ReadWindow has the
arithmetic); `PushYields` for `allows` finding no room or an edit of another
playlist waiting; a tick may take the playlist up at any time; the check of a
held push is made with the merge, in whose transaction its write id is read;
`RetryFires` needs no time to have passed.

### ReadWindow

Time goes in ticks, `Second` of them a second, and `Timestamp` cuts a time as
`store.Timestamp` does. A write takes its send time, is recorded, is sent, may
land until `YouTubeTimeout`, and is settled or left pending by a stop. A merge
needs `~ItemWritesSince(now)`. The assumption on the constants, `TrueLag +
RecordTimeout + YouTubeTimeout + Second - 1 <= ReadLag`, is the margin the
comment at `push.go:17-29` argues from, made exact: the times compared are cut to
the second, so the minute of `api/README.md:69-70` may lack a fraction of one.

### Passes

`reads` is the order of `ListPlaylistReads`, `plan` what `PendingPush.Writes`
counts, `held` the pushes a refusal of today holds, `spent` whether a pass drew
today's quota refusal; `has`, `unread`, `moved` and `recent` say what YouTube
has, what changed there since it was last merged, whose count differs from that
read's, and what was written within the lag. `pending`, `wake` and `signaling`
are `Edits`: `Edited` lists under the mutex in one step and signals in another.
`pass` is `run` with its queue. `Run`, `Tick`, `Woken` and `EnrichmentRefused`
begin passes, `NextJob` is the loop of `execute`, `List` and `QueueListed` the
probe, and `SyncRead`, `MergeStored`, `PushEnds` and the actions beside them the
ways through `sync`, `mergePlaylist` and `push`.

What it abstracts: a sync's items, which are PlaylistSync's; the quota, which is
whether there is room for an edit's write, for anybody's or for none (its sums
are in Quota); a write is one step; two reads stamped in the same second keep
their order; the store does not fail, so a pass ends early only by YouTube's
refusals, a failed listing and the missing row below. A listing may miss a
playlist YouTube has, and may still list one the API deleted until that delete
is older than the lag.

### PlaylistWrites

`youtube` is the playlist, `older` what a read may show instead, `row` the store's
row, and `lately` the method of the latest write settled within the lag, which is
all that `WriteNewerThanRead` and `CurrentDetails` ask of the writes on record. A
request goes from `Ask` through its turn, the read and the merge of its details
(a rename), to `SendApplied`, `SendAbsent`, `SendRefused` or `SendLost`, and is
settled with its change of the row in one transaction, or not at all
(`SettleFails`). `listing` is what a pass makes of the playlist meanwhile: listed
or not found, read to be sure, deleted or merged. A title or description is the
number of the change it came with, so a value that comes back shows.

### Library

A play is its id's row; ids are numbers in the order they were made, as version 7
UUIDs sort. `CreatePlay` is the handler with its four answers, `NextHandle` the
handle an insert gives, `Named` what a reference (an id, digits that may be a
handle or the tail of an id) resolves to, `DeletePlayNamed` the delete with the
row of `deleted_plays` it keeps. `player` is a playback: a video it counted as
heard is sent under an id made once (`IdSent`), sent again while the player runs
and once more when it ends, and reported as stored or unsent; `late` are requests
whose client gave up and which reach the server later or never. `asking` is a
person between being shown a play and answering. `listing` is a list collected
page by page (`PageOf` of the rows `NewestFirst`, `ReadsPage`), of plays or of
ratings, of every video or one. How the player's position becomes time heard is left out: a video is counted
at some point or not.

### Enrich, HistorySession, Quota and Shutdown

`Enrich`: the enricher steps, reads, and is answered; `Stored` and `HoldBackAt`
are the verdicts on a row, `Add` what the tally and its one-slot signal keep,
`PassBegins`, `PassOnRefusal`, `Take` and `Record` the worker's side, `Clear` the
command `reset-enrichment -clear`. Waits are what is left of them. Which
tracklist a description holds is one of the answers (`ReaderVideo`).

`HistorySession`: a jar is a session and how often YouTube rotated it; YouTube is
sure to honor only the newest. `Locked` is the handler's lock, held from before
the row is read until the jar is stored.

`Quota`: `charged` is what YouTube takes for each attempt on the Pacific day it is
made; `units`, `pending` and `readUnits` are what the store's sums find.
`uncounted` is for the property: the units no record will hold, which are those of
a pass or a settlement that could not be recorded, of the read before a rename,
and of requests made after midnight by what began before it. `Allows` is the
guard of a push.

`Shutdown`: a write is `record`, `send` and `settle`, each with its timeout, behind
one turn; a signal may come at any step; `Exit` is the grace over or every
request done, and then the worker's write done.

## The runs

| Run | Instance | What it shows |
|---|---|---|
| `merge_push` | a base of 3 items with one to add on either side; one of 2 with two to add there, which an unanswered insert may be confused with, and a lost item; one of 5 edited only here | the merge loses, revives and doubles nothing and keeps the orders; its push's plan is accepted, complete and shortest |
| `sync` | 2 items, 3 videos: one client's 2 edits, an owner's edit or sort and a fault; two clients' 2 edits and a fault | the properties of the sync in every interleaving, and the refinement of VersionedOrder |
| `sync_live` | reads that miss items and a delete by the API, with an edit, an owner's edit and a fault, or an edit and 2 faults; fairness | confirming absences is what keeps entries; only edits delete; both sides converge |
| `sync_missed_insert` | an edit, 2 faults and a read that misses items | violated: see below |
| `read_window` | the tightest constants the assumption allows, a second of two ticks | reads that are merged are whole; a put-off read is put off once |
| `passes` | 2 playlists, 1 edit, 1 fault, no tick needed | the queue, the signal and the sweep while an edit arrives; without the fault it is pushed by the pass it wakes |
| `passes_live` | 1 playlist, pushes of 2 writes, an edit, owner's edit, delete and fault each; 2 playlists, one owner's edit or delete, 1 fault; fairness | orders are pushed in the end, what the API deleted stays deleted, changes the probe cannot see are swept, gone playlists leave |
| `passes_no_row` | 2 playlists, 1 edit, 1 delete | violated: see below |
| `playlist_writes` | 2 clients, 2 writes, an owner's edit, a fault; fairness | nothing deleted comes back, no recorded write is taken back by an old listing or read, and the store comes to hold what YouTube does |
| `library` | two people deleting one of two plays by any reference while 2 are added or sent again and an answer is lost; a playback of two videos with 2 lost answers and a delete; lists by pages of one row of 3 plays or 3 ratings, of the same second or not, while one is added and one deleted | handles and deletes are for good, a delete takes what was shown, a listen is kept once, a list misses nothing |
| `unsent_is_not_stored` | a playback with 2 lost answers | violated: see below |
| `server` | 1 video, 3 attempts, 2 refusals, 2 faults and a clear; 2 readers, 2 sessions, 4 reads and a fault; 2 days of a quota of 9 with writes of 3, a read, an API write and a fault; 2 requests and a push with every timeout at its limit | refusals are recorded and rest, reading ends; the jar is kept; pushes leave the reads their units; the server stops with no write cut off |

The properties of each run, each stated in words above its definition:

| Run | Properties |
|---|---|
| `merge_push` (pass) | `NothingLostOrRevived`, `OrdersKept`, `PushReachesOrder`, `FewestWrites`, `Settled` |
| `sync` (pass) | `TypeOK`, `EntriesHoldBaseItems`, `NoDoubleAdd`, `BaseIsYouTube`, `SeenIsCurrent`, `WriteOnRecord`, `OrderOnlyFromOwner`, `ImplementsVersionedOrder` |
| `sync_live` (pass) | `DeletesOnlyEdits`, `MergeDropsOnlyGone`, `Converges` |
| `sync_missed_insert` (violation) | `NoDoubleAdd` |
| `read_window` (pass) | `TypeOK`, `ReadShowsWrites`, `RetryIsInTime` |
| `passes` (pass) | `NoLostWake`, `QueueInOrder`, `SweptOnce`, `EditsArePushed` |
| `passes_live` (pass) | `DeletedStaysDeleted`, `OrdersArePushed`, `ChangesArrive`, `GoneLeaves` |
| `passes_no_row` (violation) | `MergeKeepsThePass` |
| `playlist_writes` (pass) | `DeletedForGood`, `StoreHoldsWrites`, `StoreFollowsYouTube` |
| `library` (pass) | `PlayNamesForGood`, `DeletesWhatWasShown`, `ListensKeptOnce`, `PagesMissNothing` |
| `unsent_is_not_stored` (violation) | `UnsentIsNotStored` |
| `server` (pass) | `RefusalsRest`, `JarKept`, `CleanStop`, `RefusalsRecorded`, `ReadingEnds`, `PushLeavesReads` |

### Why the bounds are enough

Three items with one addition is the least with a key only one side has between
two that are ordered both ways, so that a cursor can go back; five items have
every shape of increasing run, with ties of length. In `PlaylistSync` the
properties are about one entry and one write against one edit, and the second
edit is the one that comes between a write and its answer; the fault is
whichever of the lost answer, refusal, failure and crash the run picks, at any
step. Two playlists are the least with which one can be in the way of another;
a playlist's own push is checked alone with more going on. In `PlaylistWrites`
two writes are the one that is taken back and the one that takes it, and the
listing, the owner and the fault come between any two steps of either. In
`Library` two people are the one who was shown a play and the one who makes its
reference name another; a page of one row makes every row a cursor. One video is
enough for `Enrich`, whose videos share only the pause, and three attempts pass
through the doubled wait and its last step. Two readers and two sessions are what
a rotation and another session's storage need to cross. Two days of a quota of
three writes let a write, a pass and a failure straddle midnight with the room
used up. Two requests are one with the turn and one behind it, which may begin as
the signal comes.

Every counter that would grow has a bound named in a constant or in the scenario
(`edits`, `owner`, `deletes`, `faults`, `plan`, `MaxNow`, `MaxWrites`,
`MaxReads`, `MaxRefusals` and the like), tested in guards. No step is fair
because of its bound: nothing that spends from one is assumed to happen.

### Fairness, and why the code has it

`PlaylistSync`: the worker leaves every phase, since each step returns within a
timeout, and an idle worker takes the playlist up, since ticks come and every
tick queues unfinished pushes (`worker.go:41-43`, `reconcile.go:185-190`); the lag
and the day pass. Nothing makes anybody edit, fail or retry.

`Passes`: the same of every phase; a call of `Edited` returns and a timer fires;
a woken, idle worker begins a pass; the day's room returns with the reset,
which takes a library whose reads leave room. `FairSpec` adds strong fairness
of `Tick`: Go's `select` picks among the ready channels at random, so a tick
that is ready again and again is taken, though enrichment's refusals and edits
may be ready with it. `WokenSpec` leaves that out.

`PlaylistWrites`: the worker lists again and goes on with what it listed, a
request goes on step by step (every step has a timeout), and the lag passes.
Nobody has to ask, fail or change YouTube.

`Enrich`: the enricher and a pass go on, time passes, and yt-dlp answers a read
with something but a refusal if it is asked for ever. No tick and no edit is
assumed, so `RefusalsRecorded` rests on the tally's signal alone.

### Where the program departs from what it says

- `sync_missed_insert`: `mergeInto` forgets the unanswered write after one read
  (`reconcile.go:743`). A read of several pages that misses the item of an insert
  whose answer was lost is merged as if the insert never landed, and the video is
  added again. Items of the base are confirmed by id before they count as gone;
  that item has no known id.
- `passes_no_row`: a playlist that no listing of the pass reports, which the API
  deletes between its read and its merge, ends the whole pass
  (`reconcile.go:711-714`), where a deletion a moment earlier or later is passed
  over. An edit of another playlist queued behind it has no wake left and waits for
  the next tick, so `EditsArePushed` makes an exception of it.
- `unsent_is_not_stored`: a play reported as one "the server was never told about"
  (`listen.go:45`) may be stored, if its last attempt timed out and landed. The
  command the person is given records the listen a second time, under another id.

Two properties except what the code says it gives up. `RefusalsRest` exempts a
refusal that a restart or a row that could not be written lost before it was
recorded. `PushLeavesReads` allows for `uncounted` and for the attempts of writes
still under way, which count as one request until they settle.

## What is proved

Each theorem is for every value of the constants that meets the module's
assumption.

- `PlaylistSyncProofs`. `ETagsAreSound` and `WritesStayOnRecord`: the two
  invariants, from the inductive invariant `IInv`. An ETag's soundness needs that
  no client's revision is ahead of the store's (`SeenOK`); that a write stays on
  record needs what the worker's phase says of the store (`WorkerOK`), since a
  merge that cleared the record of a write being sent would break it, and only
  the worker merges. `SyncImplementsVersionedOrder`: each step maps to a step of
  `VersionedOrder` or to none, sorted by what the step does to the order
  (`StepKinds`). None of these three turns on what `Merged` and `PlanFor` return;
  the next four do.
- `PlaylistSyncProofs`, with what a merge and a plan compute. `SyncIsTyped`,
  `EntriesHoldTheBase`, `PushDeletesOnlyEdits` and `MergesDropOnlyGone` come from
  one induction, `SyncInv`, since none of them is inductive and each part needs
  others:
  - `ContentsOK`, `StoreOK`, `WorkOK`: no two items, of YouTube, of an older read or
    of the base, and no two entries share an id or have one not yet given, and
    entries hold only the base's items;
  - `PushOK`: while a push goes on, whatever is edited meanwhile, its base is the
    store's, the writes left fit it (`Fits`: each finds its item there, and its place
    within bounds, after those before it), and each is still asked for: an edit only
    adds entries, or lets go of items, that no write left is for;
  - `AnswerOK`, `UnansweredOK`: an item an answer names is new to the base, and the
    entry it was made for waits for it or was removed by an edit;
  - `ExcusesOK`: an item of the base that no entry holds was let go of by an edit
    here, and so was each one that is to be deleted: `PushDeletesOnlyEdits` is this
    at the moment of sending. A merge keeps it because it takes every item of its
    read that is not in the base, and only those of the base not in its read leave;
  - `ConfirmedOK`: outside a write's lag a read shows what YouTube has, and an item
    two reads missed is gone: `MergesDropOnlyGone` is this at the merge.
- `PlaylistSyncProofs`, where no read misses an item (`WholeReads`: no scenario has a
  miss). The run `sync_missed_insert` shows a missed item leading to a
  second add, so this hypothesis is the code's own limit, met by `MCPlaylistSync`.
  - `NothingAddedTwice`, from `AddInv`. `NoDoubleAdd` says nothing of the adds yet to
    come, so the induction follows an item from when it is made until it is stored: its
    entry waits as the unanswered insert's (`MadeAwaited`), no write left in a push adds
    for it again (`MadeOnce`), an ordinary push starts with nothing unanswered
    (`AllAnswered`), the item is there for the next merge to take (`MadeIsKnown`), and
    the read that is merged shows it (`MadeIsRead`).
  - `BaseMatchesYouTube`, from `BaseInv`: the base agrees with YouTube while no write
    that may have landed waits to be settled (`BaseAgrees`), what a settlement will
    store agrees with what landed (`LandedAgrees`), an item is not found absent that
    nobody removed (`NotAbsent`), and a read nothing changed since is YouTube's list
    (`ReadAgrees`). `LandedIsApplied` is the step: `Applied` does to the base what
    `Performed` does to YouTube.
- `PlaylistSyncProofs`, whatever a read misses: `OrderTakenOnlyAfterMoves`, from
  `OrderInv`. Until the owner moves something, the base has the items YouTube placed
  in the order of every content a read may yet show (`BaseInOrder`): not the items a
  write placed, which `Applied` marks, nor, once its write may have landed, the one an
  unanswered move names (`MayHaveLanded`). A read to be merged is in that order too
  (`ReadInOrder`) and in the base's (`BaseAsRead`), so `Reordered` is false of them
  (`OnlySame`). `MergedOrders` says that such a merge turns no two entries: it weaves
  into the server's order, which `WeaveOrders` shows to stay as it was.
- `MergePushProofs`, of one sync from any edits on both sides, with any number of
  items: every property of the run `merge_push`. `MergePushAssumption` asks of an
  input only that the ids it names are among its `ids`.
  - `PushIsGiven` proves the inductive invariant `IInv`: what each phase is given by
    the one before it, and, during a push, `Pushing`. A plan names a waiting entry's
    item before there is one, so the push is followed on *keys*: an item's id, or
    minus the place of the entry that awaits one (`Key`, `KeysOf`). `Reaches` says
    that the writes left take the keys the playlist now stands for to the keys of the
    order, and `StandFor` which items those keys have become: each item a push makes has a
    number that no item before it had and none after it gets.
  - `PushReaches` follows from `IInv` step by step: where a write is possible on keys
    YouTube takes it on items, and `Applied` does to the base what it does there.
    `PushIsShortest` is `PlanIsFewest` at the merge.
  - `MergesLoseNothing` and `MergesKeepOrders` read the merge off the keys it weaves
    (`MergedFromKeys`): the items held are the keys above 0, in their order
    (`ItemsByKeys`), and an entry is in the result when its key is wanted
    (`IdsByKeys`), so what `WeaveInOrder` says of keys holds of entries and of items.
    The number of additions is exact: an unanswered append takes one at the most
    (`MistakenOnce`).
  - `PushesSettle`: a merge whose read is its base weaves the keys it was given
    (`MergeOfSame`), and a plan of an order its read already has is empty
    (`PlanOfReached`, from `PlanIsFewest`: all of it is in order, so nothing moves).
- `MergeProofs`, which those rest on, for a base, a read and an order of any length.
  - `MergedKeeps`: a merge leaves entries distinct, holding only items of the read;
    an entry leaves only with an item of the base the read lacks; and an item of the
    read that no entry takes is one of the base no entry held, or the one an edit here
    forsook while its insert was unanswered. `PlanForKeeps`: the writes of a plan are
    each possible on what the ones before leave, with one add for each waiting entry
    and one delete for each item no entry holds.
  - `WeaveInOrder`: a weave keeps its primary's order (`WeaveOrders`), sets what only
    the secondary has after all it followed there (`WeaveFollows`: the cursor never
    goes back) and keeps the secondary's order too where the two agree
    (`WeaveAgrees`). `MergedByKeys` says the merge is such a weave.
  - `LongestIsLongest`: no set of ids in the playlist's order is larger than the one
    `LongestIncreasing` answers. The induction is over the ids taken so far, each with
    the rank at which it became a tail (`Ranked`): each id after the first rank comes
    after one of the rank before, which makes a run of `n` of them, and of two ids in
    order the later has the higher rank, so no run is longer than `n` (`LongestIs`).
  - `PlanForReaches`: the plan's writes, run on keys, end at the server's order. After
    the deletes, each write of `PlanSteps` puts one key where it belongs among those
    that stay and those already placed. `PlanIsFewest` counts them.
  - These are inductions along a fold (`WovenKeeps`, `PlanStepsKeep`). A fold of the
    library is defined by a choice, and `FoldExists` shows there is something to
    choose, so that a fold keeps what its step keeps; what a list has of a set
    (`Only`), a recursive function, is shown to exist too (`OnlyExists`). The
    induction is by the least element of a set of numbers (`Induct`), since the
    provers cannot instantiate the induction theorems of the library; nor do they
    know `SelectSeq`, which the models that are proved about do without (`Only`,
    `RemoveFirst`).
- `ReadWindowProofs`. `TypesHold`, `MergeReadsAreWhole` and `PutOffOnce`, from an
  invariant that bounds how far behind a request or a landed write its record's
  time can be (`Covered`, within `Margin`), and lemmas about the arithmetic of
  `Timestamp`.
- `PassesProofs`. `EditsAreSignaled` (`NoLostWake`) is not inductive: a pass may
  end at any job, with edits still listed. `Signaled` says that these have their
  own signal under way, except just before `NextJob`, which takes the list.
  `DeletedPlaylistsStayDeleted` holds by induction as it stands: every way into
  the store asks `WriteNewerThanRead`, or finds the row there in the transaction.
  `QueuesStayInOrder` and `SweepsReadOnce` are one induction (`PassInv`): the
  queue is sorted, has one sync of a playlist at the most and no sweep of what the
  pass has read (`QueueKept`), and the sync under way was taken from it, so none of
  its playlist is left there (`TakenFromQueue`); `InsertOrdered`, `AddOrdered` and
  `AddAllOrdered` carry the order through one insertion, one job that may move one
  already queued ahead, and the fold over a whole list of them. These need the set
  of playlists finite, as a channel's are: the fold is over a sequence made of it.
- `PlaylistWritesProofs`. `DeletedPlaylistIsNotStored`: `StaysDeleted` says that
  once a delete is settled, whatever still shows the playlist (YouTube's older
  answers, a listing, a read, a rename that waits) is known to be older than a
  write on record; it needs that writes take turns (`OneTurn`), that a create is
  the first of all and that a delete sends and stores nothing live.
  `RecordedWritesAreStored` rests on it: between two settlements the row is
  YouTube's, and during one (`TurnFollows`) it is what YouTube was before the
  write in its turn; an older listing is refused because the record that refuses
  it is newer than every answer it may hold (`SinceSettled`, `MadeUnsettled`).
- `LibraryProofs`. `HandlesNamePlaysForGood`: a new handle is past every one taken
  because those taken, the deleted plays' with them, are `1..n` (`HandlesAreCounted`),
  and each pair of a handle and an id ever given is kept in one of two tables
  (`NamedIsKept`). `DeletesTakeWhatWasShown`: an id resolves to its play or none.
  `ListensAreKeptOnce`: a video's sends all carry the one id made when it was
  counted, and a listen no longer queued or in flight is stored, late, deleted by
  hand or named (`ListensFollowed`).
  `ListsMissNothing`: rows have one order, by their time and then their id
  (`NewerOrders`), the finitely many there are can be listed in it
  (`NewestFirstLists`), and a page is the first of what follows the last row read
  (`PageKeeps`). A stored row never changes and a deleted one does not return
  (`RowsStay`), so what has been there since the start and is unread still follows
  what is read (`ListRead`), and the read ends only when nothing follows or its
  limit is reached.
- `ServerProofs`. `JarsAreKept`: one request at most holds the lock, and what it
  holds is of the session in the row, unless the owner is storing another
  (`HoldsItsJar`). `ServerStopsCleanly`: a write under way while the server drains
  began before the signal, so the drain is no longer than the write
  (`BegunBeforeTheSignal`), and each step ends in its time (`StepsInTime`); the
  grace is longer than the sum. `EnrichmentRests`: the enricher sleeps at least
  what is left of the pause (`HeldOff`), and across a restart what it must wait is
  in the row, in the pass that is to record it, or in the tally that passes it on
  (`ToldOnly`, `TookSome`). `PushesLeaveReads`: each day, `charged` is at most what
  the records hold with the pass's reads, what is uncounted, and how far each write
  under way is ahead of the one request it is counted as (`UnitsCovered`); a write
  recorded and not yet sent is behind it.

Every safety invariant of the passing runs is thus a theorem. Only model-checked are
the liveness properties: `Converges`, `EditsArePushed`, `OrdersArePushed`,
`ChangesArrive`, `GoneLeaves`, `StoreFollowsYouTube`, `RefusalsRecorded` and
`ReadingEnds` rest on fairness, which this prover does not reach.
